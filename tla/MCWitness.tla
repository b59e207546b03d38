----------------------------- MODULE MCWitness -----------------------------
(***************************************************************************)
(* Model-checking instance of Witness: two keys, two transactions, three   *)
(* rounds, and received bytes holding an OldUtxo witness, an Account       *)
(* witness, a Utxo witness with no signature, and an unknown tag.          *)
(***************************************************************************)
EXTENDS Witness

CONSTANTS k1, k2, t1, t2

MCRawWires ==
  { <<ByteItem(WITNESS_TAG_OLDUTXO), PubItem(PublicOf(k1)), SigItem(Sign(k1, t1))>>,
    <<ByteItem(WITNESS_TAG_ACCOUNT), SigItem(Sign(k1, t1))>>,
    <<ByteItem(WITNESS_TAG_UTXO)>>,
    <<ByteItem(3), SigItem(Sign(k2, t2))>> }

=============================================================================
