------------------------------ MODULE Witness ------------------------------
(***************************************************************************)
(* Transaction witnesses of chain-impl-mockchain                           *)
(* (src/transaction/witness.rs).                                           *)
(*                                                                         *)
(* A witness is a one-byte tag and a body: OldUtxo (tag 0: public key and  *)
(* signature), Utxo (tag 1: signature of the transaction id), Account      *)
(* (tag 2: signature of the tag, the transaction id and the spending       *)
(* counter).  The model runs rounds of: a signer builds a witness (or raw  *)
(* bytes arrive), the bytes are read back with Witness::read, and a        *)
(* verifier calls verify_utxo with some public key and transaction id.     *)
(*                                                                         *)
(* Keys, transaction ids and counters are model values; a public key or a  *)
(* signature is one wire item of its scheme's fixed width.  Signatures are *)
(* ideal: verify accepts exactly the signer's key and the signed message.  *)
(***************************************************************************)
EXTENDS Integers, Sequences

CONSTANTS
  Keys,        \* secret keys; a key's public key is written PublicOf(k)
  TxIds,       \* transaction ids
  Counters,    \* account spending counters
  RawWires,    \* received byte strings no constructor of this file builds
  MaxRounds    \* witnesses built or received in a behaviour

CONSTANT None  \* model value: no key, no transaction

ASSUME MaxRounds \in Nat

WITNESS_TAG_OLDUTXO == 0
WITNESS_TAG_UTXO == 1
WITNESS_TAG_ACCOUNT == 2

PublicOf(k) == [pub |-> k]

\* SecretKey::generate / Signature::generate and verify, ideal.
Sign(k, msg) == [by |-> k, msg |-> msg]
Verify(pk, msg, sig) == pk = PublicOf(sig.by) /\ sig.msg = msg

\* Wire items: one byte, or a whole public key or signature.
ByteItem(b) == [byte |-> b]
PubItem(pk) == [key |-> pk]
SigItem(s) == [sig |-> s]
NoKey == PubItem(None)

\* A witness value: its variant, the OldUtxo public key item (NoKey for
\* the other variants) and its signature item.
W(kind, xpub, sig) == [kind |-> kind, xpub |-> xpub, sig |-> sig]

NoWitness == W("None", NoKey, SigItem(Sign(None, None)))

\* Faulty variant: the Utxo arm writes the Account tag.
SerializeUtxoAsAccount(w) ==
  IF w.kind = "OldUtxo" THEN <<ByteItem(WITNESS_TAG_OLDUTXO), w.xpub, w.sig>>
  ELSE <<ByteItem(WITNESS_TAG_ACCOUNT), w.sig>>

\* Witness::serialize: the tag byte, then the OldUtxo public key, then the
\* signature.
Serialize(w) ==
  CASE w.kind = "OldUtxo" -> <<ByteItem(WITNESS_TAG_OLDUTXO), w.xpub, w.sig>>
    [] w.kind = "Utxo" -> <<ByteItem(WITNESS_TAG_UTXO), w.sig>>
    [] w.kind = "Account" -> <<ByteItem(WITNESS_TAG_ACCOUNT), w.sig>>

NotEnough == [err |-> "NotEnough"]
UnknownTag == [err |-> "UnknownTag"]

\* Faulty variant: the OldUtxo body read signature first.
ReadOldUtxoSwapped(bytes) ==
  IF Len(bytes) >= 3 THEN W("OldUtxo", bytes[3], bytes[2]) ELSE NotEnough

\* deserialize_public_key, then deserialize_signature.
ReadOldUtxo(bytes) ==
  IF Len(bytes) >= 3 THEN W("OldUtxo", bytes[2], bytes[3]) ELSE NotEnough

\* deserialize_signature, wrapped in the variant.
ReadSig(kind, bytes) ==
  IF Len(bytes) >= 2 THEN W(kind, NoKey, bytes[2]) ELSE NotEnough

\* Witness::read: get_u8 for the tag, then the variant's body; an unknown
\* tag is ReadError::UnknownTag, a short buffer ReadError::NotEnough.
Read(bytes) ==
  IF bytes = <<>> THEN NotEnough
  ELSE CASE bytes[1].byte = WITNESS_TAG_OLDUTXO -> ReadOldUtxo(bytes)
         [] bytes[1].byte = WITNESS_TAG_UTXO -> ReadSig("Utxo", bytes)
         [] bytes[1].byte = WITNESS_TAG_ACCOUNT -> ReadSig("Account", bytes)
         [] OTHER -> UnknownTag

-----------------------------------------------------------------------------
VARIABLES
  wire,      \* the bytes of the witness in flight
  made,      \* how the witness was built: [kind, key, tx]; Raw if received
  witness,   \* the witness Witness::read returned (meaningful in "read")
  verdicts,  \* the verify_utxo results: [w, pk, tx, result]
  rounds,    \* witnesses built or received so far
  phase,     \* "idle", "sent", "read", "panicked"
  panicSite  \* where the thread panicked, or None

Raw == [kind |-> "Raw", key |-> None, tx |-> None]

vars == <<wire, made, witness, verdicts, rounds, phase, panicSite>>

Init ==
  /\ wire = <<>>
  /\ made = Raw
  /\ witness = NoWitness
  /\ verdicts = {}
  /\ rounds = 0
  /\ phase = "idle"
  /\ panicSite = None

StartRound ==
  /\ phase = "idle"
  /\ rounds < MaxRounds
  /\ rounds' = rounds + 1

\* Witness::new_utxo(tx, sk), serialized.
NewUtxo ==
  /\ StartRound
  /\ \E k \in Keys, tx \in TxIds :
       /\ wire' = Serialize(W("Utxo", NoKey, SigItem(Sign(k, tx))))
       /\ made' = [kind |-> "Utxo", key |-> k, tx |-> tx]
  /\ phase' = "sent"
  /\ UNCHANGED <<witness, verdicts, panicSite>>

(***************************************************************************)
(* Witness::new_account(tx, counter, sk) builds the signed message with    *)
(* TransactionIdSpendingCounter::new, which writes v[0] into an empty Vec: *)
(* an index out of bounds, so whatever the key, transaction id and counter, *)
(* the thread panics before anything is signed.                            *)
(***************************************************************************)
NewAccount ==
  /\ StartRound
  /\ phase' = "panicked"
  /\ panicSite' = "TransactionIdSpendingCounter::new"
  /\ UNCHANGED <<wire, made, witness, verdicts>>

\* Bytes built elsewhere (an OldUtxo witness, a corrupt or short one).
ReceiveRaw ==
  /\ StartRound
  /\ \E w \in RawWires : wire' = w
  /\ made' = Raw
  /\ phase' = "sent"
  /\ UNCHANGED <<witness, verdicts, panicSite>>

\* Witness::read on the bytes; an error ends the round.
ReadWitness ==
  /\ phase = "sent"
  /\ LET r == Read(wire) IN
     IF "err" \in DOMAIN r
       THEN /\ phase' = "idle" /\ witness' = witness
       ELSE /\ witness' = r /\ phase' = "read"
  /\ UNCHANGED <<wire, made, verdicts, rounds, panicSite>>

(***************************************************************************)
(* verify_utxo(pk, tx): OldUtxo is unimplemented!() (a panic), Utxo checks *)
(* the signature over the transaction id, Account is Failed.               *)
(***************************************************************************)
Verdict(result, pk, tx) ==
  [w |-> witness, made |-> made, pk |-> pk, tx |-> tx, result |-> result]

VerifyUtxo ==
  /\ phase = "read"
  /\ \E k \in Keys, tx \in TxIds :
       LET pk == PublicOf(k) IN
       \/ /\ witness.kind = "OldUtxo"
          /\ phase' = "panicked"
          /\ panicSite' = "verify_utxo"
          /\ UNCHANGED verdicts
       \/ /\ witness.kind = "Utxo"
          /\ verdicts' = verdicts \cup
               {Verdict(IF Verify(pk, tx, witness.sig.sig) THEN "Success"
                        ELSE "Failed", pk, tx)}
          /\ phase' = "idle"
          /\ UNCHANGED panicSite
       \/ /\ witness.kind = "Account"
          /\ verdicts' = verdicts \cup {Verdict("Failed", pk, tx)}
          /\ phase' = "idle"
          /\ UNCHANGED panicSite
  /\ UNCHANGED <<wire, made, witness, rounds>>

\* The thread panicked, or every round of the behaviour was played.
Done ==
  /\ phase = "panicked" \/ (phase = "idle" /\ rounds = MaxRounds)
  /\ UNCHANGED vars

Next ==
  \/ NewUtxo \/ NewAccount \/ ReceiveRaw \/ ReadWitness \/ VerifyUtxo \/ Done

Spec == Init /\ [][Next]_vars

-----------------------------------------------------------------------------
(* Properties *)

WitnessType ==
  [kind : {"OldUtxo", "Utxo", "Account", "None"},
   xpub : {PubItem(PublicOf(k)) : k \in Keys} \cup {NoKey},
   sig : {SigItem(Sign(k, m)) : k \in Keys \cup {None}, m \in TxIds \cup {None}}]

MadeType ==
  [kind : {"Utxo"}, key : Keys, tx : TxIds] \cup {Raw}

TypeOK ==
  /\ witness \in WitnessType
  /\ made \in MadeType
  /\ verdicts \subseteq [w : WitnessType, made : MadeType,
                         pk : {PublicOf(k) : k \in Keys}, tx : TxIds,
                         result : {"Success", "Failed"}]
  /\ rounds \in 0..MaxRounds
  /\ phase \in {"idle", "sent", "read", "panicked"}

(***************************************************************************)
(* A witness verifies its own transaction and nothing else (spec 8.4, the  *)
(* prop_witness_verifies_own_tx test, and its converse): a Utxo witness    *)
(* built by new_utxo with key k for transaction tx, serialized and read    *)
(* back, is Success under verify_utxo exactly for k's public key and tx.   *)
(***************************************************************************)
WitnessVerifiesOwnTx ==
  \A v \in verdicts :
    v.made.kind = "Utxo" =>
      ((v.result = "Success") <=> (v.pk = PublicOf(v.made.key) /\ v.tx = v.made.tx))

(***************************************************************************)
(* Verifying an OldUtxo witness is an error, not a panic (spec 4.5: it     *)
(* MUST be surfaced as an error).  verify_utxo calls unimplemented!(), so  *)
(* this is expected to be violated.                                        *)
(***************************************************************************)
NoPanicInVerifyUtxo == panicSite # "verify_utxo"

=============================================================================
