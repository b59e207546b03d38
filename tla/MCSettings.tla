----------------------------- MODULE MCSettings -----------------------------
(***************************************************************************)
(* Model-checking instance of Settings: two values per field (a default    *)
(* and a non-default, multi-byte where the field is wider than a byte),    *)
(* proposals carrying up to two fields, two applied proposals, one-byte    *)
(* leader ids, and raw inputs that are out of order, repeated, truncated,  *)
(* non-canonical, or carry an unknown tag or consensus version.            *)
(***************************************************************************)
EXTENDS Settings

MCValues ==
  [max_number_of_transactions_per_block |-> {100, 258},
   bootstrap_key_slots_percentage |-> {0, 100},
   consensus_version |-> {"Bft", "GenesisPraos"},
   bft_leaders |-> {<<>>, <<<<7>>, <<0>>>>},
   allow_account_creation |-> BOOLEAN,
   linear_fees |-> {[constant |-> 0, coefficient |-> 0, certificate |-> 0],
                    [constant |-> 1, coefficient |-> 2, certificate |-> 3]},
   slot_duration |-> {10, 255},
   epoch_stability_depth |-> {10, 65537}]

\* The same values, but the one leader list has 256 one-byte leader ids: its
\* count, leaders.len() as u8, is written as 0.
MCValuesManyLeaders ==
  [MCValues EXCEPT !["bft_leaders"] = {[i \in 1..256 |-> <<0>>]}]

End == PutU(EndTag, 2)

MCRawWires ==
  { EncodeRecord("slot_duration", 7) \o EncodeRecord("bootstrap_key_slots_percentage", 0) \o End,
    EncodeRecord("slot_duration", 7) \o EncodeRecord("slot_duration", 255) \o End,
    PutU(Tag("allow_account_creation"), 2) \o <<2>> \o End,
    PutU(Tag("consensus_version"), 2) \o PutU(3, 2) \o End,
    PutU(9, 2) \o End,
    PutU(Tag("bft_leaders"), 2) \o <<2, 7>>,
    PutU(Tag("max_number_of_transactions_per_block"), 2) \o <<0, 0>>,
    <<0>> }

=============================================================================
