------------------------------ MODULE Settings ------------------------------
(***************************************************************************)
(* Protocol parameters of chain-impl-mockchain (src/setting.rs).           *)
(*                                                                         *)
(* An UpdateProposal has eight optional fields.  It is serialized as one   *)
(* (u16 tag, payload) record per present field in tag order, then the End  *)
(* tag 0; UpdateProposal::read loops over records in any order, the last   *)
(* record of a tag winning, until End.  Settings::apply copies the current *)
(* Settings and overwrites the fields the proposal carries.                *)
(*                                                                         *)
(* The model drives that pipeline the way a ledger would: a proposal (or a *)
(* raw byte string from the network) is put on the wire, read record by    *)
(* record from a ReadBuf, and the decoded proposal is applied.  Bytes are  *)
(* modelled exactly; a BFT leader id is a byte string of LeaderIdLen bytes *)
(* (32 in the code).                                                       *)
(***************************************************************************)
EXTENDS Integers, Sequences, SequencesExt, Packer

CONSTANTS
  Values,        \* Values[f]: the values field f takes in proposals
  LeaderIdLen,   \* bytes of a serialized bft::LeaderId
  FieldLimit,    \* at most this many fields are set in a proposal
  MaxUpdates,    \* number of proposals applied in a behaviour
  RawWires,      \* byte strings received that no proposal serializes to
  Malformed      \* model value: the wire is one of RawWires

None == <<>>
Some(v) == <<v>>

\* The fields of UpdateProposal and Settings, in tag order (enum UpdateTag).
Fields == <<"max_number_of_transactions_per_block",
            "bootstrap_key_slots_percentage", "consensus_version",
            "bft_leaders", "allow_account_creation", "linear_fees",
            "slot_duration", "epoch_stability_depth">>
FieldSet == Range(Fields)
Tag(f) == CHOOSE i \in DOMAIN Fields : Fields[i] = f
EndTag == 0

\* enum ConsensusVersion and its u16 codes.
ConsensusCode == [Bft |-> 1, GenesisPraos |-> 2]

ASSUME DOMAIN Values = FieldSet
ASSUME MaxUpdates \in Nat /\ FieldLimit \in 0..8 /\ LeaderIdLen \in Nat \ {0}

\* UpdateProposal::new: every field absent.
NewProposal == [f \in FieldSet |-> None]

\* Settings::new.
DefaultSettings ==
  [max_number_of_transactions_per_block |-> 100,
   bootstrap_key_slots_percentage |-> 100,
   consensus_version |-> "Bft",
   bft_leaders |-> <<>>,
   allow_account_creation |-> FALSE,
   linear_fees |-> [constant |-> 0, coefficient |-> 0, certificate |-> 0],
   slot_duration |-> 10,
   epoch_stability_depth |-> 10]

\* The values a proposal can carry for field f.
Options(f) == {None} \cup {Some(v) : v \in Values[f]}

\* The proposals the model sends: at most FieldLimit fields present.
Proposals ==
  {p \in [max_number_of_transactions_per_block :
            Options("max_number_of_transactions_per_block"),
          bootstrap_key_slots_percentage :
            Options("bootstrap_key_slots_percentage"),
          consensus_version : Options("consensus_version"),
          bft_leaders : Options("bft_leaders"),
          allow_account_creation : Options("allow_account_creation"),
          linear_fees : Options("linear_fees"),
          slot_duration : Options("slot_duration"),
          epoch_stability_depth : Options("epoch_stability_depth")] :
     Cardinality({f \in FieldSet : p[f] # None}) <= FieldLimit}

-----------------------------------------------------------------------------
(***************************************************************************)
(* Serialization.                                                          *)
(***************************************************************************)

\* Faulty variant: the LinearFee words written coefficient first.
EncodeLinearFeeSwapped(v) ==
  PutU(v.coefficient, 8) \o PutU(v.constant, 8) \o PutU(v.certificate, 8)

\* The three u64 words of a LinearFee.
EncodeLinearFee(v) ==
  PutU(v.constant, 8) \o PutU(v.coefficient, 8) \o PutU(v.certificate, 8)

\* The leader ids one after the other (each LeaderId::serialize writes its
\* LeaderIdLen bytes).
LeaderBytes(v) ==
  [i \in 1..Len(v) * LeaderIdLen |->
     v[(i - 1) \div LeaderIdLen + 1][((i - 1) % LeaderIdLen) + 1]]

\* The payload written for field f holding v (the leader count is cast to
\* u8 by PutU).
EncodePayload(f, v) ==
  CASE f = "max_number_of_transactions_per_block" -> PutU(v, 4)
    [] f = "bootstrap_key_slots_percentage" -> PutU(v, 1)
    [] f = "consensus_version" -> PutU(ConsensusCode[v], 2)
    [] f = "bft_leaders" -> PutU(Len(v), 1) \o LeaderBytes(v)
    [] f = "allow_account_creation" -> PutU(IF v THEN 1 ELSE 0, 1)
    [] f = "linear_fees" -> EncodeLinearFee(v)
    [] f = "slot_duration" -> PutU(v, 1)
    [] f = "epoch_stability_depth" -> PutU(v, 4)

\* The record for one present field: its u16 tag, then its payload.
EncodeRecord(f, v) == PutU(Tag(f), 2) \o EncodePayload(f, v)

\* UpdateProposal::serialize: the present fields in tag order, then End.
Serialize(p) ==
  FlattenSeq([i \in DOMAIN Fields |->
                IF p[Fields[i]] = None THEN <<>>
                ELSE EncodeRecord(Fields[i], p[Fields[i]][1])])
  \o PutU(EndTag, 2)

-----------------------------------------------------------------------------
(***************************************************************************)
(* Reading one field's payload at cursor cur (just after the tag): the     *)
(* number of bytes it takes, given that they are there, and its value.     *)
(***************************************************************************)

\* Faulty variant: slot_duration read as a u16.
FixedWidthSlotU16 ==
  [max_number_of_transactions_per_block |-> 4,
   bootstrap_key_slots_percentage |-> 1, consensus_version |-> 2,
   allow_account_creation |-> 1, linear_fees |-> 24, slot_duration |-> 2,
   epoch_stability_depth |-> 4]

\* Bytes the reader takes for each fixed-size payload (get_u32, get_u8, ...).
FixedWidth ==
  [max_number_of_transactions_per_block |-> 4,
   bootstrap_key_slots_percentage |-> 1, consensus_version |-> 2,
   allow_account_creation |-> 1, linear_fees |-> 24, slot_duration |-> 1,
   epoch_stability_depth |-> 4]

\* bft_leaders: a u8 count, then that many leader ids (read_vec).
PayloadLen(f, buf, cur) ==
  IF f = "bft_leaders"
    THEN IF CanGet(buf, cur, 1) THEN 1 + GetU(buf, cur, 1) * LeaderIdLen ELSE 1
    ELSE FixedWidth[f]

\* The value read for field f (consensus_version: the raw u16 code).
ReadPayload(f, buf, cur) ==
  LET n == PayloadLen(f, buf, cur) IN
  CASE f = "bft_leaders" ->
         [i \in 1..GetU(buf, cur, 1) |->
            SubSeq(buf, cur + 2 + (i - 1) * LeaderIdLen, cur + 1 + i * LeaderIdLen)]
    [] f = "allow_account_creation" -> GetU(buf, cur, 1) # 0
    [] f = "linear_fees" ->
         [constant |-> GetU(buf, cur, 8), coefficient |-> GetU(buf, cur + 8, 8),
          certificate |-> GetU(buf, cur + 16, 8)]
    [] OTHER -> GetU(buf, cur, n)

\* ConsensusVersion::from_u16: None for an unknown code.
KnownConsensusCode(c) == c \in Range(ConsensusCode)
ConsensusFromU16(c) == CHOOSE v \in DOMAIN ConsensusCode : ConsensusCode[v] = c

\* Faulty variant: apply starts from Settings::new instead of the current
\* settings, losing every field the proposal does not carry.
ApplyFromDefaults(s, u) ==
  [f \in FieldSet |-> IF u[f] = None THEN DefaultSettings[f] ELSE u[f][1]]

\* Settings::apply: a copy of s with the fields present in u overwritten.
Apply(s, u) == [f \in FieldSet |-> IF u[f] = None THEN s[f] ELSE u[f][1]]

-----------------------------------------------------------------------------
VARIABLES
  settings,  \* the current Settings
  history,   \* the proposals applied so far, oldest first
  wire,      \* the bytes of the proposal being read
  cursor,    \* the ReadBuf position in wire
  update,    \* the UpdateProposal being filled by UpdateProposal::read
  dec,       \* "idle", "reading", "done", "error" (a ReadError), "panicked"
  sent       \* the proposal serialized on the wire, or Malformed

vars == <<settings, history, wire, cursor, update, dec, sent>>

Init ==
  /\ settings = DefaultSettings
  /\ history = <<>>
  /\ wire = <<>>
  /\ cursor = 0
  /\ update = NewProposal
  /\ dec = "idle"
  /\ sent = Malformed

\* A serialized proposal arrives and UpdateProposal::read starts on it.
SubmitProposal ==
  /\ dec = "idle"
  /\ Len(history) < MaxUpdates
  /\ \E p \in Proposals : wire' = Serialize(p) /\ sent' = p
  /\ cursor' = 0
  /\ update' = NewProposal
  /\ dec' = "reading"
  /\ UNCHANGED <<settings, history>>

\* Bytes that are not a serialized proposal arrive and are read.
ReceiveRaw ==
  /\ dec = "idle"
  /\ Len(history) < MaxUpdates
  /\ \E w \in RawWires : wire' = w
  /\ sent' = Malformed
  /\ cursor' = 0
  /\ update' = NewProposal
  /\ dec' = "reading"
  /\ UNCHANGED <<settings, history>>


HasTag == CanGet(wire, cursor, 2)
CurTag == GetU(wire, cursor, 2)

(***************************************************************************)
(* UpdateProposal::read, one iteration of its loop per step.               *)
(***************************************************************************)

\* get_u16 for the tag, or a payload read, finds too few bytes: NotEnough.
ReadNotEnough ==
  /\ dec = "reading"
  /\ \/ ~HasTag
     \/ /\ HasTag
        /\ CurTag \in DOMAIN Fields
        /\ ~CanGet(wire, cursor + 2,
                   PayloadLen(Fields[CurTag], wire, cursor + 2))
  /\ dec' = "error"
  /\ UNCHANGED <<settings, history, wire, cursor, update, sent>>

\* Tag End: the proposal read so far is returned.
ReadEnd ==
  /\ dec = "reading"
  /\ HasTag
  /\ CurTag = EndTag
  /\ cursor' = cursor + 2
  /\ dec' = "done"
  /\ UNCHANGED <<settings, history, wire, update, sent>>

\* A known field tag: its payload is read and the field set (a later
\* record of the same tag overwrites it).  An unknown consensus version
\* code is a StructureInvalid error.
ReadField ==
  /\ dec = "reading"
  /\ HasTag
  /\ CurTag \in DOMAIN Fields
  /\ LET f == Fields[CurTag]
         n == PayloadLen(f, wire, cursor + 2)
         v == ReadPayload(f, wire, cursor + 2)
     IN /\ CanGet(wire, cursor + 2, n)
        /\ \/ /\ f # "consensus_version"
              /\ update' = [update EXCEPT ![f] = Some(v)]
              /\ cursor' = cursor + 2 + n
              /\ dec' = dec
           \/ /\ f = "consensus_version"
              /\ KnownConsensusCode(v)
              /\ update' = [update EXCEPT ![f] = Some(ConsensusFromU16(v))]
              /\ cursor' = cursor + 2 + n
              /\ dec' = dec
           \/ /\ f = "consensus_version"
              /\ ~KnownConsensusCode(v)
              /\ dec' = "error"
              /\ UNCHANGED <<cursor, update>>
  /\ UNCHANGED <<settings, history, wire, sent>>

\* Any other tag: panic!("Unrecognized update tag").
ReadUnknownTag ==
  /\ dec = "reading"
  /\ HasTag
  /\ CurTag \notin DOMAIN Fields \cup {EndTag}
  /\ dec' = "panicked"
  /\ UNCHANGED <<settings, history, wire, cursor, update, sent>>

\* The decoded proposal is applied to the settings.
ApplyUpdate ==
  /\ dec = "done"
  /\ settings' = Apply(settings, update)
  /\ history' = Append(history, update)
  /\ dec' = "idle"
  /\ UNCHANGED <<wire, cursor, update, sent>>

\* A read that returned an error is dropped; the settings are untouched.
DropFailedRead ==
  /\ dec = "error"
  /\ dec' = "idle"
  /\ UNCHANGED <<settings, history, wire, cursor, update, sent>>

\* The thread panicked, or every proposal of the behaviour was applied.
Done ==
  /\ \/ dec = "panicked"
     \/ dec = "idle" /\ Len(history) = MaxUpdates
  /\ UNCHANGED vars

Next ==
  \/ SubmitProposal \/ ReceiveRaw
  \/ ReadNotEnough \/ ReadEnd \/ ReadField \/ ReadUnknownTag
  \/ ApplyUpdate \/ DropFailedRead \/ Done

Spec == Init /\ [][Next]_vars

-----------------------------------------------------------------------------
(* Properties *)

FieldType(f) ==
  CASE f = "bootstrap_key_slots_percentage" -> 0..255
    [] f = "consensus_version" -> DOMAIN ConsensusCode
    [] f = "bft_leaders" -> Seq([1..LeaderIdLen -> Byte])
    [] f = "allow_account_creation" -> BOOLEAN
    [] f = "linear_fees" -> [constant : Nat, coefficient : Nat, certificate : Nat]
    [] f = "slot_duration" -> 0..255
    [] OTHER -> Nat

ProposalOK(u) ==
  /\ DOMAIN u = FieldSet
  /\ \A f \in FieldSet : u[f] = None \/ u[f][1] \in FieldType(f)

TypeOK ==
  /\ DOMAIN settings = FieldSet
  /\ \A f \in FieldSet : settings[f] \in FieldType(f)
  /\ ProposalOK(update)
  /\ \A i \in DOMAIN history : ProposalOK(history[i])
  /\ wire \in Seq(Byte)
  /\ cursor \in 0..Len(wire)
  /\ dec \in {"idle", "reading", "done", "error", "panicked"}

(***************************************************************************)
(* Last writer wins across proposals: after any sequence of applied        *)
(* proposals, each field of Settings holds the value carried by the latest *)
(* proposal that carried that field, or the Settings::new default if none  *)
(* did.  A Settings::apply that rebuilt from defaults or dropped a field   *)
(* would only show after two or more proposals touching different fields. *)
(***************************************************************************)
LastWrite(f) ==
  LET carriers == {i \in DOMAIN history : history[i][f] # None}
  IN IF carriers = {} THEN DefaultSettings[f]
     ELSE history[Max(carriers)][f][1]

SettingsFollowLastWriter ==
  \A f \in FieldSet : settings[f] = LastWrite(f)

(***************************************************************************)
(* Update round trip (spec 8.1): a proposal serialized by                  *)
(* UpdateProposal::serialize is read back by UpdateProposal::read without  *)
(* error or panic, to the same proposal, consuming exactly its bytes.      *)
(* serialize writes the leader count as leaders.len() as u8, so a list of  *)
(* 256 or more leaders is expected to violate it.                          *)
(***************************************************************************)
DecodeRoundTrip ==
  sent # Malformed =>
    /\ dec \notin {"error", "panicked"}
    /\ dec = "done" => update = sent /\ cursor = Len(wire)

(***************************************************************************)
(* No panic on malformed input (spec 7 and 9): an unknown tag must be a    *)
(* recoverable UnknownTag error.  UpdateProposal::read panics, so this is  *)
(* expected to be violated.                                                *)
(***************************************************************************)
NoPanicOnUpdate == dec # "panicked"

=============================================================================
