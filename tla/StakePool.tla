------------------------------ MODULE StakePool ------------------------------
(***************************************************************************)
(* Stake pool identities of chain-impl-mockchain (src/stake/role.rs).      *)
(*                                                                         *)
(* A StakePoolInfo is a u128 serial, a list of owner keys and an initial   *)
(* GenesisPraosLeader (a KES and a VRF public key).  It is written as the  *)
(* serial, a u8 owner count, the owners and the two leader keys, and its   *)
(* StakePoolId is the hash of serial, owners, KES key and VRF key.         *)
(*                                                                         *)
(* The model runs rounds in which a pool is serialized (or bytes arrive),  *)
(* read back with StakePoolInfo::read and registered under the id the      *)
(* reader computes.  A public key is one wire item of its fixed width, so  *)
(* truncation inside a key is NotEnough like truncation before it.  The    *)
(* owner count field has OwnerCountWidth bits (8 in the code).  Hashes are *)
(* ideal: the hash of a byte string is a tag of that string.               *)
(***************************************************************************)
EXTENDS Integers, Sequences, SequencesExt

CONSTANTS
  PubKeys,          \* public keys (owner, KES and VRF keys alike)
  Serials,          \* pool serial numbers
  MaxOwners,        \* longest owner list the model builds
  OwnerCountWidth,  \* bit width of the serialized owner count (u8)
  RawWires,         \* received byte strings no pool serializes to
  MaxRounds         \* pools sent or received in a behaviour

CONSTANT None       \* model value

ASSUME MaxOwners \in Nat /\ OwnerCountWidth \in Nat \ {0} /\ MaxRounds \in Nat

CountBound == 2 ^ OwnerCountWidth

\* Wire items: a u128, a u8, a public key.
U128(v) == [u128 |-> v]
U8(v) == [u8 |-> v % CountBound]
Key(k) == [key |-> k]

Some(v) == <<v>>

\* A StakePoolInfo value.
Info(serial, owners, kes, vrf) ==
  [serial |-> serial, owners |-> owners, kes |-> kes, vrf |-> vrf]

\* Faulty variant: the id taken over the serialized form, count included.
ToIdOfSerialized(info) ==
  [blake2b256 |-> <<U128(info.serial), U8(Len(info.owners))>>
                    \o [i \in DOMAIN info.owners |-> Key(info.owners[i])]
                    \o <<Key(info.kes), Key(info.vrf)>>]

\* Faulty variant: the VRF key left out of the id.
ToIdWithoutVrf(info) ==
  [blake2b256 |-> <<U128(info.serial)>> \o [i \in DOMAIN info.owners |-> Key(info.owners[i])]
                    \o <<Key(info.kes)>>]

\* StakePoolInfo::to_id: serial (big-endian), owners, KES key, VRF key.
ToId(info) ==
  [blake2b256 |-> <<U128(info.serial)>> \o [i \in DOMAIN info.owners |-> Key(info.owners[i])]
                    \o <<Key(info.kes), Key(info.vrf)>>]

\* GenesisPraosLeader::serialize: the KES key, then the VRF key.
SerializeLeader(kes, vrf) == <<Key(kes), Key(vrf)>>

\* StakePoolInfo::serialize past its assertion: serial, owners.len() as u8,
\* each owner, then the initial leader.
Serialize(info) ==
  <<U128(info.serial), U8(Len(info.owners))>>
  \o [i \in DOMAIN info.owners |-> Key(info.owners[i])]
  \o SerializeLeader(info.kes, info.vrf)

\* Faulty variant: the assertion compiled out (a debug_assert! in release).
OwnersFitUnchecked(info) == TRUE

\* assert!(self.owners.len() < 256).
OwnersFit(info) == Len(info.owners) < CountBound

NotEnough == [err |-> "NotEnough"]

IsKey(it) == "key" \in DOMAIN it

\* GenesisPraosLeader::read at item i: KES key, then VRF key.
ReadLeader(bytes, i) == [kes |-> bytes[i].key, vrf |-> bytes[i + 1].key]

(***************************************************************************)
(* StakePoolInfo::read: get_u128, get_u8, that many deserialize_public_key *)
(* and GenesisPraosLeader::read; any of them past the end is NotEnough.    *)
(* Bytes after the pool are left in the buffer.                            *)
(***************************************************************************)
Read(bytes) ==
  IF Len(bytes) < 2 THEN NotEnough
  ELSE LET n == bytes[2].u8
           keysEnd == 2 + n + 2
       IN IF keysEnd > Len(bytes) \/ ~\A i \in 3..keysEnd : IsKey(bytes[i])
            THEN NotEnough
            ELSE LET l == ReadLeader(bytes, 3 + n) IN
                 Info(bytes[1].u128, [i \in 1..n |-> bytes[2 + i].key], l.kes, l.vrf)

-----------------------------------------------------------------------------
VARIABLES
  wire,        \* the bytes in flight
  sent,        \* <<pool>> serialized on the wire, or <<>> if received
  registered,  \* pools read back: [info, id, sent]
  rounds,      \* pools sent or received so far
  phase,       \* "idle", "sent", "panicked"
  panicSite    \* where the thread panicked, or None

vars == <<wire, sent, registered, rounds, phase, panicSite>>

Pools ==
  {Info(s, o, kes, vrf) :
     s \in Serials, o \in UNION {[1..n -> PubKeys] : n \in 0..MaxOwners},
     kes \in PubKeys, vrf \in PubKeys}

Init ==
  /\ wire = <<>>
  /\ sent = <<>>
  /\ registered = {}
  /\ rounds = 0
  /\ phase = "idle"
  /\ panicSite = None

StartRound ==
  /\ phase = "idle"
  /\ rounds < MaxRounds
  /\ rounds' = rounds + 1

\* StakePoolInfo::serialize: the assertion, then the bytes.
SerializePool ==
  /\ StartRound
  /\ \E info \in Pools :
       \/ /\ OwnersFit(info)
          /\ wire' = Serialize(info)
          /\ sent' = Some(info)
          /\ phase' = "sent"
          /\ UNCHANGED panicSite
       \/ /\ ~OwnersFit(info)
          /\ phase' = "panicked"
          /\ panicSite' = "StakePoolInfo::serialize"
          /\ UNCHANGED <<wire, sent>>
  /\ UNCHANGED registered

ReceiveRaw ==
  /\ StartRound
  /\ \E w \in RawWires : wire' = w
  /\ sent' = <<>>
  /\ phase' = "sent"
  /\ UNCHANGED <<registered, panicSite>>

\* StakePoolInfo::read, then to_id on the pool read; errors end the round.
ReadPool ==
  /\ phase = "sent"
  /\ LET r == Read(wire) IN
       registered' =
         IF "err" \in DOMAIN r THEN registered
         ELSE registered \cup {[info |-> r, id |-> ToId(r), sent |-> sent]}
  /\ phase' = "idle"
  /\ UNCHANGED <<wire, sent, rounds, panicSite>>

Done ==
  /\ phase = "panicked" \/ (phase = "idle" /\ rounds = MaxRounds)
  /\ UNCHANGED vars

Next == SerializePool \/ ReceiveRaw \/ ReadPool \/ Done

Spec == Init /\ [][Next]_vars

-----------------------------------------------------------------------------
(* Properties *)

KeyItems == {Key(k) : k \in PubKeys}

(***************************************************************************)
(* Types.  An id is the digest of a string of a serial and public keys     *)
(* only (spec 4: serial_be || owner keys || kes || vrf, no count byte).    *)
(***************************************************************************)
TypeOK ==
  /\ \A r \in registered :
       /\ r.info.serial \in Serials
       /\ r.info.owners \in Seq(PubKeys)
       /\ {r.info.kes, r.info.vrf} \subseteq PubKeys
       /\ r.id.blake2b256 \in Seq({U128(x) : x \in Serials} \cup KeyItems)
  /\ rounds \in 0..MaxRounds
  /\ phase \in {"idle", "sent", "panicked"}

(***************************************************************************)
(* Pool round trip (spec 8.1): a pool that StakePoolInfo::serialize wrote  *)
(* is read back by StakePoolInfo::read to the same serial, the same owners *)
(* in the same order, and the same KES and VRF keys.                       *)
(***************************************************************************)
PoolRoundTrip ==
  \A r \in registered : r.sent # <<>> => r.info = r.sent[1]

(***************************************************************************)
(* The StakePoolId identifies the pool (spec 4 and S6, a content-addressed *)
(* identity): two pools registered under the same to_id are the same pool, *)
(* whether written by serialize or read from any bytes; owner order counts. *)
(***************************************************************************)
PoolIdIdentifiesPool ==
  \A a, b \in registered : a.id = b.id => a.info = b.info

(***************************************************************************)
(* Encoding never fails except on I/O (spec 7).  serialize asserts fewer   *)
(* than 256 owners, so this is expected to be violated.                    *)
(***************************************************************************)
NoPanicOnSerialize == panicSite # "StakePoolInfo::serialize"

=============================================================================
