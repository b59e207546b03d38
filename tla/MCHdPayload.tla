---------------------------- MODULE MCHdPayload ----------------------------
(***************************************************************************)
(* Model-checking instance of HdPayload: two root keys and slices of 31,  *)
(* 32 and 33 zero bytes to import a key from; paths of up to two          *)
(* indices whose CBOR takes one, two and three bytes per index; raw        *)
(* plaintexts that are empty, a negative integer and a truncated integer;  *)
(* received addresses whose payload is shorter than, equal to and one     *)
(* past the tag length, one cut short, and one re-encoding of an address   *)
(* of r1's key with a byte after the inner byte string.                   *)
(***************************************************************************)
EXTENDS HdPayload

CONSTANTS r1, r2

\* The all-zero key of the unit1 test, and slices one byte short and long.
MCSlices == {[i \in 1..n |-> 0] : n \in {HDKEY_SIZE - 1, HDKEY_SIZE, HDKEY_SIZE + 1}}

MCPaths == {<<>>, <<0>>, <<24>>, <<300>>, <<0, 24>>}

MCRawPlains == {<<>>, <<159, 32, 255>>, <<159, 24, 255>>}

\* A payload of n bytes that no key sealed.
Foreign(n) == [len |-> n, key |-> None, plain |-> <<>>]

MCRawAddresses ==
  {SerializeAddress(Foreign(n)) : n \in {0, 15, 16, 17}}
  \cup {SubSeq(SerializeAddress(Foreign(17)), 1, 18),
        WriteBytes(WriteBytes(CtBytes(Encrypt(HDKeyNew(r1), Cbor(<<0>>))))
                   \o <<Known(0)>>)}

=============================================================================
