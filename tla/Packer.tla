------------------------------- MODULE Packer -------------------------------
(***************************************************************************)
(* chain_core::packer::Codec (put_uN) and chain_core::mempack::ReadBuf     *)
(* (get_uN, NotEnough): big-endian fixed-width integers over a byte        *)
(* sequence and a cursor.  That crate is not under src/; this follows the  *)
(* spec (4.1 and 6: all integers big-endian, never read past the limit).   *)
(***************************************************************************)
EXTENDS Integers, Sequences, SequencesExt

Byte == 0..255

\* put_uN: the n-byte big-endian encoding of v, truncated to n bytes as an
\* `as uN` cast does.
RECURSIVE PutU(_, _)
PutU(v, n) == IF n = 0 THEN <<>> ELSE PutU(v \div 256, n - 1) \o <<v % 256>>

\* The unsigned value of big-endian bytes.
FromBE(bytes) == FoldLeft(LAMBDA acc, b : acc * 256 + b, 0, bytes)

\* ReadBuf: a read of n bytes at cursor cur succeeds only if n bytes remain
\* (otherwise ReadError::NotEnough).
CanGet(buf, cur, n) == cur + n <= Len(buf)

\* get_uN at cursor cur (the caller has checked CanGet).
GetU(buf, cur, n) == FromBE(SubSeq(buf, cur + 1, cur + n))

=============================================================================
