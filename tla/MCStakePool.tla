---------------------------- MODULE MCStakePool ----------------------------
(***************************************************************************)
(* Model-checking instance of StakePool: three keys, two serials, owner    *)
(* lists of up to four keys with a 2-bit owner count (so the assertion is  *)
(* reached at four owners), two rounds, and received bytes whose owner     *)
(* count runs past the end, that stop before the VRF key, or that carry    *)
(* trailing bytes.                                                         *)
(***************************************************************************)
EXTENDS StakePool

CONSTANTS a, b, c

MCRawWires ==
  { <<U128(1), U8(2), Key(a), Key(b), Key(c)>>,
    <<U128(0), U8(0), Key(a)>>,
    <<U128(1), U8(1), Key(c), Key(a), Key(b), Key(b)>>,
    <<U128(0)>> }

=============================================================================
