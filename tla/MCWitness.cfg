\* Witnesses built, serialized, read back and verified.
CONSTANTS
  k1 = k1
  k2 = k2
  t1 = t1
  t2 = t2
  Keys = {k1, k2}
  TxIds = {t1, t2}
  Counters = {0, 1}
  RawWires <- MCRawWires
  MaxRounds = 3
  None = None

SPECIFICATION Spec

INVARIANT TypeOK
INVARIANT WitnessVerifiesOwnTx
