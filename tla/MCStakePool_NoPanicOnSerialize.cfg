\* StakePoolInfo::serialize asserts on a full owner count.
CONSTANTS
  a = a
  b = b
  c = c
  PubKeys = {a, b, c}
  Serials = {0, 1}
  MaxOwners = 4
  OwnerCountWidth = 2
  RawWires <- MCRawWires
  MaxRounds = 2
  None = None

SPECIFICATION Spec

INVARIANT NoPanicOnSerialize
