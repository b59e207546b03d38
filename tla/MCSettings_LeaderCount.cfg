\* A proposal of 256 BFT leaders read back after UpdateProposal::serialize.
CONSTANTS
  Values <- MCValuesManyLeaders
  RawWires <- MCRawWires
  LeaderIdLen = 1
  FieldLimit = 2
  MaxUpdates = 1
  Malformed = Malformed

SPECIFICATION Spec

INVARIANT DecodeRoundTrip
