\* Violation run: NoPanicOnUpdate.
CONSTANTS
  Values <- MCValues
  RawWires <- MCRawWires
  LeaderIdLen = 1
  FieldLimit = 2
  MaxUpdates = 2
  Malformed = Malformed

SPECIFICATION Spec

INVARIANT NoPanicOnUpdate
