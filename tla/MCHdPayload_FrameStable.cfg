\* An address with a byte after its inner byte string is accepted and re-encodes differently.
CONSTANTS
  r1 = r1
  r2 = r2
  Roots = {r1, r2}
  Slices <- MCSlices
  Paths <- MCPaths
  RawPlains <- MCRawPlains
  RawAddresses <- MCRawAddresses
  UsizeWidth = 6
  Profiles = {"debug", "release"}
  MaxOps = 4
  None = None
SPECIFICATION Spec
INVARIANT AddressFrameStable
