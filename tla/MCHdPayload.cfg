\* Encrypt and decrypt HD payloads in debug and release builds.
CONSTANTS
  r1 = r1
  r2 = r2
  Roots = {r1, r2}
  Slices <- MCSlices
  Paths <- MCPaths
  RawPlains <- MCRawPlains
  RawAddresses <- MCRawAddresses
  UsizeWidth = 6
  Profiles = {"debug", "release"}
  MaxOps = 4
  None = None

SPECIFICATION Spec

INVARIANT TypeOK
INVARIANT DecryptPathCorrect
