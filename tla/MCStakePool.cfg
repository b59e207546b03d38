\* Stake pools serialized, read back and registered by id.
CONSTANTS
  a = a
  b = b
  c = c
  PubKeys = {a, b, c}
  Serials = {0, 1}
  MaxOwners = 4
  OwnerCountWidth = 2
  RawWires <- MCRawWires
  MaxRounds = 2
  None = None

SPECIFICATION Spec

INVARIANT TypeOK
INVARIANT PoolRoundTrip
INVARIANT PoolIdIdentifiesPool
