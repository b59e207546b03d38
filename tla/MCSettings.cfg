\* Update proposals read from the wire and applied to the settings.
CONSTANTS
  Values <- MCValues
  RawWires <- MCRawWires
  LeaderIdLen = 1
  FieldLimit = 2
  MaxUpdates = 2
  Malformed = Malformed

SPECIFICATION Spec

INVARIANT TypeOK
INVARIANT SettingsFollowLastWriter
INVARIANT DecodeRoundTrip
