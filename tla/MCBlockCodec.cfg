\* Round trip and size accounting of the block decode loop, both builds.
CONSTANTS
  Messages <- MCMessages
  ParamTags = {1}
  Streams <- MCStreams
  HeaderRawLen = 4
  ContentSizeWidth = 4
  Profiles = {"debug", "release"}
  Malformed = Malformed

SPECIFICATION Spec

INVARIANT TypeOK
PROPERTY ImplementsBlockStream
INVARIANT DecodedSizeMatchesHeader
INVARIANT InitialEntsFrameStable
