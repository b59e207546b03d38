\* A header shorter than its next message: overrun (release) or panic (debug).
CONSTANTS
  Messages <- MCMessages
  ParamTags = {1}
  Streams <- MCStreams
  HeaderRawLen = 4
  ContentSizeWidth = 4
  Profiles = {"debug", "release"}
  Malformed = Malformed

SPECIFICATION Spec

INVARIANT OverrunRejected
