\* The server closes the connection while a call waits for its reply.
CONSTANTS
  MaxCalls = 3
  PayloadLens <- MCPayloadLens
  FragLens <- MCFragLens
  ReplyHdrLen = 2
  GarbageLens <- MCGarbageLens
  NULL = NULL
  ShortReads = FALSE
  Timeouts = FALSE
  ServerLoses = FALSE
  ServerCloses = TRUE
  Rejects = FALSE
  CallerCloses = FALSE
  PartialSends = FALSE
  SlowNetwork = FALSE
  ReleaseThread = FALSE
SPECIFICATION Spec
PROPERTY Termination
