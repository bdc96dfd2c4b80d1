\* The server answers with a non-SUCCESS accept state.
CONSTANTS
  MaxCalls = 3
  PayloadLens <- MCPayloadLens
  FragLens <- MCFragLens
  ReplyHdrLen = 2
  GarbageLens <- MCGarbageLens
  NULL = NULL
  ShortReads = FALSE
  Timeouts = FALSE
  ServerLoses = FALSE
  ServerCloses = FALSE
  Rejects = TRUE
  CallerCloses = FALSE
  PartialSends = FALSE
  SlowNetwork = FALSE
  ReleaseThread = FALSE
SPECIFICATION Spec
INVARIANT NoSilentFailure
