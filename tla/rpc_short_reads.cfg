\* recv(n) returns fewer bytes than asked for, as TCP segmentation allows.
CONSTANTS
  MaxCalls = 3
  PayloadLens <- MCPayloadLens
  FragLens <- MCFragLens
  ReplyHdrLen = 2
  GarbageLens <- MCGarbageLens
  NULL = NULL
  ShortReads = TRUE
  Timeouts = FALSE
  ServerLoses = FALSE
  ServerCloses = FALSE
  Rejects = FALSE
  CallerCloses = FALSE
  PartialSends = FALSE
  SlowNetwork = FALSE
  ReleaseThread = FALSE
SPECIFICATION Spec
INVARIANT ReplyMatchesCall
