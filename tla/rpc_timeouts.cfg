\* The socket timeout fires while the server is silent; the server may lose
\* calls and answer late, a reply may arrive in two pieces, and send() may
\* write only part of a call, and release_all_rpc() may close the socket
\* mid-call.  The run checks that every request returns.
\* Two calls: a timeout inside a fragment leaves the rest of it for the
\* second call, which reads it out of frame.
CONSTANTS
  MaxCalls = 2
  PayloadLens <- MCPayloadLens
  FragLens <- MCFragLens
  ReplyHdrLen = 2
  GarbageLens <- MCGarbageLens
  NULL = NULL
  ShortReads = FALSE
  Timeouts = TRUE
  ServerLoses = TRUE
  ServerCloses = FALSE
  Rejects = FALSE
  CallerCloses = FALSE
  PartialSends = TRUE
  SlowNetwork = TRUE
  ReleaseThread = TRUE
SPECIFICATION Spec
PROPERTY Termination
