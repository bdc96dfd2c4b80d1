\* Reliable in-order server that may reject calls or close the connection;
\* the caller may disconnect.  No short reads, no timeouts.  Four calls, and
\* replies of up to three fragments.
CONSTANTS
  MaxCalls = 4
  PayloadLens <- MCLongPayloadLens
  FragLens <- MCFragLens
  ReplyHdrLen = 2
  GarbageLens <- MCGarbageLens
  ShortReads = FALSE
  Timeouts = FALSE
  ServerLoses = FALSE
  ServerCloses = TRUE
  Rejects = TRUE
  CallerCloses = TRUE
  PartialSends = FALSE
  SlowNetwork = FALSE
  ReleaseThread = FALSE
  NULL = NULL
SPECIFICATION Spec
INVARIANTS TypeOK ReplyMatchesCall
PROPERTY RefinesService
