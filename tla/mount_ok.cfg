\* The socket timeout may fire before the mount daemon answers, and
\* release_all_rpc() may close the socket, after which the caller connects
\* again once.
CONSTANTS
  p1 = p1
  p2 = p2
  Paths <- MCPaths
  Exported <- MCExported
  Timeouts = TRUE
  MaxCalls = 5
  Releases = TRUE
  MaxConnects = 2
  NULL = NULL
SPECIFICATION Spec
INVARIANT TypeOK
PROPERTY CallsReturn
