\* The socket timeout may fire before the mount daemon answers.
CONSTANTS
  p1 = p1
  p2 = p2
  Paths <- MCPaths
  Exported <- MCExported
  Timeouts = TRUE
  MaxCalls = 4
  Releases = FALSE
  MaxConnects = 1
  NULL = NULL
SPECIFICATION Spec
INVARIANT PathWasGranted
