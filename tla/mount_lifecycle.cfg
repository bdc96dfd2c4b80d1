\* mnt, umnt and a second mnt against a server that always answers.
CONSTANTS
  p1 = p1
  p2 = p2
  Paths <- MCPaths
  Exported <- MCExported
  Timeouts = FALSE
  MaxCalls = 4
  Releases = FALSE
  MaxConnects = 1
  NULL = NULL
SPECIFICATION Spec
INVARIANT MountStateAgrees
