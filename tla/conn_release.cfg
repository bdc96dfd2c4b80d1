\* Two objects connect, reconnect, fail to connect and disconnect while
\* release_all_rpc() runs twice; the process may bind privileged ports.
CONSTANTS
  o1 = o1
  o2 = o2
  Objects <- MCObjects
  Ports <- MCPorts
  ForeignPorts <- MCForeignPorts
  Privileged = TRUE
  ConnectFails = TRUE
  MaxConnects = 2
  MaxReleases = 2
  NULL = NULL
SPECIFICATION Spec
INVARIANT TypeOK
PROPERTY ReleaseClosesRegistered
