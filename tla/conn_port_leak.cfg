\* A connect() whose socket.connect() raises leaves its bound socket
\* unregistered; release_all_rpc() then leaves its privileged port held.
CONSTANTS
  o1 = o1
  o2 = o2
  Objects <- MCObjects
  Ports <- MCPorts
  ForeignPorts <- MCForeignPorts
  Privileged = TRUE
  ConnectFails = TRUE
  MaxConnects = 2
  MaxReleases = 2
  NULL = NULL
SPECIFICATION Spec
PROPERTY ReleaseFreesPorts
