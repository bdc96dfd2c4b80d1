\* release_all_rpc() runs while an object reconnects: it may close the new
\* socket between socket() and bind().
CONSTANTS
  o1 = o1
  o2 = o2
  Objects <- MCObjects
  Ports <- MCPorts
  ForeignPorts <- MCForeignPorts
  Privileged = TRUE
  ConnectFails = FALSE
  MaxConnects = 2
  MaxReleases = 2
  NULL = NULL
SPECIFICATION Spec
PROPERTY ConnectTerminates
