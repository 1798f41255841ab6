SPECIFICATION StartSpec
CONSTANTS
  MaxStarts = 2
  MaxAddrs = 2
  MaxConnects = 3
  Lines <- MCLines
  MaxArgs = 6
  WithTls = TRUE
  Members <- MCMembers
  MaxMembers = 3
  MaxLength = 4
  Lengths = {1, 8}
  Chars = {"h", ".", ":", "f", "0", "1", "3", "4", "8", "9"}
  Hosts <- MCHosts
  Ports <- MCPorts
  PathLens = {0, 1, 4, 5, 20}
  UriCap = 30
  HostCap = 10
  PathCap = 5
INVARIANTS
  BridgeLeaksNothing
  FreedOnce
  WorkerHasBridge
  ConnectionIsOwned
  NothingKept
  
  UrlUnderstood
PROPERTY ConnectSpec
CHECK_DEADLOCK FALSE
