CONSTANTS
  Users <- MCUsers
  Passwords <- MCPasswords
  Hosts <- MCHosts
  Ports <- MCPorts
  Paths <- MCPaths
  LocalNames <- MCLocals
  UserSize = 4
  PassSize = 4
  HostSize = 8
  PortSize = 3
  PathSize = 8
  UrlSize = 16
  LocalSize = 2
SPECIFICATION Spec
INVARIANT CredentialsWhole
CHECK_DEADLOCK FALSE
