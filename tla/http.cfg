SPECIFICATION HttpFairSpec
CONSTANTS
  MaxHeader = 4
  MaxBody = 1
  Foreign = {"none", "client", "server"}
  UsedMethods = {"GET", "HEAD", "POST"}
  Paths = {"a"}
  Patterns = {{"a"}}
  Servlets <- MCServlets
  ClientPieces <- MCClientPieces
  ServerPieces <- MCServerPieces
  MaxRequests = 2
  MaxForeign = 4
  MaxRoutes = 2
CHECK_DEADLOCK FALSE
INVARIANTS InStep CutsDoNotMatter
PROPERTIES CallReturns
