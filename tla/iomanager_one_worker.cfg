SPECIFICATION FairSpec
CONSTANTS
  Workers = {w1}
  Client = client
  Fds = {fd1}
  Jobs = {j1, j2}
  AnyThread = any
  None = none
  ClientCalls = {"schedule", "event"}
  LateCalls = TRUE
  Pinned = FALSE
  MayForce = TRUE
  MayClose = FALSE
  MaxOps = 1
PROPERTIES EverythingServed
