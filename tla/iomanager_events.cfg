SPECIFICATION Spec
CONSTANTS
  Workers = {w1, w2}
  Client = client
  Fds = {fd1}
  Jobs = {j1, j2}
  AnyThread = any
  None = none
  ClientCalls = {"event", "cancelTimer", "timer"}
  LateCalls = FALSE
  Pinned = FALSE
  MayForce = FALSE
  MayClose = TRUE
  MaxOps = 0
SYMMETRY Symmetry
CHECK_DEADLOCK FALSE
INVARIANTS PendingExact DeliveredOnce NothingLeftByWorkers WorkIsSeen
