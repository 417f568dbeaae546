SPECIFICATION FairSpec
CONSTANTS
  Workers = {w1, w2}
  Caller = caller
  Client = client
  UseCaller = FALSE
  UserFibers = {f1}
  Funcs = {c1}
  Wrappers = {x1}
  AnyThread = any
  None = none
  StopKinds = {"stop"}
  MaxYields = 0
  MaxHolds = 0
  LatePins = FALSE
PROPERTIES EveryJobRuns StopReturns
