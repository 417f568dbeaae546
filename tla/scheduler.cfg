SPECIFICATION Spec
CONSTANTS
  Workers = {w1}
  Caller = caller
  Client = client
  UseCaller = TRUE
  UserFibers = {}
  Funcs = {c1, c2}
  Wrappers = {x1, x2}
  AnyThread = any
  None = none
  StopKinds = {"stop", "caller"}
  MaxYields = 1
  MaxHolds = 1
  LatePins = TRUE
CONSTRAINT UntilOvertaken
SYMMETRY Symmetry
INVARIANTS ExclusiveUnlessOvertaken ResetOnlyOwned RunsAtMostOnce NoLostWakeup Drained
