SPECIFICATION Spec
CONSTANTS
  Workers = {w1, w2}
  Caller = caller
  Client = client
  UseCaller = FALSE
  UserFibers = {}
  Funcs = {c1}
  Wrappers = {x1}
  AnyThread = any
  None = none
  StopKinds = {}
  MaxYields = 0
  MaxHolds = 1
  LatePins = FALSE
INVARIANTS ExclusiveResume
