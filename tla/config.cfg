SPECIFICATION Spec
CONSTANTS
  Threads = {t1, t2}
  Appenders = {a1}
  MaxRecords = 3
  MaxTuning = 1
  Loaders = {t1}
  Names = {"n", "x"}
  BadNames = {"x"}
  Types = {"int", "bool"}
  Values = {0, 1}
  Default = 0
  Bad = bad
  Broken = broken
  Contents <- MCContents
  Listeners = {h1, h2}
  Throwing = {h2}
  MaxCalls = 3
  MaxWrites = 1
CHECK_DEADLOCK FALSE
INVARIANTS OneVarPerName ReportsAddUp FileApplied FatalSurvives
