SPECIFICATION Spec
CONSTANTS
  Timers = {t1, t2}
  Clients = {c1}
  Loops = {l1}
  MaxTime = 3
  MaxRearms = 1
  Intervals = {0, 2}
  IntMax = 2
  Word = 64
SYMMETRY Symmetry
CHECK_DEADLOCK FALSE
INVARIANTS OneShotOnce NoOversleep
PROPERTIES CancelledIsSilent NeverEarly ScanAdvances
