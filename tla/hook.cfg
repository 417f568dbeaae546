SPECIFICATION FairSpec
CONSTANTS
  Fibers = {f1, f2}
  Fds = {d1}
  Ctxs = {x1, x2, x3}
  None = none
  NWorkers = 2
  Calls = {"recv", "connect", "sleep", "socket", "close", "setfl", "fionbio", "rcvtimeo"}
  MaxFiles = 2
  MaxCalls = 2
CHECK_DEADLOCK FALSE
INVARIANTS NoIoAfterClose WaitsOnce TimeoutIsReal NonblockKept
PROPERTIES TimedWaitEnds
