SPECIFICATION FairSpec
CONSTANTS
  Threads = {t1, t2}
  Inside = {t2}
  Listeners = {l1, l2}
  Loops = {k1, k2}
  MaxOps = 2
  MaxAddresses = 1
  MaxClients = 2
CHECK_DEADLOCK FALSE
INVARIANTS NoOrphan AtMostOneMore
PROPERTIES ClientServed LoopEnds
