SPECIFICATION Spec
CONSTANTS
  Threads = {p1, p2, p3}
  Conns = {k1, k2, k3}
  None = none
  MaxSize = 2
  MaxAlive = 1
  MaxRequests = 2
  MaxTime = 1
  MaxUses = 2
  Word = 64
SYMMETRY Symmetry
CHECK_DEADLOCK FALSE
INVARIANTS ExclusiveLease Accounting Capacity CleanReuse
