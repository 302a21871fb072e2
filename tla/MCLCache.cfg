\* Two goroutines compete for one place with three keys, while the clock runs.
CONSTANTS
  Keys = {k1, k2, k3}
  NoKey = NoKey
  Threads = {t1, t2}
  MaxSize = 1
  Grants = {0, 1}
  MaxTtl = 2
  TicksPerSecond = 2
  MaxTime = 3
  MaxObjs = 3
SPECIFICATION Spec
SYMMETRY Symm
INVARIANTS TypeOK SizeAccounting SoftCapacity TtlWithinGrant
CHECK_DEADLOCK FALSE
