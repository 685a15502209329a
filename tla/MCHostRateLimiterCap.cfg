SPECIFICATION Spec
CONSTANTS
  t1 = t1
  t3 = t3
  t2 = t2
  Tasks = {t1, t2, t3}
  Hosts = {"portal"}
  Second = 4
  Costs = {2, 5}
  DefaultCost = 2
  MaxTime = 8
  MaxBuckets = 2
  MaxOverlaps = 2
CHECK_DEADLOCK FALSE
INVARIANT RateCap
