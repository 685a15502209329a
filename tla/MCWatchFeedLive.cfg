SPECIFICATION FairSpec
CONSTANTS
  w1 = w1
  w2 = w2
  a1 = a1
  a2 = a2
  Watchers = {w1, w2}
  Items = {"i1"}
  Classes <- MCClasses
  ClassOf <- MCClassOf
  ReportsChanges <- MCReportsChanges
  Addrs = {a1, a2}
  HomeOf <- MCHomeOf
  MaxEdits = 2
  MaxStarts = 1
  MaxRestarts = 0
CHECK_DEADLOCK FALSE
PROPERTY CatchesUp
PROPERTY ClosingEnds
