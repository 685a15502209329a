SPECIFICATION WatchersSpec
CONSTANTS
  i1 = i1
  x = x
  None = None
  Ids = {i1}
  Values = {None, x}
  Absent = None
  MaxItems = 2
CHECK_DEADLOCK FALSE
INVARIANT OnlyChangesAreTold
