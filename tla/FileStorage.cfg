SPECIFICATION FairSpec
CONSTANTS
  Nothing = Nothing
  Torn = Torn
  t1 = t1
  t2 = t2
  Tasks = {t1, t2}
  Keys = {"a", "b"}
  Values = {1}
  MaxCalls = 3
  MaxOrphans = 1
  Misreaders = {t1, t2}
CHECK_DEADLOCK FALSE
INVARIANT TypeOK
PROPERTY ImplementsMap
PROPERTY LockIsPassedOn
