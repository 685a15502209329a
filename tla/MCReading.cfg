CONSTANTS
  t1 = t1
  t2 = t2
  i1 = i1
  x = x
  None = None
  Retries = 1
  Tasks = {t1, t2}
  WeekLength = 2
  LastDay = 4
  MaxEntries = 2
  MaxDrawn = 6
  Ids = {i1}
  Values = {None, x}
  Absent = None
  MaxItems = 2
  LastTime = 4
  MaxSlots = 2
  MaxLead = 1
  Loaders = {t1, t2}
  Ttl = 1
  LastMoment = 3
SPECIFICATION ReadingSpec
INVARIANTS
  ReadingTypeOK
  SentOnce
  ChangesOnce
  ValueIsAnswer
  NothingSkipped
  InOrderAlone
  EventsTellTheChange
  BellsInOrder
  QueriesAgree
  ServedIsFresh
CHECK_DEADLOCK FALSE
