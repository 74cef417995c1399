SPECIFICATION FairSpec
CONSTANTS
  p1 = p1
  p2 = p2
  i1 = i1
  i2 = i2
  t1 = t1
  NoId = NoId
  Procs = {p1, p2}
  Databases = {"sqlite", "mysql"}
  Ids = {i1, i2}
  Tasks = {t1}
CHECK_DEADLOCK FALSE
INVARIANTS
  TypeOK
  ReadyIsMigrated
  OwnerIsStored
PROPERTIES
  StartsAgain
  LeftTasksEnd
