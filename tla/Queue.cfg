SPECIFICATION QueueSpec
CONSTANTS
  j1 = j1
  j2 = j2
  t1 = t1
  t2 = t2
  t3 = t3
  i1 = i1
  i2 = i2
  Jobs = {j1, j2}
  Tasks = {t1, t2, t3}
  TaskIds = {i1, i2}
  Group <- MCGroup
  TaskId <- MCTaskId
  MaxUid = 3
  MaxBatch = 2
CONSTRAINT ShortQueues
INVARIANTS
  QueueTypeOK
  NoZombieBatch
  SizeMatches
  WaitingAreNumbered
