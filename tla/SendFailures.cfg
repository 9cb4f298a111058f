SPECIFICATION TimekeepingSpec
CONSTANTS
  j1 = j1
  j2 = j2
  w1 = w1
  w2 = w2
  c1 = c1
  c2 = c2
  t1 = t1
  t2 = t2
  i1 = i1
  u1 = u1
  Jobs = {j1}
  Workers = {w1, w2}
  Connections = {c1, c2}
  Tasks = {t1}
  TaskIds = {i1}
  Group <- MCGroup
  TaskId <- MCTaskId
  NoWorker = NoWorker
  NoTask = NoTask
  MaxUid = 1
  MaxBatch = 1
  MaxTaskFailures = 2
  MaxWire = 1
  Timeouts = {TRUE}
  SendOutcomes = {TRUE, FALSE}
  LateAnswers = FALSE
  Users = {u1}
  User <- MCUser
  Limit <- MCLimit
  TicksPerSecond = 2
  StartValues = {0, 1}
  MaxOwed = 3
  MaxEnds = 1
SYMMETRY Symmetry
CONSTRAINTS
  FewCopies
  FewEnds
INVARIANTS
  NoLostWakeup
  NoOrphans
  WorkerTimeCountedOnce
  UserTimeCountedOnce
  NotCutShort
