SPECIFICATION TimekeepingSpec
CONSTANTS
  j1 = j1
  j2 = j2
  w1 = w1
  w2 = w2
  c1 = c1
  c2 = c2
  t1 = t1
  t2 = t2
  i1 = i1
  u1 = u1
  Jobs = {j1, j2}
  Workers = {w1, w2}
  Connections = {c1, c2}
  Tasks = {t1, t2}
  TaskIds = {i1}
  Group <- MCGroup
  TaskId <- MCTaskId
  NoWorker = NoWorker
  NoTask = NoTask
  MaxUid = 4
  MaxBatch = 1
  MaxTaskFailures = 2
  MaxWire = 2
  Timeouts = {TRUE}
  SendOutcomes = {TRUE}
  LateAnswers = TRUE
  Users = {u1}
  User <- MCUser
  Limit <- MCShortLimit
  TicksPerSecond = 2
  StartValues = {0}
  MaxOwed = 0
  MaxEnds = 2
SYMMETRY Symmetry
CONSTRAINTS
  FewEnds
  FewRuns
INVARIANTS
  JobWorkerLink
  FailuresCounted
  RunsToldApart
PROPERTIES
  ManagerSpec
