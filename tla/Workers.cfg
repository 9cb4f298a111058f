SPECIFICATION WorkerSpec
CONSTANTS
  w1 = w1
  w2 = w2
  w3 = w3
  c1 = c1
  c2 = c2
  c3 = c3
  t1 = t1
  t2 = t2
  Jobs = {1}
  Tasks = {t1, t2}
  TaskIds = {1}
  Group <- MCOne
  TaskId <- MCOne
  MaxUid = 1
  Workers = {w1, w2, w3}
  Connections = {c1, c2, c3}
  NoWorker = NoWorker
  NoTask = NoTask
SYMMETRY Symmetry
INVARIANTS
  WorkerPartition
  HashMatches
  TimerOnlyWhenActive
PROPERTIES
  IdlePlaceKept
