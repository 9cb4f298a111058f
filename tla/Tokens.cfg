SPECIFICATION CommunicatorSpec
CONSTANTS
  j1 = j1
  j2 = j2
  w1 = w1
  w2 = w2
  c1 = c1
  c2 = c2
  t1 = t1
  t2 = t2
  t3 = t3
  i1 = i1
  i2 = i2
  Jobs = {j1, j2}
  Tasks = {t1, t2, t3}
  TaskIds = {i1, i2}
  Group <- MCGroup
  TaskId <- MCSameId
  Workers = {w1, w2}
  Connections = {c1, c2}
  NoWorker = NoWorker
  NoTask = NoTask
  MaxUid = 1
  MaxBatch = 1
  MaxTaskFailures = 1
  MaxWire = 1
  Timeouts = {FALSE}
  SendOutcomes = {TRUE}
  LateAnswers = TRUE
  MaxInbox = 2
  MaxProgress = 0
SYMMETRY Symmetry
CONSTRAINTS OneReadsAhead AnswersOwn
INVARIANTS
  TokenOfItsTask
