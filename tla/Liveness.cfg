SPECIFICATION FairCommunicatorSpec
CONSTANTS
  j1 = j1
  j2 = j2
  w1 = w1
  w2 = w2
  c1 = c1
  c2 = c2
  t1 = t1
  t2 = t2
  t3 = t3
  i1 = i1
  i2 = i2
  Jobs = {j1}
  Tasks = {t1, t2}
  TaskIds = {i1, i2}
  Group <- MCGroup
  TaskId <- MCTaskId
  Workers = {w1}
  Connections = {c1}
  NoWorker = NoWorker
  NoTask = NoTask
  MaxUid = 1
  MaxBatch = 2
  MaxTaskFailures = 1
  MaxWire = 1
  Timeouts = {FALSE}
  SendOutcomes = {TRUE}
  LateAnswers = FALSE
  MaxInbox = 2
  MaxProgress = 2
INVARIANTS
  CommunicatorTypeOK
  NothingIgnored
  ProgressInOrder
PROPERTIES
  MasterSpec
  EverySentTaskAnswered
  EveryChallengeAnswered
