SPECIFICATION CommandSpec
CONSTANTS
  j1 = j1
  j2 = j2
  i1 = i1
  k1 = k1
  k2 = k2
  n1 = n1
  n2 = n2
  Jobs = {j1, j2}
  Tasks = {j1}
  TaskIds = {i1}
  Group <- MCGroup
  TaskId <- MCTaskId
  Workers = {w1}
  Connections = {c1}
  NoWorker = NoWorker
  NoTask = NoTask
  MaxUid = 1
  MaxBatch = 1
  MaxTaskFailures = 1
  MaxWire = 1
  Timeouts = {FALSE}
  SendOutcomes = {TRUE}
  LateAnswers = FALSE
  Priorities = {2}
  Clients = {k1, k2}
  Nonces = {n1, n2}
  NoChallenge = NoChallenge
  NoJob = NoJob
  NoResponse = NoResponse
CONSTRAINT FewCopies
VIEW View
SYMMETRY Symmetry
INVARIANTS
  SessionsMatch
  ChallengeUsedOnce
PROPERTIES
  KillEndsJob
  NoPasswordNoAccess
  MasterSpec
