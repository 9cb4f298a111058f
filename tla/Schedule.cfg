SPECIFICATION ScheduleSpec
CONSTANTS
  i1 = i1
  Jobs = {1, 2, 3}
  Tasks = {1, 2, 3}
  TaskIds = {i1}
  Group <- MCGroup
  TaskId <- MCTaskId
  MaxUid = 1
  MaxBatch = 1
  Priorities = {0}
  RunTimeEstimation = 1
  RunTimes = {2}
  MaxSize = 7
  Unit = 2
  MaxRate = 2
  MaxWaiting = 1
  MaxWait = 8
  MaxPassed = 8
CONSTRAINT Bounded
INVARIANTS
  NoStarvation
  ServedByLoop
  EstimateOverFew
