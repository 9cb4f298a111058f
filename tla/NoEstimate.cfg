SPECIFICATION EstimateSpec
CONSTANTS
  j1 = j1
  j2 = j2
  Jobs = {j1, j2}
  Tasks = {}
  TaskIds = {}
  Group <- MCGroup
  TaskId <- MCGroup
  MaxUid = 1
  RunTimeEstimation = 0
  RunTimes = {1, 2}
  MaxSize = 7
INVARIANTS
  EstimateOverFew
