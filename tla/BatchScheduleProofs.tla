-------------------------- MODULE BatchScheduleProofs --------------------------
(***************************************************************************)
(* Theorems about the schedule of the task queue (BatchSchedule), for any  *)
(* finite set of jobs and any rates up to MaxRate: it is a task queue, and *)
(* it starves no batch that has a rate.                                    *)
(***************************************************************************)
EXTENDS BatchSchedule, TaskQueueProofs

(***************************************************************************)
(* The schedule is a task queue.                                           *)
(***************************************************************************)

\* Every operation calls the queue or leaves it alone.
LEMMA StepIsQueueCall == [ScheduleNext]_scheduleVars => [QueueNext]_queueVars
<1> SUFFICES ASSUME [ScheduleNext]_scheduleVars PROVE [QueueNext]_queueVars
  OBVIOUS
<1>1. ASSUME NEW j \in Jobs, NEW ts \in BatchesOf({t \in Tasks : Group[t] = j}),
             SchedulePushBatch(j, ts)
      PROVE  QueueNext
  <2>1. PushBatch(j, ts, FALSE)
    BY <1>1 DEF SchedulePushBatch
  <2> QED
    BY <2>1 DEF QueueNext
<1>2. ASSUME NEW j \in Jobs, SchedulePop(j) \/ SchedulePopAndPushTask(j) \/ ScheduleRemove(j)
      PROVE  QueueNext
  BY <1>2 DEF SchedulePop, SchedulePopAndPushTask, ScheduleRemove, QueueNext
<1>3. ASSUME NEW t \in Tasks, SchedulePushTask(t) \/ ScheduleFinished(t) PROVE QueueNext
  BY <1>3 DEF SchedulePushTask, ScheduleFinished, QueueNext
<1>4. ASSUME NEW j \in Jobs, NEW r, ScheduleRunTime(j, r) \/ SchedulePriority(j, r)
      PROVE  UNCHANGED queueVars
  BY <1>4 DEF ScheduleRunTime, SchedulePriority
<1>5. ASSUME NEW j \in Jobs, JobOperation(j) PROVE [QueueNext]_queueVars
  BY <1>1, <1>2, <1>4, <1>5 DEF JobOperation
<1>6. CASE SchedulePopNothing
  BY <1>6 DEF SchedulePopNothing
<1>7. CASE UNCHANGED scheduleVars
  BY <1>7 DEF scheduleVars
<1> QED
  BY <1>3, <1>5, <1>6, <1>7 DEF ScheduleNext

\* The queue with a schedule implements the queue of TaskQueue, where any
\* batch may be served (taskqueue.cc).
THEOREM ScheduleIsQueue == ScheduleSpec => QueueSpec
<1>1. ScheduleInit => QueueInit
  BY DEF ScheduleInit
<1> QED
  BY <1>1, StepIsQueueCall, PTL DEF ScheduleSpec, QueueSpec

(***************************************************************************)
(* No batch starves.  Suppose j is passed over, and the wait time of j is  *)
(* above Others * MaxRate.  A batch that is served in its stead starts     *)
(* from 0 and needs more than Others pops to come so far again: in the     *)
(* meantime every pop serves a batch that was not served since, and after  *)
(* Others pops none is left.                                               *)
(***************************************************************************)

\* The number of batches j may have to wait for.
Others == Cardinality(Jobs) - 1

\* The other batches that waited no longer than i pops may account for.
Recent(j, i) == {k \in Jobs \ {j} : waitTime[k] <= i * MaxRate}

\* Once j was passed over often enough, each further pop adds a batch to the
\* recent ones.
RecentGrows ==
  \A j \in Jobs, i \in Nat :
    (i <= Others /\ passed[j] * rate[j] > Others * MaxRate + i * rate[j])
      => Cardinality(Recent(j, i)) >= i + 1

\* The types, and what relates the wait time of a batch to its being passed.
WaitsOK ==
  /\ rate \in [Jobs -> 0 .. MaxRate]
  /\ waitTime \in [Jobs -> Nat]
  /\ passed \in [Jobs -> Nat]
  /\ \A j \in Jobs : passed[j] * rate[j] <= waitTime[j]
  /\ \A j \in Jobs : j \notin Waiting => passed[j] = 0
  /\ \A j \in Jobs : j \notin d_batches => rate[j] = 0 /\ waitTime[j] = 0

ScheduleInv == QueueInv /\ WaitsOK /\ RecentGrows

\* The recent batches are finitely many, and no more than there are others.
LEMMA RecentFinite ==
  ASSUME NEW j \in Jobs, NEW i
  PROVE  /\ IsFiniteSet(Recent(j, i))
         /\ Cardinality(Recent(j, i)) \in Nat
         /\ Cardinality(Recent(j, i)) <= Others
         /\ Others \in Nat
<1>1. IsFiniteSet(Jobs) /\ IsFiniteSet(Jobs \ {j})
  BY ScheduleAssumption, FS_RemoveElement
<1>2. Cardinality(Jobs \ {j}) = Others
  BY ScheduleAssumption, FS_RemoveElement DEF Others
<1>3. Recent(j, i) \subseteq Jobs \ {j}
  BY DEF Recent
<1> QED
  BY <1>1, <1>2, <1>3, FS_Subset, FS_CardinalityType

\* The invariant bounds how often a batch is passed over.
LEMMA InvBoundsPassing == ScheduleInv => NoStarvation
<1> SUFFICES ASSUME ScheduleInv, NEW j \in Waiting
             PROVE  passed[j] * rate[j] <= Others * (MaxRate + rate[j])
  BY DEF NoStarvation, Others
<1>1. j \in Jobs
  BY DEF Waiting, ScheduleInv, QueueInv, QueueTypeOK
<1>2. /\ Others \in Nat
      /\ Cardinality(Recent(j, Others)) \in Nat
      /\ Cardinality(Recent(j, Others)) <= Others
  BY <1>1, RecentFinite
<1>3. passed[j] \in Nat /\ rate[j] \in Nat /\ MaxRate \in Nat
  BY <1>1, ScheduleAssumption DEF ScheduleInv, WaitsOK
<1>4. ~(passed[j] * rate[j] > Others * MaxRate + Others * rate[j])
  BY <1>1, <1>2 DEF ScheduleInv, RecentGrows
<1> DEFINE a == passed[j] * rate[j]
           b == Others * MaxRate
           c == Others * rate[j]
<1>5. a \in Int /\ b \in Int /\ c \in Int
  BY <1>2, <1>3
<1>6. Others * (MaxRate + rate[j]) = b + c
  BY <1>2, <1>3
<1>7. a <= b + c
  <2> HIDE DEF a, b, c
  <2>1. ~(a > b + c)
    BY <1>4 DEF a, b, c
  <2> QED
    BY <1>5, <2>1
<1> QED
  BY <1>6, <1>7

\* What becomes of a product of two naturals when a factor changes by one.
LEMMA ProductStep ==
  ASSUME NEW a \in Nat, NEW b \in Nat
  PROVE  /\ a * b \in Nat
         /\ (a + 1) * b = a * b + b
         /\ (a - 1) * b = a * b - b
         /\ 0 * b = 0
  OBVIOUS

\* The wait times of a batch that is passed over bound how often it was.
LEMMA ResetKeepsWaits ==
  ASSUME WaitsOK, NEW k \in Jobs, WaitReset(k)
  PROVE  /\ passed' \in [Jobs -> Nat]
         /\ waitTime' \in [Jobs -> Nat]
         /\ rate' = rate
         /\ \A j \in Jobs : passed'[j] * rate'[j] <= waitTime'[j]
<1>1. rate' = rate
  BY DEF WaitReset
<1>2. \A j \in Jobs : /\ rate[j] \in Nat
                      /\ waitTime[j] \in Nat
                      /\ passed[j] \in Nat
  <2> SUFFICES ASSUME NEW j \in Jobs
               PROVE  rate[j] \in Nat /\ waitTime[j] \in Nat /\ passed[j] \in Nat
    OBVIOUS
  <2>1. rate[j] \in 0 .. MaxRate /\ waitTime[j] \in Nat /\ passed[j] \in Nat
    BY DEF WaitsOK
  <2> QED
    BY <2>1, ScheduleAssumption
<1>3. \A j \in Jobs : waitTime'[j] = IF j = k THEN 0 ELSE waitTime[j] + rate[j]
  BY DEF WaitReset, Ticked
<1>4. \A j \in Jobs : passed'[j] = IF j \in Waiting \ {k} THEN passed[j] + 1 ELSE 0
  BY DEF WaitReset
<1>5. passed' = [j \in Jobs |-> passed'[j]] /\ waitTime' = [j \in Jobs |-> waitTime'[j]]
  BY DEF WaitReset, Ticked
<1>6. ASSUME NEW j \in Jobs PROVE passed'[j] * rate'[j] <= waitTime'[j]
  <2>1. /\ (passed[j] + 1) * rate[j] = passed[j] * rate[j] + rate[j]
        /\ 0 * rate[j] = 0
        /\ passed[j] * rate[j] \in Nat
    BY <1>2, ProductStep
  <2>2. CASE j \in Waiting \ {k}
    <3>1. passed[j] * rate[j] <= waitTime[j]
      BY DEF WaitsOK
    <3>2. passed'[j] * rate'[j] = passed[j] * rate[j] + rate[j]
      BY <1>1, <1>4, <2>1, <2>2
    <3>3. waitTime'[j] = waitTime[j] + rate[j]
      BY <1>3, <2>2
    <3> QED
      BY <1>2, <2>1, <3>1, <3>2, <3>3
  <2>3. CASE j \notin Waiting \ {k}
    <3>1. passed'[j] * rate'[j] = 0
      BY <1>1, <1>4, <2>1, <2>3
    <3>2. waitTime'[j] \in Nat
      BY <1>2, <1>3
    <3> QED
      BY <3>1, <3>2
  <2> QED
    BY <2>2, <2>3
<1> QED
  BY <1>1, <1>2, <1>3, <1>4, <1>5, <1>6

\* A batch k that is served although j has waited for so long was not recent,
\* and now it is.
LEMMA ResetKeepsRecent ==
  ASSUME WaitsOK, RecentGrows, NEW k \in Jobs, LongestWaiting(k), WaitReset(k)
  PROVE  RecentGrows'
<1> SUFFICES ASSUME NEW j \in Jobs, NEW i \in Nat, i <= Others,
                    passed'[j] * rate'[j] > Others * MaxRate + i * rate'[j]
             PROVE  Cardinality(Recent(j, i)') >= i + 1
  BY DEF RecentGrows, Others
<1>1. /\ Others \in Nat
      /\ MaxRate \in Nat
      /\ \A m \in Jobs : /\ rate[m] \in Nat
                         /\ rate[m] <= MaxRate
                         /\ waitTime[m] \in Nat
                         /\ passed[m] \in Nat
  BY RecentFinite, ScheduleAssumption DEF WaitsOK
<1>2. /\ rate' = rate
      /\ \A m \in Jobs : waitTime'[m] = IF m = k THEN 0 ELSE waitTime[m] + rate[m]
      /\ passed'[j] = IF j \in Waiting \ {k} THEN passed[j] + 1 ELSE 0
  BY DEF WaitReset, Ticked
<1> DEFINE p == passed[j] * rate[j]
           o == Others * MaxRate
           r == i * rate[j]
           x == i * MaxRate
<1>3. p \in Nat /\ o \in Nat /\ r \in Nat /\ x \in Nat
  BY <1>1, ProductStep
<1>4. j \in Waiting \ {k}
  <2>1. CASE j \notin Waiting \ {k}
    <3>1. passed'[j] * rate'[j] = 0
      BY <1>1, <1>2, <2>1, ProductStep
    <3>2. passed'[j] * rate'[j] > o + r
      BY <1>2
    <3> QED
      BY <1>3, <3>1, <3>2
  <2> QED
    BY <2>1
<1>5. p + rate[j] > o + r
  <2>1. passed'[j] * rate'[j] = (passed[j] + 1) * rate[j]
    BY <1>2, <1>4
  <2>2. (passed[j] + 1) * rate[j] = p + rate[j]
    BY <1>1, ProductStep
  <2> QED
    BY <1>2, <2>1, <2>2
<1>6. x <= o
  <2>1. \E d \in Nat : Others = i + d
    BY <1>1
  <2>2. PICK d \in Nat : Others = i + d
    BY <2>1
  <2>3. (i + d) * MaxRate = x + d * MaxRate
    BY <1>1
  <2>4. d * MaxRate \in Nat
    BY <1>1, ProductStep
  <2> QED
    BY <1>3, <2>2, <2>3, <2>4
<1>7. waitTime[k] + rate[k] > x
  <2>1. waitTime[j] + rate[j] <= waitTime[k] + rate[k]
    <3>1. GoesFirst(k, j)
      BY <1>4 DEF LongestWaiting
    <3>2. Ticked[j] = waitTime[j] + rate[j] /\ Ticked[k] = waitTime[k] + rate[k]
      BY DEF Ticked
    <3> QED
      BY <1>1, <3>1, <3>2 DEF GoesFirst
  <2>2. p <= waitTime[j]
    BY DEF WaitsOK
  <2> HIDE DEF p, o, r, x
  <2> QED
    BY <1>1, <1>3, <1>5, <1>6, <2>1, <2>2
<1>8. k \in Recent(j, i)'
  <2>1. waitTime'[k] = 0
    BY <1>2
  <2>2. waitTime'[k] <= i * MaxRate
    BY <1>3, <2>1
  <2> QED
    BY <1>4, <2>2 DEF Recent
<1>9. /\ IsFiniteSet(Recent(j, i)')
      /\ Cardinality(Recent(j, i)') \in Nat
  <2>1. IsFiniteSet(Jobs)
    BY ScheduleAssumption
  <2>2. Recent(j, i)' \subseteq Jobs
    BY DEF Recent
  <2> QED
    BY <2>1, <2>2, FS_Subset, FS_CardinalityType
<1>10. CASE i = 0
  <2>1. {k} \subseteq Recent(j, i)'
    BY <1>8
  <2>2. Cardinality({k}) = 1
    BY FS_Singleton
  <2>3. Cardinality({k}) <= Cardinality(Recent(j, i)')
    BY <1>9, <2>1, FS_Subset
  <2> QED
    BY <1>9, <1>10, <2>2, <2>3
<1>11. CASE i # 0
  <2> DEFINE before == Recent(j, i - 1)
  <2>1. i - 1 \in Nat /\ i - 1 <= Others
    BY <1>1, <1>11
  <2>2. (i - 1) * rate[j] = r - rate[j] /\ (i - 1) * MaxRate = x - MaxRate
    BY <1>1, ProductStep
  <2>3. p > o + (i - 1) * rate[j]
    <3> HIDE DEF p, o, r, x
    <3> QED
      BY <1>1, <1>3, <1>5, <2>2
  <2>4. Cardinality(before) >= i
    <3>1. Cardinality(before) >= (i - 1) + 1
      BY <2>1, <2>3 DEF RecentGrows
    <3> QED
      BY <3>1
  <2>5. k \notin before
    <3>1. waitTime[k] > x - MaxRate
      <4> HIDE DEF x
      <4> QED
        BY <1>1, <1>3, <1>7
    <3>2. ~(waitTime[k] <= (i - 1) * MaxRate)
      <4> HIDE DEF x
      <4> QED
        BY <1>1, <1>3, <2>2, <3>1
    <3> QED
      BY <3>2 DEF Recent
  <2>6. before \subseteq Recent(j, i)'
    <3> SUFFICES ASSUME NEW m \in before PROVE m \in Recent(j, i)'
      OBVIOUS
    <3>1. m \in Jobs \ {j} /\ waitTime[m] <= (i - 1) * MaxRate
      BY DEF Recent
    <3>2. waitTime[m] + rate[m] <= x
      <4> HIDE DEF x
      <4> QED
        BY <1>1, <1>3, <2>2, <3>1
    <3>3. waitTime'[m] <= x
      <4> HIDE DEF x
      <4> QED
        BY <1>2, <1>3, <3>1, <3>2
    <3> QED
      BY <3>1, <3>3 DEF Recent
  <2>7. before \cup {k} \subseteq Recent(j, i)'
    BY <1>8, <2>6
  <2>8. IsFiniteSet(before) /\ Cardinality(before) \in Nat
    BY RecentFinite
  <2>9. Cardinality(before \cup {k}) = Cardinality(before) + 1
    BY <2>5, <2>8, FS_AddElement
  <2>10. Cardinality(before \cup {k}) <= Cardinality(Recent(j, i)')
    BY <1>9, <2>7, FS_Subset
  <2> QED
    BY <1>9, <2>4, <2>8, <2>9, <2>10
<1> QED
  BY <1>10, <1>11

\* Without a pop the wait times only drop and no batch is passed over.
LEMMA DropKeepsRecent ==
  ASSUME WaitsOK, RecentGrows, waitTime' \in [Jobs -> Nat], rate' \in [Jobs -> 0 .. MaxRate],
         \A j \in Jobs : waitTime'[j] <= waitTime[j],
         \A j \in Jobs : \/ passed'[j] = 0
                         \/ passed'[j] = passed[j] /\ rate'[j] = rate[j]
  PROVE  RecentGrows'
<1> SUFFICES ASSUME NEW j \in Jobs, NEW i \in Nat, i <= Others,
                    passed'[j] * rate'[j] > Others * MaxRate + i * rate'[j]
             PROVE  Cardinality(Recent(j, i)') >= i + 1
  BY DEF RecentGrows, Others
<1>1. Others \in Nat /\ MaxRate \in Nat
  BY RecentFinite, ScheduleAssumption
<1>2. rate'[j] \in Nat
  <2>1. rate'[j] \in 0 .. MaxRate
    OBVIOUS
  <2> QED
    BY <1>1, <2>1
<1>3. passed'[j] # 0
  <2>1. CASE passed'[j] = 0
    <3>1. passed'[j] * rate'[j] = 0
      BY <1>2, <2>1, ProductStep
    <3>2. Others * MaxRate \in Nat /\ i * rate'[j] \in Nat
      BY <1>1, <1>2, ProductStep
    <3> QED
      BY <3>1, <3>2
  <2> QED
    BY <2>1
<1>4. passed'[j] = passed[j] /\ rate'[j] = rate[j]
  BY <1>3
<1>5. passed[j] * rate[j] > Others * MaxRate + i * rate[j]
  BY <1>4
<1>6. Cardinality(Recent(j, i)) >= i + 1
  BY <1>5 DEF RecentGrows
<1>7. Recent(j, i) \subseteq Recent(j, i)'
  <2> SUFFICES ASSUME NEW m \in Recent(j, i) PROVE m \in Recent(j, i)'
    OBVIOUS
  <2>1. m \in Jobs \ {j} /\ waitTime[m] <= i * MaxRate
    BY DEF Recent
  <2>2. waitTime'[m] \in Nat /\ waitTime[m] \in Nat /\ waitTime'[m] <= waitTime[m]
    BY <2>1 DEF WaitsOK
  <2>3. i * MaxRate \in Nat
    BY <1>1, ProductStep
  <2>4. waitTime'[m] <= i * MaxRate
    <3> DEFINE x == i * MaxRate
    <3> HIDE DEF x
    <3>1. waitTime[m] <= x /\ x \in Nat
      BY <2>1, <2>3 DEF x
    <3>2. waitTime'[m] <= x
      BY <2>2, <3>1
    <3> QED
      BY <3>2 DEF x
  <2> QED
    BY <2>1, <2>4 DEF Recent
<1>8. /\ IsFiniteSet(Recent(j, i)')
      /\ Cardinality(Recent(j, i)') \in Nat
  <2>1. IsFiniteSet(Jobs)
    BY ScheduleAssumption
  <2>2. Recent(j, i)' \subseteq Jobs
    BY DEF Recent
  <2> QED
    BY <2>1, <2>2, FS_Subset, FS_CardinalityType
<1>9. Cardinality(Recent(j, i)) <= Cardinality(Recent(j, i)')
  BY <1>7, <1>8, FS_Subset
<1>10. Cardinality(Recent(j, i)) \in Nat
  BY RecentFinite
<1> QED
  BY <1>6, <1>8, <1>9, <1>10

\* A new task waits in the batch it is put into, and every other one still does.
LEMMA PushGrowsWaiting ==
  ASSUME QueueInv, NEW j \in Jobs, NEW ts \in BatchesOf({t \in Tasks : Group[t] = j}),
         PushBatch(j, ts, FALSE), ts # <<>>
  PROVE  /\ d_batches' = d_batches \cup {j}
         /\ Waiting \subseteq Waiting'
<1>1. ts \in Seq(Tasks)
  <2>1. PICK n \in 0 .. MaxBatch : ts \in [1 .. n -> {t \in Tasks : Group[t] = j}]
    BY DEF BatchesOf
  <2>2. n \in Nat
    BY TaskQueueAssumption
  <2> QED
    BY <2>1, <2>2
<1>2. d_tasks \in [Jobs -> Seq(Tasks)]
  BY DEF QueueInv, QueueTypeOK
<1>3. d_tasks[j] \o ts # <<>>
  BY <1>1, <1>2, ConcatEqualIffEmpty
<1>4. d_batches' = d_batches \cup {j} /\ d_tasks' = [d_tasks EXCEPT ![j] = d_tasks[j] \o ts]
  BY DEF PushBatch
<1> QED
  BY <1>2, <1>3, <1>4 DEF Waiting

\* A batch message keeps the invariant: a new batch has not waited yet.
LEMMA PushBatchKeepsWaits ==
  ASSUME ScheduleInv, NEW j \in Jobs, NEW ts \in BatchesOf({t \in Tasks : Group[t] = j}),
         SchedulePushBatch(j, ts)
  PROVE  WaitsOK' /\ RecentGrows'
<1>1. /\ RateOf(j) \in 0 .. MaxRate
      /\ PushBatch(j, ts, FALSE)
      /\ rate' = IF ts = <<>> \/ j \in d_batches THEN rate ELSE [rate EXCEPT ![j] = RateOf(j)]
      /\ waitTime' = waitTime
      /\ passed' = passed
  BY DEF SchedulePushBatch
<1> DEFINE new == RateOf(j)
<1>2. new \in 0 .. MaxRate
  BY <1>1
<1> HIDE DEF new
<1>3. rate' = IF ts = <<>> \/ j \in d_batches THEN rate ELSE [rate EXCEPT ![j] = new]
  BY <1>1 DEF new
<1>4. /\ rate \in [Jobs -> 0 .. MaxRate]
      /\ waitTime \in [Jobs -> Nat]
      /\ passed \in [Jobs -> Nat]
  BY DEF ScheduleInv, WaitsOK
<1>5. d_batches \subseteq d_batches' /\ Waiting \subseteq Waiting'
  <2>1. CASE ts = <<>>
    <3>1. UNCHANGED queueVars
      BY <1>1, <2>1 DEF PushBatch
    <3> QED
      BY <3>1 DEF queueVars, Waiting
  <2>2. CASE ts # <<>>
    BY <1>1, <2>2, PushGrowsWaiting DEF ScheduleInv
  <2> QED
    BY <2>1, <2>2
<1>6. rate' \in [Jobs -> 0 .. MaxRate]
  BY <1>2, <1>3, <1>4
<1>7. ASSUME NEW k \in Jobs
      PROVE  \/ passed'[k] = 0
             \/ passed'[k] = passed[k] /\ rate'[k] = rate[k]
  <2>1. CASE k = j /\ j \notin d_batches
    <3>1. k \notin Waiting
      BY <2>1 DEF Waiting
    <3> QED
      BY <1>1, <3>1 DEF ScheduleInv, WaitsOK
  <2>2. CASE k # j \/ j \in d_batches
    BY <1>1, <1>3, <1>4, <2>2
  <2> QED
    BY <2>1, <2>2
<1>8. RecentGrows'
  <2>1. \A k \in Jobs : waitTime'[k] <= waitTime[k]
    BY <1>1, <1>4
  <2> QED
    BY <1>1, <1>4, <1>6, <1>7, <2>1, DropKeepsRecent DEF ScheduleInv
<1>9. ASSUME NEW k \in Jobs PROVE passed'[k] * rate'[k] <= waitTime'[k]
  <2>1. CASE passed'[k] = 0
    <3>1. rate'[k] \in 0 .. MaxRate
      BY <1>6
    <3>2. rate'[k] \in Nat
      BY <3>1, ScheduleAssumption
    <3>3. passed'[k] * rate'[k] = 0
      BY <2>1, <3>2, ProductStep
    <3> QED
      BY <1>1, <1>4, <3>3
  <2>2. CASE passed'[k] = passed[k] /\ rate'[k] = rate[k]
    BY <1>1, <2>2 DEF ScheduleInv, WaitsOK
  <2> QED
    BY <1>7, <2>1, <2>2
<1>10. ASSUME NEW k \in Jobs, k \notin d_batches' PROVE rate'[k] = 0 /\ waitTime'[k] = 0
  <2>1. k \notin d_batches
    BY <1>5, <1>10
  <2>2. rate[k] = 0 /\ waitTime[k] = 0
    BY <2>1 DEF ScheduleInv, WaitsOK
  <2>3. ts # <<>> => k # j
    BY <1>1, <1>10, PushGrowsWaiting DEF ScheduleInv
  <2> QED
    BY <1>1, <1>3, <1>4, <2>2, <2>3
<1>11. \A k \in Jobs : k \notin Waiting' => passed'[k] = 0
  BY <1>1, <1>5 DEF ScheduleInv, WaitsOK
<1> QED
  BY <1>1, <1>4, <1>6, <1>8, <1>9, <1>10, <1>11 DEF WaitsOK

\* Serving a batch keeps the invariant, whether or not its task comes back.
LEMMA PopKeepsWaits ==
  ASSUME ScheduleInv, NEW k \in Jobs, SchedulePop(k) \/ SchedulePopAndPushTask(k)
  PROVE  WaitsOK' /\ RecentGrows'
<1>1. /\ LongestWaiting(k)
      /\ Pop(k) \/ PopAndPushTask(k)
      /\ WaitReset(k)
  BY DEF SchedulePop, SchedulePopAndPushTask
<1>2. d_tasks \in [Jobs -> Seq(Tasks)]
  BY DEF ScheduleInv, QueueInv, QueueTypeOK
<1>3. d_batches' = d_batches /\ \A m \in Jobs \ {k} : d_tasks'[m] = d_tasks[m]
  BY <1>1, <1>2 DEF Pop, PopAndPushTask
<1>4. /\ passed' \in [Jobs -> Nat]
      /\ waitTime' \in [Jobs -> Nat]
      /\ rate' = rate
      /\ \A j \in Jobs : passed'[j] * rate'[j] <= waitTime'[j]
  BY <1>1, ResetKeepsWaits DEF ScheduleInv
<1>5. RecentGrows'
  BY <1>1, ResetKeepsRecent DEF ScheduleInv
<1>6. ASSUME NEW j \in Jobs, j \notin Waiting' PROVE passed'[j] = 0
  <2>1. j \notin Waiting \ {k}
    BY <1>3, <1>6 DEF Waiting
  <2> QED
    BY <1>1, <2>1 DEF WaitReset
<1>7. ASSUME NEW j \in Jobs, j \notin d_batches' PROVE rate'[j] = 0 /\ waitTime'[j] = 0
  <2>1. rate[j] = 0 /\ waitTime[j] = 0
    BY <1>3, <1>7 DEF ScheduleInv, WaitsOK
  <2>2. Ticked[j] = 0
    BY <2>1 DEF Ticked
  <2>3. waitTime'[j] = IF j = k THEN 0 ELSE Ticked[j]
    BY <1>1 DEF WaitReset, Ticked
  <2> QED
    BY <1>4, <2>1, <2>2, <2>3
<1>8. rate' \in [Jobs -> 0 .. MaxRate]
  BY <1>4 DEF ScheduleInv, WaitsOK
<1> QED
  BY <1>4, <1>5, <1>6, <1>7, <1>8 DEF WaitsOK

\* Without a waiting task no batch is passed over, however long they wait.
LEMMA PopNothingKeepsWaits ==
  ASSUME ScheduleInv, SchedulePopNothing
  PROVE  WaitsOK' /\ RecentGrows'
<1>1. Waiting = {} /\ waitTime' = Ticked /\ rate' = rate /\ passed' = passed
  BY DEF SchedulePopNothing
<1>2. d_batches' = d_batches /\ Waiting' = {}
  BY DEF SchedulePopNothing, queueVars, Waiting
<1>3. \A j \in Jobs : passed[j] = 0
  BY <1>1 DEF ScheduleInv, WaitsOK
<1>4. ASSUME NEW j \in Jobs
      PROVE  /\ rate[j] \in Nat
             /\ waitTime[j] \in Nat
             /\ waitTime'[j] = waitTime[j] + rate[j]
  <2>1. rate[j] \in 0 .. MaxRate /\ waitTime[j] \in Nat
    BY DEF ScheduleInv, WaitsOK
  <2>2. waitTime'[j] = waitTime[j] + rate[j]
    BY <1>1 DEF Ticked
  <2> QED
    BY <2>1, <2>2, ScheduleAssumption
<1>5. waitTime' \in [Jobs -> Nat]
  <2>1. waitTime' = [j \in Jobs |-> waitTime[j] + rate[j]]
    BY <1>1 DEF Ticked
  <2> QED
    BY <1>4, <2>1
<1>6. ASSUME NEW j \in Jobs PROVE passed'[j] * rate'[j] = 0
  BY <1>1, <1>3, <1>4, ProductStep
<1>7. RecentGrows'
  <2> SUFFICES ASSUME NEW j \in Jobs, NEW i \in Nat,
                      passed'[j] * rate'[j] > Others * MaxRate + i * rate'[j]
               PROVE  FALSE
    BY DEF RecentGrows, Others
  <2>1. Others * MaxRate \in Nat
    BY RecentFinite, ScheduleAssumption, ProductStep
  <2>2. i * rate'[j] \in Nat
    BY <1>1, <1>4, ProductStep
  <2> QED
    BY <1>6, <2>1, <2>2
<1>8. ASSUME NEW j \in Jobs, j \notin d_batches' PROVE rate'[j] = 0 /\ waitTime'[j] = 0
  <2>1. rate[j] = 0 /\ waitTime[j] = 0
    BY <1>2, <1>8 DEF ScheduleInv, WaitsOK
  <2> QED
    BY <1>1, <1>4, <2>1
<1>9. \A j \in Jobs : passed'[j] * rate'[j] <= waitTime'[j]
  BY <1>4, <1>6
<1> QED
  BY <1>1, <1>3, <1>5, <1>7, <1>8, <1>9 DEF WaitsOK, ScheduleInv

\* A batch that goes takes its waits along, and the others keep theirs.
LEMMA ForgetKeepsWaits ==
  ASSUME ScheduleInv, ForgetGoneBatches, d_batches' \subseteq d_batches,
         \A j \in d_batches' : d_tasks'[j] = d_tasks[j]
  PROVE  WaitsOK' /\ RecentGrows'
<1>1. /\ rate \in [Jobs -> 0 .. MaxRate]
      /\ waitTime \in [Jobs -> Nat]
      /\ passed \in [Jobs -> Nat]
      /\ \A j \in Jobs : passed[j] * rate[j] <= waitTime[j]
      /\ \A j \in Jobs : j \notin Waiting => passed[j] = 0
  BY DEF ScheduleInv, WaitsOK
<1>2. \A j \in Jobs : /\ rate'[j] = IF j \in d_batches' THEN rate[j] ELSE 0
                      /\ waitTime'[j] = IF j \in d_batches' THEN waitTime[j] ELSE 0
                      /\ passed'[j] = IF j \in d_batches' THEN passed[j] ELSE 0
  BY DEF ForgetGoneBatches
<1>3. 0 \in 0 .. MaxRate
  BY ScheduleAssumption
<1>4. /\ rate' \in [Jobs -> 0 .. MaxRate]
      /\ waitTime' \in [Jobs -> Nat]
      /\ passed' \in [Jobs -> Nat]
  BY <1>1, <1>3 DEF ForgetGoneBatches
<1>5. RecentGrows'
  <2>1. \A j \in Jobs : waitTime'[j] <= waitTime[j]
    BY <1>1, <1>2
  <2>2. \A j \in Jobs : passed'[j] = 0 \/ (passed'[j] = passed[j] /\ rate'[j] = rate[j])
    BY <1>2
  <2> QED
    BY <1>4, <2>1, <2>2, DropKeepsRecent DEF ScheduleInv
<1>6. \A j \in Jobs : passed'[j] * rate'[j] <= waitTime'[j]
  BY <1>1, <1>2
<1>7. ASSUME NEW j \in Jobs, j \notin Waiting' PROVE passed'[j] = 0
  <2>1. CASE j \in d_batches'
    <3>1. j \notin Waiting
      BY <1>7, <2>1 DEF Waiting
    <3> QED
      BY <1>1, <1>2, <3>1
  <2>2. CASE j \notin d_batches'
    BY <1>2, <2>2
  <2> QED
    BY <2>1, <2>2
<1> QED
  BY <1>2, <1>4, <1>5, <1>6, <1>7 DEF WaitsOK

\* Every other operation leaves the waits alone.
LEMMA UnchangedKeepsWaits ==
  ASSUME ScheduleInv, UNCHANGED batchVars, d_batches' = d_batches, Waiting \subseteq Waiting'
  PROVE  WaitsOK' /\ RecentGrows'
<1>1. rate' = rate /\ waitTime' = waitTime /\ passed' = passed
  BY DEF batchVars
<1> QED
  BY <1>1 DEF ScheduleInv, WaitsOK, RecentGrows, Recent, Others

\* A task that is put back waits, and every other one still does.
LEMMA PushTaskKeepsWaits ==
  ASSUME ScheduleInv, NEW t \in Tasks, SchedulePushTask(t)
  PROVE  WaitsOK' /\ RecentGrows'
<1>1. PushTask(t) /\ UNCHANGED batchVars
  BY DEF SchedulePushTask
<1>2. d_tasks \in [Jobs -> Seq(Tasks)] /\ Group[t] \in Jobs
  BY TaskAssumption DEF ScheduleInv, QueueInv, QueueTypeOK
<1>3. d_batches' = d_batches /\ Waiting \subseteq Waiting'
  <2>1. CASE Group[t] \notin d_batches
    BY <1>1, <2>1 DEF PushTask, queueVars, Waiting
  <2>2. CASE Group[t] \in d_batches
    <3>1. /\ d_tasks' = [d_tasks EXCEPT ![Group[t]] = Append(d_tasks[Group[t]], t)]
          /\ d_batches' = d_batches
      BY <1>1, <2>2 DEF PushTask
    <3>2. Append(d_tasks[Group[t]], t) # <<>>
      BY <1>2
    <3> QED
      BY <1>2, <3>1, <3>2 DEF Waiting
  <2> QED
    BY <2>1, <2>2
<1> QED
  BY <1>1, <1>3, UnchangedKeepsWaits

\* The last task of a batch takes its waits along.
LEMMA FinishedKeepsWaits ==
  ASSUME ScheduleInv, NEW t \in Tasks, ScheduleFinished(t)
  PROVE  WaitsOK' /\ RecentGrows'
<1>1. Finished(t) /\ ForgetGoneBatches
  BY DEF ScheduleFinished
<1>2. d_tasks \in [Jobs -> Seq(Tasks)]
  BY DEF ScheduleInv, QueueInv, QueueTypeOK
<1>3. d_batches' \subseteq d_batches /\ \A j \in d_batches' : d_tasks'[j] = d_tasks[j]
  BY <1>1, <1>2 DEF Finished, Remove
<1> QED
  BY <1>1, <1>3, ForgetKeepsWaits

\* A job that leaves takes its waits along.
LEMMA RemoveKeepsWaits ==
  ASSUME ScheduleInv, NEW j \in Jobs, ScheduleRemove(j)
  PROVE  WaitsOK' /\ RecentGrows'
<1>1. Remove(j) /\ ForgetGoneBatches
  BY DEF ScheduleRemove
<1>2. d_tasks \in [Jobs -> Seq(Tasks)]
  BY DEF ScheduleInv, QueueInv, QueueTypeOK
<1>3. d_batches' \subseteq d_batches /\ \A k \in d_batches' : d_tasks'[k] = d_tasks[k]
  BY <1>1, <1>2 DEF Remove
<1> QED
  BY <1>1, <1>3, ForgetKeepsWaits

\* In the initial states no batch waits.
LEMMA ScheduleInitInv == ScheduleInit => ScheduleInv
<1> SUFFICES ASSUME ScheduleInit PROVE ScheduleInv
  OBVIOUS
<1>1. QueueInv
  BY QueueInitInv DEF ScheduleInit
<1>2. \A j \in Jobs : rate[j] = 0 /\ waitTime[j] = 0 /\ passed[j] = 0
  BY DEF ScheduleInit
<1>3. WaitsOK
  <2>1. 0 \in 0 .. MaxRate
    BY ScheduleAssumption
  <2> QED
    BY <1>2, <2>1 DEF ScheduleInit, WaitsOK
<1>4. RecentGrows
  <2> SUFFICES ASSUME NEW j \in Jobs, NEW i \in Nat,
                      passed[j] * rate[j] > Others * MaxRate + i * rate[j]
               PROVE  FALSE
    BY DEF RecentGrows
  <2>1. Others * MaxRate \in Nat
    BY RecentFinite, ScheduleAssumption, ProductStep
  <2>2. passed[j] * rate[j] = 0 /\ i * rate[j] = 0
    BY <1>2
  <2> QED
    BY <2>1, <2>2
<1> QED
  BY <1>1, <1>3, <1>4 DEF ScheduleInv

\* Every step keeps the invariant.
LEMMA ScheduleStepInv == ScheduleInv /\ [ScheduleNext]_scheduleVars => ScheduleInv'
<1> SUFFICES ASSUME ScheduleInv, [ScheduleNext]_scheduleVars PROVE ScheduleInv'
  OBVIOUS
<1>1. QueueInv'
  BY StepIsQueueCall, QueueStepInv DEF ScheduleInv
<1>2. WaitsOK' /\ RecentGrows'
  <2>1. ASSUME NEW j \in Jobs, JobOperation(j) PROVE WaitsOK' /\ RecentGrows'
    <3>1. ASSUME NEW ts \in BatchesOf({t \in Tasks : Group[t] = j}), SchedulePushBatch(j, ts)
          PROVE  WaitsOK' /\ RecentGrows'
      BY <3>1, PushBatchKeepsWaits
    <3>2. ASSUME NEW r, ScheduleRunTime(j, r) \/ SchedulePriority(j, r)
          PROVE  WaitsOK' /\ RecentGrows'
      <4>1. UNCHANGED batchVars /\ UNCHANGED queueVars
        BY <3>2 DEF ScheduleRunTime, SchedulePriority
      <4>2. d_batches' = d_batches /\ Waiting \subseteq Waiting'
        BY <4>1 DEF queueVars, Waiting
      <4> QED
        BY <4>1, <4>2, UnchangedKeepsWaits
    <3> QED
      BY <2>1, <3>1, <3>2, PopKeepsWaits, RemoveKeepsWaits DEF JobOperation
  <2>2. CASE UNCHANGED scheduleVars
    <3>1. UNCHANGED batchVars /\ UNCHANGED queueVars
      BY <2>2 DEF scheduleVars
    <3>2. d_batches' = d_batches /\ Waiting \subseteq Waiting'
      BY <3>1 DEF queueVars, Waiting
    <3> QED
      BY <3>1, <3>2, UnchangedKeepsWaits
  <2> QED
    BY <2>1, <2>2, PushTaskKeepsWaits, FinishedKeepsWaits, PopNothingKeepsWaits DEF ScheduleNext
<1> QED
  BY <1>1, <1>2 DEF ScheduleInv

\* A batch that waits is passed over at most (n - 1) * (MaxRate / rate + 1)
\* times by those of the other n - 1 jobs before Pop serves it, however they
\* come and go (taskqueue.cc, Pop).
THEOREM NothingStarves == ScheduleSpec => []NoStarvation
<1>1. ScheduleInit => ScheduleInv
  BY ScheduleInitInv
<1>2. ScheduleInv /\ [ScheduleNext]_scheduleVars => ScheduleInv'
  BY ScheduleStepInv
<1>3. ScheduleInv => NoStarvation
  BY InvBoundsPassing
<1> QED
  BY <1>1, <1>2, <1>3, PTL DEF ScheduleSpec
(***************************************************************************)
(* The loop of Pop.                                                        *)
(***************************************************************************)

\* The first among the waiting batches with ids below n.
FirstBelow(n) == {j \in Waiting : j < n /\ \A k \in Waiting : k < n => GoesFirst(j, k)}

\* Ids and wait times are naturals.
LEMMA WaitTypes ==
  ASSUME ScheduleInv
  PROVE  /\ Waiting \subseteq d_batches /\ d_batches \subseteq Jobs /\ Jobs \subseteq Nat
         /\ \A j \in Waiting : Ticked[j] \in Nat
<1>1. d_batches \subseteq Jobs
  BY DEF ScheduleInv, QueueInv, QueueTypeOK
<1>2. ASSUME NEW j \in Jobs PROVE Ticked[j] \in Nat
  <2>1. rate[j] \in 0 .. MaxRate /\ waitTime[j] \in Nat /\ MaxRate \in Nat
    BY ScheduleAssumption DEF ScheduleInv, WaitsOK
  <2>2. Ticked[j] = waitTime[j] + rate[j]
    BY DEF Ticked
  <2> QED
    BY <2>1, <2>2
<1> QED
  BY <1>1, <1>2, ScheduleAssumption DEF Waiting

\* If a batch below n waits, one of them goes first.
LEMMA FirstExists ==
  ASSUME ScheduleInv
  PROVE  \A n \in Nat : FirstBelow(n) = {} => \A k \in Waiting : ~(k < n)
<1>t. Waiting \subseteq Nat /\ \A j \in Waiting : Ticked[j] \in Nat
  BY WaitTypes
<1> DEFINE C == {n \in Nat : FirstBelow(n) = {} => \A k \in Waiting : ~(k < n)}
<1>1. 0 \in C
  BY <1>t
<1>2. ASSUME NEW n \in Nat, n \in C PROVE n + 1 \in C
  <2>0. \A k \in Waiting : k < n + 1 <=> (k < n \/ k = n)
    BY <1>t
  <2> SUFFICES ASSUME NEW k \in Waiting, k < n + 1 PROVE FirstBelow(n + 1) # {}
    OBVIOUS
  <2>1. CASE n \notin Waiting
    <3>1. FirstBelow(n + 1) = FirstBelow(n) /\ k < n
      BY <2>0, <2>1 DEF FirstBelow
    <3> QED
      BY <1>2, <3>1
  <2>2. CASE n \in Waiting /\ FirstBelow(n) = {}
    <3>1. \A l \in Waiting : l < n + 1 => l = n
      BY <1>2, <2>0, <2>2
    <3>2. GoesFirst(n, n)
      BY <1>t, <2>2 DEF GoesFirst
    <3> QED
      BY <2>0, <2>2, <3>1, <3>2 DEF FirstBelow
  <2>3. CASE n \in Waiting /\ FirstBelow(n) # {}
    <3>1. PICK b \in Waiting : b < n /\ \A l \in Waiting : l < n => GoesFirst(b, l)
      BY <2>3 DEF FirstBelow
    <3>2. CASE Ticked[n] > Ticked[b]
      <4>1. \A l \in Waiting : l < n + 1 => GoesFirst(n, l)
        BY <1>t, <2>0, <2>3, <3>1, <3>2 DEF GoesFirst
      <4> QED
        BY <2>0, <2>3, <4>1 DEF FirstBelow
    <3>3. CASE ~(Ticked[n] > Ticked[b])
      <4>1. GoesFirst(b, n)
        BY <1>t, <2>3, <3>1, <3>3 DEF GoesFirst
      <4> QED
        BY <2>0, <3>1, <4>1 DEF FirstBelow
    <3> QED
      BY <3>2, <3>3
  <2> QED
    BY <2>1, <2>2, <2>3
<1>3. Nat \subseteq C
  <2> HIDE DEF C
  <2> QED
    BY <1>1, <1>2, NatSetInduction
<1> QED
  BY <1>3

\* What goes first below n + 1, from what goes first below n.
LEMMA FirstOfMore ==
  ASSUME ScheduleInv, NEW n \in Nat
  PROVE  FirstBelow(n + 1) =
           IF n \in Waiting /\ \A k \in FirstBelow(n) : Ticked[n] > Ticked[k]
           THEN {n}
           ELSE FirstBelow(n)
<1>t. Waiting \subseteq Nat /\ \A j \in Waiting : Ticked[j] \in Nat
  BY WaitTypes
<1>0. \A k \in Waiting : k < n + 1 <=> (k < n \/ k = n)
  BY <1>t
<1>1. CASE n \notin Waiting
  BY <1>0, <1>1 DEF FirstBelow
<1>2. CASE n \in Waiting /\ \A k \in FirstBelow(n) : Ticked[n] > Ticked[k]
  <2>1. \A l \in Waiting : l < n => GoesFirst(n, l) /\ ~GoesFirst(l, n)
    <3> SUFFICES ASSUME NEW l \in Waiting, l < n PROVE GoesFirst(n, l) /\ ~GoesFirst(l, n)
      OBVIOUS
    <3>1. PICK b \in FirstBelow(n) : TRUE
      BY FirstExists
    <3>2. b \in Waiting /\ GoesFirst(b, l) /\ Ticked[n] > Ticked[b]
      BY <1>2, <3>1 DEF FirstBelow
    <3> QED
      BY <1>t, <1>2, <3>2 DEF GoesFirst
  <2>2. GoesFirst(n, n)
    BY <1>t, <1>2 DEF GoesFirst
  <2> QED
    BY <1>0, <1>2, <2>1, <2>2 DEF FirstBelow
<1>3. ASSUME n \in Waiting, NEW b \in FirstBelow(n), ~(Ticked[n] > Ticked[b])
      PROVE  FirstBelow(n + 1) = FirstBelow(n)
  <2>1. b \in Waiting /\ b < n /\ \A l \in Waiting : l < n => GoesFirst(b, l)
    BY <1>3 DEF FirstBelow
  <2>2. GoesFirst(b, n) /\ ~GoesFirst(n, b)
    BY <1>t, <1>3, <2>1 DEF GoesFirst
  <2>3. \A j \in FirstBelow(n) : GoesFirst(j, n)
    BY <1>t, <1>3, <2>1, <2>2 DEF FirstBelow, GoesFirst
  <2> QED
    BY <1>0, <2>1, <2>2, <2>3 DEF FirstBelow
<1> QED
  BY <1>1, <1>2, <1>3

\* The loop finds the batch that goes first.
LEMMA LoopFindsFirst ==
  ASSUME ScheduleInv, NEW n \in Nat
  PROVE  PopLoop[n] = FirstBelow(n)
<1> DEFINE Turn(g) == [m \in Nat |->
             IF m = 0
             THEN {}
             ELSE LET best == g[m - 1]
                  IN IF m - 1 \in Waiting /\ \A k \in best : Ticked[m - 1] > Ticked[k]
                     THEN {m - 1}
                     ELSE best]
           G == [m \in Nat |-> FirstBelow(m)]
<1>1. FirstBelow(0) = {}
  BY WaitTypes DEF FirstBelow
<1>2. \A m \in Nat : m # 0 =>
        m - 1 \in Nat /\
        FirstBelow(m) = IF m - 1 \in Waiting /\ \A k \in FirstBelow(m - 1) : Ticked[m - 1] > Ticked[k]
                        THEN {m - 1}
                        ELSE FirstBelow(m - 1)
  <2> SUFFICES ASSUME NEW m \in Nat \ {0}
               PROVE  /\ m - 1 \in Nat
                      /\ FirstBelow(m) =
                           IF m - 1 \in Waiting /\ \A k \in FirstBelow(m - 1) : Ticked[m - 1] > Ticked[k]
                           THEN {m - 1}
                           ELSE FirstBelow(m - 1)
    OBVIOUS
  <2>1. m - 1 \in Nat /\ (m - 1) + 1 = m
    OBVIOUS
  <2> DEFINE l == m - 1
  <2> HIDE DEF l
  <2>2. l \in Nat /\ l + 1 = m
    BY <2>1 DEF l
  <2>3. FirstBelow(m) = IF l \in Waiting /\ \A k \in FirstBelow(l) : Ticked[l] > Ticked[k]
                        THEN {l}
                        ELSE FirstBelow(l)
    BY <2>2, FirstOfMore
  <2> QED
    BY <2>2, <2>3 DEF l
<1>3. G = Turn(G)
  BY <1>1, <1>2
<1>4. PopLoop = Turn(PopLoop)
  <2> HIDE DEF G
  <2> QED
    BY <1>3 DEF PopLoop
<1> DEFINE C == {m \in Nat : PopLoop[m] = FirstBelow(m)}
<1>5. 0 \in C
  BY <1>1, <1>4
<1>6. ASSUME NEW m \in Nat, m \in C PROVE m + 1 \in C
  <2>1. (m + 1) \in Nat /\ (m + 1) # 0 /\ (m + 1) - 1 = m
    OBVIOUS
  <2>2. PopLoop[m + 1] = IF m \in Waiting /\ \A k \in PopLoop[m] : Ticked[m] > Ticked[k]
                         THEN {m}
                         ELSE PopLoop[m]
    <3> DEFINE up == m + 1
    <3> HIDE DEF up
    <3>1. up \in Nat /\ up # 0 /\ up - 1 = m
      BY <2>1 DEF up
    <3>2. PopLoop[up] = IF up - 1 \in Waiting /\ \A k \in PopLoop[up - 1] : Ticked[up - 1] > Ticked[k]
                        THEN {up - 1}
                        ELSE PopLoop[up - 1]
      BY <1>4, <3>1
    <3>3. PopLoop[up] = IF m \in Waiting /\ \A k \in PopLoop[m] : Ticked[m] > Ticked[k]
                        THEN {m}
                        ELSE PopLoop[m]
      BY <3>1, <3>2
    <3> QED
      BY <3>3 DEF up
  <2>3. PopLoop[m] = FirstBelow(m)
    BY <1>6
  <2>4. FirstBelow(m + 1) = IF m \in Waiting /\ \A k \in FirstBelow(m) : Ticked[m] > Ticked[k]
                            THEN {m}
                            ELSE FirstBelow(m)
    BY FirstOfMore
  <2>5. PopLoop[m + 1] = FirstBelow(m + 1)
    BY <2>2, <2>3, <2>4, Zenon
  <2> QED
    BY <2>1, <2>5
<1>7. Nat \subseteq C
  <2> HIDE DEF C
  <2> QED
    BY <1>5, <1>6, NatSetInduction
<1> QED
  BY <1>7

\* The loop of Pop ends with the batch that the schedule serves (taskqueue.cc,
\* Pop), for any ids: the one that waited longest, and the one with the least id
\* among several.
THEOREM LoopServesLongest == ScheduleSpec => []ServedByLoop
<1>1. ScheduleInv => ServedByLoop
  <2> SUFFICES ASSUME ScheduleInv, NEW last \in Jobs, \A j \in d_batches : j <= last
               PROVE  {j \in Jobs : LongestWaiting(j)} = PopLoop[last + 1]
    BY DEF ServedByLoop
  <2>1. last + 1 \in Nat /\ \A j \in Waiting : j \in Jobs /\ j < last + 1
    BY WaitTypes
  <2>2. {j \in Jobs : LongestWaiting(j)} = FirstBelow(last + 1)
    BY <2>1 DEF LongestWaiting, FirstBelow
  <2> QED
    BY <2>1, <2>2, LoopFindsFirst
<1> QED
  BY <1>1, ScheduleInitInv, ScheduleStepInv, PTL DEF ScheduleSpec

(***************************************************************************)
(* Run times.                                                              *)
(***************************************************************************)

\* What is known of the lists of run times.
RunTimesOK ==
  \A j \in Jobs :
    lastRunTimes[j] \in Seq(RunTimes) /\ Len(lastRunTimes[j]) <= RunTimeEstimation

\* With an estimate over some run times, none is added to a full list.
LEMMA RunTimesStep ==
  ASSUME RunTimeEstimation # 0, lastRunTimes \in [Jobs -> Seq(RunTimes)], RunTimesOK,
         [ScheduleNext]_scheduleVars
  PROVE  lastRunTimes' \in [Jobs -> Seq(RunTimes)] /\ RunTimesOK'
<1>1. KeptRunTimes = RunTimeEstimation - 1 /\ KeptRunTimes \in Nat
  BY RunTimeAssumption DEF KeptRunTimes
<1>2. ASSUME NEW j \in Jobs, NEW r \in RunTimes, AddRunTime(j, r)
      PROVE  lastRunTimes' \in [Jobs -> Seq(RunTimes)] /\ RunTimesOK'
  <2> DEFINE s == lastRunTimes[j]
             l == Latest(s, KeptRunTimes)
  <2>1. s \in Seq(RunTimes) /\ Len(s) \in Nat
    BY LenProperties
  <2>2. l \in Seq(RunTimes) /\ Len(l) <= KeptRunTimes
    <3>1. CASE Len(s) <= KeptRunTimes
      BY <2>1, <3>1 DEF Latest
    <3>2. CASE ~(Len(s) <= KeptRunTimes)
      <4> DEFINE from == Len(s) - KeptRunTimes + 1
      <4>1. from \in 1 .. Len(s) + 1 /\ Len(s) \in from - 1 .. Len(s) /\ l = SubSeq(s, from, Len(s))
        BY <1>1, <2>1, <3>2 DEF Latest
      <4>2. l \in Seq(RunTimes) /\ Len(l) = Len(s) - from + 1
        BY <2>1, <4>1, SubSeqProperties
      <4> QED
        BY <1>1, <2>1, <4>2
    <3> QED
      BY <3>1, <3>2
  <2> HIDE DEF l
  <2>3. Append(l, r) \in Seq(RunTimes) /\ Len(Append(l, r)) = Len(l) + 1 /\ Len(l) \in Nat
    BY <2>2, AppendProperties, LenProperties
  <2>4. Len(Append(l, r)) <= RunTimeEstimation
    BY <1>1, <2>2, <2>3, RunTimeAssumption
  <2>5. lastRunTimes' = [lastRunTimes EXCEPT ![j] = Append(l, r)]
    BY <1>2 DEF AddRunTime, l
  <2> QED
    BY <2>3, <2>4, <2>5 DEF RunTimesOK
<1>3. ASSUME NEW j \in Jobs, ForgetRunTimes(j)
      PROVE  lastRunTimes' \in [Jobs -> Seq(RunTimes)] /\ RunTimesOK'
  <2>1. <<>> \in Seq(RunTimes) /\ Len(<<>>) = 0 /\ 0 <= RunTimeEstimation
    BY EmptySeq, RunTimeAssumption
  <2> QED
    BY <1>3, <2>1 DEF ForgetRunTimes, RunTimesOK
<1>4. ASSUME UNCHANGED lastRunTimes
      PROVE  lastRunTimes' \in [Jobs -> Seq(RunTimes)] /\ RunTimesOK'
  BY <1>4 DEF RunTimesOK
<1>5. ASSUME NEW j \in Jobs, JobOperation(j)
      PROVE  lastRunTimes' \in [Jobs -> Seq(RunTimes)] /\ RunTimesOK'
  BY <1>2, <1>3, <1>4, <1>5 DEF JobOperation, SchedulePushBatch, SchedulePop,
     SchedulePopAndPushTask, ScheduleRemove, ScheduleRunTime, SchedulePriority
<1>6. CASE (\E t \in Tasks : SchedulePushTask(t) \/ ScheduleFinished(t)) \/ SchedulePopNothing
           \/ UNCHANGED scheduleVars
  BY <1>4, <1>6 DEF SchedulePushTask, ScheduleFinished, SchedulePopNothing, scheduleVars
<1> QED
  BY <1>5, <1>6 DEF ScheduleNext

\* The run time of a job is estimated over no more tasks than are configured
\* (job.cc, OnWorkerDeactivated), if any are: over 0 tasks the number of run times
\* to keep underflows, and the list grows.
THEOREM EstimateIsOverFew ==
  ASSUME RunTimeEstimation # 0
  PROVE  ScheduleSpec => []EstimateOverFew
<1> DEFINE I == lastRunTimes \in [Jobs -> Seq(RunTimes)] /\ RunTimesOK
<1>1. ScheduleInit => I
  <2>1. <<>> \in Seq(RunTimes) /\ Len(<<>>) = 0 /\ 0 <= RunTimeEstimation
    BY EmptySeq, RunTimeAssumption
  <2> QED
    BY <2>1 DEF ScheduleInit, RunTimeInit, RunTimesOK
<1>2. I /\ [ScheduleNext]_scheduleVars => I'
  BY RunTimesStep
<1>3. I => EstimateOverFew
  BY RunTimeAssumption DEF RunTimesOK, EstimateOverFew
<1> QED
  BY <1>1, <1>2, <1>3, PTL DEF ScheduleSpec

==============================================================================
