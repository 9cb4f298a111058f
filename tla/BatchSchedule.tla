---------------------------- MODULE BatchSchedule ----------------------------
(***************************************************************************)
(* Which batch the task queue serves (TaskQueue::Pop, batch.cc).  A batch  *)
(* that waits collects wait time by its rate, priority / bias, at every    *)
(* call of Pop; the batch with the longest wait time is served and starts  *)
(* from 0.  Priority and bias are those its job had when the batch was     *)
(* made.                                                                   *)
(*                                                                         *)
(* Rates and wait times are doubles in the code; here they are numbers of  *)
(* 1/Unit, with Unit such that the rates are whole.                        *)
(***************************************************************************)
EXTENDS TaskQueue, JobPriority, RunTimeEstimate

CONSTANTS
  Unit,    \* the denominator of the rates
  MaxRate  \* bound: the greatest rate of a batch

ASSUME ScheduleAssumption ==
  /\ Jobs \subseteq Nat
  /\ IsFiniteSet(Jobs)
  /\ Unit \in Nat \ {0}
  /\ MaxRate \in Nat

VARIABLES
  rate,      \* Batch::Data::priority / Batch::Data::bias, 0 without a batch
  waitTime,  \* Batch::Data::waitTime, 0 without a batch
  passed     \* how often Pop served others since the batch waits for it

batchVars == <<rate, waitTime, passed>>
scheduleVars == <<queueVars, priority, lastRunTimes, batchVars>>

ScheduleInit ==
  /\ QueueInit
  /\ PriorityInit
  /\ RunTimeInit
  /\ rate = [j \in Jobs |-> 0]
  /\ waitTime = [j \in Jobs |-> 0]
  /\ passed = [j \in Jobs |-> 0]

\* The rate of a batch that job j makes now.  Without an average run time the
\* bias is 1.
RateOf(j) ==
  LET average == AverageRunTime(j)
  IN IF average.sum = 0
     THEN Unit * priority[j]
     ELSE (Unit * priority[j] * average.num) \div average.sum

-----------------------------------------------------------------------------
(* Choosing a batch *)

Waiting == {j \in d_batches : d_tasks[j] # <<>>}

\* Wait() on every batch, also on those without a waiting task.
Ticked == [j \in Jobs |-> waitTime[j] + rate[j]]

\* Batch j has waited longer than k, or as long and has the lesser id.
GoesFirst(j, k) == Ticked[k] < Ticked[j] \/ (Ticked[k] = Ticked[j] /\ j <= k)

\* Faulty: also batches without a waiting task compete.
LongestOfAll(j) == j \in d_batches /\ \A k \in d_batches : GoesFirst(j, k)

\* Pop serves the batch with the longest wait time among those with a waiting
\* task, and the least id among several.
LongestWaiting(j) == j \in Waiting /\ \A k \in Waiting : GoesFirst(j, k)

\* The batch that the loop of Pop has chosen, if any, after those with an id
\* below n: it goes through the batches by increasing id and takes one with a
\* waiting task if it has none or one with a shorter wait time.
PopLoop[n \in Nat] ==
  IF n = 0
  THEN {}
  ELSE LET best == PopLoop[n - 1]
       IN IF n - 1 \in Waiting /\ \A k \in best : Ticked[n - 1] > Ticked[k]
          THEN {n - 1}
          ELSE best

\* Faulty: the wait time of the batch that is served runs on.
WaitRunsOn(j) ==
  /\ waitTime' = Ticked
  /\ passed' = [k \in Jobs |-> IF k \in Waiting \ {j} THEN passed[k] + 1 ELSE 0]
  /\ UNCHANGED rate

\* The wait times after Pop served batch j.
WaitReset(j) ==
  /\ waitTime' = [Ticked EXCEPT ![j] = 0]
  /\ passed' = [k \in Jobs |-> IF k \in Waiting \ {j} THEN passed[k] + 1 ELSE 0]
  /\ UNCHANGED rate

\* A batch that is gone leaves nothing behind.
ForgetGoneBatches ==
  /\ rate' = [j \in Jobs |-> IF j \in d_batches' THEN rate[j] ELSE 0]
  /\ waitTime' = [j \in Jobs |-> IF j \in d_batches' THEN waitTime[j] ELSE 0]
  /\ passed' = [j \in Jobs |-> IF j \in d_batches' THEN passed[j] ELSE 0]

-----------------------------------------------------------------------------
(* Operations *)

\* Push(id, bias, priority, timeout, batch): a batch that exists keeps its
\* rate and wait time, a new one starts from 0 with the rate of its job.
SchedulePushBatch(j, ts) ==
  /\ RateOf(j) \in 0 .. MaxRate
  /\ PushBatch(j, ts, FALSE)
  /\ rate' = IF ts = <<>> \/ j \in d_batches THEN rate ELSE [rate EXCEPT ![j] = RateOf(j)]
  /\ UNCHANGED <<priority, lastRunTimes, waitTime, passed>>

\* Pop that serves batch j.
SchedulePop(j) ==
  /\ LongestWaiting(j)
  /\ Pop(j)
  /\ WaitReset(j)
  /\ UNCHANGED <<priority, lastRunTimes>>

\* Pop that serves batch j, and Push of the popped task: it could not be sent.
SchedulePopAndPushTask(j) ==
  /\ LongestWaiting(j)
  /\ PopAndPushTask(j)
  /\ WaitReset(j)
  /\ UNCHANGED <<priority, lastRunTimes>>

\* Pop that finds none: the wait times go up all the same.
SchedulePopNothing ==
  /\ Waiting = {}
  /\ waitTime' = Ticked
  /\ UNCHANGED <<queueVars, priority, lastRunTimes, rate, passed>>

\* Push(task).
SchedulePushTask(t) ==
  /\ PushTask(t)
  /\ UNCHANGED <<priority, lastRunTimes, batchVars>>

\* Finished(task): the last task of a batch takes its wait time along.
ScheduleFinished(t) ==
  /\ Finished(t)
  /\ ForgetGoneBatches
  /\ UNCHANGED <<priority, lastRunTimes>>

\* The job disconnects, and its descriptor is free for a new one.
ScheduleRemove(j) ==
  /\ Remove(j)
  /\ ForgetGoneBatches
  /\ DefaultPriorityOf(j)
  /\ ForgetRunTimes(j)

\* A task of the job ended: only batches to come are affected.
ScheduleRunTime(j, r) ==
  /\ AddRunTime(j, r)
  /\ UNCHANGED <<queueVars, priority, batchVars>>

\* The priority of a job changes; a batch of the job keeps its rate.
SchedulePriority(j, p) ==
  /\ SetPriority(j, p)
  /\ UNCHANGED <<queueVars, lastRunTimes, batchVars>>

JobOperation(j) ==
  \/ \E ts \in BatchesOf({t \in Tasks : Group[t] = j}) : SchedulePushBatch(j, ts)
  \/ SchedulePop(j)
  \/ SchedulePopAndPushTask(j)
  \/ ScheduleRemove(j)
  \/ \E r \in RunTimes : ScheduleRunTime(j, r)
  \/ \E p \in Priorities : SchedulePriority(j, p)

ScheduleNext ==
  \/ \E j \in Jobs : JobOperation(j)
  \/ \E t \in Tasks : SchedulePushTask(t) \/ ScheduleFinished(t)
  \/ SchedulePopNothing

ScheduleSpec == ScheduleInit /\ [][ScheduleNext]_scheduleVars

-----------------------------------------------------------------------------
\* A waiting batch is passed over only so often before it is served, whatever
\* the others collected while they had no task and however they come and go:
\* MaxRate / rate + 1 times for each of the others, and for ever if its rate
\* is 0 (taskqueue.cc, Pop).
NoStarvation ==
  \A j \in Waiting :
    passed[j] * rate[j] <= (Cardinality(Jobs) - 1) * (MaxRate + rate[j])

\* Pop serves the batch that its loop ends with and no other, and serves one
\* whenever a task is waiting (taskqueue.cc, Pop).
ServedByLoop ==
  \A last \in Jobs : (\A j \in d_batches : j <= last) =>
    {j \in Jobs : LongestWaiting(j)} = PopLoop[last + 1]

==============================================================================
