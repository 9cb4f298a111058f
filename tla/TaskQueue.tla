------------------------------ MODULE TaskQueue ------------------------------
(***************************************************************************)
(* The task queue of the master (taskqueue.cc, batch.cc): per job at most  *)
(* one batch of waiting tasks, the client ids of the tasks of that job     *)
(* that are running, the number of waiting tasks, and the counter of       *)
(* unique task ids.                                                        *)
(*                                                                         *)
(* Every operation below is one call of a TaskQueue method.  Which batch   *)
(* Pop serves follows from wait times; here any non-empty batch may be     *)
(* served.                                                                 *)
(***************************************************************************)
EXTENDS Task, Sequences, FiniteSets, Functions

CONSTANT MaxBatch  \* bound: tasks in one batch message

ASSUME TaskQueueAssumption ==
  /\ IsFiniteSet(Jobs)  \* they are descriptors
  /\ MaxBatch \in Nat

VARIABLES
  d_batches,   \* the jobs that have a batch (the keys of the map)
  d_tasks,     \* the waiting tasks of each batch, <<>> without a batch
  d_timeout,   \* does the batch limit the run time of its tasks?
  d_running,   \* the ids of each job's running tasks, {} without a batch
  d_size,      \* size_t d_size
  s_uniqueId,  \* the next unique id
  uniqueid     \* the unique id in each task message, 0 when it has none

queueVars ==
  <<d_batches, d_tasks, d_timeout, d_running, d_size, s_uniqueId, uniqueid>>

QueueTypeOK ==
  /\ d_batches \in SUBSET Jobs
  /\ d_tasks \in [Jobs -> Seq(Tasks)]
  /\ d_timeout \in [Jobs -> BOOLEAN]
  /\ d_running \in [Jobs -> SUBSET TaskIds]
  /\ d_size \in Int
  /\ s_uniqueId \in 1 .. MaxUid
  /\ uniqueid \in [Tasks -> 0 .. MaxUid]

QueueInit ==
  /\ d_batches = {}
  /\ d_tasks = [j \in Jobs |-> <<>>]
  /\ d_timeout = [j \in Jobs |-> FALSE]
  /\ d_running = [j \in Jobs |-> {}]
  /\ d_size = 0
  /\ s_uniqueId = 1
  /\ uniqueid = [t \in Tasks |-> 0]

\* The batch messages that consist of different tasks of a set.
BatchesOf(set) ==
  {ts \in UNION {[1 .. n -> set] : n \in 0 .. MaxBatch} : IsInjective(ts)}

\* Faulty: the counter runs on at the maximum.
UniqueIdWithoutWrap(n) == s_uniqueId + n

\* Faulty: the counter wraps to 0, as an unsigned integer does by itself.
UniqueIdThroughZero(n) == (s_uniqueId + n) % (MaxUid + 1)

\* The unique id that is handed out n calls of NextUniqueId from now.
UniqueIdAfter(n) == ((s_uniqueId - 1 + n) % MaxUid) + 1

\* SetUniqueId(NextUniqueId()) on every task of ts in turn.
SetUniqueIds(ts) ==
  /\ uniqueid' = [t \in Tasks |->
       IF t \in Range(ts)
       THEN UniqueIdAfter((CHOOSE i \in DOMAIN ts : ts[i] = t) - 1)
       ELSE uniqueid[t]]
  /\ s_uniqueId' = UniqueIdAfter(Len(ts))

\* Faulty: a batch that exists takes the time limit of the latest message.
PushBatchAnew(g, ts, timed) ==
  IF ts = <<>>
  THEN UNCHANGED queueVars
  ELSE /\ d_batches' = d_batches \cup {g}
       /\ d_tasks' = [d_tasks EXCEPT ![g] = @ \o ts]
       /\ d_timeout' = [d_timeout EXCEPT ![g] = timed]
       /\ d_running' = [d_running EXCEPT ![g] = @ \ {TaskId[t] : t \in Range(ts)}]
       /\ d_size' = d_size + Len(ts)
       /\ SetUniqueIds(ts)

\* Push(id, bias, priority, timeout, batch).  A batch that exists keeps the
\* time limit it was made with; an empty message is ignored.
PushBatch(g, ts, timed) ==
  IF ts = <<>>
  THEN UNCHANGED queueVars
  ELSE /\ d_batches' = d_batches \cup {g}
       /\ d_tasks' = [d_tasks EXCEPT ![g] = @ \o ts]
       /\ d_timeout' = [d_timeout EXCEPT ![g] = IF g \in d_batches THEN @ ELSE timed]
       /\ d_running' = [d_running EXCEPT ![g] = @ \ {TaskId[t] : t \in Range(ts)}]
       /\ d_size' = d_size + Len(ts)
       /\ SetUniqueIds(ts)

\* Faulty: the id of the task stays among the running ones.
PushTaskStillRunning(t) ==
  IF Group[t] \notin d_batches
  THEN UNCHANGED queueVars
  ELSE /\ d_tasks' = [d_tasks EXCEPT ![Group[t]] = Append(@, t)]
       /\ d_size' = d_size + 1
       /\ SetUniqueIds(<<t>>)
       /\ UNCHANGED <<d_batches, d_timeout, d_running>>

\* Faulty: a task is put back only into a batch that has waiting tasks.
PushTaskUnlessEmpty(t) ==
  LET g == Group[t]
  IN IF d_tasks[g] = <<>>
     THEN UNCHANGED queueVars
     ELSE /\ d_tasks' = [d_tasks EXCEPT ![g] = Append(@, t)]
          /\ d_running' = [d_running EXCEPT ![g] = @ \ {TaskId[t]}]
          /\ d_size' = d_size + 1
          /\ SetUniqueIds(<<t>>)
          /\ UNCHANGED <<d_batches, d_timeout>>

\* Faulty: the task keeps the unique id of its last run.
PushTaskKeepsId(t) ==
  LET g == Group[t]
  IN IF g \notin d_batches
     THEN UNCHANGED queueVars
     ELSE /\ d_tasks' = [d_tasks EXCEPT ![g] = Append(@, t)]
          /\ d_running' = [d_running EXCEPT ![g] = @ \ {TaskId[t]}]
          /\ d_size' = d_size + 1
          /\ UNCHANGED <<d_batches, d_timeout, s_uniqueId, uniqueid>>

\* Push(task): back into the batch of its job, dropped if there is none.
PushTask(t) ==
  LET g == Group[t]
  IN IF g \notin d_batches
     THEN UNCHANGED queueVars
     ELSE /\ d_tasks' = [d_tasks EXCEPT ![g] = Append(@, t)]
          /\ d_running' = [d_running EXCEPT ![g] = @ \ {TaskId[t]}]
          /\ d_size' = d_size + 1
          /\ SetUniqueIds(<<t>>)
          /\ UNCHANGED <<d_batches, d_timeout>>

\* Faulty: the task is read but stays at the front of the batch.
PopWithoutRemoval(g) ==
  /\ d_tasks[g] # <<>>
  /\ d_running' = [d_running EXCEPT ![g] = @ \cup {TaskId[Head(d_tasks[g])]}]
  /\ d_size' = d_size - 1
  /\ UNCHANGED <<d_batches, d_tasks, d_timeout, s_uniqueId, uniqueid>>

\* Pop serving the batch of job g.
Pop(g) ==
  /\ d_tasks[g] # <<>>
  /\ d_tasks' = [d_tasks EXCEPT ![g] = Tail(@)]
  /\ d_running' = [d_running EXCEPT ![g] = @ \cup {TaskId[Head(d_tasks[g])]}]
  /\ d_size' = d_size - 1
  /\ UNCHANGED <<d_batches, d_timeout, s_uniqueId, uniqueid>>

\* Pop serving the batch of job g, and Push of the popped task at once: what
\* the dispatcher does when the task could not be sent to a worker.
PopAndPushTask(g) ==
  LET t == Head(d_tasks[g])
  IN /\ d_tasks[g] # <<>>
     /\ d_tasks' = [d_tasks EXCEPT ![g] = Append(Tail(@), t)]
     /\ d_running' = [d_running EXCEPT ![g] = @ \ {TaskId[t]}]
     /\ SetUniqueIds(<<t>>)
     /\ UNCHANGED <<d_batches, d_timeout, d_size>>

\* Faulty: the number of waiting tasks is not adjusted.
RemoveWithoutCount(g) ==
  /\ d_batches' = d_batches \ {g}
  /\ d_tasks' = [d_tasks EXCEPT ![g] = <<>>]
  /\ d_timeout' = [d_timeout EXCEPT ![g] = FALSE]
  /\ d_running' = [d_running EXCEPT ![g] = {}]
  /\ UNCHANGED <<d_size, s_uniqueId, uniqueid>>

\* Remove(id): the batch goes with its waiting tasks and running ids.
Remove(g) ==
  /\ d_batches' = d_batches \ {g}
  /\ d_tasks' = [d_tasks EXCEPT ![g] = <<>>]
  /\ d_timeout' = [d_timeout EXCEPT ![g] = FALSE]
  /\ d_running' = [d_running EXCEPT ![g] = {}]
  /\ d_size' = d_size - Len(d_tasks[g])
  /\ UNCHANGED <<s_uniqueId, uniqueid>>

\* Faulty: the batch stays when its last task is finished.
FinishedAndBatchStays(t) ==
  /\ d_running' = [d_running EXCEPT ![Group[t]] = @ \ {TaskId[t]}]
  /\ UNCHANGED <<d_batches, d_tasks, d_timeout, d_size, s_uniqueId, uniqueid>>

\* Faulty: the batch goes although tasks of it are waiting.
FinishedDespiteWaiting(t) ==
  LET left == d_running[Group[t]] \ {TaskId[t]}
  IN IF left = {}
     THEN Remove(Group[t])
     ELSE /\ d_running' = [d_running EXCEPT ![Group[t]] = left]
          /\ UNCHANGED <<d_batches, d_tasks, d_timeout, d_size, s_uniqueId, uniqueid>>

\* Finished(task): the last task of a batch takes the batch with it.
Finished(t) ==
  LET g == Group[t]
      left == d_running[g] \ {TaskId[t]}
  IN IF d_tasks[g] = <<>> /\ left = {}
     THEN Remove(g)
     ELSE /\ d_running' = [d_running EXCEPT ![g] = left]
          /\ UNCHANGED <<d_batches, d_tasks, d_timeout, d_size, s_uniqueId, uniqueid>>

(***************************************************************************)
(* The queue on its own, called in any order with any task.                *)
(***************************************************************************)
QueueNext ==
  \/ \E g \in Jobs, timed \in BOOLEAN :
       \E ts \in BatchesOf({t \in Tasks : Group[t] = g}) : PushBatch(g, ts, timed)
  \/ \E t \in Tasks : PushTask(t) \/ Finished(t)
  \/ \E g \in Jobs : Pop(g) \/ PopAndPushTask(g) \/ Remove(g)

QueueSpec == QueueInit /\ [][QueueNext]_queueVars

Queued == UNION {Range(d_tasks[j]) : j \in Jobs}

\* A batch holds tasks of its own job only.
QueueGroups == \A j \in Jobs : \A t \in Range(d_tasks[j]) : Group[t] = j

\* A batch exists only as long as it has a waiting or a running task, and
\* without a batch nothing is waiting or running: Finished never leaves an
\* empty batch behind, whose stale priority and time limit the next batch
\* message of the job would then get (taskqueue.cc, Push and Finished).
NoZombieBatch ==
  \A j \in Jobs : j \in d_batches <=> (d_tasks[j] # <<>> \/ d_running[j] # {})

\* d_size, kept by hand in four methods and logged as the queue length, is
\* the number of waiting tasks.
SizeMatches == d_size = SumFunction([j \in Jobs |-> Len(d_tasks[j])])

\* Every waiting task carries a unique id.  0 stands for a task without one,
\* so the counter has to skip it when it wraps.
WaitingAreNumbered == \A t \in Queued : uniqueid[t] # 0

==============================================================================
