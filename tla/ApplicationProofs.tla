-------------------------- MODULE ApplicationProofs --------------------------
(***************************************************************************)
(* Theorems about the whole master (Application, Spec), for any jobs,      *)
(* tasks and finite set of workers, whatever Send returns and however late *)
(* answers are: it uses the task queue and the worker manager as they may  *)
(* be used, loses no wake-up of the dispatcher, and keeps nothing waiting  *)
(* or running for a job that is gone.                                      *)
(*                                                                         *)
(* Then what happens to tasks, if sends succeed and clients tell their     *)
(* tasks apart: each is in one place, is lost by no crash, failure or      *)
(* time-out, and is answered by the worker that has it.                    *)
(***************************************************************************)
EXTENDS Application, TaskQueueProofs, WorkerManagerProofs

\* The types of what Application adds to its components.
RestTypeOK ==
  /\ failures \in [Tasks -> Nat]
  /\ dispatch \in {"off", "pending", "running"}
  /\ idleTimer \in BOOLEAN
  /\ executing \in [Workers -> SUBSET Messages]
  /\ wire \in [Workers -> Seq(Answers)]
  /\ awaiting \in SUBSET Tasks

\* A job with a batch or with an active worker is connected.
JobsPresent ==
  /\ d_batches \subseteq d_jobs
  /\ \A w \in Workers : active[w] => Group[task[w]] \in d_jobs

\* The inductive invariant.
AppInv ==
  /\ QueueInv
  /\ WorkerInv
  /\ JobTypeOK
  /\ RestTypeOK
  /\ JobWorkerLink
  /\ JobsPresent
  /\ NoLostWakeup

(***************************************************************************)
(* The application and the task queue.                                     *)
(***************************************************************************)

\* Every step of the application is a call of the task queue, or leaves the
\* queue alone.
LEMMA StepIsQueueStep == AppInv /\ [Next]_vars => [QueueNext]_queueVars
<1> SUFFICES ASSUME AppInv, [Next]_vars PROVE [QueueNext]_queueVars
  OBVIOUS
<1>0. /\ \A w \in Workers : active[w] => task[w] \in Tasks
      /\ \A w \in Workers : armed[w] => active[w]
  BY DEF AppInv, WorkerInv, ActiveHasTask, TimerOnlyWhenActive
<1>1. ASSUME NEW t \in Tasks, PushTask(t) \/ Finished(t) PROVE QueueNext
  BY <1>1 DEF QueueNext
<1>2. ASSUME NEW g \in Jobs, Pop(g) \/ PopAndPushTask(g) \/ Remove(g) PROVE QueueNext
  BY <1>2 DEF QueueNext
<1>3. ASSUME NEW w \in Workers, OnWorkerClosed(w) PROVE [QueueNext]_queueVars
  BY <1>0, <1>1, <1>3 DEF OnWorkerClosed
<1>4. ASSUME NEW w \in Workers, NEW sent \in SendOutcomes, OnWorkerTimeout(w, sent)
      PROVE  [QueueNext]_queueVars
  BY <1>0, <1>1, <1>4 DEF OnWorkerTimeout
<1>5. ASSUME NEW w \in Workers, OnWorkerCommunication(w) PROVE [QueueNext]_queueVars
  <2> DEFINE a == Head(wire[w])
  <2>1. CASE DropAnswer(w) \/ AnswerWithoutJob(w) \/ AnswerChallenge(w, a)
    BY <2>1 DEF DropAnswer, AnswerWithoutJob, AnswerChallenge
  <2>2. CASE AnswerSuccess(w, a) \/ AnswerRejected(w, a)
    BY <1>0, <1>1, <2>2 DEF AnswerSuccess, AnswerRejected, CompleteTask, HasJob
  <2>3. CASE AnswerRescheduled(w, a)
    BY <1>0, <1>1, <2>3 DEF AnswerRescheduled, HasJob
  <2> QED
    BY <1>5, <2>1, <2>2, <2>3 DEF OnWorkerCommunication
<1>6. ASSUME NEW j \in Jobs,
             NEW ts \in BatchesOf({t \in Tasks : Group[t] = j /\ Fresh(t)}),
             HandleJobBatch(j, ts)
      PROVE  [QueueNext]_queueVars
  <2> DEFINE fresh == {t \in Tasks : Group[t] = j /\ Fresh(t)}
             mine == {t \in Tasks : Group[t] = j}
  <2>1. fresh \subseteq mine
    OBVIOUS
  <2> HIDE DEF fresh, mine
  <2>2. PICK n \in 0 .. MaxBatch : ts \in [1 .. n -> fresh]
    BY DEF BatchesOf, fresh
  <2>3. ts \in [1 .. n -> mine]
    BY <2>1, <2>2
  <2>4. IsInjective(ts)
    BY DEF BatchesOf
  <2>5. ts \in BatchesOf(mine)
    BY <2>3, <2>4 DEF BatchesOf
  <2>6. timeout[j] \in BOOLEAN /\ PushBatch(j, ts, timeout[j])
    BY <1>6 DEF HandleJobBatch, AppInv, JobTypeOK
  <2> QED
    BY <2>5, <2>6 DEF QueueNext, mine
<1>7. ASSUME NEW j \in Jobs, NEW sent \in CancelOutcomes(j), OnJobRemoved(j, sent)
      PROVE  [QueueNext]_queueVars
  BY <1>2, <1>7 DEF OnJobRemoved
<1>8. ASSUME NEW g \in Jobs, DispatchTask(g) \/ DispatchFails(g) PROVE [QueueNext]_queueVars
  BY <1>2, <1>8 DEF DispatchTask, DispatchFails
<1>9. CASE DispatchEnd
  BY <1>9 DEF DispatchEnd
<1>10. ASSUME NEW c \in Connections, NEW w \in Workers, OnGreeting(c, w)
       PROVE  UNCHANGED queueVars
  BY <1>10 DEF OnGreeting
<1>11. ASSUME NEW w \in Workers, NEW m \in executing[w], NEW s \in Statuses, WorkerAnswer(w, m, s)
       PROVE  UNCHANGED queueVars
  BY <1>11 DEF WorkerAnswer
<1>12. ASSUME NEW j \in Jobs, OnJobAdded(j) PROVE UNCHANGED queueVars
  BY <1>12 DEF OnJobAdded
<1>13. ASSUME NEW j \in Jobs, NEW v \in BOOLEAN, NEW timed \in Timeouts,
              HandleJobIdentify(j, v, timed)
       PROVE  UNCHANGED queueVars
  BY <1>13 DEF HandleJobIdentify
<1>14. CASE UNCHANGED vars
  BY <1>14 DEF vars
<1>15. ASSUME NEW w \in Workers, WorkerStep(w) PROVE [QueueNext]_queueVars
  BY <1>3, <1>4, <1>5, <1>11, <1>15 DEF WorkerStep
<1>16. ASSUME NEW j \in Jobs, JobStep(j) PROVE [QueueNext]_queueVars
  BY <1>6, <1>7, <1>12, <1>13, <1>16 DEF JobStep
<1>17. CASE DispatchStep
  BY <1>8, <1>9, <1>17 DEF DispatchStep, DispatchTurn
<1> QED
  BY <1>10, <1>14, <1>15, <1>16, <1>17 DEF Next

(***************************************************************************)
(* The application and the worker manager.                                 *)
(***************************************************************************)

\* Deactivating active workers, each once, is a call of the worker manager.
LEMMA DeactivateAllIsWorkerStep ==
  ASSUME WorkerTypeOK, NEW ws \in Seq(Workers), IsInjective(ws),
         Range(ws) \subseteq d_activeWorkers, DeactivateAll(ws)
  PROVE  WorkerNext
<1> DEFINE n == Len(ws)
<1>1. n \in Nat /\ ws \in [1 .. n -> Workers] /\ DOMAIN ws = 1 .. n
  BY LenProperties
<1>2. ws \in Injection(1 .. n, Workers)
  BY <1>1 DEF Injection
<1>3. Cardinality(1 .. n) <= Cardinality(Workers)
  BY <1>2, FS_Injection, WorkerManagerAssumption
<1>4. Cardinality(1 .. n) = n
  BY <1>1, FS_Interval
<1>5. Cardinality(Workers) \in Nat
  BY FS_CardinalityType, WorkerManagerAssumption
<1>6. n \in 0 .. Cardinality(Workers)
  BY <1>1, <1>3, <1>4, <1>5
<1>7. \A i \in 1 .. n : ws[i] \in d_activeWorkers
  BY <1>1 DEF Range
<1>8. ws \in [1 .. n -> d_activeWorkers]
  BY <1>1, <1>7
<1> HIDE DEF n
<1>9. ws \in ActiveLists
  BY <1>6, <1>8 DEF ActiveLists
<1> QED
  BY <1>9 DEF WorkerNext

\* The case of a single worker.
LEMMA DeactivateIsWorkerStep ==
  ASSUME WorkerInv, NEW w \in Workers, active[w], Deactivate(w)
  PROVE  WorkerNext
<1>1. <<w>> \in Seq(Workers) /\ IsInjective(<<w>>) /\ Range(<<w>>) = {w}
  BY DEF IsInjective, Range
<1>2. w \in d_activeWorkers
  BY DEF WorkerInv, WorkerPartition
<1> QED
  BY <1>1, <1>2, DeactivateAllIsWorkerStep DEF Deactivate, WorkerInv

\* Every step of the application is a call of the worker manager that the
\* manager on its own allows, or leaves the manager alone.
LEMMA StepIsWorkerStep == AppInv /\ [Next]_vars => [WorkerNext]_workerVars
<1> SUFFICES ASSUME AppInv, [Next]_vars PROVE [WorkerNext]_workerVars
  OBVIOUS
<1>0. /\ WorkerInv
      /\ \A w \in Workers : armed[w] => active[w]
  BY DEF AppInv, WorkerInv, TimerOnlyWhenActive
<1>1. ASSUME NEW c \in Connections, NEW w \in Workers, OnGreeting(c, w)
      PROVE  [WorkerNext]_workerVars
  BY <1>1 DEF OnGreeting, WorkerNext
<1>2. ASSUME NEW w \in Workers, OnWorkerClosed(w) PROVE [WorkerNext]_workerVars
  BY <1>2 DEF OnWorkerClosed, WorkerNext
<1>3. ASSUME NEW w \in Workers, NEW sent \in SendOutcomes, OnWorkerTimeout(w, sent)
      PROVE  [WorkerNext]_workerVars
  <2>1. active[w]
    BY <1>0, <1>3 DEF OnWorkerTimeout
  <2>2. CASE sent
    <3>1. Deactivate(w)
      BY <1>3, <2>2 DEF OnWorkerTimeout, CancelOrDeactivate, Deactivate
    <3> QED
      BY <1>0, <2>1, <3>1, DeactivateIsWorkerStep
  <2>3. CASE ~sent
    BY <1>3, <2>3 DEF OnWorkerTimeout, WorkerNext
  <2> QED
    BY <2>2, <2>3
<1>4. ASSUME NEW w \in Workers, OnWorkerCommunication(w) PROVE [WorkerNext]_workerVars
  <2> DEFINE a == Head(wire[w])
  <2>1. CASE DropAnswer(w) \/ AnswerChallenge(w, a)
    BY <2>1 DEF DropAnswer, AnswerChallenge
  <2>2. CASE AnswerWithoutJob(w)
    BY <1>0, <2>2, DeactivateIsWorkerStep DEF AnswerWithoutJob
  <2>3. CASE AnswerSuccess(w, a) \/ AnswerRejected(w, a)
    BY <1>0, <2>3, DeactivateIsWorkerStep
    DEF AnswerSuccess, AnswerRejected, CompleteTask, HasJob
  <2>4. CASE AnswerRescheduled(w, a)
    BY <1>0, <2>4, DeactivateIsWorkerStep DEF AnswerRescheduled, HasJob
  <2> QED
    BY <1>4, <2>1, <2>2, <2>3, <2>4 DEF OnWorkerCommunication
<1>5. ASSUME NEW j \in Jobs, NEW sent \in CancelOutcomes(j), OnJobRemoved(j, sent)
      PROVE  [WorkerNext]_workerVars
  <2>1. /\ activeWorkers[j] \in Seq(Workers)
        /\ IsInjective(activeWorkers[j])
        /\ Range(activeWorkers[j]) \subseteq d_activeWorkers
    BY DEF AppInv, JobTypeOK, JobWorkerLink, WorkerInv, WorkerPartition
  <2>2. DeactivateAll(activeWorkers[j])
    BY <1>5 DEF OnJobRemoved, CancelOrDeactivate
  <2> QED
    BY <1>0, <2>1, <2>2, DeactivateAllIsWorkerStep DEF WorkerInv
<1>6. ASSUME NEW g \in Jobs, DispatchTask(g) PROVE [WorkerNext]_workerVars
  <2> DEFINE t == Head(d_tasks[g])
  <2>1. Activate(t, d_timeout[g]) /\ d_tasks[g] # <<>>
    BY <1>6 DEF DispatchTask, Pop
  <2>2. t \in Tasks /\ d_timeout[g] \in BOOLEAN
    BY <2>1, HeadTailProperties DEF AppInv, QueueInv, QueueTypeOK
  <2> QED
    BY <2>1, <2>2 DEF WorkerNext
<1>7. ASSUME NEW g \in Jobs, DispatchFails(g) PROVE [WorkerNext]_workerVars
  <2> DEFINE t == Head(d_tasks[g])
  <2>1. ActivateFails(t) /\ d_tasks[g] # <<>>
    BY <1>7 DEF DispatchFails, PopAndPushTask
  <2>2. t \in Tasks
    BY <2>1, HeadTailProperties DEF AppInv, QueueInv, QueueTypeOK
  <2> QED
    BY <2>1, <2>2 DEF WorkerNext
<1>8. CASE DispatchEnd
  BY <1>8 DEF DispatchEnd, WorkerNext
<1>9. ASSUME NEW w \in Workers, NEW m \in executing[w], NEW s \in Statuses, WorkerAnswer(w, m, s)
      PROVE  UNCHANGED workerVars
  BY <1>9 DEF WorkerAnswer
<1>10. ASSUME NEW j \in Jobs, OnJobAdded(j) PROVE UNCHANGED workerVars
  BY <1>10 DEF OnJobAdded
<1>11. ASSUME NEW j \in Jobs, NEW v \in BOOLEAN, NEW timed \in Timeouts,
              HandleJobIdentify(j, v, timed)
       PROVE  UNCHANGED workerVars
  BY <1>11 DEF HandleJobIdentify
<1>12. ASSUME NEW j \in Jobs,
              NEW ts \in BatchesOf({t \in Tasks : Group[t] = j /\ Fresh(t)}),
              HandleJobBatch(j, ts)
       PROVE  UNCHANGED workerVars
  BY <1>12 DEF HandleJobBatch
<1>13. CASE UNCHANGED vars
  BY <1>13 DEF vars
<1>14. ASSUME NEW w \in Workers, WorkerStep(w) PROVE [WorkerNext]_workerVars
  BY <1>2, <1>3, <1>4, <1>9, <1>14 DEF WorkerStep
<1>15. ASSUME NEW j \in Jobs, JobStep(j) PROVE [WorkerNext]_workerVars
  BY <1>5, <1>10, <1>11, <1>12, <1>15 DEF JobStep
<1>16. CASE DispatchStep
  BY <1>6, <1>7, <1>8, <1>16 DEF DispatchStep, DispatchTurn
<1> QED
  BY <1>1, <1>13, <1>14, <1>15, <1>16 DEF Next

(***************************************************************************)
(* Jobs and their workers.                                                 *)
(***************************************************************************)

\* What the link between a job and its workers, and their presence, depend on.
LinkVars == <<activeWorkers, active, task, d_jobs>>

\* A step that changes none of it, and adds batches of connected jobs only,
\* keeps the link.
LEMMA LinkKept ==
  ASSUME AppInv, UNCHANGED LinkVars, d_batches' \subseteq d_batches \cup d_jobs
  PROVE  JobWorkerLink' /\ JobsPresent'
BY DEF AppInv, LinkVars, JobWorkerLink, JobsPresent

\* A worker that stops, and leaves the lists of jobs, leaves the link intact.
LEMMA LinkAfterStop ==
  ASSUME AppInv, NEW w \in Workers, WorkerLeavesJobs(w), d_batches' \subseteq d_batches,
         active' = [active EXCEPT ![w] = FALSE], task' = task
  PROVE  JobWorkerLink' /\ JobsPresent' /\ JobTypeOK'
<1>1. /\ activeWorkers' = [j \in Jobs |-> Without(activeWorkers[j], w)]
      /\ d_jobs' = d_jobs /\ valid' = valid /\ timeout' = timeout
  BY DEF WorkerLeavesJobs
<1>2. \A v \in Workers : active'[v] <=> active[v] /\ v # w
  BY DEF AppInv, WorkerInv, WorkerTypeOK
<1>3. \A j \in Jobs : activeWorkers[j] \in Seq(Workers) /\ IsInjective(activeWorkers[j])
  BY DEF AppInv, JobTypeOK, JobWorkerLink
<1>4. \A j \in Jobs : /\ activeWorkers'[j] \in Seq(Workers)
                      /\ Range(activeWorkers'[j]) = Range(activeWorkers[j]) \ {w}
                      /\ IsInjective(activeWorkers'[j])
  BY <1>1, <1>3, WithoutProperties
<1>5. JobTypeOK'
  BY <1>1, <1>4 DEF AppInv, JobTypeOK
<1>6. JobWorkerLink'
  BY <1>2, <1>4 DEF AppInv, JobWorkerLink
<1>7. JobsPresent'
  BY <1>1, <1>2 DEF AppInv, JobsPresent
<1> QED
  BY <1>5, <1>6, <1>7

\* Deactivating one worker makes exactly it inactive.
LEMMA DeactivateStops ==
  ASSUME WorkerTypeOK, NEW w \in Workers, Deactivate(w)
  PROVE  active' = [active EXCEPT ![w] = FALSE] /\ task' = task
<1>1. Range(<<w>>) = {w}
  BY DEF Range
<1> QED
  BY <1>1 DEF Deactivate, DeactivateAll, WorkerTypeOK

\* No batch comes into being when a task is pushed or finished.
LEMMA BatchesShrink ==
  ASSUME NEW t \in Tasks, PushTask(t) \/ Finished(t)
  PROVE  d_batches' \subseteq d_batches
BY DEF PushTask, Finished, Remove, queueVars

\* When a job goes its workers stop, and they are all that ran for it.
LEMMA LinkAfterJobRemoved ==
  ASSUME AppInv, NEW j \in Jobs, NEW sent \in CancelOutcomes(j), OnJobRemoved(j, sent)
  PROVE  JobWorkerLink' /\ JobsPresent' /\ JobTypeOK'
<1>1. /\ activeWorkers' = [activeWorkers EXCEPT ![j] = <<>>]
      /\ d_jobs' = d_jobs \ {j}
      /\ valid' = [valid EXCEPT ![j] = FALSE]
      /\ timeout' = [timeout EXCEPT ![j] = FALSE]
  BY DEF OnJobRemoved, RemoveJob
<1>2. /\ active' = [w \in Workers |-> active[w] /\ w \notin Range(activeWorkers[j])]
      /\ task' = task
  BY DEF OnJobRemoved, CancelOrDeactivate, DeactivateAll
<1>3. d_batches' = d_batches \ {j}
  BY DEF OnJobRemoved, Remove
<1>4. \A w \in Workers : active'[w] <=> active[w] /\ Group[task[w]] # j
  BY <1>2 DEF AppInv, JobWorkerLink
<1>5. <<>> \in Seq(Workers) /\ Range(<<>>) = {} /\ IsInjective(<<>>)
  BY DEF Range, IsInjective
<1>6. JobTypeOK'
  BY <1>1, <1>5 DEF AppInv, JobTypeOK
<1>7. JobWorkerLink'
  <2> SUFFICES ASSUME NEW k \in Jobs
               PROVE  /\ Range(activeWorkers'[k]) =
                           {w \in Workers : active'[w] /\ Group[task'[w]] = k}
                      /\ IsInjective(activeWorkers'[k])
    BY DEF JobWorkerLink
  <2>1. CASE k = j
    BY <1>1, <1>2, <1>4, <1>5, <2>1 DEF AppInv, JobTypeOK
  <2>2. CASE k # j
    <3>1. activeWorkers'[k] = activeWorkers[k]
      BY <1>1, <2>2 DEF AppInv, JobTypeOK
    <3> QED
      BY <1>2, <1>4, <2>2, <3>1 DEF AppInv, JobWorkerLink
  <2> QED
    BY <2>1, <2>2
<1>8. JobsPresent'
  BY <1>1, <1>2, <1>3, <1>4 DEF AppInv, JobsPresent
<1> QED
  BY <1>6, <1>7, <1>8

\* The job of a task that is dispatched is connected and lists its worker.
LEMMA LinkAfterDispatch ==
  ASSUME AppInv, NEW g \in Jobs, DispatchTask(g)
  PROVE  JobWorkerLink' /\ JobsPresent' /\ JobTypeOK'
<1> DEFINE w == Head(d_idleWorkers)
           t == Head(d_tasks[g])
<1>1. Pop(g) /\ Activate(t, d_timeout[g]) /\ AddWorkerToJob(g, w)
  BY DEF DispatchTask
<1>2. d_tasks[g] # <<>> /\ d_tasks[g] \in Seq(Tasks)
  BY <1>1 DEF Pop, AppInv, QueueInv, QueueTypeOK
<1>3. t \in Tasks /\ t \in Range(d_tasks[g])
  BY <1>2, HeadTailProperties, RangeOfTail
<1>4. Group[t] = g
  BY <1>3 DEF AppInv, QueueInv, QueueGroups
<1>5. g \in d_jobs
  BY <1>2 DEF AppInv, QueueInv, NoZombieBatch, JobsPresent
<1>6. /\ d_idleWorkers # <<>> /\ ~active[w]
      /\ task' = [task EXCEPT ![w] = t]
      /\ active' = [active EXCEPT ![w] = TRUE]
  BY <1>1 DEF Activate
<1>7. w \in Workers
  BY <1>6, HeadTailProperties DEF AppInv, WorkerInv, WorkerTypeOK
<1>8. /\ activeWorkers' = [activeWorkers EXCEPT ![g] = Append(activeWorkers[g], w)]
      /\ d_jobs' = d_jobs /\ valid' = valid /\ timeout' = timeout
  BY <1>1, <1>5 DEF AddWorkerToJob
<1>9. d_batches' = d_batches
  BY <1>1 DEF Pop
<1> HIDE DEF w, t
<1>10. /\ \A v \in Workers : active'[v] <=> active[v] \/ v = w
       /\ \A v \in Workers : task'[v] = IF v = w THEN t ELSE task[v]
  BY <1>6, <1>7 DEF AppInv, WorkerInv, WorkerTypeOK
<1>11. /\ activeWorkers[g] \in Seq(Workers) /\ IsInjective(activeWorkers[g])
       /\ w \notin Range(activeWorkers[g])
  BY <1>6 DEF AppInv, JobTypeOK, JobWorkerLink
<1>12. /\ activeWorkers'[g] \in Seq(Workers) /\ IsInjective(activeWorkers'[g])
       /\ Range(activeWorkers'[g]) = Range(activeWorkers[g]) \cup {w}
  <2>1. activeWorkers'[g] = Append(activeWorkers[g], w)
    BY <1>8 DEF AppInv, JobTypeOK
  <2> QED
    BY <1>7, <1>11, <2>1, RangeOfAppend
<1>13. JobTypeOK'
  BY <1>8, <1>12 DEF AppInv, JobTypeOK
<1>14. JobWorkerLink'
  <2> SUFFICES ASSUME NEW k \in Jobs
               PROVE  /\ Range(activeWorkers'[k]) =
                           {v \in Workers : active'[v] /\ Group[task'[v]] = k}
                      /\ IsInjective(activeWorkers'[k])
    BY DEF JobWorkerLink
  <2>1. CASE k = g
    BY <1>4, <1>6, <1>7, <1>10, <1>12, <2>1 DEF AppInv, JobWorkerLink
  <2>2. CASE k # g
    <3>1. activeWorkers'[k] = activeWorkers[k]
      BY <1>8, <2>2 DEF AppInv, JobTypeOK
    <3> QED
      BY <1>4, <1>6, <1>10, <2>2, <3>1 DEF AppInv, JobWorkerLink
  <2> QED
    BY <2>1, <2>2
<1>15. JobsPresent'
  BY <1>4, <1>5, <1>8, <1>9, <1>10 DEF AppInv, JobsPresent
<1> QED
  BY <1>13, <1>14, <1>15

\* Every step keeps the link, the presence of jobs and the types of the jobs.
LEMMA StepKeepsLink == AppInv /\ [Next]_vars => JobWorkerLink' /\ JobsPresent' /\ JobTypeOK'
<1> DEFINE P == JobWorkerLink /\ JobsPresent /\ JobTypeOK
<1> SUFFICES ASSUME AppInv, [Next]_vars PROVE P'
  OBVIOUS
<1>0. /\ \A w \in Workers : active[w] => task[w] \in Tasks
      /\ \A w \in Workers : armed[w] => active[w]
      /\ WorkerTypeOK
  BY DEF AppInv, WorkerInv, ActiveHasTask, TimerOnlyWhenActive
<1>1. ASSUME UNCHANGED <<jobVars, active, task>>, d_batches' \subseteq d_batches \cup d_jobs
      PROVE  P'
  BY <1>1, LinkKept DEF LinkVars, jobVars, AppInv, JobTypeOK
<1>2. ASSUME NEW w \in Workers, WorkerLeavesJobs(w), Deactivate(w),
             d_batches' \subseteq d_batches
      PROVE  P'
  BY <1>0, <1>2, DeactivateStops, LinkAfterStop
<1> HIDE DEF P
<1>3. ASSUME NEW c \in Connections, NEW w \in Workers, OnGreeting(c, w) PROVE P'
  <2>1. /\ task' = [task EXCEPT ![w] = NoTask] /\ active' = active /\ w \notin d_workers
        /\ UNCHANGED jobVars /\ d_batches' = d_batches
    BY <1>3 DEF OnGreeting, AddWorker, queueVars
  <2>2. ~active[w]
    BY <2>1 DEF AppInv, WorkerInv, WorkerPartition
  <2>3. \A v \in Workers : active[v] => task'[v] = task[v]
    BY <1>0, <2>1, <2>2 DEF WorkerTypeOK
  <2> QED
    BY <2>1, <2>3 DEF P, AppInv, JobWorkerLink, JobsPresent, JobTypeOK, jobVars
<1>4. ASSUME NEW w \in Workers, OnWorkerClosed(w) PROVE P'
  <2>1. /\ active' = [active EXCEPT ![w] = FALSE] /\ task' = task /\ WorkerLeavesJobs(w)
    BY <1>4 DEF OnWorkerClosed, RemoveWorker
  <2>2. d_batches' \subseteq d_batches
    BY <1>0, <1>4, BatchesShrink DEF OnWorkerClosed, queueVars
  <2> QED
    BY <2>1, <2>2, LinkAfterStop DEF P
<1>5. ASSUME NEW w \in Workers, NEW sent \in SendOutcomes, OnWorkerTimeout(w, sent) PROVE P'
  <2>1. PushTask(task[w]) /\ task[w] \in Tasks
    BY <1>0, <1>5 DEF OnWorkerTimeout
  <2>2. d_batches' \subseteq d_batches
    BY <2>1, BatchesShrink
  <2>3. CASE sent
    BY <1>2, <1>5, <2>2, <2>3 DEF OnWorkerTimeout, CancelOrDeactivate, Deactivate
  <2>4. CASE ~sent
    BY <1>1, <1>5, <2>2, <2>4 DEF OnWorkerTimeout, DisarmTimeout
  <2> QED
    BY <2>3, <2>4
<1>6. ASSUME NEW w \in Workers, OnWorkerCommunication(w) PROVE P'
  <2> DEFINE a == Head(wire[w])
  <2>1. CASE DropAnswer(w) \/ AnswerChallenge(w, a)
    BY <1>1, <2>1 DEF DropAnswer, AnswerChallenge, workerVars, queueVars
  <2>2. CASE AnswerWithoutJob(w)
    BY <1>2, <2>2 DEF AnswerWithoutJob, queueVars
  <2>3. CASE AnswerSuccess(w, a) \/ AnswerRejected(w, a)
    <3>1. active[w] /\ CompleteTask(w, a)
      BY <2>3 DEF AnswerSuccess, AnswerRejected, HasJob
    <3>2. WorkerLeavesJobs(w) /\ Deactivate(w) /\ Finished(task[w])
      BY <3>1 DEF CompleteTask
    <3> QED
      BY <1>0, <1>2, <3>1, <3>2, BatchesShrink
  <2>4. CASE AnswerRescheduled(w, a)
    <3>1. active[w] /\ WorkerLeavesJobs(w) /\ Deactivate(w) /\ PushTask(task[w])
      BY <2>4 DEF AnswerRescheduled, HasJob
    <3> QED
      BY <1>0, <1>2, <3>1, BatchesShrink
  <2> QED
    BY <1>6, <2>1, <2>2, <2>3, <2>4 DEF OnWorkerCommunication
<1>7. ASSUME NEW w \in Workers, NEW m \in executing[w], NEW s \in Statuses, WorkerAnswer(w, m, s)
      PROVE  P'
  BY <1>1, <1>7 DEF WorkerAnswer, workerVars, queueVars
<1>8. ASSUME NEW j \in Jobs, OnJobAdded(j) PROVE P'
  <2>1. /\ d_jobs' = d_jobs \cup {j}
        /\ UNCHANGED <<valid, timeout, activeWorkers, active, task, d_batches>>
    BY <1>8 DEF OnJobAdded, AddJob, workerVars, queueVars
  <2> QED
    BY <2>1 DEF P, AppInv, JobWorkerLink, JobsPresent, JobTypeOK
<1>9. ASSUME NEW j \in Jobs, NEW v \in BOOLEAN, NEW timed \in Timeouts,
             HandleJobIdentify(j, v, timed)
      PROVE  P'
  <2>1. /\ valid' = [valid EXCEPT ![j] = v] /\ timeout' = [timeout EXCEPT ![j] = timed]
        /\ UNCHANGED <<d_jobs, activeWorkers, active, task, d_batches>>
    BY <1>9 DEF HandleJobIdentify, IdentifyJob, workerVars, queueVars
  <2>2. timed \in BOOLEAN
    BY ApplicationAssumption
  <2> QED
    BY <2>1, <2>2 DEF P, AppInv, JobWorkerLink, JobsPresent, JobTypeOK
<1>10. ASSUME NEW j \in Jobs,
              NEW ts \in BatchesOf({t \in Tasks : Group[t] = j /\ Fresh(t)}),
              HandleJobBatch(j, ts)
       PROVE  P'
  <2>1. d_batches' \subseteq d_batches \cup d_jobs
    BY <1>10 DEF HandleJobBatch, PushBatch, queueVars
  <2> QED
    BY <1>1, <1>10, <2>1 DEF HandleJobBatch, workerVars
<1>11. ASSUME NEW j \in Jobs, NEW sent \in CancelOutcomes(j), OnJobRemoved(j, sent) PROVE P'
  BY <1>11, LinkAfterJobRemoved DEF P
<1>12. ASSUME NEW g \in Jobs, DispatchTask(g) PROVE P'
  BY <1>12, LinkAfterDispatch DEF P
<1>13. ASSUME NEW g \in Jobs, DispatchFails(g) PROVE P'
  <2> DEFINE w == Head(d_idleWorkers)
  <2>1. /\ active' = active /\ d_idleWorkers # <<>>
        /\ task' = IF active[w] THEN task ELSE [task EXCEPT ![w] = Head(d_tasks[g])]
        /\ UNCHANGED jobVars /\ d_batches' = d_batches
    BY <1>13 DEF DispatchFails, ActivateFails, PopAndPushTask
  <2>2. \A v \in Workers : active[v] => task'[v] = task[v]
    BY <1>0, <2>1 DEF WorkerTypeOK
  <2> QED
    BY <2>1, <2>2 DEF P, AppInv, JobWorkerLink, JobsPresent, JobTypeOK, jobVars
<1>14. CASE DispatchEnd
  BY <1>1, <1>14 DEF DispatchEnd, RotateIdle, workerVars, queueVars
<1>15. CASE UNCHANGED vars
  BY <1>1, <1>15 DEF vars, workerVars, queueVars
<1>16. ASSUME NEW w \in Workers, WorkerStep(w) PROVE P'
  BY <1>4, <1>5, <1>6, <1>7, <1>16 DEF WorkerStep
<1>17. ASSUME NEW j \in Jobs, JobStep(j) PROVE P'
  BY <1>8, <1>9, <1>10, <1>11, <1>17 DEF JobStep
<1>18. CASE DispatchStep
  BY <1>12, <1>13, <1>14, <1>18 DEF DispatchStep, DispatchTurn
<1> QED
  BY <1>3, <1>15, <1>16, <1>17, <1>18 DEF Next

(***************************************************************************)
(* Types.                                                                  *)
(***************************************************************************)

\* Cancels take tasks away from worker processes and answers off the wire.
LEMMA CancelsSentType ==
  ASSUME RestTypeOK, NEW ws, CancelsSent(ws)
  PROVE  /\ executing' \in [Workers -> SUBSET Messages]
         /\ wire' \in [Workers -> Seq(Answers)]
<1>1. <<>> \in Seq(Answers)
  OBVIOUS
<1> QED
  BY <1>1 DEF RestTypeOK, CancelsSent

\* The dispatcher's state keeps its type when it is notified.
LEMMA NotifyType ==
  ASSUME RestTypeOK, NEW called \in BOOLEAN, Notify(called)
  PROVE  /\ dispatch' \in {"off", "pending", "running"}
         /\ called => dispatch' # "off"
         /\ ~called => dispatch' = dispatch
BY DEF RestTypeOK, Notify

\* Fewer tasks are awaited after an answer.
LEMMA AwaitingAfterType ==
  ASSUME RestTypeOK, NEW g, NEW a
  PROVE  AwaitingAfter(g, a) \in SUBSET Tasks
BY DEF RestTypeOK, AwaitingAfter

\* Every step keeps the types of failures, dispatcher, wires and workers.
LEMMA StepKeepsTypes == AppInv /\ [Next]_vars => RestTypeOK'
<1> SUFFICES ASSUME AppInv, [Next]_vars PROVE RestTypeOK'
  OBVIOUS
<1>0. /\ RestTypeOK
      /\ \A w \in Workers : active[w] => task[w] \in Tasks
      /\ \A w \in Workers : armed[w] => active[w]
      /\ <<>> \in Seq(Answers)
  BY DEF AppInv, WorkerInv, ActiveHasTask, TimerOnlyWhenActive
<1>1. ASSUME NEW c \in Connections, NEW w \in Workers, OnGreeting(c, w) PROVE RestTypeOK'
  BY <1>0, <1>1, NotifyType DEF OnGreeting, RestTypeOK
<1>2. ASSUME NEW w \in Workers, OnWorkerClosed(w) PROVE RestTypeOK'
  <2>1. (active[w] /\ Group[task[w]] \in d_batches) \in BOOLEAN
    BY DEF AppInv, WorkerInv, WorkerTypeOK
  <2> QED
    BY <1>0, <1>2, <2>1, NotifyType DEF OnWorkerClosed, RestTypeOK
<1>3. ASSUME NEW w \in Workers, NEW sent \in SendOutcomes, OnWorkerTimeout(w, sent)
      PROVE  RestTypeOK'
  <2>1. (sent \/ Group[task[w]] \in d_batches) \in BOOLEAN
    BY ApplicationAssumption
  <2>2. dispatch' \in {"off", "pending", "running"}
    BY <1>0, <1>3, <2>1, NotifyType DEF OnWorkerTimeout
  <2>3. executing' \in [Workers -> SUBSET Messages] /\ wire' \in [Workers -> Seq(Answers)]
    <3>1. CASE sent
      BY <1>0, <1>3, <3>1, CancelsSentType DEF OnWorkerTimeout, CancelOrDeactivate
    <3>2. CASE ~sent
      BY <1>0, <1>3, <3>2 DEF OnWorkerTimeout, RestTypeOK
    <3> QED
      BY <3>1, <3>2
  <2> QED
    BY <1>0, <1>3, <2>2, <2>3 DEF OnWorkerTimeout, RestTypeOK
<1>4. ASSUME NEW w \in Workers, NEW m \in executing[w], NEW s \in Statuses, WorkerAnswer(w, m, s)
      PROVE  RestTypeOK'
  <2>1. m \in Messages
    BY <1>0 DEF RestTypeOK
  <2>2. [task |-> m.task, uid |-> m.uid, status |-> s] \in Answers
    BY <2>1 DEF Messages, Answers
  <2>3. wire' \in [Workers -> Seq(Answers)]
    BY <1>0, <1>4, <2>2 DEF WorkerAnswer, RestTypeOK
  <2>4. executing' \in [Workers -> SUBSET Messages]
    BY <1>0, <1>4 DEF WorkerAnswer, RestTypeOK
  <2> QED
    BY <1>0, <1>4, <2>3, <2>4 DEF WorkerAnswer, RestTypeOK
<1>5. ASSUME NEW w \in Workers, OnWorkerCommunication(w) PROVE RestTypeOK'
  <2> DEFINE a == Head(wire[w])
  <2>1. wire' \in [Workers -> Seq(Answers)] /\ idleTimer' = idleTimer /\ executing' = executing
    <3>1. wire[w] \in Seq(Answers) /\ wire[w] # <<>>
      BY <1>0, <1>5 DEF OnWorkerCommunication, RestTypeOK
    <3>2. Tail(wire[w]) \in Seq(Answers)
      BY <3>1, HeadTailProperties
    <3> QED
      BY <1>0, <1>5, <3>2 DEF OnWorkerCommunication, RestTypeOK
  <2> HIDE DEF a
  <2>2. /\ failures' \in [Tasks -> Nat]
        /\ dispatch' \in {"off", "pending", "running"}
        /\ awaiting' \in SUBSET Tasks
    <3>1. CASE DropAnswer(w) \/ AnswerChallenge(w, a)
      BY <1>0, <3>1 DEF DropAnswer, AnswerChallenge, RestTypeOK
    <3>2. CASE AnswerWithoutJob(w)
      BY <1>0, <3>2, NotifyType DEF AnswerWithoutJob, RestTypeOK
    <3>3. CASE AnswerSuccess(w, a) \/ AnswerRejected(w, a)
      <4>1. CompleteTask(w, a)
        BY <3>3 DEF AnswerSuccess, AnswerRejected
      <4>2. dispatch' \in {"off", "pending", "running"} /\ awaiting' \in SUBSET Tasks
        BY <1>0, <4>1, NotifyType, AwaitingAfterType DEF CompleteTask
      <4>3. task[w] \in Tasks /\ failures \in [Tasks -> Nat]
        BY <1>0, <3>3 DEF AnswerSuccess, AnswerRejected, HasJob, RestTypeOK
      <4>4. \/ failures' = failures
            \/ failures' = [failures EXCEPT ![task[w]] = failures[task[w]] + 1]
        BY <3>3 DEF AnswerSuccess, AnswerRejected
      <4>5. failures' \in [Tasks -> Nat]
        BY <4>3, <4>4
      <4> QED
        BY <4>2, <4>5
    <3>4. CASE AnswerRescheduled(w, a)
      <4>1. failures' \in [Tasks -> Nat]
        BY <1>0, <3>4 DEF AnswerRescheduled, HasJob, RestTypeOK
      <4> QED
        BY <1>0, <3>4, <4>1, NotifyType DEF AnswerRescheduled, RestTypeOK
    <3> QED
      BY <1>5, <3>1, <3>2, <3>3, <3>4 DEF OnWorkerCommunication, a
  <2> QED
    BY <1>0, <2>1, <2>2 DEF RestTypeOK
<1>6. ASSUME NEW j \in Jobs, OnJobAdded(j) PROVE RestTypeOK'
  BY <1>0, <1>6 DEF OnJobAdded, worldVars, RestTypeOK
<1>7. ASSUME NEW j \in Jobs, NEW v \in BOOLEAN, NEW timed \in Timeouts,
             HandleJobIdentify(j, v, timed)
      PROVE  RestTypeOK'
  BY <1>0, <1>7 DEF HandleJobIdentify, worldVars, RestTypeOK
<1>8. ASSUME NEW j \in Jobs,
             NEW ts \in BatchesOf({t \in Tasks : Group[t] = j /\ Fresh(t)}),
             HandleJobBatch(j, ts)
      PROVE  RestTypeOK'
  <2> DEFINE fresh == {t \in Tasks : Group[t] = j /\ Fresh(t)}
  <2>1. fresh \subseteq Tasks
    OBVIOUS
  <2> HIDE DEF fresh
  <2>2. PICK n \in 0 .. MaxBatch : ts \in [1 .. n -> fresh]
    BY DEF BatchesOf, fresh
  <2>3. Range(ts) \subseteq Tasks
    BY <2>1, <2>2 DEF Range
  <2> QED
    BY <1>0, <1>8, <2>3, NotifyType DEF HandleJobBatch, RestTypeOK
<1>9. ASSUME NEW j \in Jobs, NEW sent \in CancelOutcomes(j), OnJobRemoved(j, sent)
      PROVE  RestTypeOK'
  <2>1. executing' \in [Workers -> SUBSET Messages] /\ wire' \in [Workers -> Seq(Answers)]
    BY <1>0, <1>9, CancelsSentType DEF OnJobRemoved, CancelOrDeactivate
  <2>2. dispatch' \in {"off", "pending", "running"}
    BY <1>0, <1>9, NotifyType DEF OnJobRemoved
  <2> QED
    BY <1>0, <1>9, <2>1, <2>2 DEF OnJobRemoved, RestTypeOK
<1>10. ASSUME NEW g \in Jobs, DispatchTask(g) PROVE RestTypeOK'
  <2> DEFINE t == Head(d_tasks[g])
  <2>1. d_tasks[g] # <<>>
    BY <1>10 DEF DispatchTask, Pop
  <2>2. t \in Tasks /\ uniqueid[t] \in 0 .. MaxUid
    BY <2>1, HeadTailProperties DEF AppInv, QueueInv, QueueTypeOK
  <2>3. [task |-> t, uid |-> uniqueid[t]] \in Messages
    BY <2>2 DEF Messages
  <2> QED
    BY <1>0, <1>10, <2>3 DEF DispatchTask, RestTypeOK
<1>11. ASSUME NEW g \in Jobs, DispatchFails(g) PROVE RestTypeOK'
  BY <1>0, <1>11 DEF DispatchFails, worldVars, RestTypeOK
<1>12. CASE DispatchEnd
  BY <1>0, <1>12 DEF DispatchEnd, worldVars, RestTypeOK
<1>13. CASE UNCHANGED vars
  BY <1>0, <1>13 DEF vars, worldVars, RestTypeOK
<1>14. ASSUME NEW w \in Workers, WorkerStep(w) PROVE RestTypeOK'
  BY <1>2, <1>3, <1>4, <1>5, <1>14 DEF WorkerStep
<1>15. ASSUME NEW j \in Jobs, JobStep(j) PROVE RestTypeOK'
  BY <1>6, <1>7, <1>8, <1>9, <1>15 DEF JobStep
<1>16. CASE DispatchStep
  BY <1>10, <1>11, <1>12, <1>16 DEF DispatchStep, DispatchTurn
<1> QED
  BY <1>1, <1>13, <1>14, <1>15, <1>16 DEF Next

(***************************************************************************)
(* The dispatcher is not left asleep.                                      *)
(***************************************************************************)

\* The wake-up is kept by a step that leaves the dispatcher alone and neither
\* puts a worker into an empty idle deque nor a task among none.
LEMMA WakeupKept ==
  ASSUME AppInv, dispatch' = dispatch, Queued' \subseteq Queued,
         d_idleWorkers' # <<>> => d_idleWorkers # <<>>
  PROVE  NoLostWakeup'
BY DEF AppInv, NoLostWakeup

\* The same tasks wait after a step that keeps the batches as they are.
LEMMA QueuedKept ==
  ASSUME d_tasks' = d_tasks
  PROVE  Queued' = Queued
BY DEF Queued

\* No wake-up is lost in any step.
LEMMA StepKeepsWakeup == AppInv /\ [Next]_vars => NoLostWakeup'
<1> SUFFICES ASSUME AppInv, [Next]_vars PROVE NoLostWakeup'
  OBVIOUS
<1>0. /\ RestTypeOK
      /\ \A w \in Workers : armed[w] => active[w]
  BY DEF AppInv, WorkerInv, TimerOnlyWhenActive
<1>1. ASSUME Notify(TRUE) PROVE NoLostWakeup'
  BY <1>0, <1>1, NotifyType DEF NoLostWakeup
<1>2. ASSUME dispatch' = dispatch, d_tasks' = d_tasks, d_idleWorkers' = d_idleWorkers
      PROVE  NoLostWakeup'
  BY <1>2, WakeupKept, QueuedKept
<1>3. ASSUME NEW t, PushTask(t), Group[t] \notin d_batches PROVE d_tasks' = d_tasks
  BY <1>3 DEF PushTask, queueVars
<1>4. ASSUME NEW c \in Connections, NEW w \in Workers, OnGreeting(c, w) PROVE NoLostWakeup'
  BY <1>1, <1>4 DEF OnGreeting
<1>5. ASSUME NEW w \in Workers, OnWorkerClosed(w) PROVE NoLostWakeup'
  <2>1. CASE active[w] /\ Group[task[w]] \in d_batches
    BY <1>1, <1>5, <2>1 DEF OnWorkerClosed
  <2>2. CASE ~(active[w] /\ Group[task[w]] \in d_batches)
    <3>1. dispatch' = dispatch
      BY <1>5, <2>2 DEF OnWorkerClosed, Notify
    <3>2. d_tasks' = d_tasks
      BY <1>3, <1>5, <2>2 DEF OnWorkerClosed, queueVars
    <3>3. d_idleWorkers \in Seq(Workers) /\ IsInjective(d_idleWorkers)
      BY DEF AppInv, WorkerInv, WorkerTypeOK, WorkerPartition
    <3>4. d_idleWorkers' = Without(d_idleWorkers, w)
      BY <1>5 DEF OnWorkerClosed, RemoveWorker
    <3>5. /\ d_idleWorkers' \in Seq(Workers)
          /\ Range(d_idleWorkers') = Range(d_idleWorkers) \ {w}
      BY <3>3, <3>4, WithoutProperties
    <3>6. d_idleWorkers' # <<>> => d_idleWorkers # <<>>
      BY <3>3, <3>5, EmptyRange
    <3> QED
      BY <3>1, <3>2, <3>6, WakeupKept, QueuedKept
  <2> QED
    BY <2>1, <2>2
<1>6. ASSUME NEW w \in Workers, NEW sent \in SendOutcomes, OnWorkerTimeout(w, sent)
      PROVE  NoLostWakeup'
  <2>1. CASE sent \/ Group[task[w]] \in d_batches
    BY <1>1, <1>6, <2>1, ApplicationAssumption DEF OnWorkerTimeout
  <2>2. CASE ~(sent \/ Group[task[w]] \in d_batches)
    <3>1. dispatch' = dispatch /\ DisarmTimeout(w)
      BY <1>6, <2>2 DEF OnWorkerTimeout, Notify
    <3>2. d_tasks' = d_tasks
      BY <1>3, <1>6, <2>2 DEF OnWorkerTimeout
    <3> QED
      BY <1>2, <3>1, <3>2 DEF DisarmTimeout
  <2> QED
    BY <2>1, <2>2
<1>7. ASSUME NEW w \in Workers, OnWorkerCommunication(w) PROVE NoLostWakeup'
  <2> DEFINE a == Head(wire[w])
  <2>1. CASE DropAnswer(w) \/ AnswerChallenge(w, a)
    BY <1>2, <2>1 DEF DropAnswer, AnswerChallenge, queueVars, workerVars
  <2>2. CASE AnswerWithoutJob(w) \/ AnswerRescheduled(w, a)
    BY <1>1, <2>2 DEF AnswerWithoutJob, AnswerRescheduled
  <2>3. CASE AnswerSuccess(w, a) \/ AnswerRejected(w, a)
    BY <1>1, <2>3 DEF AnswerSuccess, AnswerRejected, CompleteTask
  <2> QED
    BY <1>7, <2>1, <2>2, <2>3 DEF OnWorkerCommunication
<1>8. ASSUME NEW w \in Workers, NEW m \in executing[w], NEW s \in Statuses, WorkerAnswer(w, m, s)
      PROVE  NoLostWakeup'
  BY <1>2, <1>8 DEF WorkerAnswer, queueVars, workerVars
<1>9. ASSUME NEW j \in Jobs, OnJobAdded(j) PROVE NoLostWakeup'
  BY <1>2, <1>9 DEF OnJobAdded, queueVars, workerVars
<1>10. ASSUME NEW j \in Jobs, NEW v \in BOOLEAN, NEW timed \in Timeouts,
              HandleJobIdentify(j, v, timed)
       PROVE  NoLostWakeup'
  BY <1>2, <1>10 DEF HandleJobIdentify, queueVars, workerVars
<1>11. ASSUME NEW j \in Jobs, NEW ts, HandleJobBatch(j, ts) PROVE NoLostWakeup'
  <2>1. CASE ts # <<>>
    BY <1>1, <1>11, <2>1 DEF HandleJobBatch
  <2>2. CASE ts = <<>>
    <3>1. dispatch' = dispatch /\ UNCHANGED queueVars /\ UNCHANGED workerVars
      BY <1>11, <2>2 DEF HandleJobBatch, Notify, PushBatch
    <3> QED
      BY <1>2, <3>1 DEF queueVars, workerVars
  <2> QED
    BY <2>1, <2>2
<1>12. ASSUME NEW j \in Jobs, NEW sent, OnJobRemoved(j, sent) PROVE NoLostWakeup'
  <2>1. CASE activeWorkers[j] # <<>>
    BY <1>1, <1>12, <2>1 DEF OnJobRemoved
  <2>2. CASE activeWorkers[j] = <<>>
    <3>1. dispatch' = dispatch
      BY <1>12, <2>2 DEF OnJobRemoved, Notify
    <3>2. d_idleWorkers' = d_idleWorkers \o <<>> /\ d_idleWorkers \in Seq(Workers)
      BY <1>12, <2>2
      DEF OnJobRemoved, CancelOrDeactivate, DeactivateAll, AppInv, WorkerInv, WorkerTypeOK
    <3>3. d_idleWorkers' = d_idleWorkers
      BY <3>2, ConcatEmptySeq
    <3>4. d_tasks' = [d_tasks EXCEPT ![j] = <<>>] /\ d_tasks \in [Jobs -> Seq(Tasks)]
      BY <1>12 DEF OnJobRemoved, Remove, AppInv, QueueInv, QueueTypeOK
    <3>5. Range(<<>>) = {}
      BY DEF Range
    <3>6. \A k \in Jobs : Range(d_tasks'[k]) \subseteq Range(d_tasks[k])
      BY <3>4, <3>5
    <3>7. Queued' \subseteq Queued
      BY <3>6 DEF Queued
    <3> QED
      BY <3>1, <3>3, <3>7, WakeupKept
  <2> QED
    BY <2>1, <2>2
<1>13. ASSUME NEW g \in Jobs, DispatchTask(g) \/ DispatchFails(g) PROVE NoLostWakeup'
  BY <1>13 DEF DispatchTask, DispatchFails, NoLostWakeup
<1>14. CASE DispatchEnd
  <2>1. Queued' = Queued
    BY <1>14, QueuedKept DEF DispatchEnd, queueVars
  <2> QED
    BY <1>14, <2>1 DEF DispatchEnd, workerVars, NoLostWakeup
<1>15. CASE UNCHANGED vars
  BY <1>2, <1>15 DEF vars, queueVars, workerVars
<1>16. ASSUME NEW w \in Workers, WorkerStep(w) PROVE NoLostWakeup'
  BY <1>5, <1>6, <1>7, <1>8, <1>16 DEF WorkerStep
<1>17. ASSUME NEW j \in Jobs, JobStep(j) PROVE NoLostWakeup'
  BY <1>9, <1>10, <1>11, <1>12, <1>17 DEF JobStep
<1>18. CASE DispatchStep
  BY <1>13, <1>14, <1>18 DEF DispatchStep, DispatchTurn
<1> QED
  BY <1>4, <1>15, <1>16, <1>17, <1>18 DEF Next

(***************************************************************************)
(* The invariant, and the theorems.                                        *)
(***************************************************************************)

\* The master starts in the invariant.
LEMMA AppInitInv == Init => AppInv
<1> SUFFICES ASSUME Init PROVE AppInv
  OBVIOUS
<1>1. QueueInv /\ WorkerInv
  BY QueueInitInv, WorkerInitInv DEF Init
<1>2. JobTypeOK /\ RestTypeOK
  BY EmptySeq DEF Init, JobInit, JobTypeOK, RestTypeOK
<1>3. \A j \in Jobs : activeWorkers[j] = <<>>
  BY DEF Init, JobInit
<1>4. Range(<<>>) = {} /\ IsInjective(<<>>)
  BY DEF Range, IsInjective
<1>5. \A w \in Workers : ~active[w]
  BY DEF Init, WorkerInit
<1>6. JobWorkerLink
  BY <1>3, <1>4, <1>5 DEF JobWorkerLink
<1>7. JobsPresent
  BY <1>5 DEF Init, QueueInit, JobsPresent
<1>8. NoLostWakeup
  BY DEF Init, WorkerInit, NoLostWakeup
<1> QED
  BY <1>1, <1>2, <1>6, <1>7, <1>8 DEF AppInv

\* Every step of the master keeps the invariant.
LEMMA AppStepInv == AppInv /\ [Next]_vars => AppInv'
<1> SUFFICES ASSUME AppInv, [Next]_vars PROVE AppInv'
  OBVIOUS
<1>1. QueueInv'
  BY StepIsQueueStep, QueueStepInv DEF AppInv
<1>2. WorkerInv'
  BY StepIsWorkerStep, WorkerStepInv DEF AppInv
<1> QED
  BY <1>1, <1>2, StepKeepsLink, StepKeepsTypes, StepKeepsWakeup DEF AppInv

\* The invariant holds all the time.
LEMMA AppInvariant == Spec => []AppInv
BY AppInitInv, AppStepInv, PTL DEF Spec

\* The master keeps all its types, for any number of jobs, tasks and workers
\* (application.cc).
THEOREM TypeCorrect == Spec => []TypeOK
<1>1. AppInv => TypeOK
  BY DEF AppInv, QueueInv, WorkerInv, RestTypeOK, TypeOK
<1> QED
  BY <1>1, AppInvariant, PTL

\* No wake-up of the dispatcher is lost: whenever an idle worker and a waiting
\* task are there, OnDispatch is connected or running (application.cc,
\* IdleDispatch and OnDispatch).
THEOREM WakeupNeverLost == Spec => []NoLostWakeup
<1>1. AppInv => NoLostWakeup
  BY DEF AppInv
<1> QED
  BY <1>1, AppInvariant, PTL

\* A job lists exactly the workers that run its tasks (job.cc, Add and
\* OnWorkerDeactivated), so closing it cancels all of them and no others.
THEOREM JobsKnowTheirWorkers == Spec => []JobWorkerLink
<1>1. AppInv => JobWorkerLink
  BY DEF AppInv
<1> QED
  BY <1>1, AppInvariant, PTL

\* The invariant says that nothing waits or runs for a job that is gone.
LEMMA InvNoOrphans == ASSUME AppInv PROVE NoOrphans
<1>1. d_batches \subseteq d_jobs
  BY DEF AppInv, JobsPresent
<1>2. ASSUME NEW t \in Queued PROVE Group[t] \in d_jobs
  <2>1. PICK j \in Jobs : t \in Range(d_tasks[j])
    BY DEF Queued
  <2>2. d_tasks[j] # <<>>
    <3>1. d_tasks[j] \in Seq(Tasks)
      BY DEF AppInv, QueueInv, QueueTypeOK
    <3> QED
      BY <2>1, <3>1, EmptyRange
  <2>3. j \in d_batches /\ Group[t] = j
    BY <2>1, <2>2 DEF AppInv, QueueInv, NoZombieBatch, QueueGroups
  <2> QED
    BY <1>1, <2>3
<1>3. ASSUME NEW t \in Held PROVE Group[t] \in d_jobs
  BY DEF Held, AppInv, JobsPresent
<1> QED
  BY <1>1, <1>2, <1>3 DEF NoOrphans

\* Nothing waits or runs for a job that is gone (application.cc,
\* OnJobRemoved), whatever the workers' cancels return.
THEOREM NothingOrphaned == Spec => []NoOrphans
<1>1. AppInv => NoOrphans
  BY InvNoOrphans
<1> QED
  BY <1>1, AppInvariant, PTL

\* The master uses the worker manager as WorkerSpec says it may be used: it
\* deactivates active workers only, each once.
THEOREM MasterUsesManagerRightly == Spec => ManagerSpec
<1>1. Init => WorkerInit
  BY DEF Init
<1> QED
  BY <1>1, AppInvariant, StepIsWorkerStep, PTL DEF Spec, ManagerSpec, WorkerSpec

\* The master uses the task queue as QueueSpec says it may be used, so what
\* holds of the queue on its own holds of the master's queue.
THEOREM MasterUsesQueueRightly == Spec => QueueSpec
<1>1. Init => QueueInit
  BY DEF Init
<1> QED
  BY <1>1, AppInvariant, StepIsQueueStep, PTL DEF Spec, QueueSpec

\* In particular the queue length in the master's log is the number of tasks
\* that wait, whatever crashes, time-outs and failures put tasks back.
THEOREM QueueLengthInLog == Spec => []SizeMatches
BY MasterUsesQueueRightly, QueueLengthRight, PTL

(***************************************************************************)
(* Conservation: the master loses no task and runs none twice.  Each task  *)
(* that a job waits for waits in one place, or runs on one worker.  What   *)
(* the outside world has to do for that is assumed step by step: that      *)
(* sends succeed, that clients tell their tasks apart by their ids, and    *)
(* that cancels overtake the answers under way.                            *)
(***************************************************************************)

\* Every Send to a worker succeeds.
SendsSucceed == SendOutcomes = {TRUE}

\* No client uses one id for two tasks.
OwnIds ==
  \A t, u \in Tasks : Group[t] = Group[u] /\ TaskId[t] = TaskId[u] => t = u

(***************************************************************************)
(* What a step does to waiting and running tasks.                          *)
(***************************************************************************)

\* Worker w stops.
Stops(w) ==
  /\ active[w]
  /\ active' = [active EXCEPT ![w] = FALSE]
  /\ armed' = [armed EXCEPT ![w] = FALSE]
  /\ task' = task

\* The task of w is pushed back, after a failure that leaves it more tries.
GoesBack(w) ==
  /\ Stops(w)
  /\ PushTask(task[w])
  /\ \/ failures' = failures
     \/ /\ failures[task[w]] + 1 < MaxTaskFailures
        /\ failures' = [failures EXCEPT ![task[w]] = @ + 1]
  /\ awaiting' = awaiting

\* The task of w is done with, by the answer that is read.
Ends(w) ==
  /\ Stops(w)
  /\ wire[w] # <<>>
  /\ Finished(task[w])
  /\ awaiting' = AwaitingAfter(Group[task[w]], Head(wire[w]))
  /\ \/ failures' = failures
     \/ failures' = [failures EXCEPT ![task[w]] = @ + 1]

\* The tasks of job j go.
Leaves(j) ==
  /\ Remove(j)
  /\ active' = [w \in Workers |-> active[w] /\ w \notin Range(activeWorkers[j])]
  /\ armed' = [w \in Workers |-> armed[w] /\ w \notin Range(activeWorkers[j])]
  /\ task' = task
  /\ failures' = failures
  /\ awaiting' = {t \in awaiting : Group[t] # j}

\* Tasks stay where they are.
NothingMoves ==
  /\ UNCHANGED <<queueVars, failures, active, armed, awaiting>>
  /\ \A w \in Workers : active[w] => task'[w] = task[w]

\* The tasks that a batch message of job j may be made of.
NewTasks(j) == {t \in Tasks : Group[t] = j /\ Fresh(t)}

\* An inactive worker that is deactivated, or goes, changes nothing.
LEMMA NoTimerToStop ==
  ASSUME WorkerInv, NEW w \in Workers, ~active[w]
  PROVE  /\ [active EXCEPT ![w] = FALSE] = active
         /\ [armed EXCEPT ![w] = FALSE] = armed
BY DEF WorkerInv, WorkerTypeOK, TimerOnlyWhenActive

\* Deactivating an active worker stops it.
LEMMA DeactivateIsStop ==
  ASSUME WorkerInv, NEW w \in Workers, active[w], Deactivate(w)
  PROVE  Stops(w)
<1>1. Range(<<w>>) = {w}
  BY DEF Range
<1> QED
  BY <1>1 DEF Deactivate, DeactivateAll, WorkerInv, WorkerTypeOK, Stops

\* A step that leaves queue, workers, failures and jobs' waits alone moves no task.
LEMMA QuietIsNothing ==
  ASSUME UNCHANGED <<queueVars, workerVars, failures, awaiting>>
  PROVE  NothingMoves
BY DEF workerVars, NothingMoves

\* The step of worker w that reads an answer.
LEMMA AnswerMoves ==
  ASSUME AppInv, NEW w \in Workers, OnWorkerCommunication(w)
  PROVE  NothingMoves \/ GoesBack(w) \/ Ends(w)
<1> DEFINE a == Head(wire[w])
<1>0. WorkerInv
  BY DEF AppInv
<1>1. CASE DropAnswer(w) \/ AnswerChallenge(w, a)
  BY <1>1, QuietIsNothing DEF DropAnswer, AnswerChallenge
<1>2. CASE AnswerWithoutJob(w)
  BY <1>2 DEF AnswerWithoutJob, AppInv, JobsPresent
<1>3. CASE AnswerSuccess(w, a) \/ AnswerRejected(w, a)
  <2>1. active[w] /\ CompleteTask(w, a)
    BY <1>3 DEF AnswerSuccess, AnswerRejected, HasJob
  <2>2. Stops(w) /\ Finished(task[w]) /\ awaiting' = AwaitingAfter(Group[task[w]], a)
    BY <1>0, <2>1, DeactivateIsStop DEF CompleteTask
  <2>3. wire[w] # <<>>
    BY DEF OnWorkerCommunication
  <2> QED
    BY <1>3, <2>2, <2>3 DEF AnswerSuccess, AnswerRejected, Ends
<1>4. CASE AnswerRescheduled(w, a)
  <2>1. active[w] /\ Deactivate(w)
    BY <1>4 DEF AnswerRescheduled, HasJob
  <2> QED
    BY <1>0, <1>4, <2>1, DeactivateIsStop DEF AnswerRescheduled, GoesBack
<1> QED
  BY <1>1, <1>2, <1>3, <1>4 DEF OnWorkerCommunication

\* The steps of a worker.
LEMMA WorkerMoves ==
  ASSUME SendsSucceed, AppInv, NEW w \in Workers, WorkerStep(w)
  PROVE  NothingMoves \/ GoesBack(w) \/ Ends(w)
<1>0. WorkerInv
  BY DEF AppInv
<1>1. CASE OnWorkerClosed(w)
  <2>1. /\ active' = [active EXCEPT ![w] = FALSE]
        /\ armed' = [armed EXCEPT ![w] = FALSE]
        /\ task' = task /\ failures' = failures /\ awaiting' = awaiting
    BY <1>1 DEF OnWorkerClosed, RemoveWorker
  <2>2. CASE active[w]
    BY <1>1, <2>1, <2>2 DEF OnWorkerClosed, GoesBack, Stops
  <2>3. CASE ~active[w]
    <3>1. UNCHANGED queueVars
      BY <1>1, <2>3 DEF OnWorkerClosed
    <3> QED
      BY <1>0, <2>1, <2>3, <3>1, NoTimerToStop DEF NothingMoves
  <2> QED
    BY <2>2, <2>3
<1>2. ASSUME NEW sent \in SendOutcomes, OnWorkerTimeout(w, sent) PROVE GoesBack(w)
  <2>1. sent /\ active[w]
    BY <1>0, <1>2 DEF SendsSucceed, OnWorkerTimeout, WorkerInv, TimerOnlyWhenActive
  <2>2. Deactivate(w) /\ PushTask(task[w]) /\ failures' = failures /\ awaiting' = awaiting
    BY <1>2, <2>1 DEF OnWorkerTimeout, CancelOrDeactivate, Deactivate
  <2> QED
    BY <1>0, <2>1, <2>2, DeactivateIsStop DEF GoesBack
<1>3. ASSUME NEW m \in executing[w], NEW s \in Statuses, WorkerAnswer(w, m, s)
      PROVE  NothingMoves
  BY <1>3, QuietIsNothing DEF WorkerAnswer
<1>4. CASE OnWorkerCommunication(w)
  BY <1>4, AnswerMoves
<1> QED
  BY <1>1, <1>2, <1>3, <1>4 DEF WorkerStep

\* What a step may do to waiting and running tasks.
LEMMA StepMoves ==
  ASSUME SendsSucceed, AppInv, [Next]_vars
  PROVE  \/ NothingMoves
         \/ \E w \in Workers : GoesBack(w) \/ Ends(w)
         \/ \E j \in Jobs : \E ts \in BatchesOf(NewTasks(j)) : HandleJobBatch(j, ts)
         \/ \E j \in Jobs : Leaves(j)
         \/ \E g \in Jobs : DispatchTask(g)
<1>1. ASSUME NEW c \in Connections, NEW w \in Workers, OnGreeting(c, w) PROVE NothingMoves
  <2>1. /\ task' = [task EXCEPT ![w] = NoTask] /\ w \notin d_workers
        /\ UNCHANGED <<queueVars, failures, active, armed, awaiting>>
    BY <1>1 DEF OnGreeting, AddWorker
  <2>2. ~active[w]
    BY <2>1 DEF AppInv, WorkerInv, WorkerPartition
  <2>3. \A v \in Workers : active[v] => task'[v] = task[v]
    BY <2>1, <2>2 DEF AppInv, WorkerInv, WorkerTypeOK
  <2> QED
    BY <2>1, <2>3 DEF NothingMoves
<1>2. ASSUME NEW j \in Jobs, OnJobAdded(j) PROVE NothingMoves
  BY <1>2, QuietIsNothing DEF OnJobAdded, worldVars
<1>3. ASSUME NEW j \in Jobs, NEW v \in BOOLEAN, NEW timed \in Timeouts,
             HandleJobIdentify(j, v, timed)
      PROVE  NothingMoves
  BY <1>3, QuietIsNothing DEF HandleJobIdentify, worldVars
<1>4. ASSUME NEW j \in Jobs, NEW sent \in CancelOutcomes(j), OnJobRemoved(j, sent) PROVE Leaves(j)
  BY <1>4 DEF OnJobRemoved, CancelOrDeactivate, DeactivateAll, Leaves
<1>5. ASSUME NEW j \in Jobs, JobStep(j)
      PROVE  \/ NothingMoves \/ Leaves(j)
             \/ \E ts \in BatchesOf(NewTasks(j)) : HandleJobBatch(j, ts)
  BY <1>2, <1>3, <1>4, <1>5 DEF JobStep, NewTasks
<1>6. CASE DispatchStep
  <2>1. CASE DispatchEnd
    BY <2>1 DEF DispatchEnd, RotateIdle, workerVars, worldVars, NothingMoves
  <2> QED
    BY <1>6, <2>1 DEF DispatchStep, DispatchTurn, SendsSucceed
<1>7. CASE UNCHANGED vars
  BY <1>7, QuietIsNothing DEF vars, worldVars
<1> QED
  BY <1>1, <1>5, <1>6, <1>7, WorkerMoves DEF Next

\* Workers that stop take no new task.
LEMMA HeldShrinks ==
  ASSUME \A w \in Workers : active'[w] => active[w] /\ task'[w] = task[w]
  PROVE  Held' \subseteq Held
BY DEF Held

(***************************************************************************)
(* What waits, after each operation of the queue.                          *)
(***************************************************************************)

\* Each batch holds a task once.
WaitOnce == \A j \in Jobs : IsInjective(d_tasks[j])

\* A task is waiting exactly if it is in the batch of its job.
LEMMA QueuedByGroup ==
  ASSUME QueueInv, NEW t \in Tasks
  PROVE  t \in Queued <=> t \in Range(d_tasks[Group[t]])
<1>1. Group[t] \in Jobs
  BY TaskAssumption
<1> QED
  BY <1>1 DEF Queued, QueueInv, QueueGroups

\* Only tasks wait.
LEMMA QueuedAreTasks ==
  ASSUME QueueInv
  PROVE  Queued \subseteq Tasks
BY RangeOfSeq DEF Queued, QueueInv, QueueTypeOK

\* One batch changes.
LEMMA QueuedAfter ==
  ASSUME QueueInv, QueueInv', NEW g \in Jobs, NEW S \in SUBSET Tasks,
         \A j \in Jobs \ {g} : d_tasks'[j] = d_tasks[j],
         Range(d_tasks'[g]) = S
  PROVE  Queued' = {t \in Queued : Group[t] # g} \cup S
<1>1. Queued' \subseteq Tasks
  BY RangeOfSeq DEF Queued, QueueInv, QueueTypeOK
<1>2. \A t \in Tasks : t \in Queued' <=> t \in Range(d_tasks'[Group[t]])
  <2> TAKE t \in Tasks
  <2>1. Group[t] \in Jobs
    BY TaskAssumption
  <2> QED
    BY <2>1 DEF Queued, QueueInv, QueueGroups
<1>3. \A t \in S : Group[t] = g
  BY DEF QueueInv, QueueGroups
<1>4. \A t \in Tasks : t \in Queued' <=> IF Group[t] = g THEN t \in S ELSE t \in Queued
  BY <1>2, QueuedByGroup, TaskAssumption
<1> QED
  BY <1>1, <1>3, <1>4, QueuedAreTasks

\* A task that is put back into its batch waits.
LEMMA PushTaskQueued ==
  ASSUME QueueInv, QueueInv', WaitOnce, NEW t \in Tasks, t \notin Queued, PushTask(t)
  PROVE  /\ WaitOnce'
         /\ Queued' = IF Group[t] \in d_batches THEN Queued \cup {t} ELSE Queued
<1> DEFINE g == Group[t]
<1>1. g \in Jobs
  BY TaskAssumption
<1>2. CASE g \notin d_batches
  BY <1>2 DEF PushTask, queueVars, WaitOnce, Queued
<1>3. CASE g \in d_batches
  <2>1. d_tasks' = [d_tasks EXCEPT ![g] = Append(@, t)] /\ d_tasks \in [Jobs -> Seq(Tasks)]
    BY <1>3 DEF PushTask, QueueInv, QueueTypeOK
  <2>2. d_tasks[g] \in Seq(Tasks) /\ IsInjective(d_tasks[g]) /\ t \notin Range(d_tasks[g])
    BY <1>1, <2>1, QueuedByGroup DEF WaitOnce
  <2>3. d_tasks'[g] = Append(d_tasks[g], t) /\ \A j \in Jobs \ {g} : d_tasks'[j] = d_tasks[j]
    BY <1>1, <2>1
  <2>4. Range(d_tasks'[g]) = Range(d_tasks[g]) \cup {t} /\ IsInjective(d_tasks'[g])
    BY <2>2, <2>3, RangeOfAppend
  <2>5. WaitOnce'
    BY <2>3, <2>4 DEF WaitOnce
  <2>6. Range(d_tasks[g]) = {u \in Queued : Group[u] = g}
    BY <1>1, QueuedByGroup, QueuedAreTasks DEF Queued, QueueInv, QueueGroups
  <2>7. Range(d_tasks'[g]) \subseteq Tasks
    BY <2>4, <2>6, QueuedAreTasks
  <2>8. Queued' = {u \in Queued : Group[u] # g} \cup Range(d_tasks'[g])
    BY <1>1, <2>3, <2>7, QueuedAfter
  <2> QED
    BY <1>3, <2>4, <2>5, <2>6, <2>8
<1> QED
  BY <1>2, <1>3

\* A task that is taken no longer waits.
LEMMA PopQueued ==
  ASSUME QueueInv, QueueInv', WaitOnce, NEW g \in Jobs, Pop(g)
  PROVE  /\ WaitOnce'
         /\ Head(d_tasks[g]) \in Queued
         /\ Group[Head(d_tasks[g])] = g
         /\ Queued' = Queued \ {Head(d_tasks[g])}
<1> DEFINE t == Head(d_tasks[g])
<1>1. /\ d_tasks[g] # <<>> /\ d_tasks[g] \in Seq(Tasks) /\ IsInjective(d_tasks[g])
      /\ d_tasks \in [Jobs -> Seq(Tasks)]
      /\ d_tasks' = [d_tasks EXCEPT ![g] = Tail(@)]
  BY DEF Pop, QueueInv, QueueTypeOK, WaitOnce
<1>2. /\ Tail(d_tasks[g]) \in Seq(Tasks) /\ IsInjective(Tail(d_tasks[g]))
      /\ Range(d_tasks[g]) = Range(Tail(d_tasks[g])) \cup {t}
      /\ t \notin Range(Tail(d_tasks[g]))
  BY <1>1, RangeOfTail
<1> HIDE DEF t
<1>3. d_tasks'[g] = Tail(d_tasks[g]) /\ \A j \in Jobs \ {g} : d_tasks'[j] = d_tasks[j]
  BY <1>1
<1>4. WaitOnce'
  BY <1>2, <1>3 DEF WaitOnce
<1>5. Range(d_tasks[g]) = {u \in Queued : Group[u] = g}
  BY QueuedByGroup, QueuedAreTasks DEF Queued, QueueInv, QueueGroups
<1>6. Queued' = {u \in Queued : Group[u] # g} \cup Range(Tail(d_tasks[g]))
  BY <1>2, <1>3, RangeOfSeq, QueuedAfter
<1> QED
  BY <1>2, <1>4, <1>5, <1>6 DEF t

\* A batch that is removed takes its tasks along.
LEMMA RemoveQueued ==
  ASSUME QueueInv, QueueInv', WaitOnce, NEW g \in Jobs, Remove(g)
  PROVE  WaitOnce' /\ Queued' = {t \in Queued : Group[t] # g}
<1>1. d_tasks'[g] = <<>> /\ \A j \in Jobs \ {g} : d_tasks'[j] = d_tasks[j]
  BY DEF Remove, QueueInv, QueueTypeOK
<1>2. Range(<<>>) = {} /\ IsInjective(<<>>)
  BY DEF Range, IsInjective
<1>3. WaitOnce'
  BY <1>1, <1>2 DEF WaitOnce
<1>4. Queued' = {t \in Queued : Group[t] # g} \cup {}
  BY <1>1, <1>2, QueuedAfter
<1> QED
  BY <1>3, <1>4

\* A task that is finished takes no waiting task along.
LEMMA FinishedQueued ==
  ASSUME QueueInv, QueueInv', WaitOnce, NEW t \in Tasks, Finished(t)
  PROVE  WaitOnce' /\ Queued' = Queued
<1> DEFINE g == Group[t]
<1>1. g \in Jobs
  BY TaskAssumption
<1>2. CASE Remove(g) /\ d_tasks[g] = <<>>
  <2>1. WaitOnce' /\ Queued' = {u \in Queued : Group[u] # g}
    BY <1>1, <1>2, RemoveQueued
  <2>2. Range(d_tasks[g]) = {}
    BY <1>2 DEF Range
  <2>3. \A u \in Queued : Group[u] # g
    BY <2>2, QueuedByGroup, QueuedAreTasks
  <2> QED
    BY <2>1, <2>3
<1>3. CASE d_tasks' = d_tasks
  BY <1>3 DEF WaitOnce, Queued
<1> QED
  BY <1>2, <1>3 DEF Finished

\* The tasks of a batch message are sequences of different tasks.
LEMMA BatchTasks ==
  ASSUME NEW S \in SUBSET Tasks, NEW ts \in BatchesOf(S)
  PROVE  ts \in Seq(Tasks) /\ IsInjective(ts) /\ Range(ts) \subseteq S
<1>1. PICK n \in 0 .. MaxBatch : ts \in [1 .. n -> S]
  BY DEF BatchesOf
<1>2. n \in Nat
  BY TaskQueueAssumption
<1>3. ts \in Seq(S) /\ ts \in Seq(Tasks)
  BY <1>1, <1>2
<1> QED
  BY <1>3, RangeOfSeq DEF BatchesOf

\* The tasks of a batch message wait.
LEMMA PushBatchQueued ==
  ASSUME QueueInv, QueueInv', WaitOnce, NEW g \in Jobs, NEW timed,
         NEW ts \in Seq(Tasks), IsInjective(ts), Range(ts) \cap Queued = {},
         \A t \in Range(ts) : Group[t] = g,
         PushBatch(g, ts, timed)
  PROVE  WaitOnce' /\ Queued' = Queued \cup Range(ts)
<1>1. CASE ts = <<>>
  <2>1. Range(ts) = {}
    BY <1>1 DEF Range
  <2> QED
    BY <1>1, <2>1 DEF PushBatch, queueVars, WaitOnce, Queued
<1>2. CASE ts # <<>>
  <2>1. d_tasks' = [d_tasks EXCEPT ![g] = @ \o ts] /\ d_tasks \in [Jobs -> Seq(Tasks)]
    BY <1>2 DEF PushBatch, QueueInv, QueueTypeOK
  <2>2. d_tasks[g] \in Seq(Tasks) /\ IsInjective(d_tasks[g])
    BY <2>1 DEF WaitOnce
  <2>3. Range(d_tasks[g]) \cap Range(ts) = {}
    BY DEF Queued
  <2>4. d_tasks'[g] = d_tasks[g] \o ts /\ \A j \in Jobs \ {g} : d_tasks'[j] = d_tasks[j]
    BY <2>1
  <2>5. IsInjective(d_tasks'[g]) /\ Range(d_tasks'[g]) = Range(d_tasks[g]) \cup Range(ts)
    BY <2>2, <2>3, <2>4, InjectiveConcat, RangeConcatenation
  <2>6. WaitOnce'
    BY <2>4, <2>5 DEF WaitOnce
  <2>7. Range(d_tasks[g]) = {u \in Queued : Group[u] = g}
    BY QueuedByGroup, QueuedAreTasks DEF Queued, QueueInv, QueueGroups
  <2>8. Range(d_tasks'[g]) \subseteq Tasks
    BY <2>5, <2>7, QueuedAreTasks, RangeOfSeq
  <2>9. Queued' = {u \in Queued : Group[u] # g} \cup Range(d_tasks'[g])
    BY <2>4, <2>8, QueuedAfter
  <2> QED
    BY <2>5, <2>6, <2>7, <2>9
<1> QED
  BY <1>1, <1>2

(***************************************************************************)
(* What runs, and where.                                                   *)
(***************************************************************************)

\* No two workers run one task.
RunsOnce == \A v, w \in Workers : active[v] /\ active[w] /\ task[v] = task[w] => v = w

\* Each task is in one place, and its failures leave it another try.
PlaceInv == AppInv /\ OnePlace /\ FailureBudget

\* The parts of the invariant by name.
LEMMA PlaceParts ==
  ASSUME PlaceInv
  PROVE  /\ QueueInv /\ WorkerInv /\ JobWorkerLink
         /\ WaitOnce /\ RunsOnce /\ Queued \cap Held = {}
         /\ active \in [Workers -> BOOLEAN]
         /\ failures \in [Tasks -> Nat]
         /\ \A w \in Workers : active[w] => task[w] \in Tasks /\ task[w] \in Held
         /\ Held \subseteq Tasks
BY DEF PlaceInv, AppInv, OnePlace, WaitOnce, RunsOnce, WorkerInv, WorkerTypeOK, ActiveHasTask,
       RestTypeOK, Held

\* A worker that stops takes its task, and no other, from the running ones.
LEMMA StopsHeld ==
  ASSUME PlaceInv, NEW w \in Workers, Stops(w)
  PROVE  /\ Held' = Held \ {task[w]}
         /\ task[w] \in Held
         /\ task[w] \notin Queued
         /\ RunsOnce'
<1>1. \A v \in Workers : active'[v] <=> active[v] /\ v # w
  BY PlaceParts DEF Stops
<1>2. task' = task
  BY DEF Stops
<1>3. \A v \in Workers : active[v] /\ task[v] = task[w] => v = w
  BY PlaceParts DEF Stops, RunsOnce
<1>4. Held' = {task[v] : v \in {x \in Workers : active[x] /\ x # w}}
  BY <1>1, <1>2 DEF Held
<1>5. Held' = Held \ {task[w]}
  BY <1>3, <1>4 DEF Held
<1>6. RunsOnce'
  BY <1>1, <1>2, PlaceParts DEF RunsOnce
<1> QED
  BY <1>5, <1>6, PlaceParts DEF Stops

\* A task that goes back waits, if its job still has a batch.
LEMMA GoesBackPlace ==
  ASSUME PlaceInv, QueueInv', NEW w \in Workers, GoesBack(w)
  PROVE  /\ OnePlace' /\ FailureBudget'
         /\ Held' = Held \ {task[w]}
         /\ Queued' = IF Group[task[w]] \in d_batches THEN Queued \cup {task[w]} ELSE Queued
<1> DEFINE t == task[w]
<1>1. Stops(w) /\ PushTask(t)
  BY DEF GoesBack
<1>2. Held' = Held \ {t} /\ t \in Held /\ t \notin Queued /\ RunsOnce'
  BY <1>1, StopsHeld
<1>3. t \in Tasks
  BY <1>2, PlaceParts
<1>4. WaitOnce' /\ Queued' = IF Group[t] \in d_batches THEN Queued \cup {t} ELSE Queued
  BY <1>1, <1>2, <1>3, PushTaskQueued, PlaceParts
<1>5. OnePlace'
  BY <1>2, <1>4, PlaceParts DEF OnePlace, WaitOnce, RunsOnce
<1>6. \A u \in Queued \cup Held : failures'[u] < MaxTaskFailures \/ failures'[u] = 0
  <2>1. failures \in [Tasks -> Nat] /\ Queued \cup Held \subseteq Tasks
    BY PlaceParts, QueuedAreTasks
  <2>2. CASE failures' = failures
    BY <2>2 DEF PlaceInv, FailureBudget
  <2>3. CASE failures[t] + 1 < MaxTaskFailures /\ failures' = [failures EXCEPT ![t] = @ + 1]
    BY <1>3, <2>1, <2>3 DEF PlaceInv, FailureBudget
  <2> QED
    BY <2>2, <2>3 DEF GoesBack
<1>7. FailureBudget'
  BY <1>2, <1>4, <1>6 DEF FailureBudget
<1> QED
  BY <1>2, <1>4, <1>5, <1>7

\* A task that is done with is nowhere.
LEMMA EndsPlace ==
  ASSUME PlaceInv, QueueInv', NEW w \in Workers, Ends(w)
  PROVE  /\ OnePlace' /\ FailureBudget'
         /\ Held' = Held \ {task[w]}
         /\ Queued' = Queued
<1> DEFINE t == task[w]
<1>1. Stops(w) /\ Finished(t)
  BY DEF Ends
<1>2. Held' = Held \ {t} /\ t \in Held /\ t \notin Queued /\ RunsOnce'
  BY <1>1, StopsHeld
<1>3. t \in Tasks
  BY <1>2, PlaceParts
<1>4. WaitOnce' /\ Queued' = Queued
  BY <1>1, <1>3, FinishedQueued, PlaceParts
<1>5. OnePlace'
  BY <1>2, <1>4, PlaceParts DEF OnePlace, WaitOnce, RunsOnce
<1>6. \A u \in (Queued \cup Held) \ {t} : failures'[u] = failures[u]
  <2>1. failures \in [Tasks -> Nat] /\ Queued \cup Held \subseteq Tasks
    BY PlaceParts, QueuedAreTasks
  <2>2. failures' = failures \/ failures' = [failures EXCEPT ![t] = @ + 1]
    BY DEF Ends
  <2> QED
    BY <2>1, <2>2
<1>7. FailureBudget'
  BY <1>2, <1>4, <1>6 DEF FailureBudget, PlaceInv
<1> QED
  BY <1>2, <1>4, <1>5, <1>7

\* New tasks of one job wait.
LEMMA BatchPlace ==
  ASSUME PlaceInv, QueueInv', NEW j \in Jobs, NEW ts \in BatchesOf(NewTasks(j)),
         HandleJobBatch(j, ts)
  PROVE  /\ OnePlace' /\ FailureBudget'
         /\ Held' = Held
         /\ Queued' = Queued \cup Range(ts)
         /\ Range(ts) \cap (awaiting \cup Queued \cup Held) = {}
         /\ Range(ts) \subseteq Tasks
         /\ \A t \in Range(ts) : Group[t] = j
<1>1. NewTasks(j) \subseteq Tasks
  BY DEF NewTasks
<1>2. ts \in Seq(Tasks) /\ IsInjective(ts) /\ Range(ts) \subseteq NewTasks(j)
  BY <1>1, BatchTasks
<1>3. \A t \in Range(ts) : Group[t] = j /\ t \in Tasks /\ t \notin awaiting \cup Queued \cup Held
  BY <1>2 DEF NewTasks, Fresh
<1>4. /\ PushBatch(j, ts, timeout[j])
      /\ active' = active /\ task' = task
      /\ failures' = [t \in Tasks |-> IF t \in Range(ts) THEN 0 ELSE failures[t]]
  BY DEF HandleJobBatch, workerVars
<1>5. Range(ts) \cap Queued = {}
  BY <1>3
<1>6. WaitOnce' /\ Queued' = Queued \cup Range(ts)
  BY <1>2, <1>3, <1>4, <1>5, PushBatchQueued, PlaceParts
<1>7. Held' = Held
  BY <1>4 DEF Held
<1>8. RunsOnce'
  BY <1>4, PlaceParts DEF RunsOnce
<1>9. OnePlace'
  BY <1>3, <1>6, <1>7, <1>8, PlaceParts DEF OnePlace, WaitOnce, RunsOnce
<1>10. \A t \in Tasks : failures'[t] = 0 \/ failures'[t] = failures[t]
  BY <1>4
<1>11. FailureBudget'
  BY <1>3, <1>4, <1>6, <1>7, PlaceParts, QueuedAreTasks DEF FailureBudget, PlaceInv
<1> QED
  BY <1>3, <1>6, <1>7, <1>9, <1>11

\* When a job leaves, so do its tasks.
LEMMA LeavesPlace ==
  ASSUME PlaceInv, QueueInv', NEW j \in Jobs, Leaves(j)
  PROVE  /\ OnePlace' /\ FailureBudget'
         /\ Held' = {t \in Held : Group[t] # j}
         /\ Queued' = {t \in Queued : Group[t] # j}
<1>1. /\ Remove(j) /\ task' = task /\ failures' = failures
      /\ active' = [w \in Workers |-> active[w] /\ w \notin Range(activeWorkers[j])]
  BY DEF Leaves
<1>2. WaitOnce' /\ Queued' = {t \in Queued : Group[t] # j}
  BY <1>1, RemoveQueued, PlaceParts
<1>3. \A w \in Workers : active'[w] <=> active[w] /\ Group[task[w]] # j
  BY <1>1, PlaceParts DEF JobWorkerLink
<1>4. Held' = {t \in Held : Group[t] # j}
  BY <1>1, <1>3 DEF Held
<1>5. RunsOnce'
  BY <1>1, <1>3, PlaceParts DEF RunsOnce
<1>6. OnePlace'
  BY <1>2, <1>4, <1>5, PlaceParts DEF OnePlace, WaitOnce, RunsOnce
<1>7. FailureBudget'
  BY <1>1, <1>2, <1>4 DEF FailureBudget, PlaceInv
<1> QED
  BY <1>2, <1>4, <1>6, <1>7

\* A task that is dispatched runs on the worker it was given to.
LEMMA DispatchPlace ==
  ASSUME PlaceInv, QueueInv', NEW g \in Jobs, DispatchTask(g)
  PROVE  LET t == Head(d_tasks[g])
             w == Head(d_idleWorkers)
         IN /\ OnePlace' /\ FailureBudget'
            /\ w \in Workers /\ ~active[w]
            /\ active' = [active EXCEPT ![w] = TRUE]
            /\ task' = [task EXCEPT ![w] = t]
            /\ t \in Queued /\ t \in Tasks /\ Group[t] = g
            /\ Held' = Held \cup {t}
            /\ Queued' = Queued \ {t}
<1> DEFINE t == Head(d_tasks[g])
           w == Head(d_idleWorkers)
<1>1. /\ Pop(g) /\ failures' = failures
      /\ d_idleWorkers # <<>> /\ ~active[w]
      /\ active' = [active EXCEPT ![w] = TRUE]
      /\ task' = [task EXCEPT ![w] = t]
  BY DEF DispatchTask, Activate
<1>2. w \in Workers
  BY <1>1, HeadTailProperties, PlaceParts DEF WorkerInv, WorkerTypeOK
<1>3. WaitOnce' /\ t \in Queued /\ Group[t] = g /\ Queued' = Queued \ {t}
  BY <1>1, PopQueued, PlaceParts
<1>4. t \in Tasks /\ t \notin Held
  BY <1>3, PlaceParts, QueuedAreTasks
<1> HIDE DEF t, w
<1>5. task \in [Workers -> Tasks \cup {NoTask}] /\ active \in [Workers -> BOOLEAN]
  BY PlaceParts DEF WorkerInv, WorkerTypeOK
<1>6. /\ \A v \in Workers : active'[v] <=> active[v] \/ v = w
      /\ \A v \in Workers : task'[v] = IF v = w THEN t ELSE task[v]
  BY <1>1, <1>2, <1>5
<1>7. Held' = Held \cup {t}
  BY <1>1, <1>2, <1>6 DEF Held
<1>8. RunsOnce'
  BY <1>1, <1>4, <1>6, PlaceParts DEF RunsOnce
<1>9. OnePlace'
  BY <1>3, <1>4, <1>7, <1>8, PlaceParts DEF OnePlace, WaitOnce, RunsOnce
<1>10. FailureBudget'
  BY <1>1, <1>3, <1>7 DEF FailureBudget, PlaceInv
<1> QED
  BY <1>1, <1>2, <1>3, <1>4, <1>7, <1>9, <1>10 DEF t, w

\* Where no task moves, the same tasks wait and run.
LEMMA NothingPlace ==
  ASSUME PlaceInv, NothingMoves
  PROVE  OnePlace' /\ FailureBudget' /\ Held' = Held /\ Queued' = Queued
<1>1. Queued' = Queued /\ WaitOnce'
  BY PlaceParts DEF NothingMoves, queueVars, Queued, WaitOnce
<1>2. active' = active /\ \A w \in Workers : active[w] => task'[w] = task[w]
  BY DEF NothingMoves
<1>3. Held' = Held
  BY <1>2 DEF Held
<1>4. RunsOnce'
  BY <1>2, PlaceParts DEF RunsOnce
<1> QED
  BY <1>1, <1>3, <1>4, PlaceParts
  DEF NothingMoves, OnePlace, WaitOnce, RunsOnce, FailureBudget, PlaceInv

\* Every step keeps tasks in one place each.
LEMMA PlaceStepInv ==
  ASSUME SendsSucceed, PlaceInv, [Next]_vars
  PROVE  PlaceInv'
<1>1. AppInv /\ AppInv' /\ QueueInv'
  BY AppStepInv DEF PlaceInv, AppInv
<1>2. OnePlace' /\ FailureBudget'
  BY <1>1, StepMoves, NothingPlace, GoesBackPlace, EndsPlace, BatchPlace, LeavesPlace,
     DispatchPlace
<1> QED
  BY <1>1, <1>2 DEF PlaceInv

\* At first there are no tasks.
LEMMA PlaceInitInv == Init => PlaceInv
<1> SUFFICES ASSUME Init PROVE PlaceInv
  OBVIOUS
<1>1. Range(<<>>) = {} /\ IsInjective(<<>>)
  BY DEF Range, IsInjective
<1>2. Queued = {} /\ Held = {} /\ WaitOnce
  BY <1>1 DEF Init, QueueInit, WorkerInit, Queued, Held, WaitOnce
<1>3. OnePlace
  BY <1>2 DEF OnePlace, WaitOnce, Init, WorkerInit
<1> QED
  BY <1>2, <1>3, AppInitInv DEF PlaceInv, FailureBudget

\* If sends succeed, no task waits twice, runs twice, or waits while it runs,
\* whatever ids clients use and however late answers are.
THEOREM EachTaskInOnePlace ==
  ASSUME SendsSucceed
  PROVE  Spec => []OnePlace
<1>1. PlaceInv => OnePlace
  BY DEF PlaceInv
<1> QED
  BY <1>1, PlaceInitInv, PlaceStepInv, PTL DEF Spec

\* If sends succeed, no task is tried again once its failures are used up.
THEOREM BudgetKept ==
  ASSUME SendsSucceed
  PROVE  Spec => []FailureBudget
<1>1. PlaceInv => FailureBudget
  BY DEF PlaceInv
<1> QED
  BY <1>1, PlaceInitInv, PlaceStepInv, PTL DEF Spec

(***************************************************************************)
(* The queue's books of running tasks.                                     *)
(***************************************************************************)

\* The queue knows which tasks run, and their time limits.
BooksInv == PlaceInv /\ RunningMatchesWorkers /\ TimeLimitKept

\* The ids of the tasks of j among S.
IdsOf(j, S) == {TaskId[t] : t \in {u \in S : Group[u] = j}}

\* The job of a running task has a batch.
LEMMA RunningHasBatch ==
  ASSUME BooksInv, NEW t \in Held
  PROVE  Group[t] \in d_batches /\ Group[t] \in Jobs /\ TaskId[t] \in d_running[Group[t]]
<1>1. t \in Tasks /\ QueueInv
  BY PlaceParts DEF BooksInv
<1>2. Group[t] \in Jobs
  BY <1>1, TaskAssumption
<1>3. TaskId[t] \in d_running[Group[t]]
  BY <1>2 DEF BooksInv, RunningMatchesWorkers
<1> QED
  BY <1>1, <1>2, <1>3 DEF QueueInv, NoZombieBatch

\* Without a task of job g its id is gone, and no other id.
LEMMA IdsWithout ==
  ASSUME OwnIds, NEW S \in SUBSET Tasks, NEW t \in S, NEW j
  PROVE  IdsOf(j, S \ {t}) = IF j = Group[t] THEN IdsOf(j, S) \ {TaskId[t]} ELSE IdsOf(j, S)
BY DEF OwnIds, IdsOf

\* With a task of job g its id comes, and no other.
LEMMA IdsWith ==
  ASSUME NEW S \in SUBSET Tasks, NEW t \in Tasks, NEW j
  PROVE  IdsOf(j, S \cup {t}) = IF j = Group[t] THEN IdsOf(j, S) \cup {TaskId[t]} ELSE IdsOf(j, S)
BY DEF IdsOf

\* The worker of a task that stops takes the task out of the books.
LEMMA StopsBooks ==
  ASSUME OwnIds, BooksInv, NEW w \in Workers, Stops(w), Held' = Held \ {task[w]},
         \A j \in Jobs : d_running'[j] =
           IF j = Group[task[w]] THEN d_running[j] \ {TaskId[task[w]]} ELSE d_running[j]
  PROVE  RunningMatchesWorkers'
<1>1. task[w] \in Held /\ Held \subseteq Tasks
  BY PlaceParts DEF BooksInv, Stops
<1>2. \A j \in Jobs : d_running[j] = IdsOf(j, Held)
  BY DEF BooksInv, RunningMatchesWorkers, IdsOf
<1>3. ASSUME NEW j \in Jobs PROVE d_running'[j] = IdsOf(j, Held \ {task[w]})
  <2>1. IdsOf(j, Held \ {task[w]}) =
          IF j = Group[task[w]] THEN IdsOf(j, Held) \ {TaskId[task[w]]} ELSE IdsOf(j, Held)
    BY <1>1, IdsWithout
  <2> QED
    BY <1>2, <2>1
<1> QED
  BY <1>3 DEF RunningMatchesWorkers, IdsOf

\* A worker that stops has no timeout source, the others keep theirs.
LEMMA StopsTimeLimit ==
  ASSUME BooksInv, NEW w \in Workers, Stops(w),
         \A v \in Workers \ {w} :
           active[v] => d_timeout'[Group[task[v]]] = d_timeout[Group[task[v]]]
  PROVE  TimeLimitKept'
<1>1. active \in [Workers -> BOOLEAN] /\ armed \in [Workers -> BOOLEAN]
  BY PlaceParts DEF BooksInv, WorkerInv, WorkerTypeOK
<1>2. \A v \in Workers : active'[v] <=> active[v] /\ v # w
  BY <1>1 DEF Stops
<1>3. \A v \in Workers \ {w} : armed'[v] = armed[v] /\ task'[v] = task[v]
  BY <1>1 DEF Stops
<1> QED
  BY <1>2, <1>3 DEF BooksInv, TimeLimitKept

\* A task that goes back.
LEMMA GoesBackBooks ==
  ASSUME OwnIds, BooksInv, QueueInv', NEW w \in Workers, GoesBack(w)
  PROVE  RunningMatchesWorkers' /\ TimeLimitKept'
<1> DEFINE t == task[w]
           g == Group[t]
<1>1. Stops(w) /\ PushTask(t)
  BY DEF GoesBack
<1>2. t \in Held /\ QueueInv /\ PlaceInv
  BY <1>1, PlaceParts DEF BooksInv, Stops
<1>3. g \in d_batches /\ g \in Jobs
  BY <1>2, RunningHasBatch
<1>4. d_running' = [d_running EXCEPT ![g] = @ \ {TaskId[t]}] /\ d_timeout' = d_timeout
  BY <1>1, <1>3 DEF PushTask
<1>5. \A j \in Jobs : d_running'[j] = IF j = g THEN d_running[j] \ {TaskId[t]} ELSE d_running[j]
  BY <1>2, <1>3, <1>4 DEF QueueInv, QueueTypeOK
<1>6. Held' = Held \ {t}
  BY <1>2, GoesBackPlace
<1> QED
  BY <1>1, <1>4, <1>5, <1>6, StopsBooks, StopsTimeLimit

\* A task that is done with.
LEMMA EndsBooks ==
  ASSUME OwnIds, BooksInv, QueueInv', NEW w \in Workers, Ends(w)
  PROVE  RunningMatchesWorkers' /\ TimeLimitKept'
<1> DEFINE t == task[w]
           g == Group[t]
           left == d_running[g] \ {TaskId[t]}
<1>1. Stops(w) /\ Finished(t)
  BY DEF Ends
<1>2. t \in Held /\ t \in Tasks /\ QueueInv /\ PlaceInv /\ Held \subseteq Tasks
  BY <1>1, PlaceParts DEF BooksInv, Stops
<1>3. g \in Jobs
  BY <1>2, TaskAssumption
<1>4. Held' = Held \ {t}
  BY <1>2, EndsPlace
<1>5. \/ Remove(g) /\ left = {}
      \/ d_running' = [d_running EXCEPT ![g] = left] /\ d_timeout' = d_timeout
  BY <1>1 DEF Finished
<1>6. \A j \in Jobs : d_running'[j] = IF j = g THEN left ELSE d_running[j]
  BY <1>2, <1>3, <1>5 DEF Remove, QueueInv, QueueTypeOK
<1>7. ASSUME NEW v \in Workers \ {w}, active[v]
      PROVE  d_timeout'[Group[task[v]]] = d_timeout[Group[task[v]]]
  <2>1. CASE Remove(g) /\ left = {}
    <3>1. task[v] \in Held /\ task[v] # t
      BY <1>1, <1>2, <1>7, PlaceParts DEF RunsOnce, Stops
    <3>2. TaskId[task[v]] \in d_running[Group[task[v]]] /\ Group[task[v]] \in Jobs
      BY <3>1, RunningHasBatch
    <3>3. Group[task[v]] # g
      BY <1>2, <2>1, <3>1, <3>2 DEF OwnIds
    <3> QED
      BY <1>2, <2>1, <3>2, <3>3 DEF Remove, QueueInv, QueueTypeOK
  <2> QED
    BY <1>5, <2>1
<1> QED
  BY <1>1, <1>4, <1>6, <1>7, StopsBooks, StopsTimeLimit

\* New tasks.
LEMMA BatchBooks ==
  ASSUME OwnIds, BooksInv, QueueInv', NEW j \in Jobs, NEW ts \in BatchesOf(NewTasks(j)),
         HandleJobBatch(j, ts)
  PROVE  RunningMatchesWorkers' /\ TimeLimitKept'
<1>1. PlaceInv /\ QueueInv /\ WorkerInv
  BY PlaceParts DEF BooksInv
<1>2. /\ Held' = Held
      /\ Range(ts) \cap (awaiting \cup Queued \cup Held) = {}
      /\ Range(ts) \subseteq Tasks
      /\ \A t \in Range(ts) : Group[t] = j
  BY <1>1, BatchPlace
<1>3. PushBatch(j, ts, timeout[j]) /\ active' = active /\ task' = task /\ armed' = armed
  BY DEF HandleJobBatch, workerVars
<1>4. CASE ts = <<>>
  <2>1. d_running' = d_running /\ d_timeout' = d_timeout
    BY <1>3, <1>4 DEF PushBatch, queueVars
  <2> QED
    BY <1>2, <1>3, <2>1 DEF BooksInv, RunningMatchesWorkers, TimeLimitKept
<1>5. CASE ts # <<>>
  <2>1. /\ d_running' = [d_running EXCEPT ![j] = @ \ {TaskId[t] : t \in Range(ts)}]
        /\ d_timeout' = [d_timeout EXCEPT ![j] = IF j \in d_batches THEN @ ELSE timeout[j]]
    BY <1>3, <1>5 DEF PushBatch
  <2>2. \A t \in Range(ts) : TaskId[t] \notin d_running[j]
    BY <1>1, <1>2, PlaceParts DEF BooksInv, RunningMatchesWorkers, OwnIds
  <2>3. d_running' = d_running
    BY <1>1, <2>1, <2>2 DEF QueueInv, QueueTypeOK
  <2>4. \A w \in Workers : active[w] => Group[task[w]] \in d_batches /\ Group[task[w]] \in Jobs
    BY <1>1, RunningHasBatch, PlaceParts
  <2>5. \A w \in Workers : active[w] => d_timeout'[Group[task[w]]] = d_timeout[Group[task[w]]]
    BY <1>1, <2>1, <2>4 DEF QueueInv, QueueTypeOK
  <2> QED
    BY <1>2, <1>3, <2>3, <2>5 DEF BooksInv, RunningMatchesWorkers, TimeLimitKept
<1> QED
  BY <1>4, <1>5

\* A job that leaves.
LEMMA LeavesBooks ==
  ASSUME BooksInv, QueueInv', NEW j \in Jobs, Leaves(j)
  PROVE  RunningMatchesWorkers' /\ TimeLimitKept'
<1>1. PlaceInv /\ QueueInv /\ WorkerInv /\ JobWorkerLink
  BY PlaceParts DEF BooksInv
<1>2. /\ Remove(j) /\ task' = task
      /\ active' = [w \in Workers |-> active[w] /\ w \notin Range(activeWorkers[j])]
      /\ armed' = [w \in Workers |-> armed[w] /\ w \notin Range(activeWorkers[j])]
  BY DEF Leaves
<1>3. Held' = {t \in Held : Group[t] # j}
  BY <1>1, LeavesPlace
<1>4. /\ \A k \in Jobs : d_running'[k] = IF k = j THEN {} ELSE d_running[k]
      /\ \A k \in Jobs : d_timeout'[k] = IF k = j THEN FALSE ELSE d_timeout[k]
  BY <1>1, <1>2 DEF Remove, QueueInv, QueueTypeOK
<1>5. RunningMatchesWorkers'
  BY <1>3, <1>4 DEF BooksInv, RunningMatchesWorkers
<1>6. ASSUME NEW w \in Workers, active'[w]
      PROVE  active[w] /\ Group[task[w]] # j /\ Group[task[w]] \in Jobs /\ armed'[w] = armed[w]
  <2>1. active[w] /\ w \notin Range(activeWorkers[j])
    BY <1>2, <1>6
  <2>2. Group[task[w]] # j
    BY <1>1, <2>1 DEF JobWorkerLink
  <2>3. task[w] \in Tasks
    BY <1>1, <2>1, PlaceParts
  <2>4. armed[w] \in BOOLEAN
    BY <1>1 DEF WorkerInv, WorkerTypeOK
  <2> QED
    BY <1>2, <2>1, <2>2, <2>3, <2>4, TaskAssumption
<1>7. TimeLimitKept'
  BY <1>2, <1>4, <1>6 DEF BooksInv, TimeLimitKept
<1> QED
  BY <1>5, <1>7

\* A task that is dispatched.
LEMMA DispatchBooks ==
  ASSUME BooksInv, QueueInv', NEW g \in Jobs, DispatchTask(g)
  PROVE  RunningMatchesWorkers' /\ TimeLimitKept'
<1> DEFINE t == Head(d_tasks[g])
           w == Head(d_idleWorkers)
<1>1. PlaceInv /\ QueueInv /\ WorkerInv
  BY PlaceParts DEF BooksInv
<1>2. /\ w \in Workers /\ ~active[w]
      /\ active' = [active EXCEPT ![w] = TRUE]
      /\ task' = [task EXCEPT ![w] = t]
      /\ Group[t] = g /\ t \in Tasks
      /\ Held' = Held \cup {t}
  BY <1>1, DispatchPlace
<1>3. /\ d_running' = [d_running EXCEPT ![g] = @ \cup {TaskId[t]}]
      /\ d_timeout' = d_timeout
      /\ armed' = [armed EXCEPT ![w] = d_timeout[g]]
  BY DEF DispatchTask, Pop, Activate
<1> HIDE DEF t, w
<1>4. \A j \in Jobs : d_running'[j] = IF j = g THEN d_running[j] \cup {TaskId[t]} ELSE d_running[j]
  BY <1>1, <1>3 DEF QueueInv, QueueTypeOK
<1>5. RunningMatchesWorkers'
  <2> SUFFICES ASSUME NEW j \in Jobs PROVE d_running'[j] = IdsOf(j, Held')
    BY DEF RunningMatchesWorkers, IdsOf
  <2>1. d_running[j] = IdsOf(j, Held)
    BY DEF BooksInv, RunningMatchesWorkers, IdsOf
  <2>2. Held \subseteq Tasks
    BY <1>1, PlaceParts
  <2>3. IdsOf(j, Held \cup {t}) = IF j = Group[t] THEN IdsOf(j, Held) \cup {TaskId[t]} ELSE IdsOf(j, Held)
    BY <1>2, <2>2, IdsWith
  <2> QED
    BY <1>2, <1>4, <2>1, <2>3
<1>6. /\ \A v \in Workers : active'[v] <=> active[v] \/ v = w
      /\ \A v \in Workers : task'[v] = IF v = w THEN t ELSE task[v]
      /\ \A v \in Workers : armed'[v] = IF v = w THEN d_timeout[g] ELSE armed[v]
  BY <1>1, <1>2, <1>3 DEF WorkerInv, WorkerTypeOK
<1>7. TimeLimitKept'
  BY <1>2, <1>3, <1>6 DEF BooksInv, TimeLimitKept
<1> QED
  BY <1>5, <1>7

\* Every step keeps the books.
LEMMA BooksStepInv ==
  ASSUME SendsSucceed, OwnIds, BooksInv, [Next]_vars
  PROVE  BooksInv'
<1>1. PlaceInv /\ PlaceInv' /\ QueueInv'
  BY PlaceStepInv DEF BooksInv, PlaceInv, AppInv
<1>2. ASSUME NothingMoves PROVE RunningMatchesWorkers' /\ TimeLimitKept'
  <2>1. Held' = Held
    BY <1>1, <1>2, NothingPlace
  <2> QED
    BY <1>2, <2>1
    DEF NothingMoves, queueVars, BooksInv, RunningMatchesWorkers, TimeLimitKept
<1>3. RunningMatchesWorkers' /\ TimeLimitKept'
  BY <1>1, <1>2, StepMoves, GoesBackBooks, EndsBooks, BatchBooks, LeavesBooks, DispatchBooks
  DEF PlaceInv
<1> QED
  BY <1>1, <1>3 DEF BooksInv

\* At first the books are empty.
LEMMA BooksInitInv == Init => BooksInv
<1> SUFFICES ASSUME Init PROVE BooksInv
  OBVIOUS
<1>1. Held = {}
  BY DEF Init, WorkerInit, Held
<1>2. RunningMatchesWorkers /\ TimeLimitKept
  BY <1>1 DEF Init, QueueInit, WorkerInit, RunningMatchesWorkers, TimeLimitKept
<1> QED
  BY <1>2, PlaceInitInv DEF BooksInv

\* The queue's record of running ids is what the workers run (taskqueue.cc,
\* Pop, Push and Finished), if clients tell their tasks apart.
THEOREM BooksMatch ==
  ASSUME SendsSucceed, OwnIds
  PROVE  Spec => []RunningMatchesWorkers
<1>1. BooksInv => RunningMatchesWorkers
  BY DEF BooksInv
<1> QED
  BY <1>1, BooksInitInv, BooksStepInv, PTL DEF Spec

\* A running task is watched by a timeout source if and only if its batch
\* limits the run time (worker.cc, Activate; taskqueue.cc, Push).
THEOREM TimeLimitsKept ==
  ASSUME SendsSucceed, OwnIds
  PROVE  Spec => []TimeLimitKept
<1>1. BooksInv => TimeLimitKept
  BY DEF BooksInv
<1> QED
  BY <1>1, BooksInitInv, BooksStepInv, PTL DEF Spec

\* Only a disconnect takes a worker out of the manager, and it pushes the task
\* of the worker back.
LEMMA GoneByClosing ==
  ASSUME NEW w \in d_workers \ d_workers', [Next]_vars
  PROVE  /\ OnWorkerClosed(w)
         /\ active[w] => PushTask(task[w])
<1>1. ASSUME NEW c \in Connections, NEW v \in Workers, OnGreeting(c, v)
      PROVE  d_workers \subseteq d_workers'
  BY <1>1 DEF OnGreeting, AddWorker
<1>2. ASSUME NEW v \in Workers, OnWorkerClosed(v) PROVE v = w
  BY <1>2 DEF OnWorkerClosed, RemoveWorker
<1>3. ASSUME NEW v \in Workers, WorkerStep(v), ~OnWorkerClosed(v) PROVE d_workers' = d_workers
  <2>1. CASE \E sent \in SendOutcomes : OnWorkerTimeout(v, sent)
    BY <2>1 DEF OnWorkerTimeout, CancelOrDeactivate, DeactivateAll, DisarmTimeout
  <2>2. CASE \E m \in executing[v], status \in Statuses : WorkerAnswer(v, m, status)
    BY <2>2 DEF WorkerAnswer, workerVars
  <2>3. CASE OnWorkerCommunication(v)
    BY <2>3 DEF OnWorkerCommunication, DropAnswer, AnswerWithoutJob, AnswerSuccess,
                AnswerRejected, AnswerRescheduled, AnswerChallenge, CompleteTask,
                Deactivate, DeactivateAll, workerVars
  <2> QED
    BY <1>3, <2>1, <2>2, <2>3 DEF WorkerStep
<1>4. ASSUME NEW j \in Jobs, JobStep(j) PROVE d_workers' = d_workers
  BY <1>4 DEF JobStep, OnJobAdded, HandleJobIdentify, HandleJobBatch, OnJobRemoved,
              CancelOrDeactivate, DeactivateAll, workerVars
<1>5. ASSUME DispatchStep PROVE d_workers' = d_workers
  BY <1>5 DEF DispatchStep, DispatchTurn, DispatchTask, DispatchFails, DispatchEnd,
              Activate, ActivateFails, RotateIdle, workerVars
<1>6. CASE UNCHANGED vars
  BY <1>6 DEF vars, workerVars
<1>7. OnWorkerClosed(w)
  BY <1>1, <1>2, <1>3, <1>4, <1>5, <1>6 DEF Next
<1> QED
  BY <1>7 DEF OnWorkerClosed

\* The task of a worker that disconnects waits again, unless its job is gone
\* (application.cc, OnWorkerRemoved): the running task keeps its batch alive
\* (taskqueue.cc, Finished), so the push finds one.
THEOREM CrashesReschedule ==
  ASSUME SendsSucceed, OwnIds
  PROVE  Spec => CrashReschedules
<1> DEFINE A ==
      \A w \in d_workers \ d_workers' :
        active[w] /\ Group[task[w]] \in d_jobs => task[w] \in Queued'
<1>1. BooksInv /\ BooksInv' /\ [Next]_vars => [A]_vars
  <2> SUFFICES ASSUME BooksInv, BooksInv', [Next]_vars,
                      NEW w \in d_workers \ d_workers', active[w]
               PROVE  task[w] \in Queued'
    OBVIOUS
  <2>1. w \in Workers /\ task[w] \in Held
    BY DEF BooksInv, PlaceInv, AppInv, WorkerInv, WorkerTypeOK, Held
  <2>2. Group[task[w]] \in d_batches /\ task[w] \in Tasks /\ task[w] \notin Queued
    BY <2>1, RunningHasBatch, PlaceParts DEF BooksInv, OnePlace
  <2>3. PushTask(task[w])
    BY GoneByClosing
  <2>4. QueueInv /\ QueueInv' /\ WaitOnce
    BY PlaceParts DEF BooksInv, PlaceInv, AppInv
  <2> QED
    BY <2>2, <2>3, <2>4, PushTaskQueued
<1> QED
  BY <1>1, BooksInitInv, BooksStepInv, PTL DEF Spec, CrashReschedules

(***************************************************************************)
(* What each worker process works on, and what its connection carries.     *)
(***************************************************************************)

\* The process of an active worker works on its task or has answered it, with
\* nothing after the answer; everything it sent is about its task.  That of
\* an inactive one does nothing.
LineOf(w) ==
  IF active[w]
  THEN /\ executing[w] \subseteq {Current(w)}
       /\ \A k \in DOMAIN wire[w] :
            /\ wire[w][k].task = task[w]
            /\ wire[w][k].uid = uniqueid[task[w]]
            /\ wire[w][k].status # "Challenge" => k = Len(wire[w]) /\ executing[w] = {}
  ELSE executing[w] = {} /\ wire[w] = <<>>

\* A worker that runs on keeps its task, and the unique id of that task.
LEMMA CurrentKept ==
  ASSUME SendsSucceed, PlaceInv, [Next]_vars, NEW w \in Workers, active[w], active'[w]
  PROVE  task'[w] = task[w] /\ uniqueid'[task[w]] = uniqueid[task[w]]
<1>0. AppInv /\ task[w] \in Tasks /\ task[w] \in Held
  BY PlaceParts DEF PlaceInv
<1>1. CASE NothingMoves
  BY <1>1 DEF NothingMoves, queueVars
<1>2. ASSUME NEW v \in Workers, Stops(v) PROVE task'[w] = task[w] /\ task[w] # task[v]
  BY <1>2, PlaceParts DEF Stops, RunsOnce
<1>3. ASSUME NEW v \in Workers, GoesBack(v)
      PROVE  task'[w] = task[w] /\ uniqueid'[task[w]] = uniqueid[task[w]]
  <2>1. task'[w] = task[w] /\ task[w] # task[v] /\ PushTask(task[v])
    BY <1>2, <1>3 DEF GoesBack
  <2>2. Range(<<task[v]>>) = {task[v]}
    BY DEF Range
  <2> QED
    BY <1>0, <2>1, <2>2 DEF PushTask, SetUniqueIds, queueVars
<1>4. ASSUME NEW v \in Workers, Ends(v)
      PROVE  task'[w] = task[w] /\ uniqueid'[task[w]] = uniqueid[task[w]]
  BY <1>2, <1>4 DEF Ends, Finished, Remove
<1>5. ASSUME NEW j \in Jobs, NEW ts \in BatchesOf(NewTasks(j)), HandleJobBatch(j, ts)
      PROVE  task'[w] = task[w] /\ uniqueid'[task[w]] = uniqueid[task[w]]
  <2>1. NewTasks(j) \subseteq Tasks /\ task[w] \notin NewTasks(j)
    BY <1>0 DEF NewTasks, Fresh
  <2>2. task[w] \notin Range(ts)
    BY <2>1, BatchTasks
  <2>3. PushBatch(j, ts, timeout[j]) /\ task' = task
    BY <1>5 DEF HandleJobBatch, workerVars
  <2> QED
    BY <1>0, <2>2, <2>3 DEF PushBatch, SetUniqueIds, queueVars
<1>6. ASSUME NEW j \in Jobs, Leaves(j)
      PROVE  task'[w] = task[w] /\ uniqueid'[task[w]] = uniqueid[task[w]]
  BY <1>6 DEF Leaves, Remove
<1>7. ASSUME NEW g \in Jobs, DispatchTask(g)
      PROVE  task'[w] = task[w] /\ uniqueid'[task[w]] = uniqueid[task[w]]
  <2>1. Head(d_idleWorkers) # w /\ task \in [Workers -> Tasks \cup {NoTask}]
    BY <1>7, PlaceParts DEF DispatchTask, Activate, WorkerInv, WorkerTypeOK
  <2> QED
    BY <1>7, <2>1 DEF DispatchTask, Activate, Pop
<1> QED
  BY <1>0, <1>1, <1>3, <1>4, <1>5, <1>6, <1>7, StepMoves

\* Worker w is not active, and its process gets nothing more to do.  Where cancels
\* overtake the answers under way, it does nothing and none of them is left.
Released(w) ==
  /\ ~active'[w]
  /\ executing'[w] \subseteq executing[w]
  /\ wire'[w] \in {wire[w], <<>>}
  /\ ~LateAnswers /\ LineOf(w) => executing'[w] = {} /\ wire'[w] = <<>>

\* Nothing happens on the connection of w, and it does not start or stop.
Silent(w) ==
  /\ executing'[w] = executing[w]
  /\ wire'[w] = wire[w]
  /\ active'[w] = active[w]

\* All workers are quiet in what they do and send.
AllLines == \A w \in Workers : LineOf(w)

\* Active workers are cancelled.
LEMMA CancelsRelease ==
  ASSUME PlaceInv, NEW ws \in SUBSET Workers, CancelsSent(ws)
  PROVE  \A w \in Workers :
           IF w \in ws THEN active[w] /\ ~active'[w] => Released(w)
           ELSE executing'[w] = executing[w] /\ wire'[w] = wire[w]
<1> TAKE w \in Workers
<1>1. CASE w \in ws
  <2>1. /\ executing'[w] = {m \in executing[w] : TaskId[m.task] # TaskId[task[w]]}
        /\ wire'[w] = IF LateAnswers THEN wire[w] ELSE <<>>
    BY <1>1 DEF CancelsSent
  <2>2. active[w] /\ LineOf(w) => \A m \in executing[w] : TaskId[m.task] = TaskId[task[w]]
    BY DEF LineOf, Current
  <2> QED
    BY <1>1, <2>1, <2>2 DEF Released
<1>2. CASE w \notin ws
  BY <1>2 DEF CancelsSent
<1> QED
  BY <1>1, <1>2

\* What a step may do to the connection of a worker.
LEMMA LineMoves ==
  ASSUME SendsSucceed, PlaceInv, [Next]_vars, NEW v \in Workers
  PROVE  \/ Released(v) \/ Silent(v)
         \/ \E m \in executing[v], s \in Statuses : WorkerAnswer(v, m, s)
         \/ OnWorkerCommunication(v)
         \/ \E g \in Jobs : DispatchTask(g) /\ v = Head(d_idleWorkers)
<1>0. /\ active \in [Workers -> BOOLEAN] /\ AppInv
      /\ executing \in [Workers -> SUBSET Messages] /\ wire \in [Workers -> Seq(Answers)]
  BY PlaceParts DEF PlaceInv, AppInv, RestTypeOK
<1>1. ASSUME NEW c \in Connections, NEW w \in Workers, OnGreeting(c, w)
      PROVE  Released(v) \/ Silent(v)
  <2>1. ~active[w]
    BY <1>0, <1>1 DEF OnGreeting, AddWorker, AppInv, WorkerInv, WorkerPartition
  <2> QED
    BY <1>0, <1>1, <2>1 DEF OnGreeting, AddWorker, Released, Silent
<1>2. ASSUME NEW w \in Workers, OnWorkerClosed(w) PROVE Released(v) \/ Silent(v)
  BY <1>0, <1>2 DEF OnWorkerClosed, RemoveWorker, Released, Silent
<1>3. ASSUME NEW w \in Workers, NEW sent \in SendOutcomes, OnWorkerTimeout(w, sent)
      PROVE  Released(v) \/ Silent(v)
  <2>1. sent /\ active[w] /\ {w} \in SUBSET Workers
    BY <1>3, PlaceParts DEF SendsSucceed, OnWorkerTimeout, WorkerInv, TimerOnlyWhenActive
  <2>2. DeactivateAll(<<w>>) /\ CancelsSent({w}) /\ Range(<<w>>) = {w}
    BY <1>3, <2>1 DEF OnWorkerTimeout, CancelOrDeactivate, Range
  <2>3. CASE v = w
    <3>1. ~active'[v]
      BY <1>0, <2>2, <2>3 DEF DeactivateAll
    <3> QED
      BY <2>1, <2>2, <2>3, <3>1, CancelsRelease
  <2>4. CASE v # w
    BY <1>0, <2>1, <2>2, <2>4, CancelsRelease DEF DeactivateAll, Silent
  <2> QED
    BY <2>3, <2>4
<1>4. ASSUME NEW w \in Workers, WorkerStep(w)
      PROVE  \/ Released(v) \/ Silent(v)
             \/ \E m \in executing[v], s \in Statuses : WorkerAnswer(v, m, s)
             \/ OnWorkerCommunication(v)
  <2>1. ASSUME NEW m \in executing[w], NEW s \in Statuses, WorkerAnswer(w, m, s), v # w
        PROVE  Silent(v)
    BY <1>0, <2>1 DEF WorkerAnswer, workerVars, Silent
  <2>2. ASSUME OnWorkerCommunication(w), v # w PROVE Silent(v)
    <3>1. wire'[v] = wire[v] /\ executing' = executing
      BY <1>0, <2>2 DEF OnWorkerCommunication
    <3>2. NothingMoves \/ GoesBack(w) \/ Ends(w)
      BY <1>0, <2>2, AnswerMoves
    <3>3. active'[v] = active[v]
      BY <1>0, <2>2, <3>2 DEF NothingMoves, GoesBack, Ends, Stops
    <3> QED
      BY <3>1, <3>3 DEF Silent
  <2> QED
    BY <1>2, <1>3, <1>4, <2>1, <2>2 DEF WorkerStep
<1>5. ASSUME NEW j \in Jobs, JobStep(j) PROVE Released(v) \/ Silent(v)
  <2>1. ASSUME NEW sent \in CancelOutcomes(j), OnJobRemoved(j, sent)
        PROVE  Released(v) \/ Silent(v)
    <3>1. sent = Range(activeWorkers[j])
      BY DEF SendsSucceed, CancelOutcomes
    <3>2. DeactivateAll(activeWorkers[j]) /\ CancelsSent(sent)
      BY <2>1 DEF OnJobRemoved, CancelOrDeactivate
    <3>3. sent \in SUBSET Workers /\ \A w \in sent : active[w]
      BY <3>1, PlaceParts DEF JobWorkerLink
    <3>4. CASE v \in sent
      <4>1. ~active'[v]
        BY <1>0, <3>1, <3>2, <3>4 DEF DeactivateAll
      <4> QED
        BY <3>2, <3>3, <3>4, <4>1, CancelsRelease
    <3>5. CASE v \notin sent
      <4>1. executing'[v] = executing[v] /\ wire'[v] = wire[v]
        BY <3>2, <3>3, <3>5, CancelsRelease
      <4>2. active'[v] = active[v]
        BY <1>0, <3>1, <3>2, <3>5 DEF DeactivateAll
      <4> QED
        BY <4>1, <4>2 DEF Silent
    <3> QED
      BY <3>4, <3>5
  <2>2. CASE OnJobAdded(j)
    BY <2>2 DEF OnJobAdded, workerVars, worldVars, Silent
  <2>3. ASSUME NEW x \in BOOLEAN, NEW timed \in Timeouts, HandleJobIdentify(j, x, timed)
        PROVE  Silent(v)
    BY <2>3 DEF HandleJobIdentify, workerVars, worldVars, Silent
  <2>4. ASSUME NEW ts, HandleJobBatch(j, ts) PROVE Silent(v)
    BY <2>4 DEF HandleJobBatch, workerVars, Silent
  <2> QED
    BY <1>5, <2>1, <2>2, <2>3, <2>4 DEF JobStep
<1>6. ASSUME NEW g \in Jobs, DispatchTask(g), v # Head(d_idleWorkers) PROVE Silent(v)
  BY <1>0, <1>6 DEF DispatchTask, Activate, Silent
<1>7. CASE DispatchEnd
  BY <1>7 DEF DispatchEnd, RotateIdle, workerVars, worldVars, Silent
<1>8. CASE DispatchStep
  BY <1>6, <1>7, <1>8 DEF DispatchStep, DispatchTurn, SendsSucceed
<1>9. CASE UNCHANGED vars
  BY <1>9 DEF vars, workerVars, worldVars, Silent
<1> QED
  BY <1>1, <1>4, <1>5, <1>8, <1>9 DEF Next

\* The connections after a step.
LEMMA LinesStep ==
  ASSUME SendsSucceed, ~LateAnswers, PlaceInv, AllLines, [Next]_vars
  PROVE  AllLines'
<1> SUFFICES ASSUME NEW v \in Workers PROVE LineOf(v)'
  BY DEF AllLines
<1>0. /\ LineOf(v) /\ AppInv /\ AppInv'
      /\ executing \in [Workers -> SUBSET Messages] /\ wire \in [Workers -> Seq(Answers)]
  BY AppStepInv DEF AllLines, PlaceInv, AppInv, RestTypeOK
<1>1. CASE Released(v)
  BY <1>0, <1>1 DEF Released, LineOf
<1>2. CASE Silent(v)
  <2>1. active[v] /\ active'[v] => Current(v)' = Current(v) /\ task'[v] = task[v]
                                   /\ uniqueid'[task'[v]] = uniqueid[task[v]]
    BY CurrentKept DEF Current
  <2> QED
    BY <1>0, <1>2, <2>1 DEF Silent, LineOf
<1>3. ASSUME NEW m \in executing[v], NEW s \in Statuses, WorkerAnswer(v, m, s)
      PROVE  LineOf(v)'
  <2> DEFINE a == [task |-> m.task, uid |-> m.uid, status |-> s]
  <2>1. /\ UNCHANGED <<active, task, uniqueid>>
        /\ wire'[v] = Append(wire[v], a)
        /\ executing'[v] = IF s = "Challenge" THEN executing[v] ELSE executing[v] \ {m}
    BY <1>0, <1>3 DEF WorkerAnswer, workerVars, queueVars
  <2>2. /\ active[v] /\ executing[v] = {m} /\ m = Current(v)
        /\ \A k \in DOMAIN wire[v] :
             /\ wire[v][k].task = task[v]
             /\ wire[v][k].uid = uniqueid[task[v]]
             /\ wire[v][k].status = "Challenge"
    BY <1>0 DEF LineOf
  <2>3. a.task = task[v] /\ a.uid = uniqueid[task[v]] /\ a.status = s
    BY <2>2 DEF Current
  <2> HIDE DEF a
  <2>4. wire[v] \in Seq(Answers) /\ wire[v] \in Seq(Answers \cup {a})
    BY <1>0
  <2>5. /\ Len(wire'[v]) = Len(wire[v]) + 1 /\ DOMAIN wire'[v] = 1 .. Len(wire[v]) + 1
        /\ \A k \in 1 .. Len(wire[v]) + 1 :
             wire'[v][k] = IF k = Len(wire[v]) + 1 THEN a ELSE wire[v][k]
        /\ DOMAIN wire[v] = 1 .. Len(wire[v]) /\ Len(wire[v]) \in Nat
    BY <2>1, <2>4
  <2>6. \A k \in DOMAIN wire'[v] :
          /\ wire'[v][k].task = task[v]
          /\ wire'[v][k].uid = uniqueid[task[v]]
          /\ wire'[v][k].status # "Challenge" => k = Len(wire'[v]) /\ s # "Challenge"
    BY <2>2, <2>3, <2>5
  <2>7. executing'[v] \subseteq {Current(v)} /\ (s # "Challenge" => executing'[v] = {})
    BY <2>1, <2>2
  <2> QED
    BY <2>1, <2>2, <2>6, <2>7 DEF LineOf, Current
<1>4. CASE OnWorkerCommunication(v)
  <2>1. wire'[v] = Tail(wire[v]) /\ executing'[v] = executing[v] /\ wire[v] # <<>>
    BY <1>0, <1>4 DEF OnWorkerCommunication
  <2>2. active[v] /\ wire[v] \in Seq(Answers)
    BY <1>0, <2>1 DEF LineOf
  <2>3. /\ Len(wire'[v]) = Len(wire[v]) - 1 /\ DOMAIN wire'[v] = 1 .. Len(wire[v]) - 1
        /\ \A k \in 1 .. Len(wire[v]) - 1 : wire'[v][k] = wire[v][k + 1]
        /\ DOMAIN wire[v] = 1 .. Len(wire[v]) /\ Len(wire[v]) \in Nat \ {0}
        /\ Head(wire[v]) = wire[v][1]
    BY <2>1, <2>2
  <2>4. CASE active'[v]
    <3>1. task'[v] = task[v] /\ uniqueid'[task'[v]] = uniqueid[task[v]] /\ Current(v)' = Current(v)
      BY <2>2, <2>4, CurrentKept DEF Current
    <3>2. \A k \in 1 .. Len(wire[v]) - 1 :
            k + 1 \in DOMAIN wire[v] /\ (k + 1 = Len(wire[v]) => k = Len(wire[v]) - 1)
      BY <2>3
    <3>3. executing'[v] \subseteq {Current(v)'}
      BY <1>0, <2>1, <2>2, <3>1 DEF LineOf
    <3>4. ASSUME NEW k \in DOMAIN wire'[v]
          PROVE  /\ wire'[v][k].task = task'[v]
                 /\ wire'[v][k].uid = uniqueid'[task'[v]]
                 /\ wire'[v][k].status # "Challenge" => k = Len(wire'[v]) /\ executing'[v] = {}
      <4>1. k + 1 \in DOMAIN wire[v] /\ wire'[v][k] = wire[v][k + 1]
        BY <2>3, <3>2
      <4>2. /\ wire[v][k + 1].task = task[v]
            /\ wire[v][k + 1].uid = uniqueid[task[v]]
            /\ wire[v][k + 1].status # "Challenge" => k + 1 = Len(wire[v]) /\ executing[v] = {}
        BY <1>0, <2>2, <4>1 DEF LineOf
      <4> QED
        BY <2>1, <2>3, <3>1, <3>2, <4>1, <4>2
    <3> QED
      BY <2>4, <3>3, <3>4 DEF LineOf
  <2>5. CASE ~active'[v]
    <3>1. ~DropAnswer(v) /\ ~AnswerChallenge(v, Head(wire[v]))
      BY <2>2, <2>5 DEF DropAnswer, AnswerChallenge, workerVars
    <3>2. ~AnswerWithoutJob(v)
      BY <1>0 DEF AppInv, JobsPresent, AnswerWithoutJob
    <3>3. Head(wire[v]).status # "Challenge"
      BY <1>4, <3>1, <3>2
      DEF OnWorkerCommunication, AnswerSuccess, AnswerRejected, AnswerRescheduled
    <3>4. executing[v] = {} /\ Len(wire[v]) = 1
      <4>1. 1 \in DOMAIN wire[v] /\ wire[v][1].status # "Challenge"
        BY <2>3, <3>3
      <4> QED
        BY <1>0, <2>2, <4>1 DEF LineOf
    <3>5. wire'[v] = <<>>
      <4>1. Tail(wire[v]) \in Seq(Answers) /\ Len(Tail(wire[v])) = 0
        BY <2>1, <2>2, <2>3, <3>4
      <4> QED
        BY <2>1, <4>1, EmptySeq
    <3> QED
      BY <2>1, <2>5, <3>4, <3>5 DEF LineOf
  <2> QED
    BY <2>4, <2>5
<1>5. ASSUME NEW g \in Jobs, DispatchTask(g), v = Head(d_idleWorkers) PROVE LineOf(v)'
  <2>1. /\ ~active[v] /\ active'[v] /\ task'[v] = Head(d_tasks[g])
        /\ uniqueid' = uniqueid /\ wire' = wire
        /\ executing'[v] =
             executing[v] \cup {[task |-> Head(d_tasks[g]), uid |-> uniqueid[Head(d_tasks[g])]]}
    BY <1>0, <1>5 DEF DispatchTask, Activate, Pop, AppInv, WorkerInv, WorkerTypeOK
  <2>2. executing[v] = {} /\ wire[v] = <<>>
    BY <1>0, <2>1 DEF LineOf
  <2>3. executing'[v] = {Current(v)'} /\ wire'[v] = <<>>
    BY <2>1, <2>2 DEF Current
  <2> QED
    BY <2>1, <2>3 DEF LineOf
<1> QED
  BY <1>1, <1>2, <1>3, <1>4, <1>5, LineMoves

(***************************************************************************)
(* The unique id tells the present run of a worker from all others.        *)
(***************************************************************************)

\* The tasks that wait or run.
Scheduled == Queued \cup Held

\* Their unique ids were handed out, each to one of them.
NumbersApart ==
  /\ \A t \in Scheduled : uniqueid[t] < s_uniqueId
  /\ \A t, u \in Scheduled : uniqueid[t] = uniqueid[u] => t = u

\* The tasks of N get new ids.  No other task begins to wait or run, and that of
\* a worker that stops neither waits nor runs on.
Renumbers(N) ==
  /\ s_uniqueId' >= s_uniqueId
  /\ Scheduled' \subseteq Scheduled \cup N
  /\ \A t \in Scheduled \ N : uniqueid'[t] = uniqueid[t]
  /\ \A t \in N : s_uniqueId <= uniqueid'[t] /\ uniqueid'[t] < s_uniqueId'
  /\ \A t, u \in N : uniqueid'[t] = uniqueid'[u] => t = u
  /\ \A w \in Workers : active[w] /\ ~active'[w] => task[w] \in N \/ task[w] \notin Scheduled'

\* The ids before a step are numbers.
LEMMA IdsAreNumbers ==
  ASSUME AppInv
  PROVE  /\ s_uniqueId \in Nat /\ Scheduled \subseteq Tasks
         /\ \A t \in Tasks : uniqueid[t] \in Nat
BY QueuedAreTasks DEF AppInv, QueueInv, QueueTypeOK, WorkerInv, WorkerTypeOK, ActiveHasTask,
   Held, Scheduled

\* One worker stops, and its task is numbered anew where it is pushed back.
LEMMA StopRenumbers ==
  ASSUME 1 < MaxUid, PlaceInv, CountsUp, NEW w \in Workers, GoesBack(w) \/ Ends(w), QueueInv'
  PROVE  \E N \in SUBSET Tasks : Renumbers(N)
<1> DEFINE t == task[w]
<1>1. Stops(w) /\ Held' = Held \ {t} /\ t \in Held /\ t \notin Queued /\ t \in Tasks
  <2>1. Stops(w)
    BY DEF GoesBack, Ends
  <2> QED
    BY <2>1, StopsHeld, PlaceParts
<1>2. \A v \in Workers : active[v] /\ ~active'[v] => v = w
  BY <1>1, PlaceParts DEF Stops
<1>3. Scheduled \subseteq Tasks /\ s_uniqueId \in Nat
  BY IdsAreNumbers DEF PlaceInv
<1>4. CASE GoesBack(w) /\ Group[t] \in d_batches
  <2>1. SetUniqueIds(<<t>>) /\ Queued' = Queued \cup {t}
    BY <1>4, GoesBackPlace DEF GoesBack, PushTask
  <2>2. /\ <<t>> \in Seq(Tasks) /\ Len(<<t>>) = 1 /\ Range(<<t>>) = {t} /\ IsInjective(<<t>>)
    BY <1>1 DEF Range, IsInjective
  <2> HIDE DEF t
  <2>3. /\ s_uniqueId <= uniqueid'[t] /\ uniqueid'[t] < s_uniqueId'
        /\ \A u \in Tasks \ {t} : uniqueid'[u] = uniqueid[u]
    BY <2>1, <2>2, SetUniqueIdsNew, PlaceParts
  <2>4. Renumbers({t})
    BY <1>1, <1>2, <1>3, <2>1, <2>3 DEF Renumbers, CountsUp, Scheduled, t
  <2> QED
    BY <1>1, <2>4
<1>5. CASE Ends(w) \/ (GoesBack(w) /\ Group[t] \notin d_batches)
  <2>1. UNCHANGED <<s_uniqueId, uniqueid>>
    BY <1>5 DEF Ends, Finished, Remove, GoesBack, PushTask, queueVars
  <2>2. Queued' = Queued
    BY <1>5, EndsPlace, GoesBackPlace
  <2>3. Renumbers({})
    BY <1>1, <1>2, <1>3, <2>1, <2>2 DEF Renumbers, Scheduled
  <2> QED
    BY <2>3
<1> QED
  BY <1>4, <1>5

\* Every step numbers tasks in this way.
LEMMA StepRenumbers ==
  ASSUME SendsSucceed, 1 < MaxUid, MaxBatch < MaxUid, PlaceInv, CountsUp, [Next]_vars
  PROVE  \E N \in SUBSET Tasks : Renumbers(N)
<1>0. AppInv /\ QueueInv' /\ s_uniqueId \in Nat /\ Scheduled \subseteq Tasks
  BY AppStepInv, IdsAreNumbers DEF PlaceInv, AppInv
<1>1. CASE NothingMoves
  <2>1. Held' = Held /\ Queued' = Queued /\ UNCHANGED <<s_uniqueId, uniqueid, active>>
    BY <1>1, NothingPlace DEF NothingMoves, queueVars
  <2>2. Renumbers({})
    BY <1>0, <2>1 DEF Renumbers, Scheduled
  <2> QED
    BY <2>2
<1>2. ASSUME NEW j \in Jobs, NEW ts \in BatchesOf(NewTasks(j)), HandleJobBatch(j, ts)
      PROVE  \E N \in SUBSET Tasks : Renumbers(N)
  <2>1. /\ Held' = Held /\ Queued' = Queued \cup Range(ts) /\ Range(ts) \subseteq Tasks
        /\ Range(ts) \cap (Queued \cup Held) = {}
    BY <1>0, <1>2, BatchPlace
  <2>2. active' = active /\ PushBatch(j, ts, timeout[j])
    BY <1>2 DEF HandleJobBatch, workerVars
  <2>3. ts \in Seq(Tasks) /\ IsInjective(ts) /\ Len(ts) < MaxUid
    <3>1. NewTasks(j) \in SUBSET Tasks
      BY DEF NewTasks
    <3>2. PICK n \in 0 .. MaxBatch : ts \in [1 .. n -> NewTasks(j)]
      BY DEF BatchesOf
    <3>3. Len(ts) <= MaxBatch /\ Len(ts) \in Nat
      BY <3>2, TaskQueueAssumption
    <3>4. MaxBatch \in Nat /\ MaxUid \in Nat
      BY TaskQueueAssumption, TaskAssumption
    <3> QED
      BY <3>1, <3>3, <3>4, BatchTasks
  <2>4. CASE ts = <<>>
    <3>1. UNCHANGED <<s_uniqueId, uniqueid>> /\ Range(ts) = {}
      BY <2>2, <2>4 DEF PushBatch, queueVars, Range
    <3>2. Renumbers({})
      BY <1>0, <2>1, <2>2, <3>1 DEF Renumbers, Scheduled
    <3> QED
      BY <3>2
  <2>5. CASE ts # <<>>
    <3>1. SetUniqueIds(ts)
      BY <2>2, <2>5 DEF PushBatch
    <3>2. /\ \A t \in Range(ts) : s_uniqueId <= uniqueid'[t] /\ uniqueid'[t] < s_uniqueId'
          /\ \A t, u \in Range(ts) : uniqueid'[t] = uniqueid'[u] => t = u
          /\ \A t \in Tasks \ Range(ts) : uniqueid'[t] = uniqueid[t]
      BY <2>3, <3>1, SetUniqueIdsNew, PlaceParts
    <3>3. Renumbers(Range(ts))
      BY <1>0, <2>1, <2>2, <3>2 DEF Renumbers, CountsUp, Scheduled
    <3> QED
      BY <2>1, <3>3
  <2> QED
    BY <2>4, <2>5
<1>3. ASSUME NEW j \in Jobs, Leaves(j) PROVE Renumbers({})
  <2>1. /\ Held' = {t \in Held : Group[t] # j} /\ Queued' = {t \in Queued : Group[t] # j}
        /\ UNCHANGED <<s_uniqueId, uniqueid>>
    BY <1>0, <1>3, LeavesPlace DEF Leaves, Remove
  <2>2. \A w \in Workers : active[w] /\ ~active'[w] => Group[task[w]] = j
    BY <1>3, PlaceParts DEF Leaves, JobWorkerLink
  <2> QED
    BY <1>0, <2>1, <2>2 DEF Renumbers, Scheduled
<1>4. ASSUME NEW g \in Jobs, DispatchTask(g) PROVE Renumbers({})
  <2> DEFINE t == Head(d_tasks[g])
  <2>1. /\ t \in Queued /\ Held' = Held \cup {t} /\ Queued' = Queued \ {t}
        /\ active' = [active EXCEPT ![Head(d_idleWorkers)] = TRUE]
    BY <1>0, <1>4, DispatchPlace
  <2>2. UNCHANGED <<s_uniqueId, uniqueid>>
    BY <1>4 DEF DispatchTask, Pop
  <2>3. \A w \in Workers : active[w] => active'[w]
    BY <2>1, PlaceParts
  <2> HIDE DEF t
  <2> QED
    BY <1>0, <2>1, <2>2, <2>3 DEF Renumbers, Scheduled
<1> QED
  BY <1>0, <1>1, <1>2, <1>3, <1>4, StepMoves, StopRenumbers

\* The ids of the tasks that wait or run stay apart.
LEMMA NumbersStep ==
  ASSUME AppInv, AppInv', NumbersApart, NEW N \in SUBSET Tasks, Renumbers(N)
  PROVE  NumbersApart'
<1>1. /\ s_uniqueId \in Nat /\ s_uniqueId' \in Nat /\ Scheduled \subseteq Tasks
      /\ \A t \in Tasks : uniqueid[t] \in Nat /\ uniqueid'[t] \in Nat
  BY IdsAreNumbers DEF AppInv, QueueInv, QueueTypeOK
<1>2. \A t \in Scheduled' \ N : t \in Scheduled /\ uniqueid'[t] = uniqueid[t]
                                /\ uniqueid'[t] < s_uniqueId
  BY DEF Renumbers, NumbersApart
<1>3. \A t \in Scheduled' : t \in Tasks
  BY <1>1 DEF Renumbers
<1>4. \A t \in Scheduled' : uniqueid'[t] < s_uniqueId'
  BY <1>1, <1>2, <1>3 DEF Renumbers
<1>5. ASSUME NEW t \in Scheduled', NEW u \in Scheduled', uniqueid'[t] = uniqueid'[u]
      PROVE  t = u
  <2>1. CASE t \in N /\ u \in N
    BY <1>5, <2>1 DEF Renumbers
  <2>2. CASE t \notin N /\ u \notin N
    BY <1>2, <1>5, <2>2 DEF NumbersApart
  <2>3. t \in N <=> u \in N
    BY <1>1, <1>2, <1>3, <1>5 DEF Renumbers
  <2> QED
    BY <2>1, <2>2, <2>3
<1> QED
  BY <1>4, <1>5 DEF NumbersApart

\* A message that worker w works on, or an answer it sent, is about its present
\* run, or its id is that of no task that waits or runs.
Told(w, m) ==
  /\ m.uid < s_uniqueId
  /\ \/ active[w] /\ m.task = task[w] /\ m.uid = uniqueid[task[w]]
     \/ \A t \in Scheduled : uniqueid[t] # m.uid

MessagesTold ==
  \A w \in Workers :
    /\ \A m \in executing[w] : Told(w, m)
    /\ \A k \in DOMAIN wire[w] : Told(w, wire[w][k])

\* Told(w, m) after a step, of a message of before it.
ToldAfter(w, m) ==
  /\ m.uid < s_uniqueId'
  /\ \/ active'[w] /\ m.task = task'[w] /\ m.uid = uniqueid'[task'[w]]
     \/ \A t \in Scheduled' : uniqueid'[t] # m.uid

\* What is told stays so.
LEMMA ToldStays ==
  ASSUME SendsSucceed, PlaceInv, AppInv', NumbersApart, [Next]_vars,
         NEW N \in SUBSET Tasks, Renumbers(N), NEW w \in Workers
  PROVE  \A m : m.uid \in Nat /\ Told(w, m) => ToldAfter(w, m)
<1> SUFFICES ASSUME NEW m, m.uid \in Nat, Told(w, m) PROVE ToldAfter(w, m)
  OBVIOUS
<1>0. /\ s_uniqueId \in Nat /\ s_uniqueId' \in Nat /\ Scheduled \subseteq Tasks
      /\ \A t \in Tasks : uniqueid[t] \in Nat /\ uniqueid'[t] \in Nat
  BY IdsAreNumbers DEF PlaceInv, AppInv, QueueInv, QueueTypeOK
<1>1. m.uid < s_uniqueId /\ m.uid < s_uniqueId'
  BY <1>0 DEF Told, Renumbers
<1>2. ASSUME NEW t \in Scheduled', uniqueid'[t] = m.uid
      PROVE  t \notin N /\ t \in Scheduled /\ uniqueid[t] = m.uid
  <2>1. t \notin N
    <3>1. ASSUME t \in N PROVE FALSE
      <4>1. s_uniqueId <= uniqueid'[t] /\ uniqueid'[t] \in Nat
        BY <1>0, <3>1 DEF Renumbers
      <4> QED
        BY <1>0, <1>1, <1>2, <4>1
    <3> QED
      BY <3>1
  <2> QED
    BY <1>2, <2>1 DEF Renumbers
<1>3. CASE \A t \in Scheduled : uniqueid[t] # m.uid
  BY <1>1, <1>2, <1>3 DEF ToldAfter
<1>4. CASE active[w] /\ m.task = task[w] /\ m.uid = uniqueid[task[w]]
  <2>1. CASE active'[w]
    BY <1>1, <1>4, <2>1, CurrentKept DEF ToldAfter
  <2>2. CASE ~active'[w]
    <3>1. task[w] \in Scheduled
      BY <1>4, PlaceParts DEF Scheduled
    <3>2. ASSUME NEW t \in Scheduled' PROVE uniqueid'[t] # m.uid
      <4>1. SUFFICES ASSUME uniqueid'[t] = m.uid PROVE FALSE
        OBVIOUS
      <4>2. t = task[w] /\ t \notin N
        BY <1>2, <1>4, <3>1, <4>1 DEF NumbersApart
      <4> QED
        BY <1>4, <2>2, <4>2 DEF Renumbers
    <3> QED
      BY <1>1, <3>2 DEF ToldAfter
  <2> QED
    BY <2>1, <2>2
<1> QED
  BY <1>3, <1>4 DEF Told

\* The answers on the connection of v that end its present run.
EndsOf(v) == {k \in DOMAIN wire[v] : /\ wire[v][k].uid = uniqueid[task[v]]
                                     /\ wire[v][k].status # "Challenge"}

\* The process of an active worker works on the run or has ended it, once.
RunOf(v) ==
  active[v] => /\ \A k, l \in EndsOf(v) : k = l
               /\ Current(v) \in executing[v] <=> EndsOf(v) = {}

\* Everything about runs.
RunInv == PlaceInv /\ NumbersApart /\ MessagesTold /\ \A w \in Workers : RunOf(w)

\* That is what RunsToldApart says.
LEMMA RunsAreTold == RunInv => RunsToldApart
<1> SUFFICES ASSUME RunInv, NEW w \in Workers, active[w]
             PROVE  /\ \A k \in DOMAIN wire[w] :
                         wire[w][k].uid = uniqueid[task[w]] => wire[w][k].task = task[w]
                    /\ \A k, l \in EndsOf(w) : k = l
                    /\ Current(w) \in executing[w] <=> EndsOf(w) = {}
  BY DEF RunsToldApart, EndsOf
<1>1. task[w] \in Scheduled
  BY PlaceParts DEF RunInv, Scheduled
<1>2. \A k \in DOMAIN wire[w] : Told(w, wire[w][k])
  BY DEF RunInv, MessagesTold
<1> QED
  BY <1>1, <1>2 DEF RunInv, RunOf, Told

\* Messages after a step: none is there but the old ones, and that of a task
\* which was just dispatched.
LEMMA MessagesStep ==
  ASSUME SendsSucceed, RunInv, AppInv', [Next]_vars, NEW N \in SUBSET Tasks, Renumbers(N)
  PROVE  MessagesTold'
<1> SUFFICES ASSUME NEW v \in Workers
             PROVE  /\ \A m \in executing'[v] : ToldAfter(v, m)
                    /\ \A k \in DOMAIN wire'[v] : ToldAfter(v, wire'[v][k])
  BY DEF MessagesTold, Told, ToldAfter
<1>0. /\ executing \in [Workers -> SUBSET Messages] /\ wire \in [Workers -> Seq(Answers)]
      /\ PlaceInv /\ AppInv /\ NumbersApart
  BY DEF RunInv, PlaceInv, AppInv, RestTypeOK
<1>1. \A m \in executing[v] : ToldAfter(v, m)
  <2>1. \A m \in executing[v] : m.uid \in Nat /\ Told(v, m)
    BY <1>0, TaskAssumption DEF RunInv, MessagesTold, Messages
  <2> QED
    BY <1>0, <2>1, ToldStays
<1>2. \A k \in DOMAIN wire[v] : ToldAfter(v, wire[v][k])
  <2>1. \A k \in DOMAIN wire[v] : wire[v][k] \in Answers
    BY <1>0
  <2>2. \A k \in DOMAIN wire[v] : wire[v][k].uid \in Nat /\ Told(v, wire[v][k])
    BY <2>1, TaskAssumption DEF RunInv, MessagesTold, Answers
  <2> QED
    BY <1>0, <2>2, ToldStays
<1>3. CASE Released(v)
  <2>1. DOMAIN <<>> = {}
    OBVIOUS
  <2> QED
    BY <1>1, <1>2, <1>3, <2>1 DEF Released
<1>4. CASE Silent(v)
  BY <1>1, <1>2, <1>4 DEF Silent
<1>5. ASSUME NEW m \in executing[v], NEW s \in Statuses, WorkerAnswer(v, m, s)
      PROVE  /\ \A x \in executing'[v] : ToldAfter(v, x)
             /\ \A k \in DOMAIN wire'[v] : ToldAfter(v, wire'[v][k])
  <2> DEFINE a == [task |-> m.task, uid |-> m.uid, status |-> s]
  <2>1. wire'[v] = Append(wire[v], a) /\ executing'[v] \subseteq executing[v]
    BY <1>0, <1>5 DEF WorkerAnswer
  <2>2. ToldAfter(v, a)
    BY <1>1 DEF ToldAfter
  <2> HIDE DEF a
  <2>3. \A k \in DOMAIN wire'[v] : (k \in DOMAIN wire[v] /\ wire'[v][k] = wire[v][k]) \/ wire'[v][k] = a
    <3>1. wire[v] \in Seq(Answers \cup {a})
      BY <1>0
    <3> QED
      BY <2>1, <3>1
  <2>4. ASSUME NEW k \in DOMAIN wire'[v] PROVE ToldAfter(v, wire'[v][k])
    <3>1. CASE wire'[v][k] = a
      BY <2>2, <3>1
    <3>2. CASE k \in DOMAIN wire[v] /\ wire'[v][k] = wire[v][k]
      BY <1>2, <3>2
    <3> QED
      BY <2>3, <3>1, <3>2
  <2> QED
    BY <1>1, <2>1, <2>4
<1>6. CASE OnWorkerCommunication(v)
  <2>1. wire'[v] = Tail(wire[v]) /\ executing'[v] = executing[v] /\ wire[v] # <<>>
    BY <1>0, <1>6 DEF OnWorkerCommunication
  <2>2. \A k \in DOMAIN wire'[v] : k + 1 \in DOMAIN wire[v] /\ wire'[v][k] = wire[v][k + 1]
    <3>1. wire[v] \in Seq(Answers)
      BY <1>0
    <3> QED
      BY <2>1, <3>1
  <2>3. ASSUME NEW k \in DOMAIN wire'[v] PROVE ToldAfter(v, wire'[v][k])
    BY <1>2, <2>2
  <2> QED
    BY <1>1, <2>1, <2>3
<1>7. ASSUME NEW g \in Jobs, DispatchTask(g), v = Head(d_idleWorkers)
      PROVE  /\ \A x \in executing'[v] : ToldAfter(v, x)
             /\ \A k \in DOMAIN wire'[v] : ToldAfter(v, wire'[v][k])
  <2> DEFINE t == Head(d_tasks[g])
             c == [task |-> t, uid |-> uniqueid[t]]
  <2>1. /\ wire' = wire /\ uniqueid' = uniqueid /\ s_uniqueId' = s_uniqueId
        /\ executing'[v] = executing[v] \cup {c}
    BY <1>0, <1>7 DEF DispatchTask, Pop
  <2>2. t \in Scheduled /\ active'[v] /\ task'[v] = t
    <3>1. QueueInv'
      BY DEF AppInv
    <3>2. /\ t \in Queued /\ active' = [active EXCEPT ![v] = TRUE] /\ task' = [task EXCEPT ![v] = t]
      BY <1>0, <1>7, <3>1, DispatchPlace
    <3> QED
      BY <1>0, <3>2 DEF Scheduled, AppInv, WorkerInv, WorkerTypeOK
  <2>3. ToldAfter(v, c)
    BY <1>0, <2>1, <2>2 DEF ToldAfter, NumbersApart
  <2> QED
    BY <1>1, <1>2, <2>1, <2>3
<1> QED
  BY <1>0, <1>3, <1>4, <1>5, <1>6, <1>7, LineMoves

\* Runs after a step.
LEMMA RunStep ==
  ASSUME SendsSucceed, RunInv, AppInv', [Next]_vars, NEW v \in Workers
  PROVE  RunOf(v)'
<1> SUFFICES ASSUME active'[v] PROVE RunOf(v)'
  BY DEF RunOf
<1>0. /\ executing \in [Workers -> SUBSET Messages] /\ wire \in [Workers -> Seq(Answers)]
      /\ PlaceInv /\ AppInv /\ NumbersApart /\ RunOf(v)
  BY DEF RunInv, PlaceInv, AppInv, RestTypeOK
<1>1. active[v] => Current(v)' = Current(v) /\ uniqueid'[task'[v]] = uniqueid[task[v]]
  BY <1>0, CurrentKept DEF Current
<1>2. CASE Released(v)
  BY <1>2 DEF Released
<1>3. CASE Silent(v)
  <2>1. active[v] /\ wire'[v] = wire[v] /\ executing'[v] = executing[v]
    BY <1>3 DEF Silent
  <2>2. EndsOf(v)' = EndsOf(v)
    BY <1>1, <2>1 DEF EndsOf
  <2> QED
    BY <1>0, <1>1, <2>1, <2>2 DEF RunOf
<1>4. ASSUME NEW m \in executing[v], NEW s \in Statuses, WorkerAnswer(v, m, s) PROVE RunOf(v)'
  <2> DEFINE a == [task |-> m.task, uid |-> m.uid, status |-> s]
             n == Len(wire[v]) + 1
  <2>1. /\ UNCHANGED <<active, task, uniqueid>>
        /\ wire'[v] = Append(wire[v], a)
        /\ executing'[v] = IF s = "Challenge" THEN executing[v] ELSE executing[v] \ {m}
    BY <1>0, <1>4 DEF WorkerAnswer, workerVars, queueVars
  <2>2. active[v]
    BY <2>1
  <2>3. m.uid = uniqueid[task[v]] <=> m = Current(v)
    <3>1. task[v] \in Scheduled /\ Told(v, m) /\ m \in Messages
      BY <1>0, <2>2, PlaceParts DEF Scheduled, RunInv, MessagesTold
    <3>2. m.uid = uniqueid[task[v]] => m.task = task[v]
      BY <3>1 DEF Told
    <3> QED
      BY <3>1, <3>2 DEF Messages, Current
  <2>4. a.uid = m.uid /\ a.status = s
    OBVIOUS
  <2> HIDE DEF a
  <2>5. /\ n \notin DOMAIN wire[v] /\ DOMAIN wire'[v] = DOMAIN wire[v] \cup {n}
        /\ wire'[v][n] = a /\ \A k \in DOMAIN wire[v] : wire'[v][k] = wire[v][k]
    <3>1. wire[v] \in Seq(Answers \cup {a})
      BY <1>0
    <3> QED
      BY <2>1, <3>1
  <2> HIDE DEF n
  <2>6. EndsOf(v)' = IF m = Current(v) /\ s # "Challenge" THEN EndsOf(v) \cup {n} ELSE EndsOf(v)
    BY <2>1, <2>3, <2>4, <2>5 DEF EndsOf
  <2>7. /\ \A k, l \in EndsOf(v) : k = l
        /\ Current(v) \in executing[v] <=> EndsOf(v) = {}
    BY <1>0, <2>2 DEF RunOf
  <2>8. Current(v)' = Current(v)
    BY <1>1, <2>2
  <2> QED
    BY <2>1, <2>6, <2>7, <2>8 DEF RunOf
<1>5. CASE OnWorkerCommunication(v)
  <2>1. /\ wire'[v] = Tail(wire[v]) /\ executing'[v] = executing[v]
        /\ wire[v] # <<>> /\ wire[v] \in Seq(Answers)
    BY <1>0, <1>5 DEF OnWorkerCommunication
  <2>2. active[v] /\ Head(wire[v]).status = "Challenge"
    <3>1. DropAnswer(v) => active'[v] = active[v] /\ ~active[v]
      BY DEF DropAnswer, workerVars
    <3>2. ~Deactivate(v)
      <4>1. Deactivate(v) /\ active[v] => ~active'[v]
        BY <1>0, DeactivateIsStop, PlaceParts DEF Stops
      <4>2. Deactivate(v) => active[v]
        BY DEF Deactivate, DeactivateAll, Range
      <4> QED
        BY <4>1, <4>2
    <3> QED
      BY <1>5, <3>1, <3>2 DEF OnWorkerCommunication, AnswerWithoutJob, AnswerSuccess,
         AnswerRejected, AnswerRescheduled, AnswerChallenge, CompleteTask, HasJob
  <2>3. /\ DOMAIN wire[v] = {1} \cup {k + 1 : k \in DOMAIN wire'[v]}
        /\ \A k \in DOMAIN wire'[v] : /\ wire'[v][k] = wire[v][k + 1]
                                      /\ k \in Nat /\ k + 1 \in DOMAIN wire[v]
        /\ Head(wire[v]) = wire[v][1]
    <3> DEFINE q == wire[v]
    <3>1. ASSUME NEW A, NEW r \in Seq(A), r # <<>>
          PROVE  /\ Head(r) = r[1] /\ Len(r) \in Nat \ {0}
                 /\ DOMAIN r = 1..Len(r) /\ DOMAIN Tail(r) = 1..(Len(r) - 1)
                 /\ \A k \in 1..(Len(r) - 1) : Tail(r)[k] = r[k + 1]
      BY <3>1
    <3>2. /\ Head(q) = q[1] /\ Len(q) \in Nat \ {0}
          /\ DOMAIN q = 1..Len(q) /\ DOMAIN Tail(q) = 1..(Len(q) - 1)
          /\ \A k \in 1..(Len(q) - 1) : Tail(q)[k] = q[k + 1]
      BY <2>1, <3>1
    <3>3. \A n \in Nat \ {0} : /\ 1..n = {1} \cup {k + 1 : k \in 1..(n - 1)}
                              /\ \A k \in 1..(n - 1) : k \in Nat /\ k + 1 \in 1..n
      <4> TAKE n \in Nat \ {0}
      <4>1. \A k \in 1..n : k = 1 \/ (k - 1 \in 1..(n - 1) /\ k = (k - 1) + 1)
        OBVIOUS
      <4>2. \A k \in 1..(n - 1) : k \in Nat /\ k + 1 \in 1..n
        OBVIOUS
      <4>3. 1 \in 1..n
        OBVIOUS
      <4> QED
        BY <4>1, <4>2, <4>3
    <3> QED
      BY <2>1, <3>2, <3>3
  <2>4. \A k \in DOMAIN wire'[v] : k \in EndsOf(v)' <=> k + 1 \in EndsOf(v)
    BY <1>1, <2>2, <2>3 DEF EndsOf
  <2>5. EndsOf(v)' \subseteq DOMAIN wire'[v]
    BY DEF EndsOf
  <2>6. \A k \in EndsOf(v) : \E l \in DOMAIN wire'[v] : k = l + 1
    BY <2>2, <2>3 DEF EndsOf
  <2>7. EndsOf(v)' = {} <=> EndsOf(v) = {}
    BY <2>4, <2>5, <2>6
  <2>8. \A k, l \in EndsOf(v)' : k = l
    <3>1. \A k, l \in EndsOf(v)' : k + 1 = l + 1 /\ k \in Nat /\ l \in Nat
      BY <1>0, <2>2, <2>3, <2>4, <2>5 DEF RunOf
    <3> QED
      BY <3>1
  <2>9. Current(v)' = Current(v)
    BY <1>1, <2>2
  <2> QED
    BY <1>0, <2>1, <2>2, <2>7, <2>8, <2>9 DEF RunOf
<1>6. ASSUME NEW g \in Jobs, DispatchTask(g), v = Head(d_idleWorkers) PROVE RunOf(v)'
  <2> DEFINE t == Head(d_tasks[g])
             c == [task |-> t, uid |-> uniqueid[t]]
  <2>1. /\ wire' = wire /\ uniqueid' = uniqueid
        /\ executing'[v] = executing[v] \cup {c}
    BY <1>0, <1>6 DEF DispatchTask, Pop
  <2>2. t \in Scheduled /\ ~active[v] /\ task'[v] = t
    <3>1. QueueInv'
      BY DEF AppInv
    <3>2. /\ t \in Queued /\ ~active[v] /\ task' = [task EXCEPT ![v] = t]
      BY <1>0, <1>6, <3>1, DispatchPlace
    <3> QED
      BY <1>0, <3>2 DEF Scheduled, AppInv, WorkerInv, WorkerTypeOK
  <2>3. \A k \in DOMAIN wire[v] : wire[v][k].uid # uniqueid[t]
    BY <2>2 DEF RunInv, MessagesTold, Told
  <2>4. EndsOf(v)' = {}
    BY <2>1, <2>2, <2>3 DEF EndsOf
  <2>5. Current(v)' \in executing'[v]
    BY <2>1, <2>2 DEF Current
  <2> QED
    BY <2>4, <2>5 DEF RunOf
<1> QED
  BY <1>0, <1>2, <1>3, <1>4, <1>5, <1>6, LineMoves

\* Every step keeps all of it, while the counter does not wrap.
LEMMA RunStepInv ==
  ASSUME SendsSucceed, 1 < MaxUid, MaxBatch < MaxUid, RunInv, [Next]_vars, [CountsUp]_vars
  PROVE  RunInv'
<1>0. PlaceInv /\ AppInv /\ NumbersApart
  BY DEF RunInv, PlaceInv
<1>1. CountsUp
  <2>1. s_uniqueId \in Nat
    BY <1>0, IdsAreNumbers
  <2>2. CASE UNCHANGED vars
    BY <2>1, <2>2 DEF vars, queueVars, CountsUp
  <2> QED
    BY <2>2
<1>2. PlaceInv' /\ AppInv'
  BY <1>0, PlaceStepInv DEF PlaceInv
<1>3. PICK N \in SUBSET Tasks : Renumbers(N)
  BY <1>0, <1>1, StepRenumbers
<1> QED
  BY <1>0, <1>2, <1>3, NumbersStep, MessagesStep, RunStep DEF RunInv

\* At first there are no runs.
LEMMA RunInitInv == Init => RunInv
<1> SUFFICES ASSUME Init PROVE RunInv
  OBVIOUS
<1>1. Range(<<>>) = {}
  BY DEF Range
<1>2. Scheduled = {}
  BY <1>1 DEF Init, QueueInit, WorkerInit, Queued, Held, Scheduled
<1>3. \A w \in Workers : ~active[w] /\ executing[w] = {} /\ wire[w] = <<>>
  BY DEF Init, WorkerInit
<1>4. NumbersApart
  BY <1>2 DEF NumbersApart
<1>5. MessagesTold
  BY <1>3 DEF MessagesTold
<1> QED
  BY <1>3, <1>4, <1>5, PlaceInitInv DEF RunInv, RunOf

\* As long as the counter of unique ids does not wrap, an answer that has the id
\* of the present run of its worker is about this run, and one at most ends it,
\* however many runs were cancelled with their answers under way (application.cc,
\* OnWorkerCommunication, and TaskQueue::Push, which numbers a task anew each time).
THEOREM RunsAreToldApart ==
  ASSUME SendsSucceed, 1 < MaxUid, MaxBatch < MaxUid
  PROVE  Spec /\ [][CountsUp]_vars => []RunsToldApart
<1>1. RunInv /\ [Next]_vars /\ [CountsUp]_vars => RunInv'
  BY RunStepInv
<1> QED
  BY <1>1, RunInitInv, RunsAreTold, PTL DEF Spec

(***************************************************************************)
(* What the jobs wait for.                                                 *)
(***************************************************************************)

\* Books, connections, and what jobs wait for, fit together.
AwaitInv == BooksInv /\ AllLines /\ AwaitedIsScheduled

\* What jobs wait for, after each move.
LEMMA AwaitStep ==
  ASSUME SendsSucceed, OwnIds, AwaitInv, [Next]_vars
  PROVE  AwaitedIsScheduled'
<1>0. /\ PlaceInv /\ AppInv /\ QueueInv' /\ BooksInv /\ QueueInv
      /\ awaiting = Queued \cup Held /\ Queued \cap Held = {}
  BY AppStepInv, PlaceParts DEF AwaitInv, BooksInv, PlaceInv, AppInv, AwaitedIsScheduled
<1>1. CASE NothingMoves
  BY <1>0, <1>1, NothingPlace DEF NothingMoves, AwaitedIsScheduled
<1>2. ASSUME NEW w \in Workers, GoesBack(w) PROVE AwaitedIsScheduled'
  <2>1. task[w] \in Held /\ awaiting' = awaiting
    BY <1>0, <1>2, PlaceParts DEF GoesBack, Stops
  <2>2. Group[task[w]] \in d_batches
    BY <1>0, <2>1, RunningHasBatch
  <2>3. Held' = Held \ {task[w]} /\ Queued' = Queued \cup {task[w]}
    BY <1>0, <1>2, <2>2, GoesBackPlace
  <2> QED
    BY <1>0, <2>1, <2>3 DEF AwaitedIsScheduled
<1>3. ASSUME NEW w \in Workers, Ends(w) PROVE AwaitedIsScheduled'
  <2> DEFINE t == task[w]
  <2>1. active[w] /\ wire[w] # <<>> /\ awaiting' = AwaitingAfter(Group[t], Head(wire[w]))
    BY <1>3 DEF Ends, Stops
  <2>2. t \in Held /\ t \notin Queued /\ t \in Tasks
    BY <1>0, <2>1, PlaceParts
  <2>3. Head(wire[w]).task = t
    <3>1. wire[w] \in Seq(Answers)
      BY <1>0 DEF AppInv, RestTypeOK
    <3>2. 1 \in DOMAIN wire[w] /\ Head(wire[w]) = wire[w][1]
      BY <2>1, <3>1
    <3> QED
      BY <2>1, <3>2 DEF AwaitInv, AllLines, LineOf
  <2>4. awaiting \subseteq Tasks
    BY <1>0 DEF AppInv, RestTypeOK
  <2>5. awaiting' = awaiting \ {t}
    BY <2>1, <2>2, <2>3, <2>4 DEF AwaitingAfter, OwnIds
  <2>6. Held' = Held \ {t} /\ Queued' = Queued
    BY <1>0, <1>3, EndsPlace
  <2> QED
    BY <1>0, <2>2, <2>5, <2>6 DEF AwaitedIsScheduled
<1>4. ASSUME NEW j \in Jobs, NEW ts \in BatchesOf(NewTasks(j)), HandleJobBatch(j, ts)
      PROVE  AwaitedIsScheduled'
  <2>1. Held' = Held /\ Queued' = Queued \cup Range(ts)
    BY <1>0, <1>4, BatchPlace
  <2>2. awaiting' = awaiting \cup Range(ts)
    BY <1>4 DEF HandleJobBatch
  <2> QED
    BY <1>0, <2>1, <2>2 DEF AwaitedIsScheduled
<1>5. ASSUME NEW j \in Jobs, Leaves(j) PROVE AwaitedIsScheduled'
  <2>1. Held' = {t \in Held : Group[t] # j} /\ Queued' = {t \in Queued : Group[t] # j}
    BY <1>0, <1>5, LeavesPlace
  <2> QED
    BY <1>0, <1>5, <2>1 DEF Leaves, AwaitedIsScheduled
<1>6. ASSUME NEW g \in Jobs, DispatchTask(g) PROVE AwaitedIsScheduled'
  <2> DEFINE t == Head(d_tasks[g])
  <2>1. t \in Queued /\ Held' = Held \cup {t} /\ Queued' = Queued \ {t}
    BY <1>0, <1>6, DispatchPlace
  <2>2. awaiting' = awaiting
    BY <1>6 DEF DispatchTask
  <2> QED
    BY <1>0, <2>1, <2>2 DEF AwaitedIsScheduled
<1> QED
  BY <1>0, <1>1, <1>2, <1>3, <1>4, <1>5, <1>6, StepMoves

\* Every step keeps the invariant.
LEMMA AwaitStepInv ==
  ASSUME SendsSucceed, OwnIds, ~LateAnswers, AwaitInv, [Next]_vars
  PROVE  AwaitInv'
<1>1. BooksInv' /\ AllLines' /\ AwaitedIsScheduled'
  BY AwaitStep, BooksStepInv, LinesStep DEF AwaitInv, BooksInv
<1> QED
  BY <1>1 DEF AwaitInv

\* At first nobody waits for anything.
LEMMA AwaitInitInv == Init => AwaitInv
<1> SUFFICES ASSUME Init PROVE AwaitInv
  OBVIOUS
<1>1. Range(<<>>) = {}
  BY DEF Range
<1>2. Queued = {} /\ Held = {}
  BY <1>1 DEF Init, QueueInit, WorkerInit, Queued, Held
<1>3. AllLines /\ AwaitedIsScheduled
  BY <1>2 DEF Init, WorkerInit, AllLines, LineOf, AwaitedIsScheduled
<1> QED
  BY <1>3, BooksInitInv DEF AwaitInv

\* No task is lost and none runs on after its answer: a crash, a time-out or a
\* failure puts it back (application.cc, OnWorkerRemoved, OnWorkerTimeout and
\* HandleWorkerFailed), an answer ends it.
THEOREM NoTaskLost ==
  ASSUME SendsSucceed, OwnIds, ~LateAnswers
  PROVE  Spec => []AwaitedIsScheduled
<1>1. AwaitInv => AwaitedIsScheduled
  BY DEF AwaitInv
<1> QED
  BY <1>1, AwaitInitInv, AwaitStepInv, PTL DEF Spec

\* A worker process works on the task that the master gave it last, in its
\* last incarnation, and on nothing else (worker.cc, Activate and Cancel).
THEOREM NoWorkTwice ==
  ASSUME SendsSucceed, OwnIds, ~LateAnswers
  PROVE  Spec => []NoDoubleWork
<1>1. AwaitInv => NoDoubleWork
  BY DEF AwaitInv, AllLines, LineOf, Current, NoDoubleWork
<1> QED
  BY <1>1, AwaitInitInv, AwaitStepInv, PTL DEF Spec

(***************************************************************************)
(* The master implements the pool.                                         *)
(***************************************************************************)

\* Where the tasks are, when every task that is awaited is somewhere.
LEMMA WhereaboutsIs ==
  ASSUME AwaitInv
  PROVE  whereabouts = [t \in Tasks |->
           IF t \in Held THEN "running" ELSE IF t \in Queued THEN "waiting" ELSE "none"]
BY DEF AwaitInv, AwaitedIsScheduled, whereabouts

\* The same after a step.
LEMMA WhereaboutsBecomes ==
  ASSUME AwaitInv'
  PROVE  whereabouts' = [t \in Tasks |->
           IF t \in Held' THEN "running" ELSE IF t \in Queued' THEN "waiting" ELSE "none"]
BY DEF AwaitInv, AwaitedIsScheduled, whereabouts

\* Every step of the master is a step of the pool, or none.
LEMMA StepIsPoolStep ==
  ASSUME SendsSucceed, OwnIds, ~LateAnswers, AwaitInv, [Next]_vars
  PROVE  [Pool!Next]_whereabouts
<1> DEFINE At(H, Q) == [t \in Tasks |->
             IF t \in H THEN "running" ELSE IF t \in Q THEN "waiting" ELSE "none"]
<1>0. /\ PlaceInv /\ AppInv /\ QueueInv' /\ BooksInv /\ QueueInv
      /\ Queued \cap Held = {} /\ Queued \subseteq Tasks /\ Held \subseteq Tasks
      /\ awaiting = Queued \cup Held
  BY AppStepInv, PlaceParts, QueuedAreTasks
  DEF AwaitInv, BooksInv, PlaceInv, AppInv, AwaitedIsScheduled
<1>a. whereabouts = At(Held, Queued)
  BY WhereaboutsIs DEF AwaitInv
<1>b. whereabouts' = At(Held', Queued')
  BY AwaitStepInv, WhereaboutsBecomes
<1>1. CASE NothingMoves
  BY <1>0, <1>1, <1>a, <1>b, NothingPlace
<1>2. ASSUME NEW w \in Workers, GoesBack(w) PROVE Pool!Next
  <2>1. task[w] \in Held
    BY <1>0, <1>2, PlaceParts DEF GoesBack, Stops
  <2>2. Group[task[w]] \in d_batches
    BY <1>0, <2>1, RunningHasBatch
  <2>3. Held' = Held \ {task[w]} /\ Queued' = Queued \cup {task[w]}
    BY <1>0, <1>2, <2>2, GoesBackPlace
  <2>4. Pool!Retry(task[w])
    BY <1>0, <1>a, <1>b, <2>1, <2>3 DEF Pool!Retry, Pool!Move
  <2> QED
    BY <1>0, <2>1, <2>4 DEF Pool!Next
<1>3. ASSUME NEW w \in Workers, Ends(w) PROVE Pool!Next
  <2>1. task[w] \in Held
    BY <1>0, <1>3, PlaceParts DEF Ends, Stops
  <2>2. Held' = Held \ {task[w]} /\ Queued' = Queued
    BY <1>0, <1>3, EndsPlace
  <2>3. Pool!Answer(task[w])
    BY <1>0, <1>a, <1>b, <2>1, <2>2 DEF Pool!Answer, Pool!Move
  <2> QED
    BY <1>0, <2>1, <2>3 DEF Pool!Next
<1>4. ASSUME NEW j \in Jobs, NEW ts \in BatchesOf(NewTasks(j)), HandleJobBatch(j, ts)
      PROVE  Pool!Next
  <2>1. /\ Held' = Held /\ Queued' = Queued \cup Range(ts)
        /\ Range(ts) \cap (awaiting \cup Queued \cup Held) = {}
        /\ Range(ts) \subseteq Tasks
        /\ \A t \in Range(ts) : Group[t] = j
    BY <1>0, <1>4, BatchPlace
  <2>2. Pool!Submit(Range(ts))
    BY <1>0, <1>a, <1>b, <2>1 DEF Pool!Submit
  <2> QED
    BY <2>1, <2>2 DEF Pool!Next
<1>5. ASSUME NEW j \in Jobs, Leaves(j) PROVE Pool!Next
  <2>1. Held' = {t \in Held : Group[t] # j} /\ Queued' = {t \in Queued : Group[t] # j}
    BY <1>0, <1>5, LeavesPlace
  <2>2. Pool!Withdraw(j)
    BY <1>a, <1>b, <2>1 DEF Pool!Withdraw
  <2> QED
    BY <2>2 DEF Pool!Next
<1>6. ASSUME NEW g \in Jobs, DispatchTask(g) PROVE Pool!Next
  <2> DEFINE t == Head(d_tasks[g])
  <2>1. t \in Tasks /\ t \in Queued /\ Held' = Held \cup {t} /\ Queued' = Queued \ {t}
    BY <1>0, <1>6, DispatchPlace
  <2> HIDE DEF t
  <2>2. Pool!Start(t)
    BY <1>0, <1>a, <1>b, <2>1 DEF Pool!Start, Pool!Move
  <2> QED
    BY <2>1, <2>2 DEF Pool!Next
<1> QED
  BY <1>0, <1>1, <1>2, <1>3, <1>4, <1>5, <1>6, StepMoves

\* To the jobs the master is a pool of tasks: each waits or runs, is tried
\* again any number of times, and leaves when it is answered or its job goes
\* (application.cc).
THEOREM MasterIsAPool ==
  ASSUME SendsSucceed, OwnIds, ~LateAnswers
  PROVE  Spec => PoolSpec
<1>1. Init => Pool!Init
  <2> SUFFICES ASSUME Init PROVE Pool!Init
    OBVIOUS
  <2>1. Queued = {} /\ Held = {}
    <3>1. Range(<<>>) = {}
      BY DEF Range
    <3> QED
      BY <3>1 DEF Init, QueueInit, WorkerInit, Queued, Held
  <2> QED
    BY <2>1, AwaitInitInv, WhereaboutsIs DEF Pool!Init
<1> QED
  BY <1>1, AwaitInitInv, AwaitStepInv, StepIsPoolStep, PTL DEF Spec, PoolSpec, Pool!Spec

==============================================================================
