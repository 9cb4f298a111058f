----------------------------- MODULE Application -----------------------------
(***************************************************************************)
(* The master (application.cc): the task queue, the worker manager and the *)
(* job manager, the handlers that connect them, and the outside world they *)
(* talk to.                                                                *)
(*                                                                         *)
(* The master is one thread in a GLib main loop.  Every handler runs to    *)
(* its end, so each is one action; the dispatcher, which runs when the     *)
(* loop is idle, is a loop and takes one action per turn, with `dispatch'  *)
(* keeping every other handler out until it is done.                       *)
(***************************************************************************)
EXTENDS TaskQueue, JobManager

CONSTANTS
  MaxTaskFailures,  \* Config::MaxTaskFailures
  Timeouts,         \* what jobs may ask for: a time limit (TRUE), none (FALSE)
  SendOutcomes,     \* what Send to a worker may return
  LateAnswers,      \* can an answer be under way while its task is cancelled?
  MaxWire           \* bound: unread answers of one worker

ASSUME ApplicationAssumption ==
  /\ MaxTaskFailures \in Nat
  /\ Timeouts \subseteq BOOLEAN
  /\ SendOutcomes \subseteq BOOLEAN
  /\ LateAnswers \in BOOLEAN
  /\ MaxWire \in Nat

VARIABLES
  failures,   \* Task::Data::failures
  dispatch,   \* d_idleDispatch: "off", "pending" (connected), "running"
  idleTimer,  \* is d_idleTimer allocated?
  executing,  \* the task messages each worker process is working on
  wire,       \* the answers each worker process sent, not read yet
  awaiting    \* the tasks whose answer some connected job waits for

worldVars == <<executing, wire, awaiting>>
vars == <<queueVars, workerVars, jobVars, failures, dispatch, idleTimer, worldVars>>

Statuses == {"Success", "Failed", "Challenge"}
Messages == [task : Tasks, uid : 0 .. MaxUid]
Answers == [task : Tasks, uid : 0 .. MaxUid, status : Statuses]

TypeOK ==
  /\ QueueTypeOK
  /\ WorkerTypeOK
  /\ JobTypeOK
  /\ failures \in [Tasks -> Nat]
  /\ dispatch \in {"off", "pending", "running"}
  /\ idleTimer \in BOOLEAN
  /\ executing \in [Workers -> SUBSET Messages]
  /\ wire \in [Workers -> Seq(Answers)]
  /\ awaiting \in SUBSET Tasks

Init ==
  /\ failures = [t \in Tasks |-> 0]
  /\ QueueInit
  /\ WorkerInit
  /\ JobInit
  /\ dispatch = "off"
  /\ idleTimer = TRUE
  /\ executing = [w \in Workers |-> {}]
  /\ wire = [w \in Workers |-> <<>>]
  /\ awaiting = {}

-----------------------------------------------------------------------------
(* Helpers *)

\* Other handlers wait until the dispatcher has returned.
LoopFree == dispatch # "running"

\* OnNotifyAvailable, when it is called: connects the dispatcher, unless it
\* is connected already.
Notify(called) ==
  dispatch' = IF called /\ dispatch = "off" THEN "pending" ELSE dispatch

Held == {task[w] : w \in {v \in Workers : active[v]}}

\* Faulty: the workers are not told.
CancelsForgotten(ws) == UNCHANGED <<executing, wire>>

\* The cancel messages that Worker::Cancel sent to the workers of ws arrive:
\* each stops working on the client id of its task.  Without LateAnswers the
\* message overtakes the answers of the worker that are under way.
CancelsSent(ws) ==
  /\ executing' = [w \in Workers |->
       IF w \in ws
       THEN {m \in executing[w] : TaskId[m.task] # TaskId[task[w]]}
       ELSE executing[w]]
  /\ wire' = [w \in Workers |-> IF w \in ws /\ ~LateAnswers THEN <<>> ELSE wire[w]]

\* Faulty: workers whose cancel was not sent stay active.
CancelOnly(ws, sent) ==
  /\ DeactivateAll(SelectSeq(ws, LAMBDA w : w \in sent))
  /\ CancelsSent(sent)

\* Worker::Cancel on each of the active workers ws, and Deactivate where the
\* cancel was not sent.
CancelOrDeactivate(ws, sent) ==
  /\ DeactivateAll(ws)
  /\ CancelsSent(sent)

\* What job g has not been answered yet once it gets answer a: it goes by the
\* client's task id.
AwaitingAfter(g, a) ==
  {t \in awaiting : ~(Group[t] = g /\ TaskId[t] = TaskId[a.task])}

\* A new Task object: nothing in the system refers to it.
Fresh(t) ==
  /\ t \notin awaiting \cup Queued \cup Held
  /\ \A w \in Workers :
       /\ \A m \in executing[w] : m.task # t
       /\ \A k \in DOMAIN wire[w] : wire[w][k].task # t

-----------------------------------------------------------------------------
(* Workers come and go *)

\* OnGreeting(info): WorkerManager::Add connects, when the address is new.
OnGreeting(c, w) ==
  /\ LoopFree
  /\ AddWorker(c, w)
  /\ executing' = [executing EXCEPT ![w] = {}]
  /\ wire' = [wire EXCEPT ![w] = <<>>]
  /\ Notify(TRUE)
  /\ UNCHANGED <<queueVars, jobVars, failures, idleTimer, awaiting>>

\* OnWorkerClosed(communicator): RemoveWorker, and OnWorkerRemoved, which
\* reschedules the task the worker was working on.
OnWorkerClosed(w) ==
  /\ LoopFree
  /\ RemoveWorker(w)
  /\ WorkerLeavesJobs(w)
  /\ IF active[w] THEN PushTask(task[w]) ELSE UNCHANGED queueVars
  /\ Notify(active[w] /\ Group[task[w]] \in d_batches)
  /\ executing' = [executing EXCEPT ![w] = {}]
  /\ wire' = [wire EXCEPT ![w] = <<>>]
  /\ UNCHANGED <<failures, idleTimer, awaiting>>

\* OnWorkerTimeout(worker): cancel, whose result is not looked at, and push
\* the task back.
OnWorkerTimeout(w, sent) ==
  /\ LoopFree
  /\ armed[w]
  /\ PushTask(task[w])
  /\ IF sent
     THEN /\ CancelOrDeactivate(<<w>>, {w})
          /\ WorkerLeavesJobs(w)
     ELSE /\ DisarmTimeout(w)
          /\ UNCHANGED <<jobVars, executing, wire>>
  /\ Notify(sent \/ Group[task[w]] \in d_batches)
  /\ UNCHANGED <<failures, idleTimer, awaiting>>

-----------------------------------------------------------------------------
(* Answers of workers *)

\* A worker process answers one of its tasks; a challenge leaves the task
\* with it.
WorkerAnswer(w, m, status) ==
  /\ LoopFree
  /\ w \in d_workers
  /\ m \in executing[w]
  /\ Len(wire[w]) < MaxWire
  /\ wire' = [wire EXCEPT ![w] =
       Append(@, [task |-> m.task, uid |-> m.uid, status |-> status])]
  /\ executing' = [executing EXCEPT ![w] = IF status = "Challenge" THEN @ ELSE @ \ {m}]
  /\ UNCHANGED <<queueVars, workerVars, jobVars, failures, dispatch, idleTimer, awaiting>>

\* The worker is inactive: the answer is dropped.
DropAnswer(w) ==
  /\ ~active[w]
  /\ UNCHANGED <<queueVars, workerVars, jobVars, failures, dispatch, awaiting>>

\* The job of the worker's task is gone.
AnswerWithoutJob(w) ==
  /\ active[w]
  /\ Group[task[w]] \notin d_jobs
  /\ Deactivate(w)
  /\ WorkerLeavesJobs(w)
  /\ Notify(TRUE)
  /\ UNCHANGED <<queueVars, failures, awaiting>>

\* Faulty: the dispatcher is not told that the worker is idle again.
CompleteTaskQuietly(w, a) ==
  /\ awaiting' = AwaitingAfter(Group[task[w]], a)
  /\ Deactivate(w)
  /\ WorkerLeavesJobs(w)
  /\ Finished(task[w])
  /\ Notify(FALSE)

\* The worker is done with its task, for better or for worse: the answer is
\* relayed to the job and the task leaves the queue's books.
CompleteTask(w, a) ==
  /\ awaiting' = AwaitingAfter(Group[task[w]], a)
  /\ Deactivate(w)
  /\ WorkerLeavesJobs(w)
  /\ Finished(task[w])
  /\ Notify(TRUE)

\* Faulty: the worker may be inactive.
HadJob(w) == Group[task[w]] \in d_jobs

HasJob(w) == active[w] /\ Group[task[w]] \in d_jobs

\* A success, whichever task it answers, completes the worker's task.
AnswerSuccess(w, a) ==
  /\ HasJob(w)
  /\ a.status = "Success"
  /\ CompleteTask(w, a)
  /\ UNCHANGED failures

\* The task failed too many times: the failure is relayed.
AnswerRejected(w, a) ==
  /\ HasJob(w)
  /\ a.status = "Failed"
  /\ failures[task[w]] + 1 >= MaxTaskFailures
  /\ failures' = [failures EXCEPT ![task[w]] = @ + 1]
  /\ CompleteTask(w, a)

\* Faulty: one more try.
AnswerRescheduledOnceMore(w, a) ==
  /\ HasJob(w)
  /\ a.status = "Failed"
  /\ failures[task[w]] < MaxTaskFailures
  /\ failures' = [failures EXCEPT ![task[w]] = @ + 1]
  /\ PushTask(task[w])
  /\ Deactivate(w)
  /\ WorkerLeavesJobs(w)
  /\ Notify(TRUE)
  /\ UNCHANGED awaiting

\* The task failed and is tried again, maybe elsewhere.
AnswerRescheduled(w, a) ==
  /\ HasJob(w)
  /\ a.status = "Failed"
  /\ failures[task[w]] + 1 < MaxTaskFailures
  /\ failures' = [failures EXCEPT ![task[w]] = @ + 1]
  /\ PushTask(task[w])
  /\ Deactivate(w)
  /\ WorkerLeavesJobs(w)
  /\ Notify(TRUE)
  /\ UNCHANGED awaiting

\* A challenge is only relayed.
AnswerChallenge(w, a) ==
  /\ HasJob(w)
  /\ a.status = "Challenge"
  /\ UNCHANGED <<queueVars, workerVars, jobVars, failures, dispatch, awaiting>>

\* OnWorkerCommunication(args) for the oldest unread answer of w.
OnWorkerCommunication(w) ==
  /\ LoopFree
  /\ w \in d_workers
  /\ wire[w] # <<>>
  /\ wire' = [wire EXCEPT ![w] = Tail(@)]
  /\ \/ DropAnswer(w)
     \/ AnswerWithoutJob(w)
     \/ AnswerSuccess(w, Head(wire[w]))
     \/ AnswerRejected(w, Head(wire[w]))
     \/ AnswerRescheduled(w, Head(wire[w]))
     \/ AnswerChallenge(w, Head(wire[w]))
  /\ UNCHANGED <<idleTimer, executing>>

-----------------------------------------------------------------------------
(* Jobs come, send batches and go *)

\* OnNewConnection(client), and OnJobAdded.
OnJobAdded(j) ==
  /\ LoopFree
  /\ AddJob(j)
  /\ idleTimer' = FALSE
  /\ UNCHANGED <<queueVars, workerVars, failures, dispatch, worldVars>>

\* HandleJobIdentify(job, communication).
HandleJobIdentify(j, isValid, timed) ==
  /\ LoopFree
  /\ IdentifyJob(j, isValid, timed)
  /\ UNCHANGED <<queueVars, workerVars, failures, dispatch, idleTimer, worldVars>>

\* HandleJobBatch(job, communication) of a valid job; of an invalid one it
\* changes nothing.
HandleJobBatch(j, ts) ==
  /\ LoopFree
  /\ j \in d_jobs
  /\ valid[j]
  /\ PushBatch(j, ts, timeout[j])
  /\ failures' = [t \in Tasks |-> IF t \in Range(ts) THEN 0 ELSE failures[t]]
  /\ awaiting' = awaiting \cup Range(ts)
  /\ Notify(ts # <<>>)
  /\ UNCHANGED <<workerVars, jobVars, idleTimer, executing, wire>>

\* OnJobClosed(communicator), and OnJobRemoved: the batch goes, every worker
\* of the job is cancelled, and deactivated also where the cancel is not
\* sent.  `sent' is the set of workers whose cancel is sent.
OnJobRemoved(j, sent) ==
  /\ LoopFree
  /\ RemoveJob(j)
  /\ Remove(j)
  /\ CancelOrDeactivate(activeWorkers[j], sent)
  /\ idleTimer' = (idleTimer \/ d_jobs = {j})
  /\ awaiting' = {t \in awaiting : Group[t] # j}
  /\ Notify(activeWorkers[j] # <<>>)
  /\ UNCHANGED failures

\* The workers whose cancel may be sent, given what Send may return.
CancelOutcomes(j) ==
  {sent \in SUBSET Range(activeWorkers[j]) :
     \A w \in Range(activeWorkers[j]) : (w \in sent) \in SendOutcomes}

-----------------------------------------------------------------------------
(* The dispatcher *)

\* One turn of OnDispatch that gives the next task of batch g to the next
\* idle worker.
DispatchTask(g) ==
  LET w == Head(d_idleWorkers)
      t == Head(d_tasks[g])
  IN /\ dispatch \in {"pending", "running"}
     /\ Pop(g)
     /\ Activate(t, d_timeout[g])
     /\ AddWorkerToJob(g, w)
     /\ executing' = [executing EXCEPT ![w] = @ \cup {[task |-> t, uid |-> uniqueid[t]]}]
     /\ dispatch' = "running"
     /\ UNCHANGED <<failures, idleTimer, wire, awaiting>>

\* Faulty: the dispatcher gives up after a task that could not be sent.
DispatchFailsAndStops(g) ==
  /\ dispatch \in {"pending", "running"}
  /\ PopAndPushTask(g)
  /\ ActivateFails(Head(d_tasks[g]))
  /\ dispatch' = "off"
  /\ UNCHANGED <<jobVars, failures, idleTimer, worldVars>>

\* One turn whose Activate fails: the task is pushed back, the loop goes on.
DispatchFails(g) ==
  /\ dispatch \in {"pending", "running"}
  /\ PopAndPushTask(g)
  /\ ActivateFails(Head(d_tasks[g]))
  /\ dispatch' = "running"
  /\ UNCHANGED <<jobVars, failures, idleTimer, worldVars>>

\* The loop ends: no idle worker, or no waiting task (found out after the
\* idle deque was rotated).  The dispatcher is disconnected.
DispatchEnd ==
  /\ dispatch \in {"pending", "running"}
  /\ \/ d_idleWorkers = <<>> /\ UNCHANGED workerVars
     \/ Queued = {} /\ RotateIdle
  /\ dispatch' = "off"
  /\ UNCHANGED <<queueVars, jobVars, failures, idleTimer, worldVars>>

-----------------------------------------------------------------------------

WorkerStep(w) ==
  \/ OnWorkerClosed(w)
  \/ \E sent \in SendOutcomes : OnWorkerTimeout(w, sent)
  \/ \E m \in executing[w], status \in Statuses : WorkerAnswer(w, m, status)
  \/ OnWorkerCommunication(w)

JobStep(j) ==
  \/ OnJobAdded(j)
  \/ \E isValid \in BOOLEAN, timed \in Timeouts : HandleJobIdentify(j, isValid, timed)
  \/ \E ts \in BatchesOf({t \in Tasks : Group[t] = j /\ Fresh(t)}) : HandleJobBatch(j, ts)
  \/ \E sent \in CancelOutcomes(j) : OnJobRemoved(j, sent)

\* One turn of the dispatcher's loop: the task is sent, or not.
DispatchTurn(g, sent) == IF sent THEN DispatchTask(g) ELSE DispatchFails(g)

DispatchStep ==
  \/ \E g \in Jobs, sent \in SendOutcomes : DispatchTurn(g, sent)
  \/ DispatchEnd

Next ==
  \/ \E c \in Connections, w \in Workers : OnGreeting(c, w)
  \/ \E w \in Workers : WorkerStep(w)
  \/ \E j \in Jobs : JobStep(j)
  \/ DispatchStep

Spec == Init /\ [][Next]_vars

-----------------------------------------------------------------------------
(* Safety *)

\* The dispatcher is connected whenever there is an idle worker and a waiting
\* task: IdleDispatch ignores requests while it is connected, OnDispatch drops
\* those that arrive while it runs, and still no task is left waiting beside
\* an idle worker.
NoLostWakeup ==
  (d_idleWorkers # <<>> /\ Queued # {}) => dispatch # "off"

\* A job lists exactly the workers that run its tasks, once each: closing the
\* job cancels all of them and no one else's.
JobWorkerLink ==
  \A j \in Jobs :
    /\ Range(activeWorkers[j]) = {w \in Workers : active[w] /\ Group[task[w]] = j}
    /\ IsInjective(activeWorkers[j])

\* Nothing waits or runs for a job that is gone (application.cc, OnJobRemoved),
\* not even when its descriptor is given to a new connection.
NoOrphans ==
  /\ d_batches \subseteq d_jobs
  /\ \A t \in Queued \cup Held : Group[t] \in d_jobs

\* The queue's record of running ids is what the workers really run, so a
\* batch is dropped neither too early nor too late.
RunningMatchesWorkers ==
  \A j \in Jobs : d_running[j] = {TaskId[t] : t \in {u \in Held : Group[u] = j}}

\* No task is in two places: it waits once, or runs on one worker.
OnePlace ==
  /\ \A j \in Jobs : IsInjective(d_tasks[j])
  /\ Queued \cap Held = {}
  /\ \A v, w \in Workers : active[v] /\ active[w] /\ task[v] = task[w] => v = w

\* What a job waits for is exactly what is waiting or running: no task is
\* lost by a crash, a time-out or a failure, none runs on after its answer.
AwaitedIsScheduled == awaiting = Queued \cup Held

\* A task whose failures are used up is never scheduled again.
FailureBudget ==
  \A t \in Queued \cup Held : failures[t] < MaxTaskFailures \/ failures[t] = 0

\* The message of the task that worker w was given.
Current(w) == [task |-> task[w], uid |-> uniqueid[task[w]]]

\* A worker process works on the task the master believes it works on, in its
\* last incarnation, and on nothing else.
NoDoubleWork ==
  \A w \in Workers : \A m \in executing[w] :
    active[w] /\ m = Current(w)

\* A running task has a timeout source if and only if its batch limits the
\* run time.
TimeLimitKept ==
  \A w \in Workers : active[w] => (armed[w] <=> d_timeout[Group[task[w]]])

\* The unique id tells whether an answer is about the present run of its worker,
\* however late answers are (application.cc, OnWorkerCommunication, where it is
\* compared): what has the id of the run is about its task, and the process
\* still works on the run or has ended it, once.
RunsToldApart ==
  \A w \in Workers : active[w] =>
    LET own == {k \in DOMAIN wire[w] : wire[w][k].uid = uniqueid[task[w]]}
        ends == {k \in own : wire[w][k].status # "Challenge"}
    IN /\ \A k \in own : wire[w][k].task = task[w]
       /\ \A k, l \in ends : k = l
       /\ Current(w) \in executing[w] <=> ends = {}

-----------------------------------------------------------------------------
(* What a step may never do *)

\* The task of a worker that disconnects is waiting again, unless its job is
\* gone ("Reschedule the task the worker was working on", application.cc,
\* OnWorkerRemoved).
CrashReschedules ==
  [][\A w \in d_workers \ d_workers' :
       active[w] /\ Group[task[w]] \in d_jobs => task[w] \in Queued']_vars

\* A worker is done with its task by a success only if the success is about
\* that task ("Task was completed successfully", application.cc,
\* OnWorkerCommunication).
SuccessIsOfItsTask ==
  [][\A w \in d_workers \cap d_workers' :
       /\ active[w] /\ ~active'[w]
       /\ wire[w] # <<>> /\ wire'[w] = Tail(wire[w])
       /\ Head(wire[w]).status = "Success"
       => Head(wire[w]).task = task[w]]_vars

-----------------------------------------------------------------------------
\* Seen from the worker manager, the application is a legal user: it only
\* deactivates workers that are active, and each once.
ManagerSpec == WorkerSpec

\* Where a task that a job waits for is: in the master, or on a worker.
whereabouts == [t \in Tasks |->
  IF t \notin awaiting THEN "none"
  ELSE IF t \in Held THEN "running"
  ELSE IF t \in Queued THEN "waiting"
  ELSE "lost"]

Pool == INSTANCE TaskPool WITH status <- whereabouts

\* The master implements the pool: to the jobs, each task they wait for waits
\* or runs, and leaves only when it is answered or its job goes (TaskPool).
PoolSpec == Pool!Spec

==============================================================================
