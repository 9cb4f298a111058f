----------------------------- MODULE Timekeeping -----------------------------
(***************************************************************************)
(* What the master measures: how long workers idle and work, for whom, how *)
(* tasks end, and when a task has taken too long (worker.cc, and           *)
(* OnPeriodicLogStatus in application.cc).  One timer per worker serves    *)
(* both measures, so it has to start anew whenever the worker becomes      *)
(* active or idle, and whenever what it shows was written to the log.      *)
(*                                                                         *)
(* Time passes between handlers, in ticks.                                 *)
(***************************************************************************)
EXTENDS Application

CONSTANTS
  Users,           \* the users that jobs name when they identify themselves
  User,            \* the user of each job
  Limit,           \* the time limit of each job, in ticks
  TicksPerSecond,
  StartValues,     \* what d_idleTime, which is not initialised, may be at first
  MaxOwed          \* bound: time that is not in the log yet

ASSUME TimekeepingAssumption ==
  /\ IsFiniteSet(Users)
  /\ IsFiniteSet(Tasks)
  /\ User \in [Jobs -> Users]
  /\ Limit \in [Jobs -> Nat]
  /\ TicksPerSecond \in Nat \ {0}
  /\ StartValues \subseteq Nat
  /\ MaxOwed \in Nat

VARIABLES
  elapsed,          \* Worker::Data::idleTime.elapsed()
  totalActiveTime,  \* Worker::Data::totalActiveTime, 0 without an entry
  due,              \* the ticks left until the timeout source may fire
  d_idleTime,
  d_activeUsers,    \* 0 without an entry
  d_tasksFailed,
  d_tasksSuccess,
  tasksFailed,      \* Job::Data::tasksFailed
  tasksSuccess,     \* Job::Data::tasksSuccess
  reported,         \* how many tasks the log says ended, and how
  past,             \* how many tasks of earlier jobs with each descriptor ended
  replaced,         \* the failures of task objects that are there no more
  owed              \* how long workers idled, worked, and worked for a user,
                    \* less what the log says and what the master gives up

statistics ==
  <<totalActiveTime, d_idleTime, d_activeUsers, d_tasksFailed, d_tasksSuccess>>
jobCounts == <<tasksFailed, tasksSuccess>>

\* What the log, and those who saw earlier jobs and tasks, know; no part of
\* the program.
history == <<reported, past, replaced>>

timeVars == <<elapsed, due, statistics, jobCounts, history, owed>>
timekeepingVars == <<vars, timeVars>>

NoActiveTime == [j \in Jobs |-> 0]
NoTaskEnded == [failed |-> 0, success |-> 0]

\* Whatever d_idleTime is at first, no worker idled for it.
TimekeepingInit ==
  /\ Init
  /\ elapsed = [w \in Workers |-> 0]
  /\ totalActiveTime = [w \in Workers |-> NoActiveTime]
  /\ due = [w \in Workers |-> 0]
  /\ d_idleTime \in StartValues
  /\ d_activeUsers = [u \in Users |-> 0]
  /\ d_tasksFailed = 0
  /\ d_tasksSuccess = 0
  /\ tasksFailed = NoActiveTime
  /\ tasksSuccess = NoActiveTime
  /\ reported = NoTaskEnded
  /\ past = [j \in Jobs |-> NoTaskEnded]
  /\ replaced = [j \in Jobs |-> 0]
  /\ owed = [idle |-> d_idleTime, active |-> 0, user |-> 0]

-----------------------------------------------------------------------------
(* Helpers *)

ActiveWorkers == {w \in Workers : active[w]}
IdleWorkers == d_workers \ ActiveWorkers

\* Activate: a limit is cut to whole seconds, down to none at all.
WholeSeconds(ticks) == (ticks \div TicksPerSecond) * TicksPerSecond

\* What Deactivate of the workers ws does about time.
Stopped(ws) ==
  /\ totalActiveTime' = [w \in Workers |->
       IF w \in ws
       THEN [totalActiveTime[w] EXCEPT ![Group[task[w]]] = @ + elapsed[w]]
       ELSE totalActiveTime[w]]
  /\ elapsed' = [w \in Workers |-> IF w \in ws THEN 0 ELSE elapsed[w]]

\* The timer of w is started anew.
Restarted(w) == elapsed' = [elapsed EXCEPT ![w] = 0]

\* Faulty: the user is charged after the worker was deactivated.
AddIdleTimeLate(user, time) == UNCHANGED d_activeUsers

\* AddIdleTime(user, idleTime).
AddIdleTime(user, time) == d_activeUsers' = [d_activeUsers EXCEPT ![user] = @ + time]

\* ++d_tasksSuccess or ++d_tasksFailed, and the same for the job.
CountTask(j, status) ==
  IF status = "Success"
  THEN /\ d_tasksSuccess' = d_tasksSuccess + 1
       /\ tasksSuccess' = [tasksSuccess EXCEPT ![j] = @ + 1]
       /\ UNCHANGED <<d_tasksFailed, tasksFailed>>
  ELSE /\ d_tasksFailed' = d_tasksFailed + 1
       /\ tasksFailed' = [tasksFailed EXCEPT ![j] = @ + 1]
       /\ UNCHANGED <<d_tasksSuccess, tasksSuccess>>

-----------------------------------------------------------------------------
(* Handlers *)

\* Time passes.
Tick ==
  /\ LoopFree
  /\ d_workers # {}
  /\ owed.idle + owed.active + owed.user < MaxOwed
  /\ elapsed' = [w \in Workers |-> IF w \in d_workers THEN elapsed[w] + 1 ELSE 0]
  /\ due' = [w \in Workers |-> IF armed[w] /\ due[w] > 0 THEN due[w] - 1 ELSE due[w]]
  /\ owed' = [idle |-> owed.idle + Cardinality(IdleWorkers),
              active |-> owed.active + Cardinality(ActiveWorkers),
              user |-> owed.user + Cardinality(ActiveWorkers)]
  /\ UNCHANGED <<vars, statistics, jobCounts, history>>

\* A worker object is made: its timer starts, and it was active for nobody.
WorkerConnects(c, w) ==
  /\ OnGreeting(c, w)
  /\ Restarted(w)
  /\ totalActiveTime' = [totalActiveTime EXCEPT ![w] = NoActiveTime]
  /\ due' = [due EXCEPT ![w] = 0]
  /\ UNCHANGED <<d_idleTime, d_activeUsers, d_tasksFailed, d_tasksSuccess, jobCounts, history,
                 owed>>

\* A worker object goes, with its timer and what it was active.
WorkerGoes(w) ==
  LET run == IF active[w] THEN elapsed[w] ELSE 0
  IN /\ OnWorkerClosed(w)
     /\ Restarted(w)
     /\ totalActiveTime' = [totalActiveTime EXCEPT ![w] = NoActiveTime]
     /\ due' = [due EXCEPT ![w] = 0]
     /\ owed' = [idle |-> owed.idle - (elapsed[w] - run),
                 active |-> owed.active - (run + SumFunction(totalActiveTime[w])),
                 user |-> owed.user - run]
     /\ UNCHANGED <<d_idleTime, d_activeUsers, d_tasksFailed, d_tasksSuccess, jobCounts,
                    history>>

\* Worker::Data::OnTimeout makes a Worker of its data, whose constructor starts
\* the timer anew: neither the worker nor the user gets the time of a run that
\* is cut off.
WorkerTakesTooLong(w, sent) ==
  /\ due[w] = 0
  /\ OnWorkerTimeout(w, sent)
  /\ Restarted(w)
  /\ owed' = [idle |-> owed.idle,
              active |-> owed.active - elapsed[w],
              user |-> owed.user - elapsed[w]]
  /\ UNCHANGED <<due, statistics, jobCounts, history>>

\* An answer that ends no run.
WorkerAsks(w) ==
  /\ OnWorkerCommunication(w)
  /\ active[w] => HasJob(w) /\ Head(wire[w]).status = "Challenge"
  /\ UNCHANGED timeVars

\* A success or a failure: the user is charged, the worker is deactivated and
\* the task is counted.  Where the job of the task is gone, whatever the answer,
\* the worker is only deactivated.
WorkerEndsTask(w) ==
  /\ OnWorkerCommunication(w)
  /\ active[w]
  /\ Stopped({w})
  /\ IF HasJob(w)
     THEN /\ Head(wire[w]).status # "Challenge"
          /\ AddIdleTime(User[Group[task[w]]], elapsed[w])
          /\ CountTask(Group[task[w]], Head(wire[w]).status)
          /\ UNCHANGED owed
     ELSE /\ owed' = [owed EXCEPT !.user = @ - elapsed[w]]
          /\ UNCHANGED <<d_activeUsers, d_tasksFailed, d_tasksSuccess, jobCounts>>
  /\ UNCHANGED <<due, d_idleTime, history>>

\* Faulty: the counts of an earlier job with the descriptor stay.
JobConnectsWithCounts(j) ==
  /\ OnJobAdded(j)
  /\ past' = [past EXCEPT ![j] = [failed |-> @.failed + tasksFailed[j],
                                 success |-> @.success + tasksSuccess[j]]]
  /\ UNCHANGED <<elapsed, due, statistics, jobCounts, reported, replaced, owed>>

\* A job object is made, which has no tasks.
JobConnects(j) ==
  /\ OnJobAdded(j)
  /\ tasksFailed' = [tasksFailed EXCEPT ![j] = 0]
  /\ tasksSuccess' = [tasksSuccess EXCEPT ![j] = 0]
  /\ past' = [past EXCEPT ![j] = [failed |-> @.failed + tasksFailed[j],
                                 success |-> @.success + tasksSuccess[j]]]
  /\ UNCHANGED <<elapsed, due, statistics, reported, replaced, owed>>

\* A job identifies itself: what its user was charged so far is forgotten.
JobIdentifies(j, isValid, timed) ==
  /\ HandleJobIdentify(j, isValid, timed)
  /\ d_activeUsers' = [d_activeUsers EXCEPT ![User[j]] = 0]
  /\ owed' = [owed EXCEPT !.user = @ - d_activeUsers[User[j]]]
  /\ UNCHANGED <<elapsed, due, totalActiveTime, d_idleTime, d_tasksFailed, d_tasksSuccess,
                 jobCounts, history>>

\* The task objects of the batch are new ones.
JobSendsBatch(j, ts) ==
  /\ HandleJobBatch(j, ts)
  /\ replaced' = [replaced EXCEPT ![j] = @ + SumFunctionOnSet(failures, Range(ts))]
  /\ UNCHANGED <<elapsed, due, statistics, jobCounts, reported, past, owed>>

\* A job goes: its workers are deactivated, and its user is not charged.
JobGoes(j, sent) ==
  /\ OnJobRemoved(j, sent)
  /\ Stopped(Range(activeWorkers[j]))
  /\ owed' = [owed EXCEPT !.user = @ - SumFunctionOnSet(elapsed, Range(activeWorkers[j]))]
  /\ UNCHANGED <<due, d_idleTime, d_activeUsers, d_tasksFailed, d_tasksSuccess, jobCounts,
                 history>>

\* One turn of OnDispatch: the timer shows how long the worker was idle.
Dispatch(g) ==
  LET w == Head(d_idleWorkers)
  IN /\ TRUE \in SendOutcomes
     /\ DispatchTask(g)
     /\ d_idleTime' = d_idleTime + elapsed[w]
     /\ Restarted(w)
     /\ due' = [due EXCEPT ![w] = IF d_timeout[g] THEN WholeSeconds(Limit[g]) ELSE @]
     /\ UNCHANGED <<totalActiveTime, d_activeUsers, d_tasksFailed, d_tasksSuccess, jobCounts,
                    history, owed>>

\* Faulty: the timers of all workers start anew.
ResetAllTimers == elapsed' = [w \in Workers |-> 0]

\* WorkerManager::ResetIdleTime: only idle workers' timers start anew.
ResetIdleTime ==
  elapsed' = [w \in Workers |-> IF w \in Range(d_idleWorkers) THEN 0 ELSE elapsed[w]]

\* OnPeriodicLogStatus.
OnPeriodicLogStatus ==
  /\ LoopFree
  /\ ResetIdleTime
  /\ owed' = [
       idle |-> owed.idle - (d_idleTime + SumFunctionOnSet(elapsed, Range(d_idleWorkers))),
       active |-> owed.active
                  - SumFunction([w \in d_workers |-> SumFunction(totalActiveTime[w])]),
       user |-> owed.user - SumFunction(d_activeUsers)]
  /\ reported' = [failed |-> reported.failed + d_tasksFailed,
                  success |-> reported.success + d_tasksSuccess]
  /\ totalActiveTime' = [w \in Workers |->
       IF w \in d_workers THEN NoActiveTime ELSE totalActiveTime[w]]
  /\ d_idleTime' = 0
  /\ d_activeUsers' = [u \in Users |-> 0]
  /\ d_tasksFailed' = 0
  /\ d_tasksSuccess' = 0
  /\ UNCHANGED <<vars, due, jobCounts, past, replaced>>

\* A turn of the dispatcher that hands out no task.
DispatchNothing ==
  \/ \E g \in Jobs : FALSE \in SendOutcomes /\ DispatchFails(g)
  \/ DispatchEnd

TimekeepingNext ==
  \/ Tick
  \/ OnPeriodicLogStatus
  \/ \E w \in Workers :
       \/ \E c \in Connections : WorkerConnects(c, w)
       \/ WorkerGoes(w)
       \/ \E sent \in SendOutcomes : WorkerTakesTooLong(w, sent)
       \/ \E m \in executing[w], status \in Statuses :
            WorkerAnswer(w, m, status) /\ UNCHANGED timeVars
       \/ WorkerAsks(w) \/ WorkerEndsTask(w)
  \/ \E j \in Jobs :
       \/ JobConnects(j)
       \/ \E isValid \in BOOLEAN, timed \in Timeouts : JobIdentifies(j, isValid, timed)
       \/ \E ts \in BatchesOf({t \in Tasks : Group[t] = j /\ Fresh(t)}) : JobSendsBatch(j, ts)
       \/ \E sent \in CancelOutcomes(j) : JobGoes(j, sent)
       \/ Dispatch(j)
  \/ DispatchNothing /\ UNCHANGED timeVars

TimekeepingSpec == TimekeepingInit /\ [][TimekeepingNext]_timekeepingVars

-----------------------------------------------------------------------------
(* Safety *)

\* Each moment of a worker is counted once, as idle or as active: it is in the
\* log, added up for the next report or on the timer of the worker, unless the
\* worker goes before that report, or the run is cut off by its time limit.  The
\* report that first reads d_idleTime adds whatever the memory held.
WorkerTimeCountedOnce ==
  /\ owed.idle = d_idleTime + SumFunctionOnSet(elapsed, IdleWorkers)
  /\ owed.active = SumFunction([w \in Workers |-> SumFunction(totalActiveTime[w])])
                   + SumFunctionOnSet(elapsed, ActiveWorkers)

\* Users are charged once for the time of their runs that end in an answer, and
\* for no other, until they identify themselves again.
UserTimeCountedOnce ==
  owed.user = SumFunction(d_activeUsers) + SumFunctionOnSet(elapsed, ActiveWorkers)

\* Every failure of a task is counted once, for the job that has it when it
\* fails (application.cc, OnWorkerCommunication): a job starts without those of an
\* earlier job with its descriptor, its count is that of its tasks, and those of
\* all jobs, successes too, add up to what the log says or will say.
FailuresCounted ==
  /\ \A j \in Jobs :
       tasksFailed[j] + past[j].failed
         = SumFunctionOnSet(failures, {t \in Tasks : Group[t] = j}) + replaced[j]
  /\ SumFunction([j \in Jobs |-> tasksFailed[j] + past[j].failed])
       = reported.failed + d_tasksFailed
  /\ SumFunction([j \in Jobs |-> tasksSuccess[j] + past[j].success])
       = reported.success + d_tasksSuccess

\* A run is only ever cut off after its time limit, in whole seconds: neither
\* the source of an earlier run of the worker nor one of another job cuts it
\* short ("the worker has not responded within the timeout set on the task",
\* worker.cc, OnTimeout).
NotCutShort ==
  \A w \in Workers : armed[w] =>
    elapsed[w] + due[w] >= WholeSeconds(Limit[Group[task[w]]])

==============================================================================
