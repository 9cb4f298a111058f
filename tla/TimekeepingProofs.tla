--------------------------- MODULE TimekeepingProofs ---------------------------
(***************************************************************************)
(* Theorems about what the master measures (Timekeeping), for any finite   *)
(* sets of jobs, users and workers and any time limits: measuring changes  *)
(* nothing else, no moment and no failure is counted twice or forgotten,   *)
(* and no run is cut short.                                                *)
(***************************************************************************)
EXTENDS Timekeeping, ApplicationProofs

(***************************************************************************)
(* Timekeeping and the master.                                             *)
(***************************************************************************)

\* What is measured changes nothing else: each step is one of the master, or
\* leaves the master alone.
LEMMA TimeStepIsMasterStep == [TimekeepingNext]_timekeepingVars => [Next]_vars
<1> SUFFICES ASSUME [TimekeepingNext]_timekeepingVars PROVE [Next]_vars
  OBVIOUS
<1>1. CASE Tick \/ OnPeriodicLogStatus \/ UNCHANGED timekeepingVars
  BY <1>1 DEF Tick, OnPeriodicLogStatus, timekeepingVars
<1>2. ASSUME NEW w \in Workers, NEW c \in Connections, WorkerConnects(c, w) PROVE Next
  BY <1>2 DEF WorkerConnects, Next
<1>3. ASSUME NEW w \in Workers,
             \/ WorkerGoes(w)
             \/ \E sent \in SendOutcomes : WorkerTakesTooLong(w, sent)
             \/ \E m \in executing[w], status \in Statuses :
                  WorkerAnswer(w, m, status) /\ UNCHANGED timeVars
             \/ WorkerAsks(w) \/ WorkerEndsTask(w)
      PROVE  Next
  <2>1. WorkerStep(w)
    BY <1>3 DEF WorkerGoes, WorkerTakesTooLong, WorkerAsks, WorkerEndsTask, WorkerStep
  <2> QED
    BY <2>1 DEF Next
<1>4. ASSUME NEW j \in Jobs,
             \/ JobConnects(j)
             \/ \E isValid \in BOOLEAN, timed \in Timeouts : JobIdentifies(j, isValid, timed)
             \/ \E ts \in BatchesOf({t \in Tasks : Group[t] = j /\ Fresh(t)}) : JobSendsBatch(j, ts)
             \/ \E sent \in CancelOutcomes(j) : JobGoes(j, sent)
      PROVE  Next
  <2>1. JobStep(j)
    BY <1>4 DEF JobConnects, JobIdentifies, JobSendsBatch, JobGoes, JobStep
  <2> QED
    BY <2>1 DEF Next
<1>5. ASSUME NEW j \in Jobs, Dispatch(j) PROVE Next
  <2>1. TRUE \in SendOutcomes /\ DispatchTurn(j, TRUE)
    BY <1>5 DEF Dispatch, DispatchTurn
  <2> QED
    BY <2>1 DEF DispatchStep, Next
<1>6. CASE DispatchNothing
  <2>1. ASSUME NEW g \in Jobs, FALSE \in SendOutcomes, DispatchFails(g) PROVE Next
    <3>1. DispatchTurn(g, FALSE)
      BY <2>1 DEF DispatchTurn
    <3> QED
      BY <2>1, <3>1 DEF DispatchStep, Next
  <2> QED
    BY <1>6, <2>1 DEF DispatchNothing, DispatchStep, Next
<1> QED
  BY <1>1, <1>2, <1>3, <1>4, <1>5, <1>6 DEF TimekeepingNext

\* The master whose time is measured is the master: what is proved of the one
\* holds of the other.
THEOREM MeasuringChangesNothing == TimekeepingSpec => Spec
<1>1. TimekeepingInit => Init
  BY DEF TimekeepingInit
<1> QED
  BY <1>1, TimeStepIsMasterStep, PTL DEF TimekeepingSpec, Spec

(***************************************************************************)
(* Types.                                                                  *)
(***************************************************************************)

TimeTypeOK ==
  /\ elapsed \in [Workers -> Nat]
  /\ totalActiveTime \in [Workers -> [Jobs -> Nat]]
  /\ due \in [Workers -> Nat]
  /\ d_idleTime \in Nat
  /\ d_activeUsers \in [Users -> Nat]
  /\ d_tasksFailed \in Nat /\ d_tasksSuccess \in Nat
  /\ tasksFailed \in [Jobs -> Nat] /\ tasksSuccess \in [Jobs -> Nat]
  /\ reported \in [failed : Nat, success : Nat]
  /\ past \in [Jobs -> [failed : Nat, success : Nat]]
  /\ replaced \in [Jobs -> Nat]
  /\ owed \in [idle : Int, active : Int, user : Int]

\* A limit in whole seconds is a number of ticks.
LEMMA WholeSecondsNat ==
  ASSUME NEW n \in Nat
  PROVE  WholeSeconds(n) \in Nat
<1>1. TicksPerSecond \in Nat \ {0}
  BY TimekeepingAssumption
<1>2. n \div TicksPerSecond \in Nat
  BY <1>1
<1> QED
  BY <1>1, <1>2 DEF WholeSeconds

\* The workers of a master are finitely many, and so are its jobs and users.
LEMMA Finite == IsFiniteSet(Workers) /\ IsFiniteSet(Jobs) /\ IsFiniteSet(Users)
BY WorkerManagerAssumption, TaskQueueAssumption, TimekeepingAssumption

\* What was measured so far is a number.
LEMMA SumsAreNumbers ==
  ASSUME TimeTypeOK
  PROVE  /\ \A w \in Workers : SumFunction(totalActiveTime[w]) \in Nat
         /\ \A S \in SUBSET Workers :
              /\ SumFunctionOnSet(elapsed, S) \in Nat
              /\ SumFunction([w \in S |-> SumFunction(totalActiveTime[w])]) \in Nat
         /\ SumFunction(d_activeUsers) \in Nat
<1>1. ASSUME NEW w \in Workers PROVE SumFunction(totalActiveTime[w]) \in Nat
  <2>1. totalActiveTime[w] \in [Jobs -> Nat]
    BY DEF TimeTypeOK
  <2> QED
    BY <2>1, SumNat, Finite DEF SumFunction
<1>2. ASSUME NEW S \in SUBSET Workers
      PROVE  /\ SumFunctionOnSet(elapsed, S) \in Nat
             /\ SumFunction([w \in S |-> SumFunction(totalActiveTime[w])]) \in Nat
  <2>1. IsFiniteSet(S)
    BY Finite, FS_Subset
  <2>2. \A w \in S : elapsed[w] \in Nat
    BY DEF TimeTypeOK
  <2> DEFINE f == [w \in S |-> SumFunction(totalActiveTime[w])]
  <2>3. DOMAIN f = S /\ \A w \in S : f[w] \in Nat
    BY <1>1
  <2> HIDE DEF f
  <2>4. SumFunction(f) \in Nat
    BY <2>1, <2>3, SumNat DEF SumFunction
  <2>5. SumFunctionOnSet(elapsed, S) \in Nat
    BY <2>1, <2>2, SumNat
  <2> QED
    BY <2>4, <2>5 DEF f
<1>3. SumFunction(d_activeUsers) \in Nat
  <2>1. d_activeUsers \in [Users -> Nat]
    BY DEF TimeTypeOK
  <2> QED
    BY <2>1, SumNat, Finite DEF SumFunction
<1> QED
  BY <1>1, <1>2, <1>3

\* The workers in ws are deactivated: their timers and totals stay numbers.
LEMMA StoppedType ==
  ASSUME TimeTypeOK, AppInv, NEW ws \in SUBSET ActiveWorkers, Stopped(ws)
  PROVE  elapsed' \in [Workers -> Nat] /\ totalActiveTime' \in [Workers -> [Jobs -> Nat]]
<1>1. ASSUME NEW w \in ws
      PROVE  [totalActiveTime[w] EXCEPT ![Group[task[w]]] = @ + elapsed[w]] \in [Jobs -> Nat]
  <2>1. totalActiveTime[w] \in [Jobs -> Nat] /\ elapsed[w] \in Nat
    BY DEF TimeTypeOK, ActiveWorkers
  <2>2. Group[task[w]] \in Jobs
    BY TaskAssumption DEF ActiveWorkers, AppInv, WorkerInv, ActiveHasTask
  <2>3. totalActiveTime[w][Group[task[w]]] + elapsed[w] \in Nat
    BY <2>1, <2>2
  <2> QED
    BY <2>1, <2>2, <2>3
<1>2. totalActiveTime \in [Workers -> [Jobs -> Nat]]
  BY DEF TimeTypeOK
<1>3. ASSUME NEW w \in Workers
      PROVE  (IF w \in ws THEN [totalActiveTime[w] EXCEPT ![Group[task[w]]] = @ + elapsed[w]]
              ELSE totalActiveTime[w]) \in [Jobs -> Nat]
  BY <1>1, <1>2
<1>4. totalActiveTime' \in [Workers -> [Jobs -> Nat]]
  BY <1>3 DEF Stopped
<1>5. elapsed' \in [Workers -> Nat]
  BY DEF Stopped, TimeTypeOK
<1> QED
  BY <1>4, <1>5

\* A worker that is seen as no longer active is active now.
LEMMA ListedAreActive ==
  ASSUME AppInv, NEW j \in Jobs
  PROVE  /\ Range(activeWorkers[j]) = {w \in ActiveWorkers : Group[task[w]] = j}
         /\ Range(activeWorkers[j]) \subseteq Workers
BY DEF AppInv, JobWorkerLink, ActiveWorkers

\* The types are kept by the steps of workers ...
LEMMA WorkerTimeTypes ==
  ASSUME TimeTypeOK, AppInv, NEW w \in Workers,
         \/ \E c \in Connections : WorkerConnects(c, w)
         \/ WorkerGoes(w)
         \/ \E sent \in SendOutcomes : WorkerTakesTooLong(w, sent)
         \/ WorkerEndsTask(w)
  PROVE  TimeTypeOK'
<1> DEFINE S == SumFunction(totalActiveTime[w])
<1>0. /\ S \in Nat /\ elapsed[w] \in Nat
      /\ owed.idle \in Int /\ owed.active \in Int /\ owed.user \in Int
  BY SumsAreNumbers DEF TimeTypeOK
<1>n. NoActiveTime \in [Jobs -> Nat]
  BY DEF NoActiveTime
<1> HIDE DEF S
<1>1. CASE \E c \in Connections : WorkerConnects(c, w)
  BY <1>1, <1>n DEF WorkerConnects, Restarted, TimeTypeOK, jobCounts, history
<1>2. CASE WorkerGoes(w)
  <2> DEFINE run == IF active[w] THEN elapsed[w] ELSE 0
  <2>1. run \in Nat
    BY <1>0
  <2>2. owed' = [idle |-> owed.idle - (elapsed[w] - run), active |-> owed.active - (run + S),
                 user |-> owed.user - run]
    BY <1>2 DEF WorkerGoes, S
  <2> HIDE DEF run
  <2>3. owed' \in [idle : Int, active : Int, user : Int]
    BY <1>0, <2>1, <2>2
  <2> QED
    BY <1>2, <1>n, <2>3 DEF WorkerGoes, Restarted, TimeTypeOK, jobCounts, history
<1>3. ASSUME NEW sent \in SendOutcomes, WorkerTakesTooLong(w, sent) PROVE TimeTypeOK'
  <2>1. owed' \in [idle : Int, active : Int, user : Int]
    BY <1>0, <1>3 DEF WorkerTakesTooLong
  <2> QED
    BY <1>3, <2>1 DEF WorkerTakesTooLong, Restarted, TimeTypeOK, jobCounts, statistics, history
<1>4. CASE WorkerEndsTask(w)
  <2>1. elapsed' \in [Workers -> Nat] /\ totalActiveTime' \in [Workers -> [Jobs -> Nat]]
    <3>1. {w} \in SUBSET ActiveWorkers /\ Stopped({w})
      BY <1>4 DEF WorkerEndsTask, ActiveWorkers
    <3> QED
      BY <3>1, StoppedType
  <2>2. HasJob(w)
    BY <1>4 DEF WorkerEndsTask, HasJob, AppInv, JobsPresent
  <2>3. /\ d_activeUsers' \in [Users -> Nat] /\ owed' = owed
    BY <1>0, <1>4, <2>2 DEF WorkerEndsTask, AddIdleTime, TimeTypeOK
  <2>4. /\ d_tasksFailed' \in Nat /\ d_tasksSuccess' \in Nat
        /\ tasksFailed' \in [Jobs -> Nat] /\ tasksSuccess' \in [Jobs -> Nat]
    <3>1. CountTask(Group[task[w]], Head(wire[w]).status)
      BY <1>4, <2>2 DEF WorkerEndsTask
    <3>2. /\ d_tasksFailed \in Nat /\ d_tasksSuccess \in Nat
          /\ tasksFailed \in [Jobs -> Nat] /\ tasksSuccess \in [Jobs -> Nat]
      BY DEF TimeTypeOK
    <3> QED
      BY <3>1, <3>2 DEF CountTask
  <2> QED
    BY <1>4, <2>1, <2>3, <2>4 DEF WorkerEndsTask, TimeTypeOK, history
<1> QED
  BY <1>1, <1>2, <1>3, <1>4

\* ... by those of jobs and of the dispatcher ...
LEMMA JobTimeTypes ==
  ASSUME TimeTypeOK, AppInv, NEW j \in Jobs,
         \/ JobConnects(j)
         \/ \E isValid \in BOOLEAN, timed \in Timeouts : JobIdentifies(j, isValid, timed)
         \/ \E sent \in CancelOutcomes(j) : JobGoes(j, sent)
         \/ Dispatch(j)
  PROVE  TimeTypeOK'
<1>1. CASE JobConnects(j)
  <2>1. /\ past[j] \in [failed : Nat, success : Nat]
        /\ tasksFailed[j] \in Nat /\ tasksSuccess[j] \in Nat
    BY DEF TimeTypeOK
  <2>2. [failed |-> past[j].failed + tasksFailed[j],
         success |-> past[j].success + tasksSuccess[j]] \in [failed : Nat, success : Nat]
    BY <2>1
  <2>3. past' \in [Jobs -> [failed : Nat, success : Nat]]
    BY <1>1, <2>2 DEF JobConnects, TimeTypeOK
  <2> QED
    BY <1>1, <2>3 DEF JobConnects, TimeTypeOK, statistics
<1>2. ASSUME NEW isValid \in BOOLEAN, NEW timed \in Timeouts, JobIdentifies(j, isValid, timed)
      PROVE  TimeTypeOK'
  <2>1. d_activeUsers[User[j]] \in Nat /\ owed.user \in Int
    BY TimekeepingAssumption DEF TimeTypeOK
  <2>2. owed' \in [idle : Int, active : Int, user : Int]
    BY <1>2, <2>1 DEF JobIdentifies, TimeTypeOK
  <2> QED
    BY <1>2, <2>2 DEF JobIdentifies, TimeTypeOK, jobCounts, history
<1>3. ASSUME NEW sent \in CancelOutcomes(j), JobGoes(j, sent)
      PROVE  TimeTypeOK'
  <2> DEFINE ws == Range(activeWorkers[j])
  <2>1. ws \in SUBSET Workers /\ ws \in SUBSET ActiveWorkers
    BY ListedAreActive
  <2>2. SumFunctionOnSet(elapsed, ws) \in Nat /\ owed.user \in Int
    BY <2>1, SumsAreNumbers DEF TimeTypeOK
  <2>3. Stopped(ws) /\ owed' = [owed EXCEPT !.user = @ - SumFunctionOnSet(elapsed, ws)]
    BY <1>3 DEF JobGoes
  <2> HIDE DEF ws
  <2>4. owed' \in [idle : Int, active : Int, user : Int]
    BY <2>2, <2>3 DEF TimeTypeOK
  <2>5. elapsed' \in [Workers -> Nat] /\ totalActiveTime' \in [Workers -> [Jobs -> Nat]]
    BY <2>1, <2>3, StoppedType
  <2> QED
    BY <1>3, <2>4, <2>5 DEF JobGoes, TimeTypeOK, jobCounts, history
<1>4. CASE Dispatch(j)
  <2> DEFINE w == Head(d_idleWorkers)
  <2>1. w \in Workers
    BY <1>4, RotatedProperties DEF Dispatch, DispatchTask, Activate, AppInv
  <2>2. WholeSeconds(Limit[j]) \in Nat /\ elapsed[w] \in Nat
    BY <2>1, WholeSecondsNat, TimekeepingAssumption DEF TimeTypeOK
  <2> QED
    BY <1>4, <2>1, <2>2 DEF Dispatch, Restarted, TimeTypeOK, jobCounts, history
<1> QED
  BY <1>1, <1>2, <1>3, <1>4

\* ... and by time and the log.
LEMMA TimePassesTypes ==
  ASSUME TimeTypeOK, AppInv, Tick \/ OnPeriodicLogStatus
  PROVE  TimeTypeOK'
<1>0. owed.idle \in Int /\ owed.active \in Int /\ owed.user \in Int
  BY DEF TimeTypeOK
<1>1. CASE Tick
  <2>1. IsFiniteSet(IdleWorkers) /\ IsFiniteSet(ActiveWorkers)
    BY Finite, FS_Subset DEF IdleWorkers, ActiveWorkers, AppInv, WorkerInv, WorkerTypeOK
  <2>2. Cardinality(IdleWorkers) \in Nat /\ Cardinality(ActiveWorkers) \in Nat
    BY <2>1, FS_CardinalityType
  <2>3. owed' \in [idle : Int, active : Int, user : Int]
    BY <1>0, <1>1, <2>2 DEF Tick
  <2>4. elapsed' \in [Workers -> Nat] /\ due' \in [Workers -> Nat]
    BY <1>1 DEF Tick, TimeTypeOK
  <2> QED
    BY <1>1, <2>3, <2>4 DEF Tick, TimeTypeOK, statistics, jobCounts, history
<1>2. CASE OnPeriodicLogStatus
  <2> DEFINE S == SumFunctionOnSet(elapsed, Range(d_idleWorkers))
             A == SumFunction([w \in d_workers |-> SumFunction(totalActiveTime[w])])
  <2>1. d_workers \in SUBSET Workers /\ Range(d_idleWorkers) \in SUBSET Workers
    BY DEF AppInv, WorkerInv, WorkerTypeOK, WorkerPartition
  <2>2. S \in Nat /\ A \in Nat /\ SumFunction(d_activeUsers) \in Nat
    BY <2>1, SumsAreNumbers
  <2>3. owed' = [idle |-> owed.idle - (d_idleTime + S), active |-> owed.active - A,
                 user |-> owed.user - SumFunction(d_activeUsers)]
    BY <1>2 DEF OnPeriodicLogStatus
  <2> HIDE DEF S, A
  <2>4. owed' \in [idle : Int, active : Int, user : Int]
    BY <1>0, <2>2, <2>3 DEF TimeTypeOK
  <2>5. elapsed' \in [Workers -> Nat]
    BY <1>2 DEF OnPeriodicLogStatus, ResetIdleTime, TimeTypeOK
  <2>6. totalActiveTime' \in [Workers -> [Jobs -> Nat]]
    BY <1>2 DEF OnPeriodicLogStatus, NoActiveTime, TimeTypeOK
  <2>7. reported' \in [failed : Nat, success : Nat]
    BY <1>2 DEF OnPeriodicLogStatus, TimeTypeOK
  <2> QED
    BY <1>2, <2>4, <2>5, <2>6, <2>7 DEF OnPeriodicLogStatus, TimeTypeOK, jobCounts
<1> QED
  BY <1>1, <1>2

\* The steps at which nothing is measured.
NothingMeasured ==
  /\ UNCHANGED <<elapsed, due, statistics, jobCounts, reported, past, owed>>
  /\ \/ \E j \in Jobs : \E ts \in BatchesOf(NewTasks(j)) : JobSendsBatch(j, ts)
     \/ /\ UNCHANGED replaced
        /\ \/ \E w \in Workers : \E m \in executing[w], status \in Statuses :
                WorkerAnswer(w, m, status)
           \/ \E w \in Workers : WorkerAsks(w)
           \/ DispatchNothing
           \/ UNCHANGED vars

\* Every step measures something in one of these ways, or nothing at all.
LEMMA TimeSteps ==
  ASSUME [TimekeepingNext]_timekeepingVars
  PROVE  \/ Tick \/ OnPeriodicLogStatus
         \/ \E w \in Workers :
              \/ \E c \in Connections : WorkerConnects(c, w)
              \/ WorkerGoes(w)
              \/ \E sent \in SendOutcomes : WorkerTakesTooLong(w, sent)
              \/ WorkerEndsTask(w)
         \/ \E j \in Jobs :
              \/ JobConnects(j)
              \/ \E isValid \in BOOLEAN, timed \in Timeouts : JobIdentifies(j, isValid, timed)
              \/ \E sent \in CancelOutcomes(j) : JobGoes(j, sent)
              \/ Dispatch(j)
         \/ NothingMeasured
<1>1. ASSUME NEW w \in Workers, NEW m \in executing[w], NEW status \in Statuses,
             WorkerAnswer(w, m, status) /\ UNCHANGED timeVars
      PROVE  NothingMeasured
  BY <1>1 DEF NothingMeasured, timeVars, history
<1>2. ASSUME NEW w \in Workers, WorkerAsks(w) PROVE NothingMeasured
  BY <1>2 DEF NothingMeasured, WorkerAsks, timeVars, history
<1>3. ASSUME NEW j \in Jobs, NEW ts \in BatchesOf(NewTasks(j)), JobSendsBatch(j, ts)
      PROVE  NothingMeasured
  BY <1>3 DEF NothingMeasured, JobSendsBatch
<1>4. CASE DispatchNothing /\ UNCHANGED timeVars
  BY <1>4 DEF NothingMeasured, timeVars, history
<1>5. CASE UNCHANGED timekeepingVars
  BY <1>5 DEF NothingMeasured, timekeepingVars, timeVars, history
<1> QED
  BY <1>1, <1>2, <1>3, <1>4, <1>5 DEF TimekeepingNext, NewTasks

\* The tasks of a batch are finitely many, and all of the job that sends it.
LEMMA BatchOfJob ==
  ASSUME NEW j \in Jobs, NEW ts \in BatchesOf(NewTasks(j))
  PROVE  /\ IsFiniteSet(Range(ts)) /\ Range(ts) \subseteq Tasks
         /\ \A t \in Range(ts) : Group[t] = j
<1>1. NewTasks(j) \in SUBSET Tasks
  BY DEF NewTasks
<1>2. ts \in Seq(Tasks) /\ Range(ts) \subseteq NewTasks(j)
  BY <1>1, BatchTasks
<1> QED
  BY <1>1, <1>2, SeqRangeFinite DEF NewTasks

\* The types are kept by every step.
LEMMA TimeTypesStep ==
  ASSUME TimeTypeOK, AppInv, [TimekeepingNext]_timekeepingVars
  PROVE  TimeTypeOK'
<1>1. CASE NothingMeasured
  <2>1. replaced' \in [Jobs -> Nat]
    <3>1. ASSUME NEW j \in Jobs, NEW ts \in BatchesOf(NewTasks(j)), JobSendsBatch(j, ts)
          PROVE  replaced' \in [Jobs -> Nat]
      <4>1. IsFiniteSet(Range(ts)) /\ Range(ts) \subseteq Tasks
        BY BatchOfJob
      <4>2. SumFunctionOnSet(failures, Range(ts)) \in Nat
        BY <4>1, SumNat DEF AppInv, RestTypeOK
      <4> QED
        BY <3>1, <4>2 DEF JobSendsBatch, TimeTypeOK
    <3> QED
      BY <1>1, <3>1 DEF NothingMeasured, TimeTypeOK
  <2> QED
    BY <1>1, <2>1 DEF NothingMeasured, statistics, jobCounts, TimeTypeOK
<1> QED
  BY <1>1, TimeSteps, WorkerTimeTypes, JobTimeTypes, TimePassesTypes

(***************************************************************************)
(* No run is cut short.                                                    *)
(***************************************************************************)

\* What is known of workers and of the deque in every state.
LEMMA WorkerFacts ==
  ASSUME AppInv
  PROVE  /\ WorkerInv
         /\ active \in [Workers -> BOOLEAN] /\ armed \in [Workers -> BOOLEAN]
         /\ task \in [Workers -> Tasks \cup {NoTask}]
         /\ d_workers \subseteq Workers
         /\ \A w \in Workers : armed[w] => active[w]
         /\ \A w \in Workers : active[w] => w \in d_workers /\ task[w] \in Tasks
         /\ ActiveWorkers \subseteq d_workers
         /\ Range(d_idleWorkers) = IdleWorkers
BY DEF AppInv, WorkerInv, WorkerTypeOK, WorkerPartition, TimerOnlyWhenActive, ActiveHasTask,
       ActiveWorkers, IdleWorkers

\* Timers of runs that go on, untouched.
LEMMA RunsGoOn ==
  ASSUME NotCutShort,
         \A w \in Workers : armed'[w] =>
           armed[w] /\ task'[w] = task[w] /\ elapsed'[w] = elapsed[w] /\ due'[w] = due[w]
  PROVE  NotCutShort'
BY DEF NotCutShort

\* The workers of ws are deactivated: no timeout source is left of theirs.
LEMMA DeactivateAllDisarms ==
  ASSUME AppInv, NEW ws, DeactivateAll(ws)
  PROVE  /\ \A w \in Workers : armed'[w] <=> armed[w] /\ w \notin Range(ws)
         /\ \A w \in Workers : active'[w] <=> active[w] /\ w \notin Range(ws)
         /\ ActiveWorkers' = ActiveWorkers \ Range(ws)
         /\ d_workers' = d_workers /\ task' = task
BY DEF DeactivateAll, ActiveWorkers

LEMMA DeactivateDisarms ==
  ASSUME AppInv, NEW w \in Workers, Deactivate(w)
  PROVE  /\ \A v \in Workers : armed'[v] <=> armed[v] /\ v # w
         /\ \A v \in Workers : active'[v] <=> active[v] /\ v # w
         /\ ActiveWorkers' = ActiveWorkers \ {w}
         /\ d_workers' = d_workers /\ task' = task
<1>1. Range(<<w>>) = {w}
  BY DEF Range
<1> QED
  BY <1>1, DeactivateAllDisarms DEF Deactivate

\* An answer that ends the run of a worker deactivates the worker.
LEMMA EndDeactivates ==
  ASSUME AppInv, NEW w \in Workers, WorkerEndsTask(w)
  PROVE  active[w] /\ HasJob(w) /\ Deactivate(w)
<1>1. active[w] /\ HasJob(w) /\ Head(wire[w]).status # "Challenge" /\ OnWorkerCommunication(w)
  BY DEF WorkerEndsTask, HasJob, AppInv, JobsPresent
<1> QED
  BY <1>1 DEF OnWorkerCommunication, DropAnswer, AnswerWithoutJob, AnswerSuccess, AnswerRejected,
              AnswerRescheduled, AnswerChallenge, CompleteTask, HasJob

\* Where nothing is measured, no worker starts, stops, comes or goes.
LEMMA NothingMeasuredQuiet ==
  ASSUME AppInv, NothingMeasured
  PROVE  /\ UNCHANGED <<active, armed, d_workers>>
         /\ \A w \in Workers : active[w] => task'[w] = task[w]
<1>1. ASSUME NEW w \in Workers, NEW m \in executing[w], NEW status \in Statuses,
             WorkerAnswer(w, m, status)
      PROVE  UNCHANGED workerVars
  BY <1>1 DEF WorkerAnswer
<1>2. ASSUME NEW w \in Workers, WorkerAsks(w) PROVE UNCHANGED workerVars
  <2>1. CASE active[w]
    BY <1>2, <2>1 DEF WorkerAsks, OnWorkerCommunication, DropAnswer, AnswerWithoutJob,
       AnswerSuccess, AnswerRejected, AnswerRescheduled, AnswerChallenge, HasJob
  <2>2. CASE ~active[w]
    BY <1>2, <2>2 DEF WorkerAsks, OnWorkerCommunication, DropAnswer, AnswerWithoutJob,
       AnswerSuccess, AnswerRejected, AnswerRescheduled, AnswerChallenge, HasJob
  <2> QED
    BY <2>1, <2>2
<1>3. ASSUME NEW j \in Jobs, NEW ts \in BatchesOf(NewTasks(j)), JobSendsBatch(j, ts)
      PROVE  UNCHANGED workerVars
  BY <1>3 DEF JobSendsBatch, HandleJobBatch
<1>4. ASSUME NEW g \in Jobs, DispatchFails(g)
      PROVE  /\ UNCHANGED <<active, armed, d_workers>>
             /\ \A w \in Workers : active[w] => task'[w] = task[w]
  <2> DEFINE h == Head(d_idleWorkers)
             t == Head(d_tasks[g])
  <2>1. /\ task' = IF active[h] THEN task ELSE [task EXCEPT ![h] = t]
        /\ UNCHANGED <<active, armed, d_workers>>
    BY <1>4 DEF DispatchFails, ActivateFails
  <2> QED
    BY <2>1, WorkerFacts
<1>5. CASE DispatchEnd
  BY <1>5 DEF DispatchEnd, RotateIdle, workerVars
<1>6. CASE UNCHANGED vars
  BY <1>6 DEF vars, workerVars
<1> QED
  BY <1>1, <1>2, <1>3, <1>4, <1>5, <1>6 DEF NothingMeasured, DispatchNothing, workerVars

\* Time limits that are running are respected after every step.
LEMMA NotCutShortStep ==
  ASSUME TimeTypeOK, AppInv, NotCutShort, [TimekeepingNext]_timekeepingVars
  PROVE  NotCutShort'
<1>t. elapsed \in [Workers -> Nat] /\ due \in [Workers -> Nat]
  BY DEF TimeTypeOK
<1>1. CASE Tick
  <2> SUFFICES ASSUME NEW w \in Workers, armed'[w]
               PROVE  elapsed'[w] + due'[w] >= WholeSeconds(Limit[Group[task'[w]]])
    BY DEF NotCutShort
  <2>1. armed[w] /\ task'[w] = task[w]
    BY <1>1 DEF Tick, vars, workerVars
  <2>2. w \in d_workers
    BY <2>1, WorkerFacts
  <2>3. elapsed'[w] = elapsed[w] + 1 /\ due'[w] = IF due[w] > 0 THEN due[w] - 1 ELSE due[w]
    BY <1>1, <2>1, <2>2 DEF Tick
  <2>4. elapsed[w] + due[w] >= WholeSeconds(Limit[Group[task[w]]])
    BY <2>1 DEF NotCutShort
  <2>5. WholeSeconds(Limit[Group[task[w]]]) \in Nat /\ elapsed[w] \in Nat /\ due[w] \in Nat
    BY <1>t, <2>1, WorkerFacts, WholeSecondsNat, TaskAssumption, TimekeepingAssumption
  <2>6. elapsed'[w] + due'[w] >= elapsed[w] + due[w] /\ elapsed'[w] + due'[w] \in Nat
    BY <2>3, <2>5
  <2> QED
    BY <2>1, <2>4, <2>5, <2>6
<1>2. CASE OnPeriodicLogStatus
  <2> SUFFICES ASSUME NEW w \in Workers, armed'[w]
               PROVE  armed[w] /\ task'[w] = task[w] /\ elapsed'[w] = elapsed[w] /\ due'[w] = due[w]
    BY RunsGoOn
  <2>1. armed[w] /\ task'[w] = task[w] /\ due'[w] = due[w]
    BY <1>2 DEF OnPeriodicLogStatus, vars, workerVars
  <2>2. w \notin Range(d_idleWorkers)
    BY <2>1, WorkerFacts DEF IdleWorkers, ActiveWorkers
  <2> QED
    BY <1>2, <2>1, <2>2 DEF OnPeriodicLogStatus, ResetIdleTime
<1>3. ASSUME NEW w \in Workers, NEW c \in Connections, WorkerConnects(c, w) PROVE NotCutShort'
  <2>1. ~armed[w]
    BY <1>3, WorkerFacts DEF WorkerConnects, OnGreeting, AddWorker
  <2> QED
    BY <1>3, <1>t, <2>1, WorkerFacts, RunsGoOn DEF WorkerConnects, OnGreeting, AddWorker, Restarted
<1>4. ASSUME NEW w \in Workers, WorkerGoes(w) PROVE NotCutShort'
  BY <1>4, <1>t, WorkerFacts, RunsGoOn DEF WorkerGoes, OnWorkerClosed, RemoveWorker, Restarted
<1>5. ASSUME NEW w \in Workers, NEW sent \in SendOutcomes, WorkerTakesTooLong(w, sent)
      PROVE  NotCutShort'
  <2>1. (\A v \in Workers : armed'[v] <=> armed[v] /\ v # w) /\ task' = task
    <3>1. CASE sent
      BY <1>5, <3>1, DeactivateDisarms
         DEF WorkerTakesTooLong, OnWorkerTimeout, CancelOrDeactivate, Deactivate
    <3>2. CASE ~sent
      BY <1>5, <3>2, WorkerFacts DEF WorkerTakesTooLong, OnWorkerTimeout, DisarmTimeout
    <3> QED
      BY <3>1, <3>2
  <2> QED
    BY <1>5, <1>t, <2>1, RunsGoOn DEF WorkerTakesTooLong, Restarted
<1>6. ASSUME NEW w \in Workers, WorkerEndsTask(w) PROVE NotCutShort'
  <2>1. (\A v \in Workers : armed'[v] <=> armed[v] /\ v # w) /\ task' = task
    BY <1>6, EndDeactivates, DeactivateDisarms
  <2> QED
    BY <1>6, <2>1, RunsGoOn DEF WorkerEndsTask, Stopped
<1>7. ASSUME NEW j \in Jobs, JobConnects(j) PROVE NotCutShort'
  BY <1>7, RunsGoOn DEF JobConnects, OnJobAdded, workerVars
<1>8. ASSUME NEW j \in Jobs, NEW isValid \in BOOLEAN, NEW timed \in Timeouts,
             JobIdentifies(j, isValid, timed)
      PROVE  NotCutShort'
  BY <1>8, RunsGoOn DEF JobIdentifies, HandleJobIdentify, workerVars
<1>9. ASSUME NEW j \in Jobs, NEW sent \in CancelOutcomes(j), JobGoes(j, sent) PROVE NotCutShort'
  <2>1. /\ \A v \in Workers : armed'[v] <=> armed[v] /\ v \notin Range(activeWorkers[j])
        /\ task' = task
    BY <1>9, DeactivateAllDisarms DEF JobGoes, OnJobRemoved, CancelOrDeactivate
  <2> QED
    BY <1>9, <2>1, RunsGoOn DEF JobGoes, Stopped
<1>10. ASSUME NEW j \in Jobs, Dispatch(j) PROVE NotCutShort'
  <2> DEFINE h == Head(d_idleWorkers)
             t == Head(d_tasks[j])
  <2>1. h \in Workers
    BY <1>10, RotatedProperties DEF Dispatch, DispatchTask, Activate, AppInv
  <2>2. /\ armed' = [armed EXCEPT ![h] = d_timeout[j]] /\ task' = [task EXCEPT ![h] = t]
        /\ elapsed' = [elapsed EXCEPT ![h] = 0]
        /\ due' = [due EXCEPT ![h] = IF d_timeout[j] THEN WholeSeconds(Limit[j]) ELSE @]
    BY <1>10 DEF Dispatch, DispatchTask, Activate, Restarted
  <2>3. t \in Tasks /\ Group[t] = j
    <3>1. d_tasks[j] # <<>> /\ d_tasks[j] \in Seq(Tasks)
      BY <1>10 DEF Dispatch, DispatchTask, Pop, AppInv, QueueInv, QueueTypeOK
    <3>2. t \in Range(d_tasks[j]) /\ t \in Tasks
      BY <3>1, RangeOfTail, RangeOfSeq
    <3> QED
      BY <3>2 DEF AppInv, QueueInv, QueueGroups
  <2> HIDE DEF h, t
  <2> SUFFICES ASSUME NEW w \in Workers, armed'[w]
               PROVE  elapsed'[w] + due'[w] >= WholeSeconds(Limit[Group[task'[w]]])
    BY DEF NotCutShort
  <2>4. CASE w = h
    <3>1. WholeSeconds(Limit[j]) \in Nat
      BY WholeSecondsNat, TimekeepingAssumption
    <3>2. elapsed'[w] = 0 /\ due'[w] = WholeSeconds(Limit[j]) /\ Group[task'[w]] = j
      BY <1>t, <2>1, <2>2, <2>3, <2>4, WorkerFacts
    <3> QED
      BY <3>1, <3>2
  <2>5. CASE w # h
    BY <1>t, <2>2, <2>5, WorkerFacts DEF NotCutShort
  <2> QED
    BY <2>4, <2>5
<1>11. CASE NothingMeasured
  <2>1. elapsed' = elapsed /\ due' = due
    BY <1>11 DEF NothingMeasured
  <2> QED
    BY <1>11, <2>1, NothingMeasuredQuiet, WorkerFacts, RunsGoOn
<1> QED
  BY <1>1, <1>2, <1>3, <1>4, <1>5, <1>6, <1>7, <1>8, <1>9, <1>10, <1>11, TimeSteps

(***************************************************************************)
(* Sums of times, and how they change.                                     *)
(***************************************************************************)

\* What the timers of idle and of active workers show, in all.
IdleTime == SumFunctionOnSet(elapsed, IdleWorkers)
RunTime == SumFunctionOnSet(elapsed, ActiveWorkers)

\* How long each worker worked, how long all of them did, and for how long
\* users are charged.
Worked == [w \in Workers |-> SumFunction(totalActiveTime[w])]
WorkTime == SumFunctionOnSet(Worked, Workers)
ChargedTime == SumFunctionOnSet(d_activeUsers, Users)

\* The three sums are what is owed.
OwedMatches ==
  /\ owed.idle = d_idleTime + IdleTime
  /\ owed.active = WorkTime + RunTime
  /\ owed.user = ChargedTime + RunTime

\* A worker that is not connected did no work: its entries went with it.
GoneForgotten == \A w \in Workers \ d_workers : totalActiveTime[w] = NoActiveTime

\* The sums are numbers.
LEMMA TimesAreNumbers ==
  ASSUME TimeTypeOK, AppInv
  PROVE  /\ IsFiniteSet(IdleWorkers) /\ IsFiniteSet(ActiveWorkers)
         /\ IdleWorkers \subseteq Workers /\ ActiveWorkers \subseteq Workers
         /\ IdleWorkers \cap ActiveWorkers = {}
         /\ \A w \in Workers : elapsed[w] \in Nat /\ Worked[w] \in Nat
         /\ IdleTime \in Nat /\ RunTime \in Nat /\ WorkTime \in Nat /\ ChargedTime \in Nat
         /\ d_idleTime \in Nat
         /\ owed.idle \in Int /\ owed.active \in Int /\ owed.user \in Int
<1>1. IdleWorkers \subseteq Workers /\ ActiveWorkers \subseteq Workers
  BY WorkerFacts DEF IdleWorkers
<1>2. IsFiniteSet(IdleWorkers) /\ IsFiniteSet(ActiveWorkers)
  BY <1>1, Finite, FS_Subset
<1>3. \A w \in Workers : elapsed[w] \in Nat /\ Worked[w] \in Nat
  BY SumsAreNumbers DEF Worked, TimeTypeOK
<1>4. IdleTime \in Nat /\ RunTime \in Nat
  BY <1>1, SumsAreNumbers DEF IdleTime, RunTime
<1>5. WorkTime \in Nat
  <2> HIDE DEF Worked
  <2> QED
    BY <1>3, SumNat, Finite DEF WorkTime
<1>6. ChargedTime \in Nat
  BY SumNat, Finite DEF ChargedTime, TimeTypeOK
<1> QED
  BY <1>1, <1>2, <1>3, <1>4, <1>5, <1>6 DEF TimeTypeOK, IdleWorkers

\* Runs end: what their timers show is no longer on the timers of active
\* workers.
LEMMA RunsEnd ==
  ASSUME TimeTypeOK, AppInv, NEW ws \in SUBSET ActiveWorkers,
         ActiveWorkers' = ActiveWorkers \ ws,
         \A w \in ActiveWorkers \ ws : elapsed'[w] = elapsed[w]
  PROVE  RunTime' = RunTime - SumFunctionOnSet(elapsed, ws)
<1>1. \A w \in ActiveWorkers : elapsed[w] \in Nat
  BY TimesAreNumbers
<1>2. SumFunctionOnSet(elapsed', ActiveWorkers \ ws)
        = SumFunctionOnSet(elapsed, ActiveWorkers) - SumFunctionOnSet(elapsed, ws)
  BY <1>1, TimesAreNumbers, SumLeave
<1> QED
  BY <1>2 DEF RunTime

\* Workers become idle with timers that start anew.
LEMMA IdleJoin ==
  ASSUME TimeTypeOK, AppInv, NEW ws \in SUBSET Workers,
         IdleWorkers' = IdleWorkers \cup ws,
         \A w \in IdleWorkers : elapsed'[w] = elapsed[w],
         \A w \in ws \ IdleWorkers : elapsed'[w] = 0
  PROVE  IdleTime' = IdleTime
<1>1. \A w \in IdleWorkers : elapsed[w] \in Nat
  BY TimesAreNumbers
<1>2. IsFiniteSet(ws) /\ IsFiniteSet(IdleWorkers)
  BY TimesAreNumbers, Finite, FS_Subset
<1>3. SumFunctionOnSet(elapsed', IdleWorkers \cup ws) = SumFunctionOnSet(elapsed, IdleWorkers)
  BY <1>1, <1>2, SumJoin
<1> QED
  BY <1>3 DEF IdleTime

\* A worker is no longer idle.
LEMMA IdleLeaves ==
  ASSUME TimeTypeOK, AppInv, NEW w \in IdleWorkers,
         IdleWorkers' = IdleWorkers \ {w},
         \A v \in IdleWorkers \ {w} : elapsed'[v] = elapsed[v]
  PROVE  IdleTime' = IdleTime - elapsed[w]
<1>1. \A v \in IdleWorkers : elapsed[v] \in Nat
  BY TimesAreNumbers
<1>2. SumFunctionOnSet(elapsed', IdleWorkers \ {w})
        = SumFunctionOnSet(elapsed, IdleWorkers) - SumFunctionOnSet(elapsed, {w})
  BY <1>1, TimesAreNumbers, SumLeave
<1>3. SumFunctionOnSet(elapsed, {w}) = elapsed[w]
  BY <1>1, SumOne
<1> QED
  BY <1>2, <1>3 DEF IdleTime

\* Idle and active workers stay what they are, with the same timers.
LEMMA IdleStay ==
  ASSUME TimeTypeOK, AppInv, IdleWorkers' = IdleWorkers,
         \A w \in IdleWorkers : elapsed'[w] = elapsed[w]
  PROVE  IdleTime' = IdleTime
<1>1. \A w \in IdleWorkers : elapsed[w] \in Nat /\ elapsed'[w] = elapsed[w]
  BY TimesAreNumbers
<1>2. SumFunctionOnSet(elapsed', IdleWorkers) = SumFunctionOnSet(elapsed, IdleWorkers)
  BY <1>1, TimesAreNumbers, SumEqual
<1> QED
  BY <1>2 DEF IdleTime

LEMMA RunsStay ==
  ASSUME TimeTypeOK, AppInv, ActiveWorkers' = ActiveWorkers,
         \A w \in ActiveWorkers : elapsed'[w] = elapsed[w]
  PROVE  RunTime' = RunTime
<1>1. \A w \in ActiveWorkers : elapsed[w] \in Nat /\ elapsed'[w] = elapsed[w]
  BY TimesAreNumbers
<1>2. SumFunctionOnSet(elapsed', ActiveWorkers) = SumFunctionOnSet(elapsed, ActiveWorkers)
  BY <1>1, TimesAreNumbers, SumEqual
<1> QED
  BY <1>2 DEF RunTime

\* The totals stay what they are.
LEMMA TotalsStay ==
  ASSUME totalActiveTime' = totalActiveTime
  PROVE  WorkTime' = WorkTime
BY DEF WorkTime, Worked

\* The runs of ws end: what their timers show is added to what they worked.
LEMMA TotalsGrow ==
  ASSUME TimeTypeOK, AppInv, NEW ws \in SUBSET ActiveWorkers, Stopped(ws)
  PROVE  WorkTime' = WorkTime + SumFunctionOnSet(elapsed, ws)
<1>1. ASSUME NEW w \in ws
      PROVE  SumFunction(totalActiveTime'[w]) = Worked[w] + elapsed[w]
  <2> DEFINE f == totalActiveTime[w]
             g == Group[task[w]]
             h == [f EXCEPT ![g] = @ + elapsed[w]]
  <2>1. w \in Workers /\ task[w] \in Tasks
    BY WorkerFacts DEF ActiveWorkers
  <2>2. g \in Jobs
    BY <2>1, TaskAssumption
  <2>3. f \in [Jobs -> Nat] /\ elapsed[w] \in Nat
    BY <2>1 DEF TimeTypeOK
  <2>4. totalActiveTime'[w] = h
    BY <2>1 DEF Stopped
  <2>5. Worked[w] = SumFunction(f)
    BY <2>1 DEF Worked
  <2> HIDE DEF f, g
  <2>6. h \in [Jobs -> Nat] /\ h[g] = f[g] + elapsed[w] /\ \A y \in Jobs \ {g} : h[y] = f[y]
    BY <2>2, <2>3
  <2> HIDE DEF h
  <2>7. SumFunctionOnSet(h, Jobs) = SumFunctionOnSet(f, Jobs) - f[g] + h[g]
    BY <2>2, <2>3, <2>6, Finite, SumUpdate
  <2>8. SumFunctionOnSet(f, Jobs) \in Nat /\ f[g] \in Nat
    BY <2>2, <2>3, Finite, SumNat
  <2>9. SumFunction(h) = SumFunctionOnSet(h, Jobs) /\ SumFunction(f) = SumFunctionOnSet(f, Jobs)
    BY <2>3, <2>6 DEF SumFunction
  <2>10. SumFunctionOnSet(h, Jobs) = SumFunctionOnSet(f, Jobs) + elapsed[w]
    BY <2>3, <2>6, <2>7, <2>8
  <2> QED
    BY <2>4, <2>5, <2>9, <2>10
<1>2. ASSUME NEW w \in Workers \ ws PROVE SumFunction(totalActiveTime'[w]) = Worked[w]
  BY DEF Stopped, Worked
<1>3. \A w \in Workers : Worked'[w] = IF w \in ws THEN Worked[w] + elapsed[w] ELSE Worked[w]
  BY <1>1, <1>2 DEF Worked
<1>4. ws \in SUBSET Workers
  BY DEF ActiveWorkers
<1> HIDE DEF Worked
<1>5. \A a, b : (\A w \in Workers : b[w] = IF w \in ws THEN a[w] + elapsed[w] ELSE a[w])
                /\ (\A w \in Workers : a[w] \in Nat)
                  => SumFunctionOnSet(b, Workers)
                       = SumFunctionOnSet(a, Workers) + SumFunctionOnSet(elapsed, ws)
  <2>1. \A w \in ws : elapsed[w] \in Nat
    BY <1>4, TimesAreNumbers
  <2> QED
    BY <1>4, <2>1, Finite, SumGrows
<1>6. \A w \in Workers : Worked[w] \in Nat
  BY TimesAreNumbers
<1> QED
  BY <1>3, <1>5, <1>6 DEF WorkTime

\* Nothing was worked for any job.
LEMMA NothingWorked == SumFunction(NoActiveTime) = 0
<1>1. DOMAIN NoActiveTime = Jobs /\ \A j \in Jobs : NoActiveTime[j] = 0
  BY DEF NoActiveTime
<1> QED
  BY <1>1, SumZero, Finite DEF SumFunction

\* The entries of one worker go.
LEMMA TotalsForget ==
  ASSUME TimeTypeOK, AppInv, NEW w \in Workers,
         totalActiveTime' = [totalActiveTime EXCEPT ![w] = NoActiveTime]
  PROVE  WorkTime' = WorkTime - SumFunction(totalActiveTime[w])
<1>1. Worked'[w] = 0 /\ \A v \in Workers \ {w} : Worked'[v] = Worked[v]
  BY NothingWorked DEF Worked, TimeTypeOK
<1>2. Worked[w] = SumFunction(totalActiveTime[w])
  BY DEF Worked
<1>3. \A v \in Workers : Worked[v] \in Nat /\ Worked'[v] \in Nat
  BY <1>1, TimesAreNumbers
<1> HIDE DEF Worked
<1>4. \A a, b :
        (\A v \in Workers : a[v] \in Nat /\ b[v] \in Nat)
        /\ (\A v \in Workers \ {w} : b[v] = a[v])
          => SumFunctionOnSet(b, Workers) = SumFunctionOnSet(a, Workers) - a[w] + b[w]
  BY Finite, SumUpdate
<1>5. WorkTime' = WorkTime - Worked[w] + Worked'[w]
  BY <1>1, <1>3, <1>4 DEF WorkTime
<1>6. WorkTime \in Nat /\ Worked[w] \in Nat
  BY TimesAreNumbers
<1> QED
  BY <1>1, <1>2, <1>5, <1>6

\* A user is charged, or forgotten.
LEMMA ChargedAfter ==
  ASSUME TimeTypeOK, AppInv, NEW u \in Users, NEW n \in Nat,
         d_activeUsers' = [d_activeUsers EXCEPT ![u] = n]
  PROVE  ChargedTime' = ChargedTime - d_activeUsers[u] + n
<1>1. ASSUME NEW f \in [Users -> Nat]
      PROVE  SumFunctionOnSet([f EXCEPT ![u] = n], Users) = SumFunctionOnSet(f, Users) - f[u] + n
  <2> DEFINE g == [f EXCEPT ![u] = n]
  <2>1. /\ \A v \in Users : f[v] \in Nat /\ g[v] \in Nat
        /\ \A v \in Users \ {u} : g[v] = f[v]
        /\ g[u] = n
    OBVIOUS
  <2> HIDE DEF g
  <2>2. SumFunctionOnSet(g, Users) = SumFunctionOnSet(f, Users) - f[u] + g[u]
    <3>1. IsFiniteSet(Users)
      BY Finite
    <3> QED
      BY <2>1, <3>1, SumUpdate
  <2> QED
    BY <2>1, <2>2 DEF g
<1> QED
  BY <1>1 DEF ChargedTime, TimeTypeOK

(***************************************************************************)
(* What is owed, after each step.                                          *)
(***************************************************************************)

\* A tick: every timer shows one more.
LEMMA OwedAfterTick ==
  ASSUME TimeTypeOK, AppInv, OwedMatches, Tick
  PROVE  OwedMatches'
<1> DEFINE i == Cardinality(IdleWorkers)
           a == Cardinality(ActiveWorkers)
<1>1. IdleWorkers' = IdleWorkers /\ ActiveWorkers' = ActiveWorkers
  BY DEF Tick, vars, workerVars, IdleWorkers, ActiveWorkers
<1>2. /\ \A w \in IdleWorkers : elapsed[w] \in Nat /\ elapsed'[w] = elapsed[w] + 1
      /\ \A w \in ActiveWorkers : elapsed[w] \in Nat /\ elapsed'[w] = elapsed[w] + 1
  BY TimesAreNumbers, WorkerFacts DEF Tick, IdleWorkers
<1>3. IdleTime' = IdleTime + i /\ RunTime' = RunTime + a
  <2>1. SumFunctionOnSet(elapsed', IdleWorkers) = SumFunctionOnSet(elapsed, IdleWorkers) + i
    BY <1>2, TimesAreNumbers, SumTick
  <2>2. SumFunctionOnSet(elapsed', ActiveWorkers) = SumFunctionOnSet(elapsed, ActiveWorkers) + a
    BY <1>2, TimesAreNumbers, SumTick
  <2> QED
    BY <1>1, <2>1, <2>2 DEF IdleTime, RunTime
<1>4. WorkTime' = WorkTime /\ ChargedTime' = ChargedTime /\ d_idleTime' = d_idleTime
  BY TotalsStay DEF Tick, statistics, ChargedTime
<1>5. owed' = [idle |-> owed.idle + i, active |-> owed.active + a, user |-> owed.user + a]
  BY DEF Tick
<1>6. i \in Nat /\ a \in Nat
  BY TimesAreNumbers, FS_CardinalityType
<1> HIDE DEF i, a
<1> QED
  BY <1>3, <1>4, <1>5, <1>6, TimesAreNumbers DEF OwedMatches

\* The log: what it says is no longer owed.
LEMMA OwedAfterLog ==
  ASSUME TimeTypeOK, AppInv, OwedMatches, OnPeriodicLogStatus
  PROVE  OwedMatches'
<1> DEFINE logged == SumFunction([w \in d_workers |-> SumFunction(totalActiveTime[w])])
<1>1. /\ IdleWorkers' = IdleWorkers /\ ActiveWorkers' = ActiveWorkers
      /\ Range(d_idleWorkers) = IdleWorkers /\ d_workers \subseteq Workers
  BY WorkerFacts DEF OnPeriodicLogStatus, vars, workerVars, IdleWorkers, ActiveWorkers
<1>2. IdleTime' = 0
  <2>1. \A w \in IdleWorkers : elapsed'[w] = 0
    BY <1>1, TimesAreNumbers DEF OnPeriodicLogStatus, ResetIdleTime
  <2>2. SumFunctionOnSet(elapsed', IdleWorkers) = 0
    BY <2>1, TimesAreNumbers, SumZero
  <2> QED
    BY <1>1, <2>2 DEF IdleTime
<1>3. RunTime' = RunTime
  <2>1. \A w \in ActiveWorkers : elapsed'[w] = elapsed[w]
    BY <1>1, TimesAreNumbers DEF OnPeriodicLogStatus, ResetIdleTime
  <2> QED
    BY <1>1, <2>1, RunsStay
<1>4. WorkTime' = WorkTime - logged
  <2> DEFINE f == [w \in d_workers |-> SumFunction(totalActiveTime[w])]
             rest == Workers \ d_workers
  <2>1. /\ \A w \in d_workers : Worked'[w] = 0
        /\ \A w \in rest : Worked'[w] = Worked[w]
    BY <1>1, NothingWorked DEF OnPeriodicLogStatus, Worked
  <2>2. DOMAIN f = d_workers /\ \A w \in d_workers : f[w] = Worked[w]
    BY <1>1 DEF Worked
  <2>3. \A w \in Workers : Worked[w] \in Nat /\ Worked'[w] \in Nat
    BY <2>1, TimesAreNumbers
  <2>4. IsFiniteSet(d_workers) /\ IsFiniteSet(Workers) /\ IsFiniteSet(rest)
    BY <1>1, Finite, FS_Subset
  <2> HIDE DEF f, Worked
  <2>5. logged = SumFunctionOnSet(Worked, d_workers)
    <3>1. SumFunctionOnSet(f, d_workers) = SumFunctionOnSet(Worked, d_workers)
      <4>1. \A a : (\A w \in d_workers : a[w] \in Nat /\ f[w] = a[w])
                     => SumFunctionOnSet(f, d_workers) = SumFunctionOnSet(a, d_workers)
        BY <2>4, SumEqual
      <4>2. \A w \in d_workers : Worked[w] \in Nat
        BY <1>1, <2>3
      <4> QED
        BY <2>2, <4>1, <4>2
    <3> QED
      BY <2>2, <3>1 DEF f, SumFunction
  <2>6. SumFunctionOnSet(Worked', rest) = WorkTime - SumFunctionOnSet(Worked, d_workers)
    <3>1. \A a, b : (\A w \in Workers : a[w] \in Nat) /\ (\A w \in rest : b[w] = a[w])
            => SumFunctionOnSet(b, rest)
                 = SumFunctionOnSet(a, Workers) - SumFunctionOnSet(a, d_workers)
      BY <1>1, <2>4, SumLeave
    <3> QED
      BY <2>1, <2>3, <3>1 DEF WorkTime
  <2>7. WorkTime' = SumFunctionOnSet(Worked', rest) + SumFunctionOnSet(Worked', d_workers)
    <3>1. \A b : (\A w \in Workers : b[w] \in Nat)
            => SumFunctionOnSet(b, Workers)
                 = SumFunctionOnSet(b, rest) + SumFunctionOnSet(b, d_workers)
      BY <1>1, <2>4, SumSplit
    <3> QED
      BY <2>3, <3>1 DEF WorkTime
  <2>8. SumFunctionOnSet(Worked', d_workers) = 0
    <3>1. \A b : (\A w \in d_workers : b[w] = 0) => SumFunctionOnSet(b, d_workers) = 0
      BY <2>4, SumZero
    <3> QED
      BY <2>1, <3>1
  <2>9. logged \in Nat /\ WorkTime \in Nat
    BY <1>1, SumsAreNumbers, TimesAreNumbers
  <2> HIDE DEF logged, rest
  <2>10. WorkTime' = (WorkTime - logged) + 0
    BY <2>5, <2>6, <2>7, <2>8
  <2> QED
    BY <2>9, <2>10
<1>5. ChargedTime' = 0
  <2>1. \A u \in Users : d_activeUsers'[u] = 0
    BY DEF OnPeriodicLogStatus
  <2>2. SumFunctionOnSet(d_activeUsers', Users) = 0
    BY <2>1, Finite, SumZero
  <2> QED
    BY <2>2 DEF ChargedTime
<1>6. ChargedTime = SumFunction(d_activeUsers) /\ IdleTime = SumFunctionOnSet(elapsed, Range(d_idleWorkers))
  BY <1>1 DEF ChargedTime, IdleTime, SumFunction, TimeTypeOK
<1>7. /\ owed' = [idle |-> owed.idle - (d_idleTime + IdleTime), active |-> owed.active - logged,
                  user |-> owed.user - ChargedTime]
      /\ d_idleTime' = 0
  BY <1>6 DEF OnPeriodicLogStatus
<1>8. logged \in Nat
  BY <1>1, SumsAreNumbers
<1> HIDE DEF logged
<1> QED
  BY <1>2, <1>3, <1>4, <1>5, <1>7, <1>8, TimesAreNumbers DEF OwedMatches

\* A worker connects: it is idle from now on.
LEMMA OwedAfterConnect ==
  ASSUME TimeTypeOK, AppInv, OwedMatches, GoneForgotten,
         NEW c \in Connections, NEW w \in Workers, WorkerConnects(c, w)
  PROVE  OwedMatches'
<1>1. /\ w \notin d_workers /\ d_workers' = d_workers \cup {w} /\ active' = active
      /\ elapsed' = [elapsed EXCEPT ![w] = 0]
      /\ totalActiveTime' = [totalActiveTime EXCEPT ![w] = NoActiveTime]
      /\ UNCHANGED <<d_idleTime, d_activeUsers, owed>>
  BY DEF WorkerConnects, OnGreeting, AddWorker, Restarted
<1>2. w \notin ActiveWorkers /\ w \notin IdleWorkers
  BY <1>1, WorkerFacts DEF IdleWorkers
<1>3. ActiveWorkers' = ActiveWorkers /\ IdleWorkers' = IdleWorkers \cup {w}
  BY <1>1, <1>2 DEF ActiveWorkers, IdleWorkers
<1>4. /\ \A v \in ActiveWorkers \cup IdleWorkers : elapsed'[v] = elapsed[v]
      /\ elapsed'[w] = 0
  BY <1>1, <1>2, TimesAreNumbers DEF TimeTypeOK
<1>5. IdleTime' = IdleTime
  <2>1. {w} \in SUBSET Workers
    OBVIOUS
  <2> QED
    BY <1>3, <1>4, <2>1, IdleJoin
<1>6. RunTime' = RunTime
  BY <1>3, <1>4, RunsStay
<1>7. totalActiveTime' = totalActiveTime
  BY <1>1 DEF GoneForgotten, TimeTypeOK
<1> QED
  BY <1>1, <1>5, <1>6, <1>7, TotalsStay DEF OwedMatches, ChargedTime

\* One worker is no longer active: the run that ends was as long as its timer
\* shows.
LEMMA OneRunEnds ==
  ASSUME TimeTypeOK, AppInv, NEW w \in ActiveWorkers,
         ActiveWorkers' = ActiveWorkers \ {w},
         \A v \in Workers \ {w} : elapsed'[v] = elapsed[v]
  PROVE  RunTime' = RunTime - elapsed[w]
<1>1. {w} \in SUBSET ActiveWorkers /\ \A v \in ActiveWorkers \ {w} : elapsed'[v] = elapsed[v]
  BY TimesAreNumbers
<1>2. RunTime' = RunTime - SumFunctionOnSet(elapsed, {w})
  BY <1>1, RunsEnd
<1>3. SumFunctionOnSet(elapsed, {w}) = elapsed[w]
  BY TimesAreNumbers, SumOne
<1> QED
  BY <1>2, <1>3

\* A worker goes: the master gives up what it measured of the worker.
LEMMA OwedAfterGoes ==
  ASSUME TimeTypeOK, AppInv, OwedMatches, NEW w \in Workers, WorkerGoes(w)
  PROVE  OwedMatches'
<1> DEFINE run == IF active[w] THEN elapsed[w] ELSE 0
           total == SumFunction(totalActiveTime[w])
<1>1. /\ w \in d_workers /\ d_workers' = d_workers \ {w}
      /\ active' = [active EXCEPT ![w] = FALSE]
      /\ elapsed' = [elapsed EXCEPT ![w] = 0]
      /\ totalActiveTime' = [totalActiveTime EXCEPT ![w] = NoActiveTime]
      /\ owed' = [idle |-> owed.idle - (elapsed[w] - run), active |-> owed.active - (run + total),
                  user |-> owed.user - run]
      /\ UNCHANGED <<d_idleTime, d_activeUsers>>
  BY DEF WorkerGoes, OnWorkerClosed, RemoveWorker, Restarted
<1>2. ActiveWorkers' = ActiveWorkers \ {w} /\ IdleWorkers' = IdleWorkers \ {w}
  BY <1>1, WorkerFacts DEF ActiveWorkers, IdleWorkers
<1>3. \A v \in Workers \ {w} : elapsed'[v] = elapsed[v]
  BY <1>1 DEF TimeTypeOK
<1>4. RunTime' = RunTime - run /\ IdleTime' = IdleTime - (elapsed[w] - run)
  <2>1. CASE active[w]
    <3>1. w \in ActiveWorkers /\ w \notin IdleWorkers /\ IdleWorkers' = IdleWorkers
      BY <1>2, <2>1 DEF ActiveWorkers, IdleWorkers
    <3>2. RunTime' = RunTime - elapsed[w]
      BY <1>2, <1>3, <3>1, OneRunEnds
    <3>3. IdleTime' = IdleTime
      BY <1>3, <3>1, TimesAreNumbers, IdleStay
    <3> QED
      BY <2>1, <3>2, <3>3, TimesAreNumbers
  <2>2. CASE ~active[w]
    <3>1. w \notin ActiveWorkers /\ w \in IdleWorkers /\ ActiveWorkers' = ActiveWorkers
      BY <1>1, <1>2, <2>2 DEF ActiveWorkers, IdleWorkers
    <3>2. RunTime' = RunTime
      BY <1>3, <3>1, TimesAreNumbers, RunsStay
    <3>3. IdleTime' = IdleTime - elapsed[w]
      BY <1>2, <1>3, <3>1, TimesAreNumbers, IdleLeaves
    <3> QED
      BY <2>2, <3>2, <3>3, TimesAreNumbers
  <2> QED
    BY <2>1, <2>2
<1>5. WorkTime' = WorkTime - total /\ total \in Nat
  BY <1>1, TotalsForget, SumsAreNumbers
<1>6. ChargedTime' = ChargedTime
  BY <1>1 DEF ChargedTime
<1>7. run \in Nat /\ elapsed[w] \in Nat
  BY TimesAreNumbers
<1> HIDE DEF run, total
<1>8. /\ owed'.idle = owed.idle - (elapsed[w] - run)
      /\ owed'.active = owed.active - (run + total)
      /\ owed'.user = owed.user - run
      /\ d_idleTime' = d_idleTime
  BY <1>1
<1> QED
  BY <1>4, <1>5, <1>6, <1>7, <1>8, TimesAreNumbers DEF OwedMatches

\* A run is cut off: nobody gets its time.
LEMMA OwedAfterTimeout ==
  ASSUME TimeTypeOK, AppInv, OwedMatches, NEW w \in Workers, NEW sent \in SendOutcomes,
         WorkerTakesTooLong(w, sent)
  PROVE  OwedMatches'
<1>1. /\ elapsed' = [elapsed EXCEPT ![w] = 0]
      /\ owed' = [idle |-> owed.idle, active |-> owed.active - elapsed[w],
                  user |-> owed.user - elapsed[w]]
      /\ UNCHANGED <<totalActiveTime, d_idleTime, d_activeUsers>>
  BY DEF WorkerTakesTooLong, Restarted, statistics
<1>2. w \in ActiveWorkers /\ w \in d_workers
  BY WorkerFacts DEF WorkerTakesTooLong, OnWorkerTimeout, ActiveWorkers
<1>3. elapsed'[w] = 0 /\ \A v \in Workers \ {w} : elapsed'[v] = elapsed[v]
  BY <1>1 DEF TimeTypeOK
<1>4. RunTime' = RunTime - elapsed[w] /\ IdleTime' = IdleTime
  <2>1. CASE sent
    <3>1. ActiveWorkers' = ActiveWorkers \ {w} /\ d_workers' = d_workers
      BY <2>1, DeactivateDisarms
         DEF WorkerTakesTooLong, OnWorkerTimeout, CancelOrDeactivate, Deactivate
    <3>2. IdleWorkers' = IdleWorkers \cup {w}
      BY <1>2, <3>1 DEF IdleWorkers
    <3>3. RunTime' = RunTime - elapsed[w]
      BY <1>2, <1>3, <3>1, OneRunEnds
    <3>4. w \notin IdleWorkers /\ {w} \in SUBSET Workers
      BY <1>2 DEF IdleWorkers
    <3>5. IdleTime' = IdleTime
      BY <1>3, <3>2, <3>4, TimesAreNumbers, IdleJoin
    <3> QED
      BY <3>3, <3>5
  <2>2. CASE ~sent
    <3>1. ActiveWorkers' = ActiveWorkers /\ IdleWorkers' = IdleWorkers
      BY <2>2 DEF WorkerTakesTooLong, OnWorkerTimeout, DisarmTimeout, ActiveWorkers, IdleWorkers
    <3>2. IdleTime' = IdleTime
      <4>1. w \notin IdleWorkers
        BY <1>2 DEF IdleWorkers
      <4> QED
        BY <1>3, <3>1, <4>1, TimesAreNumbers, IdleStay
    <3>3. SumFunctionOnSet(elapsed', ActiveWorkers)
            = SumFunctionOnSet(elapsed, ActiveWorkers) - elapsed[w] + elapsed'[w]
      <4>1. IsFiniteSet(ActiveWorkers) /\ ActiveWorkers \subseteq Workers
        BY TimesAreNumbers
      <4>2. \A v \in ActiveWorkers : elapsed[v] \in Nat /\ elapsed'[v] \in Nat
        BY <1>3, TimesAreNumbers
      <4>3. \A v \in ActiveWorkers \ {w} : elapsed'[v] = elapsed[v]
        BY <1>3, <4>1
      <4> QED
        BY <1>2, <4>1, <4>2, <4>3, SumUpdate
    <3>4. RunTime' = RunTime - elapsed[w] + 0
      BY <1>3, <3>1, <3>3 DEF RunTime
    <3> QED
      BY <3>2, <3>4, TimesAreNumbers
  <2> QED
    BY <2>1, <2>2
<1>5. WorkTime' = WorkTime /\ ChargedTime' = ChargedTime
  BY <1>1, TotalsStay DEF ChargedTime
<1>6. /\ owed'.idle = owed.idle /\ owed'.active = owed.active - elapsed[w]
      /\ owed'.user = owed.user - elapsed[w] /\ d_idleTime' = d_idleTime
  BY <1>1
<1> QED
  BY <1>4, <1>5, <1>6, TimesAreNumbers DEF OwedMatches

\* The runs of some active workers end: their timers start anew, what they
\* showed is added to the totals.
LEMMA TimesAfterStop ==
  ASSUME TimeTypeOK, AppInv, NEW ws \in SUBSET ActiveWorkers, Stopped(ws),
         ActiveWorkers' = ActiveWorkers \ ws, d_workers' = d_workers
  PROVE  /\ RunTime' = RunTime - SumFunctionOnSet(elapsed, ws)
         /\ WorkTime' = WorkTime + SumFunctionOnSet(elapsed, ws)
         /\ IdleTime' = IdleTime
         /\ SumFunctionOnSet(elapsed, ws) \in Nat
<1>1. \A w \in Workers : elapsed'[w] = IF w \in ws THEN 0 ELSE elapsed[w]
  BY DEF Stopped
<1>2. IdleWorkers' = IdleWorkers \cup ws
  BY WorkerFacts DEF IdleWorkers
<1>3. ws \in SUBSET Workers /\ ws \cap IdleWorkers = {} /\ IdleWorkers \subseteq Workers
      /\ ActiveWorkers \subseteq Workers
  BY TimesAreNumbers
<1>4. RunTime' = RunTime - SumFunctionOnSet(elapsed, ws)
  BY <1>1, <1>3, RunsEnd
<1>5. IdleTime' = IdleTime
  BY <1>1, <1>2, <1>3, IdleJoin
<1>6. SumFunctionOnSet(elapsed, ws) \in Nat
  BY <1>3, SumsAreNumbers
<1> QED
  BY <1>4, <1>5, <1>6, TotalsGrow

\* A run ends with an answer: the worker worked for as long, and its user is
\* charged for it.
LEMMA OwedAfterEnd ==
  ASSUME TimeTypeOK, AppInv, OwedMatches, NEW w \in Workers, WorkerEndsTask(w)
  PROVE  OwedMatches'
<1> DEFINE u == User[Group[task[w]]]
<1>1. active[w] /\ HasJob(w) /\ Deactivate(w)
  BY EndDeactivates
<1>2. /\ Stopped({w}) /\ owed' = owed /\ d_idleTime' = d_idleTime
      /\ d_activeUsers' = [d_activeUsers EXCEPT ![u] = d_activeUsers[u] + elapsed[w]]
  BY <1>1 DEF WorkerEndsTask, AddIdleTime
<1>3. {w} \in SUBSET ActiveWorkers
  BY <1>1 DEF ActiveWorkers
<1>4. ActiveWorkers' = ActiveWorkers \ {w} /\ d_workers' = d_workers
  BY <1>1, DeactivateDisarms
<1>5. SumFunctionOnSet(elapsed, {w}) = elapsed[w] /\ elapsed[w] \in Nat
  BY TimesAreNumbers, SumOne
<1>6. /\ RunTime' = RunTime - elapsed[w] /\ WorkTime' = WorkTime + elapsed[w]
      /\ IdleTime' = IdleTime
  BY <1>2, <1>3, <1>4, <1>5, TimesAfterStop
<1>7. u \in Users /\ d_activeUsers[u] \in Nat
  BY <1>1, WorkerFacts, TaskAssumption, TimekeepingAssumption DEF TimeTypeOK
<1> HIDE DEF u
<1>8. ChargedTime' = ChargedTime - d_activeUsers[u] + (d_activeUsers[u] + elapsed[w])
  <2> DEFINE n == d_activeUsers[u] + elapsed[w]
  <2>1. n \in Nat /\ d_activeUsers' = [d_activeUsers EXCEPT ![u] = n]
    BY <1>2, <1>5, <1>7
  <2> HIDE DEF n
  <2>2. ChargedTime' = ChargedTime - d_activeUsers[u] + n
    BY <1>7, <2>1, ChargedAfter
  <2> QED
    BY <2>2 DEF n
<1> QED
  BY <1>2, <1>5, <1>6, <1>7, <1>8, TimesAreNumbers DEF OwedMatches

\* A job goes: its workers worked for it, and nobody is charged.
LEMMA OwedAfterJobGoes ==
  ASSUME TimeTypeOK, AppInv, OwedMatches, NEW j \in Jobs, NEW sent \in CancelOutcomes(j),
         JobGoes(j, sent)
  PROVE  OwedMatches'
<1> DEFINE ws == Range(activeWorkers[j])
           run == SumFunctionOnSet(elapsed, ws)
<1>1. ws \in SUBSET ActiveWorkers
  BY ListedAreActive
<1>2. /\ Stopped(ws) /\ owed' = [owed EXCEPT !.user = owed.user - run]
      /\ d_idleTime' = d_idleTime /\ d_activeUsers' = d_activeUsers
  BY DEF JobGoes
<1>3. ActiveWorkers' = ActiveWorkers \ ws /\ d_workers' = d_workers
  BY DeactivateAllDisarms DEF JobGoes, OnJobRemoved, CancelOrDeactivate
<1>4. /\ RunTime' = RunTime - run /\ WorkTime' = WorkTime + run /\ IdleTime' = IdleTime
      /\ run \in Nat
  BY <1>1, <1>2, <1>3, TimesAfterStop
<1> HIDE DEF ws, run
<1>5. owed'.idle = owed.idle /\ owed'.active = owed.active /\ owed'.user = owed.user - run
  BY <1>2 DEF TimeTypeOK
<1>6. ChargedTime' = ChargedTime
  BY <1>2 DEF ChargedTime
<1> QED
  BY <1>2, <1>4, <1>5, <1>6, TimesAreNumbers DEF OwedMatches

\* A job identifies itself: what its user was charged is forgotten.
LEMMA OwedAfterIdentify ==
  ASSUME TimeTypeOK, AppInv, OwedMatches, NEW j \in Jobs,
         NEW isValid \in BOOLEAN, NEW timed \in Timeouts, JobIdentifies(j, isValid, timed)
  PROVE  OwedMatches'
<1> DEFINE u == User[j]
<1>1. /\ UNCHANGED <<active, d_workers, elapsed, totalActiveTime, d_idleTime>>
      /\ d_activeUsers' = [d_activeUsers EXCEPT ![u] = 0]
      /\ owed' = [owed EXCEPT !.user = owed.user - d_activeUsers[u]]
  BY DEF JobIdentifies, HandleJobIdentify, workerVars
<1>2. u \in Users /\ d_activeUsers[u] \in Nat
  BY TimekeepingAssumption DEF TimeTypeOK
<1> HIDE DEF u
<1>3. ActiveWorkers' = ActiveWorkers /\ IdleWorkers' = IdleWorkers
  BY <1>1 DEF ActiveWorkers, IdleWorkers
<1>4. RunTime' = RunTime /\ IdleTime' = IdleTime /\ WorkTime' = WorkTime
  BY <1>1, <1>3, TotalsStay DEF RunTime, IdleTime
<1>5. ChargedTime' = ChargedTime - d_activeUsers[u] + 0
  BY <1>1, <1>2, ChargedAfter
<1>6. /\ owed'.idle = owed.idle /\ owed'.active = owed.active
      /\ owed'.user = owed.user - d_activeUsers[u]
  BY <1>1 DEF TimeTypeOK
<1> QED
  BY <1>1, <1>2, <1>4, <1>5, <1>6, TimesAreNumbers DEF OwedMatches

\* A worker gets a task: the log will say how long it was idle.
LEMMA OwedAfterDispatch ==
  ASSUME TimeTypeOK, AppInv, OwedMatches, NEW j \in Jobs, Dispatch(j)
  PROVE  OwedMatches'
<1> DEFINE w == Head(d_idleWorkers)
<1>1. w \in Workers /\ w \in Range(d_idleWorkers)
  BY RotatedProperties DEF Dispatch, DispatchTask, Activate, AppInv
<1>2. /\ active' = [active EXCEPT ![w] = TRUE] /\ d_workers' = d_workers
      /\ d_idleTime' = d_idleTime + elapsed[w] /\ elapsed' = [elapsed EXCEPT ![w] = 0]
      /\ UNCHANGED <<totalActiveTime, d_activeUsers, owed>>
  BY DEF Dispatch, DispatchTask, Activate, Restarted
<1>3. w \in IdleWorkers /\ w \notin ActiveWorkers
  BY <1>1, WorkerFacts, TimesAreNumbers
<1> HIDE DEF w
<1>4. ActiveWorkers' = ActiveWorkers \cup {w} /\ IdleWorkers' = IdleWorkers \ {w}
  BY <1>1, <1>2, WorkerFacts DEF ActiveWorkers, IdleWorkers
<1>5. elapsed'[w] = 0 /\ \A v \in Workers \ {w} : elapsed'[v] = elapsed[v]
  BY <1>1, <1>2 DEF TimeTypeOK
<1>6. IdleTime' = IdleTime - elapsed[w]
  BY <1>3, <1>4, <1>5, TimesAreNumbers, IdleLeaves
<1>7. RunTime' = RunTime
  <2>1. /\ \A v \in ActiveWorkers : elapsed[v] \in Nat /\ elapsed'[v] = elapsed[v]
        /\ IsFiniteSet(ActiveWorkers) /\ IsFiniteSet({w})
        /\ \A v \in {w} \ ActiveWorkers : elapsed'[v] = 0
    BY <1>3, <1>5, TimesAreNumbers, FS_Singleton
  <2>2. SumFunctionOnSet(elapsed', ActiveWorkers \cup {w}) = SumFunctionOnSet(elapsed, ActiveWorkers)
    BY <2>1, SumJoin
  <2> QED
    BY <1>4, <2>2 DEF RunTime
<1>8. WorkTime' = WorkTime /\ ChargedTime' = ChargedTime
  BY <1>2, TotalsStay DEF ChargedTime
<1>9. elapsed[w] \in Nat
  BY <1>1, TimesAreNumbers
<1> QED
  BY <1>2, <1>6, <1>7, <1>8, <1>9, TimesAreNumbers DEF OwedMatches

\* Every step leaves the sums what is owed.
LEMMA OwedStep ==
  ASSUME TimeTypeOK, AppInv, OwedMatches, GoneForgotten, [TimekeepingNext]_timekeepingVars
  PROVE  OwedMatches'
<1>1. CASE NothingMeasured
  <2>1. /\ UNCHANGED <<active, d_workers, elapsed, totalActiveTime, d_idleTime, d_activeUsers, owed>>
    BY <1>1, NothingMeasuredQuiet DEF NothingMeasured, statistics
  <2>2. ActiveWorkers' = ActiveWorkers /\ IdleWorkers' = IdleWorkers
    BY <2>1 DEF ActiveWorkers, IdleWorkers
  <2> QED
    BY <2>1, <2>2, TotalsStay DEF OwedMatches, RunTime, IdleTime, ChargedTime
<1>2. ASSUME NEW j \in Jobs, JobConnects(j) PROVE OwedMatches'
  <2>1. /\ UNCHANGED <<active, d_workers, elapsed, totalActiveTime, d_idleTime, d_activeUsers, owed>>
    BY <1>2 DEF JobConnects, OnJobAdded, workerVars, statistics
  <2>2. ActiveWorkers' = ActiveWorkers /\ IdleWorkers' = IdleWorkers
    BY <2>1 DEF ActiveWorkers, IdleWorkers
  <2> QED
    BY <2>1, <2>2, TotalsStay DEF OwedMatches, RunTime, IdleTime, ChargedTime
<1> QED
  BY <1>1, <1>2, TimeSteps, OwedAfterTick, OwedAfterLog, OwedAfterConnect, OwedAfterGoes,
     OwedAfterTimeout, OwedAfterEnd, OwedAfterJobGoes, OwedAfterIdentify, OwedAfterDispatch

\* What a worker worked goes with it.
LEMMA GoneForgottenStep ==
  ASSUME TimeTypeOK, AppInv, GoneForgotten, [TimekeepingNext]_timekeepingVars
  PROVE  GoneForgotten'
<1>t. totalActiveTime \in [Workers -> [Jobs -> Nat]]
  BY DEF TimeTypeOK
<1>0. ASSUME d_workers' = d_workers, totalActiveTime' = totalActiveTime PROVE GoneForgotten'
  BY <1>0 DEF GoneForgotten
<1>1. CASE Tick \/ (\E j \in Jobs : JobConnects(j))
  BY <1>0, <1>1 DEF Tick, JobConnects, OnJobAdded, vars, workerVars, statistics
<1>2. CASE OnPeriodicLogStatus
  BY <1>2 DEF OnPeriodicLogStatus, GoneForgotten, vars, workerVars
<1>3. ASSUME NEW w \in Workers, NEW c \in Connections, WorkerConnects(c, w) PROVE GoneForgotten'
  BY <1>t, <1>3 DEF WorkerConnects, OnGreeting, AddWorker, GoneForgotten
<1>4. ASSUME NEW w \in Workers, WorkerGoes(w) PROVE GoneForgotten'
  BY <1>t, <1>4 DEF WorkerGoes, OnWorkerClosed, RemoveWorker, GoneForgotten
<1>5. ASSUME NEW w \in Workers, NEW sent \in SendOutcomes, WorkerTakesTooLong(w, sent)
      PROVE  GoneForgotten'
  BY <1>0, <1>5 DEF WorkerTakesTooLong, OnWorkerTimeout, CancelOrDeactivate, DeactivateAll,
     DisarmTimeout, statistics
<1>6. ASSUME NEW ws \in SUBSET ActiveWorkers, Stopped(ws), d_workers' = d_workers
      PROVE  GoneForgotten'
  BY <1>6, WorkerFacts DEF Stopped, GoneForgotten
<1>7. ASSUME NEW w \in Workers, WorkerEndsTask(w) PROVE GoneForgotten'
  <2>1. {w} \in SUBSET ActiveWorkers /\ Stopped({w}) /\ d_workers' = d_workers
    BY <1>7, EndDeactivates, DeactivateDisarms DEF WorkerEndsTask, ActiveWorkers
  <2> QED
    BY <1>6, <2>1
<1>8. ASSUME NEW j \in Jobs, NEW sent \in CancelOutcomes(j), JobGoes(j, sent) PROVE GoneForgotten'
  <2>1. Range(activeWorkers[j]) \in SUBSET ActiveWorkers
    BY ListedAreActive
  <2>2. Stopped(Range(activeWorkers[j])) /\ d_workers' = d_workers
    BY <1>8 DEF JobGoes, OnJobRemoved, CancelOrDeactivate, DeactivateAll
  <2> QED
    BY <1>6, <2>1, <2>2
<1>9. ASSUME NEW j \in Jobs, NEW isValid \in BOOLEAN, NEW timed \in Timeouts,
             JobIdentifies(j, isValid, timed)
      PROVE  GoneForgotten'
  BY <1>0, <1>9 DEF JobIdentifies, HandleJobIdentify, workerVars
<1>10. ASSUME NEW j \in Jobs, Dispatch(j) PROVE GoneForgotten'
  BY <1>0, <1>10 DEF Dispatch, DispatchTask, Activate
<1>11. CASE NothingMeasured
  <2>1. d_workers' = d_workers
    BY <1>11, NothingMeasuredQuiet
  <2> QED
    BY <1>0, <1>11, <2>1 DEF NothingMeasured, statistics
<1> QED
  BY <1>1, <1>2, <1>3, <1>4, <1>5, <1>7, <1>8, <1>9, <1>10, <1>11, TimeSteps

(***************************************************************************)
(* Failures are counted.                                                   *)
(***************************************************************************)

\* The tasks of job j.
TasksOf(j) == {t \in Tasks : Group[t] = j}

LEMMA TasksOfFinite ==
  ASSUME NEW j \in Jobs
  PROVE  IsFiniteSet(TasksOf(j)) /\ TasksOf(j) \subseteq Tasks
BY TimekeepingAssumption, FS_Subset DEF TasksOf

\* How many tasks of each descriptor failed and succeeded, of whatever job.
AllFailures == [j \in Jobs |-> tasksFailed[j] + past[j].failed]
AllSuccesses == [j \in Jobs |-> tasksSuccess[j] + past[j].success]

\* The three equations of FailuresCounted.
CountsAddUp ==
  /\ \A j \in Jobs : AllFailures[j] = SumFunctionOnSet(failures, TasksOf(j)) + replaced[j]
  /\ SumFunctionOnSet(AllFailures, Jobs) = reported.failed + d_tasksFailed
  /\ SumFunctionOnSet(AllSuccesses, Jobs) = reported.success + d_tasksSuccess

LEMMA CountsMatch == CountsAddUp => FailuresCounted
BY DEF CountsAddUp, FailuresCounted, AllFailures, AllSuccesses, TasksOf, SumFunction

\* All of them are numbers.
LEMMA CountsAreNumbers ==
  ASSUME TimeTypeOK, AppInv
  PROVE  /\ AllFailures \in [Jobs -> Nat] /\ AllSuccesses \in [Jobs -> Nat]
         /\ tasksFailed \in [Jobs -> Nat] /\ tasksSuccess \in [Jobs -> Nat]
         /\ \A j \in Jobs : past[j].failed \in Nat /\ past[j].success \in Nat
         /\ reported.failed \in Nat /\ reported.success \in Nat
         /\ d_tasksFailed \in Nat /\ d_tasksSuccess \in Nat
         /\ failures \in [Tasks -> Nat] /\ replaced \in [Jobs -> Nat]
         /\ \A j \in Jobs : SumFunctionOnSet(failures, TasksOf(j)) \in Nat
         /\ SumFunctionOnSet(AllFailures, Jobs) \in Nat
         /\ SumFunctionOnSet(AllSuccesses, Jobs) \in Nat
<1>1. /\ tasksFailed \in [Jobs -> Nat] /\ tasksSuccess \in [Jobs -> Nat]
      /\ \A j \in Jobs : past[j].failed \in Nat /\ past[j].success \in Nat
      /\ reported.failed \in Nat /\ reported.success \in Nat
      /\ d_tasksFailed \in Nat /\ d_tasksSuccess \in Nat
      /\ failures \in [Tasks -> Nat] /\ replaced \in [Jobs -> Nat]
  BY DEF TimeTypeOK, AppInv, RestTypeOK
<1>2. AllFailures \in [Jobs -> Nat] /\ AllSuccesses \in [Jobs -> Nat]
  BY <1>1 DEF AllFailures, AllSuccesses
<1>3. ASSUME NEW j \in Jobs PROVE SumFunctionOnSet(failures, TasksOf(j)) \in Nat
  BY <1>1, TasksOfFinite, SumNat
<1>4. SumFunctionOnSet(AllFailures, Jobs) \in Nat /\ SumFunctionOnSet(AllSuccesses, Jobs) \in Nat
  BY <1>2, Finite, SumNat
<1> QED
  BY <1>1, <1>2, <1>3, <1>4

\* No count changes, or the log takes over those of the master.
LEMMA CountsKept ==
  ASSUME CountsAddUp, UNCHANGED <<failures, jobCounts, past, replaced>>,
         reported'.failed + d_tasksFailed' = reported.failed + d_tasksFailed,
         reported'.success + d_tasksSuccess' = reported.success + d_tasksSuccess
  PROVE  CountsAddUp'
<1>1. AllFailures' = AllFailures /\ AllSuccesses' = AllSuccesses
  BY DEF AllFailures, AllSuccesses, jobCounts
<1> QED
  BY <1>1 DEF CountsAddUp

\* One more in one place makes the sum one more.
LEMMA SumOneMore ==
  ASSUME NEW S, IsFiniteSet(S), NEW x \in S, NEW f, NEW g,
         \A y \in S : f[y] \in Nat /\ g[y] \in Nat,
         \A y \in S \ {x} : g[y] = f[y],
         g[x] = f[x] + 1
  PROVE  SumFunctionOnSet(g, S) = SumFunctionOnSet(f, S) + 1
<1>1. /\ SumFunctionOnSet(f, S) = f[x] + SumFunctionOnSet(f, S \ {x})
      /\ SumFunctionOnSet(g, S) = g[x] + SumFunctionOnSet(g, S \ {x})
  BY SumRemove
<1>2. IsFiniteSet(S \ {x})
  BY FS_Subset
<1>3. /\ SumFunctionOnSet(g, S \ {x}) = SumFunctionOnSet(f, S \ {x})
      /\ SumFunctionOnSet(f, S \ {x}) \in Nat
  BY <1>2, SumEqual, SumNat
<1> QED
  BY <1>1, <1>3

\* A task ends: it is counted once, for its job and for the master.
LEMMA CountsAfterEnd ==
  ASSUME TimeTypeOK, AppInv, CountsAddUp, NEW w \in Workers, WorkerEndsTask(w)
  PROVE  CountsAddUp'
<1> DEFINE t0 == task[w]
           g == Group[t0]
           status == Head(wire[w]).status
<1>1. /\ active[w] /\ HasJob(w) /\ status # "Challenge" /\ OnWorkerCommunication(w)
      /\ CountTask(g, status) /\ UNCHANGED history
  BY EndDeactivates DEF WorkerEndsTask
<1>2. status \in {"Success", "Failed"}
  BY <1>1 DEF OnWorkerCommunication, DropAnswer, AnswerWithoutJob, AnswerSuccess, AnswerRejected,
              AnswerRescheduled, AnswerChallenge, HasJob
<1>3. failures' = IF status = "Success" THEN failures ELSE [failures EXCEPT ![t0] = @ + 1]
  BY <1>1, <1>2 DEF OnWorkerCommunication, DropAnswer, AnswerWithoutJob, AnswerSuccess,
     AnswerRejected, AnswerRescheduled, AnswerChallenge, HasJob
<1>4. t0 \in Tasks /\ g \in Jobs /\ t0 \in TasksOf(g)
  BY <1>1, WorkerFacts, TaskAssumption DEF TasksOf
<1>5. past' = past /\ replaced' = replaced /\ reported' = reported
  BY <1>1 DEF history
<1>6. \A j \in Jobs : j # g => t0 \notin TasksOf(j)
  BY DEF TasksOf
<1> HIDE DEF t0, g, status
<1>7. CASE status = "Success"
  <2>1. /\ AllFailures' = AllFailures /\ failures' = failures /\ d_tasksFailed' = d_tasksFailed
        /\ d_tasksSuccess' = d_tasksSuccess + 1
    BY <1>1, <1>3, <1>5, <1>7 DEF CountTask, AllFailures
  <2>2. \A j \in Jobs :
          AllSuccesses'[j] = IF j = g THEN AllSuccesses[j] + 1 ELSE AllSuccesses[j]
    BY <1>1, <1>4, <1>5, <1>7, CountsAreNumbers DEF CountTask, AllSuccesses
  <2>3. SumFunctionOnSet(AllSuccesses', Jobs) = SumFunctionOnSet(AllSuccesses, Jobs) + 1
    <3>1. /\ \A j \in Jobs : AllSuccesses[j] \in Nat /\ AllSuccesses'[j] \in Nat
          /\ \A j \in Jobs \ {g} : AllSuccesses'[j] = AllSuccesses[j]
          /\ AllSuccesses'[g] = AllSuccesses[g] + 1
      BY <1>4, <2>2, CountsAreNumbers
    <3>2. \A a, b :
            /\ \A j \in Jobs : a[j] \in Nat /\ b[j] \in Nat
            /\ \A j \in Jobs \ {g} : b[j] = a[j]
            /\ b[g] = a[g] + 1
            => SumFunctionOnSet(b, Jobs) = SumFunctionOnSet(a, Jobs) + 1
      BY <1>4, Finite, SumOneMore
    <3> QED
      BY <3>1, <3>2
  <2>4. SumFunctionOnSet(AllSuccesses', Jobs) = reported.success + d_tasksSuccess'
    BY <2>1, <2>3, CountsAreNumbers DEF CountsAddUp
  <2> QED
    BY <1>5, <2>1, <2>4 DEF CountsAddUp
<1>8. CASE status = "Failed"
  <2>1. /\ AllSuccesses' = AllSuccesses /\ failures' = [failures EXCEPT ![t0] = @ + 1]
        /\ d_tasksSuccess' = d_tasksSuccess /\ d_tasksFailed' = d_tasksFailed + 1
    BY <1>1, <1>3, <1>5, <1>8 DEF CountTask, AllSuccesses
  <2>2. \A j \in Jobs : AllFailures'[j] = IF j = g THEN AllFailures[j] + 1 ELSE AllFailures[j]
    <3>1. tasksFailed' = [tasksFailed EXCEPT ![g] = @ + 1]
      BY <1>1, <1>8 DEF CountTask
    <3> QED
      BY <1>4, <1>5, <3>1, CountsAreNumbers DEF AllFailures
  <2>3. SumFunctionOnSet(AllFailures', Jobs) = SumFunctionOnSet(AllFailures, Jobs) + 1
    <3>1. /\ \A j \in Jobs : AllFailures[j] \in Nat /\ AllFailures'[j] \in Nat
          /\ \A j \in Jobs \ {g} : AllFailures'[j] = AllFailures[j]
          /\ AllFailures'[g] = AllFailures[g] + 1
      BY <1>4, <2>2, CountsAreNumbers
    <3>2. \A a, b :
            /\ \A j \in Jobs : a[j] \in Nat /\ b[j] \in Nat
            /\ \A j \in Jobs \ {g} : b[j] = a[j]
            /\ b[g] = a[g] + 1
            => SumFunctionOnSet(b, Jobs) = SumFunctionOnSet(a, Jobs) + 1
      BY <1>4, Finite, SumOneMore
    <3> QED
      BY <3>1, <3>2
  <2>4. SumFunctionOnSet(AllFailures', Jobs) = reported.failed + d_tasksFailed'
    <3>1. SumFunctionOnSet(AllFailures, Jobs) = reported.failed + d_tasksFailed
      BY DEF CountsAddUp
    <3>2. reported.failed \in Nat /\ d_tasksFailed \in Nat
      BY CountsAreNumbers
    <3> QED
      BY <2>1, <2>3, <3>1, <3>2
  <2>5. ASSUME NEW j \in Jobs
        PROVE  AllFailures'[j] = SumFunctionOnSet(failures', TasksOf(j)) + replaced[j]
    <3>1. CASE j = g
      <4>1. \A t \in TasksOf(g) : failures'[t] = IF t = t0 THEN failures[t] + 1 ELSE failures[t]
        BY <1>4, <2>1, CountsAreNumbers, TasksOfFinite
      <4>2. SumFunctionOnSet(failures', TasksOf(g)) = SumFunctionOnSet(failures, TasksOf(g)) + 1
        <5>1. /\ \A t \in TasksOf(g) : failures[t] \in Nat /\ failures'[t] \in Nat
              /\ \A t \in TasksOf(g) \ {t0} : failures'[t] = failures[t]
              /\ failures'[t0] = failures[t0] + 1
          BY <1>4, <4>1, CountsAreNumbers, TasksOfFinite
        <5>2. \A a, b :
                /\ \A t \in TasksOf(g) : a[t] \in Nat /\ b[t] \in Nat
                /\ \A t \in TasksOf(g) \ {t0} : b[t] = a[t]
                /\ b[t0] = a[t0] + 1
                => SumFunctionOnSet(b, TasksOf(g)) = SumFunctionOnSet(a, TasksOf(g)) + 1
          BY <1>4, TasksOfFinite, SumOneMore
        <5> QED
          BY <5>1, <5>2
      <4> QED
        BY <2>2, <3>1, <4>2, CountsAreNumbers DEF CountsAddUp
    <3>2. CASE j # g
      <4>1. \A t \in TasksOf(j) : failures[t] \in Nat /\ failures'[t] = failures[t]
        BY <1>6, <2>1, <3>2, CountsAreNumbers, TasksOfFinite
      <4>2. \A a, b : (\A t \in TasksOf(j) : a[t] \in Nat /\ b[t] = a[t])
                        => SumFunctionOnSet(b, TasksOf(j)) = SumFunctionOnSet(a, TasksOf(j))
        BY TasksOfFinite, SumEqual
      <4>3. SumFunctionOnSet(failures', TasksOf(j)) = SumFunctionOnSet(failures, TasksOf(j))
        BY <4>1, <4>2
      <4> QED
        BY <2>2, <3>2, <4>3 DEF CountsAddUp
    <3> QED
      BY <3>1, <3>2
  <2>6. /\ replaced' = replaced /\ reported' = reported
        /\ SumFunctionOnSet(AllSuccesses', Jobs) = reported.success + d_tasksSuccess'
    BY <1>5, <2>1 DEF CountsAddUp
  <2> QED
    BY <2>4, <2>5, <2>6 DEF CountsAddUp
<1> QED
  BY <1>2, <1>7, <1>8

\* The tasks of a batch are new: the failures of those they replace are counted.
LEMMA CountsAfterBatch ==
  ASSUME TimeTypeOK, AppInv, CountsAddUp,
         NEW k \in Jobs, NEW ts \in BatchesOf(NewTasks(k)), JobSendsBatch(k, ts)
  PROVE  CountsAddUp'
<1> DEFINE R == Range(ts)
<1>1. IsFiniteSet(R) /\ R \subseteq TasksOf(k)
  BY BatchOfJob DEF TasksOf
<1>2. /\ failures' = [t \in Tasks |-> IF t \in R THEN 0 ELSE failures[t]]
      /\ replaced' = [replaced EXCEPT ![k] = @ + SumFunctionOnSet(failures, R)]
      /\ UNCHANGED <<jobCounts, past, reported, d_tasksFailed, d_tasksSuccess>>
  BY DEF JobSendsBatch, HandleJobBatch, statistics
<1>3. AllFailures' = AllFailures /\ AllSuccesses' = AllSuccesses
  BY <1>2 DEF AllFailures, AllSuccesses, jobCounts
<1> HIDE DEF R
<1>4. ASSUME NEW j \in Jobs
      PROVE  SumFunctionOnSet(failures', TasksOf(j)) + replaced'[j]
               = SumFunctionOnSet(failures, TasksOf(j)) + replaced[j]
  <2>1. CASE j = k
    <3> DEFINE S == TasksOf(k)
    <3>1. IsFiniteSet(S) /\ S \subseteq Tasks /\ R \in SUBSET S /\ IsFiniteSet(S \ R)
      BY <1>1, TasksOfFinite, FS_Subset
    <3>2. /\ \A t \in S : failures[t] \in Nat /\ failures'[t] \in Nat
          /\ \A t \in S \ R : failures'[t] = failures[t]
          /\ \A t \in R : failures'[t] = 0
      BY <1>2, <3>1, CountsAreNumbers
    <3> HIDE DEF S
    <3>3. \A a : (\A t \in S : a[t] \in Nat)
                   => SumFunctionOnSet(a, S) = SumFunctionOnSet(a, S \ R) + SumFunctionOnSet(a, R)
      BY <3>1, SumSplit
    <3>4. \A a, b : (\A t \in S \ R : a[t] \in Nat /\ b[t] = a[t])
                      => SumFunctionOnSet(b, S \ R) = SumFunctionOnSet(a, S \ R)
      BY <3>1, SumEqual
    <3>5. \A b : (\A t \in R : b[t] = 0) => SumFunctionOnSet(b, R) = 0
      BY <1>1, SumZero
    <3>6. /\ SumFunctionOnSet(failures, S)
               = SumFunctionOnSet(failures, S \ R) + SumFunctionOnSet(failures, R)
          /\ SumFunctionOnSet(failures', S)
               = SumFunctionOnSet(failures', S \ R) + SumFunctionOnSet(failures', R)
          /\ SumFunctionOnSet(failures', S \ R) = SumFunctionOnSet(failures, S \ R)
          /\ SumFunctionOnSet(failures', R) = 0
      BY <3>2, <3>3, <3>4, <3>5
    <3>7. /\ SumFunctionOnSet(failures, S \ R) \in Nat /\ SumFunctionOnSet(failures, R) \in Nat
      BY <1>1, <3>1, <3>2, SumNat
    <3>8. replaced[k] \in Nat /\ replaced'[k] = replaced[k] + SumFunctionOnSet(failures, R)
      BY <1>2, CountsAreNumbers
    <3> QED
      BY <2>1, <3>6, <3>7, <3>8 DEF S
  <2>2. CASE j # k
    <3>1. \A t \in TasksOf(j) : failures[t] \in Nat /\ failures'[t] = failures[t]
      BY <1>1, <1>2, <2>2, CountsAreNumbers, TasksOfFinite DEF TasksOf
    <3>2. \A a, b : (\A t \in TasksOf(j) : a[t] \in Nat /\ b[t] = a[t])
                      => SumFunctionOnSet(b, TasksOf(j)) = SumFunctionOnSet(a, TasksOf(j))
      BY TasksOfFinite, SumEqual
    <3>3. replaced'[j] = replaced[j]
      BY <1>2, <2>2, CountsAreNumbers
    <3> QED
      BY <3>1, <3>2, <3>3
  <2> QED
    BY <2>1, <2>2
<1> QED
  BY <1>2, <1>3, <1>4 DEF CountsAddUp

\* A job connects: what earlier ones with its descriptor counted is past.
LEMMA CountsAfterConnect ==
  ASSUME TimeTypeOK, AppInv, CountsAddUp, NEW k \in Jobs, JobConnects(k)
  PROVE  CountsAddUp'
<1>1. /\ tasksFailed' = [tasksFailed EXCEPT ![k] = 0]
      /\ tasksSuccess' = [tasksSuccess EXCEPT ![k] = 0]
      /\ past' = [past EXCEPT ![k] = [failed |-> @.failed + tasksFailed[k],
                                     success |-> @.success + tasksSuccess[k]]]
      /\ UNCHANGED <<failures, replaced, reported, d_tasksFailed, d_tasksSuccess>>
  BY DEF JobConnects, OnJobAdded, statistics
<1>2. past \in [Jobs -> [failed : Nat, success : Nat]]
  BY DEF TimeTypeOK
<1>3. ASSUME NEW j \in Jobs
      PROVE  /\ tasksFailed'[j] + past'[j].failed = tasksFailed[j] + past[j].failed
             /\ tasksSuccess'[j] + past'[j].success = tasksSuccess[j] + past[j].success
  <2>1. CASE j = k
    BY <1>1, <1>2, <2>1, CountsAreNumbers
  <2>2. CASE j # k
    BY <1>1, <1>2, <2>2, CountsAreNumbers
  <2> QED
    BY <2>1, <2>2
<1>4. AllFailures' = AllFailures /\ AllSuccesses' = AllSuccesses
  BY <1>3 DEF AllFailures, AllSuccesses
<1> QED
  BY <1>1, <1>4 DEF CountsAddUp

\* After every step all failures are counted.
LEMMA FailuresStep ==
  ASSUME TimeTypeOK, AppInv, CountsAddUp, [TimekeepingNext]_timekeepingVars
  PROVE  CountsAddUp'
<1>1. ASSUME failures' = failures, UNCHANGED <<jobCounts, history, d_tasksFailed, d_tasksSuccess>>
      PROVE  CountsAddUp'
  BY <1>1, CountsKept DEF history
<1>2. CASE Tick
  BY <1>1, <1>2 DEF Tick, vars, statistics
<1>3. CASE OnPeriodicLogStatus
  <2>1. /\ failures' = failures /\ UNCHANGED <<jobCounts, past, replaced>>
        /\ d_tasksFailed' = 0 /\ d_tasksSuccess' = 0
        /\ reported' = [failed |-> reported.failed + d_tasksFailed,
                        success |-> reported.success + d_tasksSuccess]
    BY <1>3 DEF OnPeriodicLogStatus, vars
  <2>2. /\ reported'.failed + d_tasksFailed' = reported.failed + d_tasksFailed
        /\ reported'.success + d_tasksSuccess' = reported.success + d_tasksSuccess
    BY <2>1, CountsAreNumbers
  <2> QED
    BY <2>1, <2>2, CountsKept
<1>4. ASSUME NEW w \in Workers, NEW c \in Connections, WorkerConnects(c, w) PROVE CountsAddUp'
  BY <1>1, <1>4 DEF WorkerConnects, OnGreeting
<1>5. ASSUME NEW w \in Workers, WorkerGoes(w) PROVE CountsAddUp'
  BY <1>1, <1>5 DEF WorkerGoes, OnWorkerClosed
<1>6. ASSUME NEW w \in Workers, NEW sent \in SendOutcomes, WorkerTakesTooLong(w, sent)
      PROVE  CountsAddUp'
  BY <1>1, <1>6 DEF WorkerTakesTooLong, OnWorkerTimeout, statistics
<1>7. ASSUME NEW j \in Jobs, NEW isValid \in BOOLEAN, NEW timed \in Timeouts,
             JobIdentifies(j, isValid, timed)
      PROVE  CountsAddUp'
  BY <1>1, <1>7 DEF JobIdentifies, HandleJobIdentify
<1>8. ASSUME NEW j \in Jobs, NEW sent \in CancelOutcomes(j), JobGoes(j, sent) PROVE CountsAddUp'
  BY <1>1, <1>8 DEF JobGoes, OnJobRemoved
<1>9. ASSUME NEW j \in Jobs, Dispatch(j) PROVE CountsAddUp'
  BY <1>1, <1>9 DEF Dispatch, DispatchTask
<1>10. CASE NothingMeasured
  <2>1. ASSUME NEW w \in Workers, WorkerAsks(w) PROVE failures' = failures
    BY <2>1 DEF WorkerAsks, OnWorkerCommunication, DropAnswer, AnswerWithoutJob,
       AnswerSuccess, AnswerRejected, AnswerRescheduled, AnswerChallenge, HasJob
  <2>2. ASSUME NEW w \in Workers, NEW m \in executing[w], NEW status \in Statuses,
               WorkerAnswer(w, m, status)
        PROVE  failures' = failures
    BY <2>2 DEF WorkerAnswer
  <2>3. DispatchNothing => failures' = failures
    BY DEF DispatchNothing, DispatchFails, DispatchEnd
  <2>4. UNCHANGED vars => failures' = failures
    BY DEF vars
  <2>5. UNCHANGED <<jobCounts, reported, past, d_tasksFailed, d_tasksSuccess>>
    BY <1>10 DEF NothingMeasured, statistics
  <2>6. CASE \E j \in Jobs : \E ts \in BatchesOf(NewTasks(j)) : JobSendsBatch(j, ts)
    BY <2>6, CountsAfterBatch
  <2>7. CASE ~ \E j \in Jobs : \E ts \in BatchesOf(NewTasks(j)) : JobSendsBatch(j, ts)
    <3>1. replaced' = replaced /\ failures' = failures
      BY <1>10, <2>1, <2>2, <2>3, <2>4, <2>7 DEF NothingMeasured
    <3> QED
      BY <1>1, <2>5, <3>1 DEF history
  <2> QED
    BY <2>6, <2>7
<1> QED
  BY <1>2, <1>3, <1>4, <1>5, <1>6, <1>7, <1>8, <1>9, <1>10, CountsAfterEnd, CountsAfterConnect,
     TimeSteps

(***************************************************************************)
(* The theorems.                                                           *)
(***************************************************************************)

\* What holds of the measurements in every state.
TimeInv == TimeTypeOK /\ NotCutShort /\ OwedMatches /\ GoneForgotten /\ CountsAddUp

\* At the start nothing was measured.
LEMMA TimeInitInv == TimekeepingInit => TimeInv
<1> SUFFICES ASSUME TimekeepingInit PROVE TimeInv
  OBVIOUS
<1>1. d_idleTime \in Nat
  BY TimekeepingAssumption DEF TimekeepingInit
<1>2. TimeTypeOK
  BY <1>1 DEF TimekeepingInit, TimeTypeOK, NoActiveTime, NoTaskEnded
<1>3. /\ \A w \in Workers : ~active[w] /\ ~armed[w]
      /\ d_workers = {}
      /\ \A j \in Jobs : d_tasks[j] = <<>>
  BY DEF TimekeepingInit, Init, WorkerInit, QueueInit
<1>4. NotCutShort
  BY <1>3 DEF NotCutShort
<1>5. GoneForgotten
  BY DEF GoneForgotten, TimekeepingInit
<1>6. OwedMatches
  <2>1. ActiveWorkers = {} /\ IdleWorkers = {}
    BY <1>3 DEF ActiveWorkers, IdleWorkers
  <2>2. RunTime = 0 /\ IdleTime = 0
    BY <2>1, SumEmpty DEF RunTime, IdleTime
  <2>3. \A w \in Workers : Worked[w] = 0
    BY NothingWorked DEF Worked, TimekeepingInit
  <2>4. WorkTime = 0
    <3> HIDE DEF Worked
    <3> QED
      BY <2>3, SumZero, Finite DEF WorkTime
  <2>5. ChargedTime = 0
    <3>1. \A u \in Users : d_activeUsers[u] = 0
      BY DEF TimekeepingInit
    <3> QED
      BY <3>1, SumZero, Finite DEF ChargedTime
  <2>6. owed.idle = d_idleTime /\ owed.active = 0 /\ owed.user = 0
    BY DEF TimekeepingInit
  <2> QED
    BY <1>1, <2>2, <2>4, <2>5, <2>6 DEF OwedMatches
<1>7. CountsAddUp
  <2>1. /\ failures = [t \in Tasks |-> 0] /\ tasksFailed = NoActiveTime
        /\ tasksSuccess = NoActiveTime /\ past = [j \in Jobs |-> NoTaskEnded]
        /\ replaced = [j \in Jobs |-> 0] /\ reported = NoTaskEnded
        /\ d_tasksFailed = 0 /\ d_tasksSuccess = 0
    BY DEF TimekeepingInit, Init
  <2>2. \A j \in Jobs : AllFailures[j] = 0 /\ AllSuccesses[j] = 0
    <3>1. \A j \in Jobs : /\ tasksFailed[j] = 0 /\ tasksSuccess[j] = 0
                         /\ past[j].failed = 0 /\ past[j].success = 0
      BY <2>1 DEF NoActiveTime, NoTaskEnded
    <3>2. 0 + 0 = 0
      OBVIOUS
    <3> QED
      BY <3>1, <3>2, Zenon DEF AllFailures, AllSuccesses
  <2>3. SumFunctionOnSet(AllFailures, Jobs) = 0 /\ SumFunctionOnSet(AllSuccesses, Jobs) = 0
    BY <2>2, Finite, SumZero
  <2>4. ASSUME NEW j \in Jobs PROVE SumFunctionOnSet(failures, TasksOf(j)) = 0
    <3>1. \A t \in TasksOf(j) : failures[t] = 0
      BY <2>1, TasksOfFinite
    <3> QED
      BY <3>1, TasksOfFinite, SumZero
  <2> QED
    BY <2>1, <2>2, <2>3, <2>4 DEF CountsAddUp, NoTaskEnded
<1> QED
  BY <1>2, <1>4, <1>5, <1>6, <1>7 DEF TimeInv

\* Every step keeps it.
LEMMA TimeStepInv == TimeInv /\ AppInv /\ AppInv' /\ [TimekeepingNext]_timekeepingVars => TimeInv'
BY TimeTypesStep, NotCutShortStep, OwedStep, GoneForgottenStep, FailuresStep DEF TimeInv

\* What the master measures goes with what it does, in every state.
LEMMA TimeInvariant == TimekeepingSpec => [](TimeInv /\ AppInv)
<1>1. TimekeepingInit => TimeInv /\ AppInv
  BY TimeInitInv, AppInitInv DEF TimekeepingInit
<1>2. TimeInv /\ AppInv /\ [TimekeepingNext]_timekeepingVars => (TimeInv /\ AppInv)'
  BY TimeStepInv, AppStepInv, TimeStepIsMasterStep
<1> QED
  BY <1>1, <1>2, PTL DEF TimekeepingSpec

\* A run is only ever cut off after the time limit of its job, in whole seconds
\* (worker.cc, Activate and OnTimeout): the timeout source of an earlier run is
\* gone when the next one begins, and the timer that shows how long it took
\* starts when the limit does.
THEOREM RunsNotCutShort == TimekeepingSpec => []NotCutShort
<1>1. TimeInv => NotCutShort
  BY DEF TimeInv
<1> QED
  BY <1>1, TimeInvariant, PTL

\* Every moment of a worker is in the log once, as idle or as active, or will be
\* (worker.cc, Deactivate, application.cc, OnDispatch and OnPeriodicLogStatus):
\* what is not in it yet is in the sums of the next report or on the timer of
\* the worker, for any number of workers and jobs.
THEOREM WorkerTimeIsCountedOnce == TimekeepingSpec => []WorkerTimeCountedOnce
<1>1. TimeInv /\ AppInv => WorkerTimeCountedOnce
  <2> SUFFICES ASSUME TimeInv, AppInv PROVE WorkerTimeCountedOnce
    OBVIOUS
  <2>1. /\ owed.idle = d_idleTime + SumFunctionOnSet(elapsed, IdleWorkers)
        /\ owed.active = WorkTime + SumFunctionOnSet(elapsed, ActiveWorkers)
    BY DEF TimeInv, OwedMatches, IdleTime, RunTime
  <2>2. SumFunction([w \in Workers |-> SumFunction(totalActiveTime[w])]) = WorkTime
    BY Zenon DEF SumFunction, WorkTime, Worked
  <2> QED
    BY <2>1, <2>2, Zenon DEF WorkerTimeCountedOnce
<1> QED
  BY <1>1, TimeInvariant, PTL

\* A user is charged once for each run of the jobs in its name that ends in an
\* answer (application.cc, HandleTaskSuccess and HandleTaskFailure), before the
\* timer of the worker is stopped, and for nothing else.
THEOREM UserTimeIsCountedOnce == TimekeepingSpec => []UserTimeCountedOnce
<1>1. TimeInv => UserTimeCountedOnce
  <2> SUFFICES ASSUME TimeInv PROVE UserTimeCountedOnce
    OBVIOUS
  <2>1. OwedMatches /\ DOMAIN d_activeUsers = Users
    BY DEF TimeInv, TimeTypeOK
  <2>2. SumFunction(d_activeUsers) = ChargedTime
    BY <2>1 DEF SumFunction, ChargedTime
  <2> QED
    BY <2>1, <2>2 DEF OwedMatches, UserTimeCountedOnce, RunTime
<1> QED
  BY <1>1, TimeInvariant, PTL

\* Every failure of a task is counted once, for the connection that has the
\* task and for the master (application.cc, HandleTaskFailure, and task.cc),
\* whatever comes between: reports, retries, jobs that go, descriptors and tasks
\* that are used again.  So is every success.
THEOREM FailuresAreCounted == TimekeepingSpec => []FailuresCounted
<1>1. TimeInv => FailuresCounted
  BY CountsMatch DEF TimeInv
<1> QED
  BY <1>1, TimeInvariant, PTL

==============================================================================
