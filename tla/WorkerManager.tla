---------------------------- MODULE WorkerManager ----------------------------
(***************************************************************************)
(* The connected workers (workermanager.cc) and the state of one worker    *)
(* (worker.cc).  A worker object is the descriptor of its connection, as   *)
(* in Communicator::Id; a descriptor that was closed may be used again.    *)
(***************************************************************************)
EXTENDS Task, Functions, EraseRemove

CONSTANTS
  Workers,      \* worker ids (descriptors)
  Connections,  \* the addresses workers announce themselves with
  NoWorker,     \* no entry in d_workersHash
  NoTask        \* a worker that never had a task

ASSUME WorkerManagerAssumption ==
  /\ IsFiniteSet(Workers)
  /\ NoWorker \notin Workers
  /\ NoTask \notin Tasks

VARIABLES
  d_workers,        \* the registered workers
  d_workersHash,    \* the worker registered under each address
  d_idleWorkers,    \* deque of the workers that wait for a task
  d_activeWorkers,  \* the workers that have a task
  active,           \* Worker::Data::active
  task,             \* Worker::Data::task, stale once the worker is inactive
  armed             \* is the timeout source of the worker installed?

workerVars ==
  <<d_workers, d_workersHash, d_idleWorkers, d_activeWorkers, active, task, armed>>

WorkerTypeOK ==
  /\ d_workers \in SUBSET Workers
  /\ d_workersHash \in [Connections -> Workers \cup {NoWorker}]
  /\ d_idleWorkers \in Seq(Workers)
  /\ d_activeWorkers \in SUBSET Workers
  /\ active \in [Workers -> BOOLEAN]
  /\ task \in [Workers -> Tasks \cup {NoTask}]
  /\ armed \in [Workers -> BOOLEAN]

WorkerInit ==
  /\ d_workers = {}
  /\ d_workersHash = [c \in Connections |-> NoWorker]
  /\ d_idleWorkers = <<>>
  /\ d_activeWorkers = {}
  /\ active = [w \in Workers |-> FALSE]
  /\ task = [w \in Workers |-> NoTask]
  /\ armed = [w \in Workers |-> FALSE]

\* Is a worker registered under this address?
Registered(c) == d_workersHash[c] # NoWorker

\* Faulty: an address that is registered is connected to once more.
AddWorkerAgain(c, w) ==
  /\ w \notin d_workers
  /\ d_workersHash' = [d_workersHash EXCEPT ![c] = w]
  /\ d_workers' = d_workers \cup {w}
  /\ d_idleWorkers' = Append(d_idleWorkers, w)
  /\ task' = [task EXCEPT ![w] = NoTask]
  /\ UNCHANGED <<d_activeWorkers, active, armed>>

\* Add(connection) that connects and gets descriptor w.
AddWorker(c, w) ==
  /\ ~Registered(c)
  /\ w \notin d_workers
  /\ d_workersHash' = [d_workersHash EXCEPT ![c] = w]
  /\ d_workers' = d_workers \cup {w}
  /\ d_idleWorkers' = Append(d_idleWorkers, w)
  /\ task' = [task EXCEPT ![w] = NoTask]
  /\ UNCHANGED <<d_activeWorkers, active, armed>>

\* Faulty: the worker stays in the deque of idle workers.
RemoveWorkerStaysIdle(w) ==
  /\ w \in d_workers
  /\ d_activeWorkers' = d_activeWorkers \ {w}
  /\ d_workers' = d_workers \ {w}
  /\ d_workersHash' = [c \in Connections |->
       IF d_workersHash[c] = w THEN NoWorker ELSE d_workersHash[c]]
  /\ active' = [active EXCEPT ![w] = FALSE]
  /\ armed' = [armed EXCEPT ![w] = FALSE]
  /\ UNCHANGED <<d_idleWorkers, task>>

\* RemoveWorker(worker): out of every container; a task in progress ends,
\* but the manager no longer listens, so the worker is not made idle again.
RemoveWorker(w) ==
  /\ w \in d_workers
  /\ d_activeWorkers' = d_activeWorkers \ {w}
  /\ d_idleWorkers' = Without(d_idleWorkers, w)
  /\ d_workers' = d_workers \ {w}
  /\ d_workersHash' = [c \in Connections |->
       IF d_workersHash[c] = w THEN NoWorker ELSE d_workersHash[c]]
  /\ active' = [active EXCEPT ![w] = FALSE]
  /\ armed' = [armed EXCEPT ![w] = FALSE]
  /\ UNCHANGED task

\* Idle(worker) hands out the front of the deque and moves it to the back.
Rotated == Append(Tail(d_idleWorkers), Head(d_idleWorkers))

RotateIdle ==
  /\ d_idleWorkers # <<>>
  /\ d_idleWorkers' = Rotated
  /\ UNCHANGED <<d_workers, d_workersHash, d_activeWorkers, active, task, armed>>

\* Idle(worker), and Activate(task, timeout) whose Send succeeds: the manager
\* hears of it and moves the worker to the active ones.
Activate(t, timed) ==
  LET w == Head(d_idleWorkers)
  IN /\ d_idleWorkers # <<>>
     /\ ~active[w]
     /\ task' = [task EXCEPT ![w] = t]
     /\ active' = [active EXCEPT ![w] = TRUE]
     /\ armed' = [armed EXCEPT ![w] = timed]
     /\ d_activeWorkers' = d_activeWorkers \cup {w}
     /\ d_idleWorkers' = Without(Rotated, w)
     /\ UNCHANGED <<d_workers, d_workersHash>>

\* Idle(worker), and Activate(task, timeout) that fails: because Send did, or
\* because the worker is active.  The task is stored before Send is tried.
ActivateFails(t) ==
  LET w == Head(d_idleWorkers)
  IN /\ d_idleWorkers # <<>>
     /\ task' = IF active[w] THEN task ELSE [task EXCEPT ![w] = t]
     /\ d_idleWorkers' = Rotated
     /\ UNCHANGED <<d_workers, d_workersHash, d_activeWorkers, active, armed>>

\* Faulty: the timeout source is left installed.
DeactivateAllStayArmed(ws) ==
  /\ active' = [w \in Workers |-> active[w] /\ w \notin Range(ws)]
  /\ d_activeWorkers' = d_activeWorkers \ Range(ws)
  /\ d_idleWorkers' = d_idleWorkers \o ws
  /\ UNCHANGED <<d_workers, d_workersHash, task, armed>>

\* Faulty: the workers are put in front.
DeactivateAllInFront(ws) ==
  /\ active' = [w \in Workers |-> active[w] /\ w \notin Range(ws)]
  /\ armed' = [w \in Workers |-> armed[w] /\ w \notin Range(ws)]
  /\ d_activeWorkers' = d_activeWorkers \ Range(ws)
  /\ d_idleWorkers' = ws \o d_idleWorkers
  /\ UNCHANGED <<d_workers, d_workersHash, task>>

\* Deactivate() on each of the active workers ws, in this order.
DeactivateAll(ws) ==
  /\ active' = [w \in Workers |-> active[w] /\ w \notin Range(ws)]
  /\ armed' = [w \in Workers |-> armed[w] /\ w \notin Range(ws)]
  /\ d_activeWorkers' = d_activeWorkers \ Range(ws)
  /\ d_idleWorkers' = d_idleWorkers \o ws
  /\ UNCHANGED <<d_workers, d_workersHash, task>>

Deactivate(w) == DeactivateAll(<<w>>)

\* The timeout source of w fired: once OnTimeout returns it is gone, whether
\* or not the worker was cancelled.
DisarmTimeout(w) ==
  /\ armed' = [armed EXCEPT ![w] = FALSE]
  /\ UNCHANGED <<d_workers, d_workersHash, d_idleWorkers, d_activeWorkers, active, task>>

(***************************************************************************)
(* The manager on its own, with its users free to call it in any order;    *)
(* they deactivate active workers only, each once.                         *)
(***************************************************************************)
ActiveLists ==
  {ws \in UNION {[1 .. n -> d_activeWorkers] : n \in 0 .. Cardinality(Workers)} :
     IsInjective(ws)}

WorkerNext ==
  \/ \E c \in Connections, w \in Workers : AddWorker(c, w)
  \/ \E w \in Workers : RemoveWorker(w) \/ DisarmTimeout(w)
  \/ \E t \in Tasks : ActivateFails(t) \/ \E timed \in BOOLEAN : Activate(t, timed)
  \/ \E ws \in ActiveLists : DeactivateAll(ws)
  \/ RotateIdle

WorkerSpec == WorkerInit /\ [][WorkerNext]_workerVars

\* Every registered worker is either in the idle deque, once, or among the
\* active workers, and the manager's view of who is active is the worker's
\* own: no worker is given two tasks, none is forgotten.
WorkerPartition ==
  /\ Range(d_idleWorkers) = d_workers \ d_activeWorkers
  /\ IsInjective(d_idleWorkers)
  /\ d_activeWorkers \subseteq d_workers
  /\ d_activeWorkers = {w \in Workers : active[w]}

\* Each registered worker is reachable under exactly one address, so that a
\* repeated greeting never connects a worker twice, and an address is free
\* again once its worker is gone.
HashMatches ==
  /\ Range(d_workersHash) \ {NoWorker} = d_workers
  /\ \A c, e \in Connections :
       Registered(c) /\ d_workersHash[c] = d_workersHash[e] => c = e

\* A timeout source is never left behind by a run that is over: it would
\* cancel the worker's next task.
TimerOnlyWhenActive == \A w \in Workers : armed[w] => active[w]

\* An idle worker is never overtaken by one that became idle after it: only
\* the front of the deque, which Idle hands out, goes behind the others.  So each
\* idle worker gets its turn (workermanager.cc, Idle and OnWorkerDeactivated),
\* and one that nothing can be sent to does not keep the others from theirs.
IdlePlaceKept ==
  [][\A w \in Range(d_idleWorkers) \cap Range(d_idleWorkers') :
       \/ Before(d_idleWorkers', w) \subseteq Before(d_idleWorkers, w)
       \/ /\ w = Head(d_idleWorkers)
          /\ Before(d_idleWorkers', w) = Range(d_idleWorkers') \ {w}]_workerVars

==============================================================================
