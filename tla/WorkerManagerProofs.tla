------------------------- MODULE WorkerManagerProofs -------------------------
(***************************************************************************)
(* The worker manager keeps every registered worker in exactly one of its  *)
(* two containers, in whatever order it is called (WorkerManager,          *)
(* WorkerSpec).                                                            *)
(***************************************************************************)
EXTENDS WorkerManager, OperatorProofs

\* An active worker has a task, not just a place for one.
ActiveHasTask == \A w \in Workers : active[w] => task[w] \in Tasks

\* The inductive invariant.
WorkerInv ==
  /\ WorkerTypeOK
  /\ ActiveHasTask
  /\ WorkerPartition
  /\ HashMatches
  /\ TimerOnlyWhenActive

(***************************************************************************)
(* One lemma per operation.                                                *)
(***************************************************************************)

\* A new worker is in the idle deque only, under an address of its own.
LEMMA AddWorkerInv ==
  ASSUME WorkerInv, NEW c \in Connections, NEW w \in Workers, AddWorker(c, w)
  PROVE  WorkerInv'
<1> USE DEF WorkerInv
<1>1. /\ ~Registered(c) /\ w \notin d_workers
      /\ d_workersHash' = [d_workersHash EXCEPT ![c] = w]
      /\ d_workers' = d_workers \cup {w}
      /\ d_idleWorkers' = Append(d_idleWorkers, w)
      /\ task' = [task EXCEPT ![w] = NoTask]
      /\ d_activeWorkers' = d_activeWorkers /\ active' = active /\ armed' = armed
  BY DEF AddWorker
<1>2. d_idleWorkers \in Seq(Workers) /\ w \notin Range(d_idleWorkers)
  BY <1>1 DEF WorkerTypeOK, WorkerPartition
<1>3. /\ d_idleWorkers' \in Seq(Workers)
      /\ Range(d_idleWorkers') = Range(d_idleWorkers) \cup {w}
      /\ IsInjective(d_idleWorkers')
  BY <1>1, <1>2, RangeOfAppend DEF WorkerPartition
<1>4. WorkerTypeOK'
  BY <1>1, <1>3 DEF WorkerTypeOK
<1>5. ~active[w]
  BY <1>1 DEF WorkerTypeOK, WorkerPartition
<1>6. ActiveHasTask'
  BY <1>1, <1>5 DEF ActiveHasTask, WorkerTypeOK
<1>7. WorkerPartition'
  BY <1>1, <1>3 DEF WorkerPartition
<1>8. HashMatches'
  <2>1. d_workersHash'[c] = w /\ \A e \in Connections \ {c} : d_workersHash'[e] = d_workersHash[e]
    BY <1>1 DEF WorkerTypeOK
  <2>2. \A e \in Connections : d_workersHash[e] # w
    BY <1>1, WorkerManagerAssumption DEF HashMatches, WorkerTypeOK, Range
  <2>3. d_workersHash[c] = NoWorker
    BY <1>1 DEF Registered
  <2>4. \A e \in Connections : d_workersHash[e] # NoWorker <=> d_workersHash[e] \in d_workers
    BY WorkerManagerAssumption DEF HashMatches, WorkerTypeOK, Range
  <2>5. DOMAIN d_workersHash = Connections /\ DOMAIN d_workersHash' = Connections
    BY <1>1 DEF WorkerTypeOK
  <2>6. Range(d_workersHash') \ {NoWorker} = d_workers'
    <3>1. ASSUME NEW v \in d_workers'
          PROVE  v \in Range(d_workersHash') \ {NoWorker}
      <4>1. CASE v = w
        BY <2>1, <2>5, <4>1, WorkerManagerAssumption DEF Range
      <4>2. CASE v # w
        <5>1. PICK e \in Connections : d_workersHash[e] = v /\ v # NoWorker
          BY <1>1, <2>5, <3>1, <4>2 DEF HashMatches, Range
        <5> QED
          BY <2>1, <2>3, <2>5, <5>1 DEF Range
      <4> QED
        BY <4>1, <4>2
    <3>2. ASSUME NEW v \in Range(d_workersHash') \ {NoWorker}
          PROVE  v \in d_workers'
      <4>1. PICK e \in Connections : d_workersHash'[e] = v
        BY <2>5 DEF Range
      <4> QED
        BY <1>1, <2>1, <2>4, <4>1
    <3> QED
      BY <3>1, <3>2
  <2>7. ASSUME NEW e \in Connections, NEW f \in Connections,
               d_workersHash'[e] # NoWorker, d_workersHash'[e] = d_workersHash'[f]
        PROVE  e = f
    BY <2>1, <2>2, <2>7 DEF HashMatches, Registered
  <2> QED
    BY <2>6, <2>7 DEF HashMatches, Registered
<1>9. TimerOnlyWhenActive'
  BY <1>1 DEF TimerOnlyWhenActive
<1> QED
  BY <1>4, <1>6, <1>7, <1>8, <1>9

\* A worker that is removed is in no container and under no address.
LEMMA RemoveWorkerInv ==
  ASSUME WorkerInv, NEW w \in Workers, RemoveWorker(w)
  PROVE  WorkerInv'
<1> USE DEF WorkerInv
<1>1. /\ w \in d_workers
      /\ d_activeWorkers' = d_activeWorkers \ {w}
      /\ d_idleWorkers' = Without(d_idleWorkers, w)
      /\ d_workers' = d_workers \ {w}
      /\ d_workersHash' = [c \in Connections |->
           IF d_workersHash[c] = w THEN NoWorker ELSE d_workersHash[c]]
      /\ active' = [active EXCEPT ![w] = FALSE]
      /\ armed' = [armed EXCEPT ![w] = FALSE]
      /\ task' = task
  BY DEF RemoveWorker
<1>2. /\ d_idleWorkers' \in Seq(Workers)
      /\ Range(d_idleWorkers') = Range(d_idleWorkers) \ {w}
      /\ IsInjective(d_idleWorkers')
  BY <1>1, WithoutProperties DEF WorkerTypeOK, WorkerPartition
<1>3. WorkerTypeOK'
  BY <1>1, <1>2 DEF WorkerTypeOK
<1>4. \A v \in Workers : active'[v] <=> active[v] /\ v # w
  BY <1>1 DEF WorkerTypeOK
<1>5. ActiveHasTask'
  BY <1>1, <1>4 DEF ActiveHasTask
<1>6. WorkerPartition'
  BY <1>1, <1>2, <1>4 DEF WorkerPartition
<1>7. HashMatches'
  <2>1. \A c \in Connections : d_workersHash'[c] =
          IF d_workersHash[c] = w THEN NoWorker ELSE d_workersHash[c]
    BY <1>1
  <2>2. DOMAIN d_workersHash = Connections /\ DOMAIN d_workersHash' = Connections
    BY <1>1 DEF WorkerTypeOK
  <2>3. Range(d_workersHash') \ {NoWorker} = d_workers'
    <3>1. ASSUME NEW v \in d_workers'
          PROVE  v \in Range(d_workersHash') \ {NoWorker}
      <4>1. PICK e \in Connections : d_workersHash[e] = v /\ v # NoWorker
        BY <1>1, <2>2, <3>1 DEF HashMatches, Range
      <4> QED
        BY <1>1, <2>1, <2>2, <3>1, <4>1 DEF Range
    <3>2. ASSUME NEW v \in Range(d_workersHash') \ {NoWorker}
          PROVE  v \in d_workers'
      <4>1. PICK e \in Connections : d_workersHash'[e] = v
        BY <2>2 DEF Range
      <4>2. d_workersHash[e] = v /\ v # w
        BY <2>1, <3>2, <4>1
      <4>3. v \in Range(d_workersHash) \ {NoWorker}
        BY <2>2, <3>2, <4>2 DEF Range
      <4> QED
        BY <1>1, <4>2, <4>3 DEF HashMatches
    <3> QED
      BY <3>1, <3>2
  <2>4. ASSUME NEW e \in Connections, NEW f \in Connections,
               d_workersHash'[e] # NoWorker, d_workersHash'[e] = d_workersHash'[f]
        PROVE  e = f
    BY <2>1, <2>4 DEF HashMatches, Registered
  <2> QED
    BY <2>3, <2>4 DEF HashMatches, Registered
<1>8. TimerOnlyWhenActive'
  <2>1. \A v \in Workers : armed'[v] <=> armed[v] /\ v # w
    BY <1>1 DEF WorkerTypeOK
  <2> QED
    BY <1>4, <2>1 DEF TimerOnlyWhenActive
<1> QED
  BY <1>3, <1>5, <1>6, <1>7, <1>8

\* Handing out the front of the deque only changes the order of the deque.
LEMMA RotatedProperties ==
  ASSUME WorkerInv, d_idleWorkers # <<>>
  PROVE  /\ Head(d_idleWorkers) \in Workers
         /\ Head(d_idleWorkers) \in Range(d_idleWorkers)
         /\ Rotated \in Seq(Workers)
         /\ Range(Rotated) = Range(d_idleWorkers)
         /\ IsInjective(Rotated)
<1> DEFINE s == d_idleWorkers
           h == Head(s)
           l == Tail(s)
<1>1. s \in Seq(Workers) /\ IsInjective(s) /\ s # <<>>
  BY DEF WorkerInv, WorkerTypeOK, WorkerPartition
<1>2. Rotated = Append(l, h)
  BY DEF Rotated
<1> HIDE DEF s
<1>3. h \in Workers
  BY <1>1, HeadTailProperties
<1>4. /\ l \in Seq(Workers)
      /\ Range(s) = Range(l) \cup {h}
      /\ IsInjective(l) /\ h \notin Range(l)
  BY <1>1, RangeOfTail
<1> HIDE DEF h, l
<1>5. /\ Append(l, h) \in Seq(Workers)
      /\ Range(Append(l, h)) = Range(l) \cup {h}
      /\ IsInjective(Append(l, h))
  BY <1>3, <1>4, RangeOfAppend
<1> QED
  BY <1>2, <1>3, <1>4, <1>5 DEF s, h

\* Idle changes neither who is idle nor who is active.
LEMMA RotateIdleInv ==
  ASSUME WorkerInv, RotateIdle
  PROVE  WorkerInv'
<1>1. /\ d_idleWorkers' = Rotated
      /\ UNCHANGED <<d_workers, d_workersHash, d_activeWorkers, active, task, armed>>
  BY DEF RotateIdle
<1>2. /\ d_idleWorkers' \in Seq(Workers)
      /\ Range(d_idleWorkers') = Range(d_idleWorkers)
      /\ IsInjective(d_idleWorkers')
  BY <1>1, RotatedProperties DEF RotateIdle
<1> QED
  BY <1>1, <1>2
  DEF WorkerInv, WorkerTypeOK, ActiveHasTask, WorkerPartition, HashMatches, Registered,
      TimerOnlyWhenActive

\* A failed activation leaves the worker idle; the stored task is stale.
LEMMA ActivateFailsInv ==
  ASSUME WorkerInv, NEW t \in Tasks, ActivateFails(t)
  PROVE  WorkerInv'
<1> DEFINE w == Head(d_idleWorkers)
<1>1. /\ d_idleWorkers # <<>>
      /\ task' = IF active[w] THEN task ELSE [task EXCEPT ![w] = t]
      /\ d_idleWorkers' = Rotated
      /\ UNCHANGED <<d_workers, d_workersHash, d_activeWorkers, active, armed>>
  BY DEF ActivateFails
<1>2. /\ d_idleWorkers' \in Seq(Workers)
      /\ Range(d_idleWorkers') = Range(d_idleWorkers)
      /\ IsInjective(d_idleWorkers')
      /\ w \in Workers
  BY <1>1, RotatedProperties
<1> HIDE DEF w
<1>3. task' \in [Workers -> Tasks \cup {NoTask}]
  BY <1>1, <1>2 DEF WorkerInv, WorkerTypeOK
<1>4. ActiveHasTask'
  BY <1>1, <1>2 DEF WorkerInv, WorkerTypeOK, ActiveHasTask
<1>5. WorkerTypeOK'
  BY <1>1, <1>2, <1>3 DEF WorkerInv, WorkerTypeOK
<1> QED
  BY <1>1, <1>2, <1>4, <1>5
  DEF WorkerInv, WorkerPartition, HashMatches, Registered, TimerOnlyWhenActive

\* An activated worker moves from the idle deque to the active workers.
LEMMA ActivateInv ==
  ASSUME WorkerInv, NEW t \in Tasks, NEW timed \in BOOLEAN, Activate(t, timed)
  PROVE  WorkerInv'
<1> DEFINE w == Head(d_idleWorkers)
<1>1. /\ d_idleWorkers # <<>>
      /\ ~active[w]
      /\ task' = [task EXCEPT ![w] = t]
      /\ active' = [active EXCEPT ![w] = TRUE]
      /\ armed' = [armed EXCEPT ![w] = timed]
      /\ d_activeWorkers' = d_activeWorkers \cup {w}
      /\ d_idleWorkers' = Without(Rotated, w)
      /\ d_workers' = d_workers /\ d_workersHash' = d_workersHash
  BY DEF Activate
<1>2. /\ Rotated \in Seq(Workers)
      /\ Range(Rotated) = Range(d_idleWorkers)
      /\ IsInjective(Rotated)
      /\ w \in Workers /\ w \in Range(d_idleWorkers)
  BY <1>1, RotatedProperties
<1> HIDE DEF w
<1>3. /\ d_idleWorkers' \in Seq(Workers)
      /\ Range(d_idleWorkers') = Range(d_idleWorkers) \ {w}
      /\ IsInjective(d_idleWorkers')
  BY <1>1, <1>2, WithoutProperties
<1>4. WorkerTypeOK'
  BY <1>1, <1>2, <1>3 DEF WorkerInv, WorkerTypeOK
<1>5. /\ \A v \in Workers : active'[v] <=> active[v] \/ v = w
      /\ \A v \in Workers : armed'[v] => armed[v] \/ v = w
      /\ \A v \in Workers : task'[v] = IF v = w THEN t ELSE task[v]
  BY <1>1, <1>2 DEF WorkerInv, WorkerTypeOK
<1>6. ActiveHasTask'
  BY <1>5 DEF WorkerInv, ActiveHasTask
<1>7. WorkerPartition'
  BY <1>1, <1>2, <1>3, <1>5 DEF WorkerInv, WorkerPartition
<1>8. HashMatches' /\ TimerOnlyWhenActive'
  BY <1>1, <1>5 DEF WorkerInv, HashMatches, Registered, TimerOnlyWhenActive
<1> QED
  BY <1>4, <1>6, <1>7, <1>8 DEF WorkerInv

\* Deactivated workers move from the active workers to the idle deque; they
\* have to be active, and named once each.
LEMMA DeactivateAllInv ==
  ASSUME WorkerInv, NEW ws \in Seq(Workers), IsInjective(ws),
         Range(ws) \subseteq d_activeWorkers, DeactivateAll(ws)
  PROVE  WorkerInv'
<1>1. /\ active' = [w \in Workers |-> active[w] /\ w \notin Range(ws)]
      /\ armed' = [w \in Workers |-> armed[w] /\ w \notin Range(ws)]
      /\ d_activeWorkers' = d_activeWorkers \ Range(ws)
      /\ d_idleWorkers' = d_idleWorkers \o ws
      /\ d_workers' = d_workers /\ d_workersHash' = d_workersHash /\ task' = task
  BY DEF DeactivateAll
<1>2. d_idleWorkers \in Seq(Workers) /\ Range(d_idleWorkers) \cap Range(ws) = {}
  BY DEF WorkerInv, WorkerTypeOK, WorkerPartition
<1>3. /\ d_idleWorkers' \in Seq(Workers)
      /\ Range(d_idleWorkers') = Range(d_idleWorkers) \cup Range(ws)
      /\ IsInjective(d_idleWorkers')
  BY <1>1, <1>2, ConcatProperties, RangeConcatenation, InjectiveConcat
  DEF WorkerInv, WorkerPartition
<1>4. WorkerTypeOK'
  BY <1>1, <1>3 DEF WorkerInv, WorkerTypeOK
<1>5. ActiveHasTask' /\ TimerOnlyWhenActive'
  BY <1>1 DEF WorkerInv, WorkerTypeOK, ActiveHasTask, TimerOnlyWhenActive
<1>6. WorkerPartition'
  BY <1>1, <1>3 DEF WorkerInv, WorkerTypeOK, WorkerPartition
<1>7. HashMatches'
  BY <1>1 DEF WorkerInv, HashMatches, Registered
<1> QED
  BY <1>4, <1>5, <1>6, <1>7 DEF WorkerInv

\* A timeout source that has fired is gone.
LEMMA DisarmTimeoutInv ==
  ASSUME WorkerInv, NEW w \in Workers, DisarmTimeout(w)
  PROVE  WorkerInv'
<1>1. /\ armed' = [armed EXCEPT ![w] = FALSE]
      /\ UNCHANGED <<d_workers, d_workersHash, d_idleWorkers, d_activeWorkers, active, task>>
  BY DEF DisarmTimeout
<1> QED
  BY <1>1
  DEF WorkerInv, WorkerTypeOK, ActiveHasTask, WorkerPartition, HashMatches, Registered,
      TimerOnlyWhenActive

(***************************************************************************)
(* The theorems.                                                           *)
(***************************************************************************)

\* The manager starts without workers.
LEMMA WorkerInitInv == WorkerInit => WorkerInv
<1> SUFFICES ASSUME WorkerInit PROVE WorkerInv
  OBVIOUS
<1>1. d_idleWorkers \in Seq(Workers) /\ DOMAIN d_idleWorkers = {}
  BY EmptySeq DEF WorkerInit
<1>2. WorkerTypeOK
  BY <1>1 DEF WorkerInit, WorkerTypeOK
<1>3. WorkerPartition
  BY <1>1 DEF WorkerInit, WorkerPartition, Range, IsInjective
<1>4. HashMatches
  BY DEF WorkerInit, HashMatches, Registered, Range
<1> QED
  BY <1>2, <1>3, <1>4 DEF WorkerInit, WorkerInv, ActiveHasTask, TimerOnlyWhenActive

\* The lists of active workers that users deactivate are sequences.
LEMMA ActiveListsAreSeqs ==
  ASSUME WorkerInv, NEW ws \in ActiveLists
  PROVE  ws \in Seq(Workers) /\ ws \in Seq(d_activeWorkers)
<1>1. PICK n \in 0 .. Cardinality(Workers) : ws \in [1 .. n -> d_activeWorkers]
  BY DEF ActiveLists
<1>2. n \in Nat
  BY WorkerManagerAssumption, FS_CardinalityType
<1>3. d_activeWorkers \subseteq Workers
  BY DEF WorkerInv, WorkerTypeOK
<1> QED
  BY <1>1, <1>2, <1>3

\* Every call of the manager keeps the invariant.
LEMMA WorkerStepInv == WorkerInv /\ [WorkerNext]_workerVars => WorkerInv'
<1> SUFFICES ASSUME WorkerInv, [WorkerNext]_workerVars PROVE WorkerInv'
  OBVIOUS
<1>1. ASSUME NEW c \in Connections, NEW w \in Workers, AddWorker(c, w) PROVE WorkerInv'
  BY <1>1, AddWorkerInv
<1>2. ASSUME NEW w \in Workers, RemoveWorker(w) PROVE WorkerInv'
  BY <1>2, RemoveWorkerInv
<1>3. ASSUME NEW w \in Workers, DisarmTimeout(w) PROVE WorkerInv'
  BY <1>3, DisarmTimeoutInv
<1>4. ASSUME NEW t \in Tasks, ActivateFails(t) PROVE WorkerInv'
  BY <1>4, ActivateFailsInv
<1>5. ASSUME NEW t \in Tasks, NEW timed \in BOOLEAN, Activate(t, timed) PROVE WorkerInv'
  BY <1>5, ActivateInv
<1>6. ASSUME NEW ws \in ActiveLists, DeactivateAll(ws) PROVE WorkerInv'
  <2>4. ws \in Seq(Workers) /\ ws \in Seq(d_activeWorkers)
    BY ActiveListsAreSeqs
  <2>5. Range(ws) \subseteq d_activeWorkers
    BY <2>4, RangeOfSeq
  <2>6. IsInjective(ws)
    BY DEF ActiveLists
  <2> QED
    BY <1>6, <2>4, <2>5, <2>6, DeactivateAllInv
<1>7. ASSUME RotateIdle PROVE WorkerInv'
  BY <1>7, RotateIdleInv
<1>8. ASSUME UNCHANGED workerVars PROVE WorkerInv'
  BY <1>8
  DEF workerVars, WorkerInv, WorkerTypeOK, ActiveHasTask, WorkerPartition, HashMatches,
      Registered, TimerOnlyWhenActive
<1> QED
  BY <1>1, <1>2, <1>3, <1>4, <1>5, <1>6, <1>7, <1>8 DEF WorkerNext

\* The worker manager is type correct.
THEOREM WorkerTypeCorrect == WorkerSpec => []WorkerTypeOK
<1>1. WorkerInv => WorkerTypeOK
  BY DEF WorkerInv
<1> QED
  BY <1>1, WorkerInitInv, WorkerStepInv, PTL DEF WorkerSpec

\* No worker is given two tasks, and none is forgotten: each registered worker
\* is idle, once, or active, in the view of the manager and in its own.
THEOREM WorkersPartitioned == WorkerSpec => []WorkerPartition
<1>1. WorkerInv => WorkerPartition
  BY DEF WorkerInv
<1> QED
  BY <1>1, WorkerInitInv, WorkerStepInv, PTL DEF WorkerSpec

\* Each registered worker is reachable under exactly one address.
THEOREM AddressesMatch == WorkerSpec => []HashMatches
<1>1. WorkerInv => HashMatches
  BY DEF WorkerInv
<1> QED
  BY <1>1, WorkerInitInv, WorkerStepInv, PTL DEF WorkerSpec

\* No timeout source survives the run it was installed for.
THEOREM TimersBelongToRuns == WorkerSpec => []TimerOnlyWhenActive
<1>1. WorkerInv => TimerOnlyWhenActive
  BY DEF WorkerInv
<1> QED
  BY <1>1, WorkerInitInv, WorkerStepInv, PTL DEF WorkerSpec

\* Handing out the front of the deque moves it behind the others, and brings
\* nobody in front of another.
LEMMA RotatedKeepsPlaces ==
  ASSUME WorkerInv, d_idleWorkers # <<>>, NEW w \in Workers
  PROVE  IF w = Head(d_idleWorkers)
         THEN Before(Rotated, w) = Range(Rotated) \ {w}
         ELSE Before(Rotated, w) \subseteq Before(d_idleWorkers, w)
<1> DEFINE s == d_idleWorkers
           h == Head(s)
           l == Tail(s)
<1>1. s \in Seq(Workers) /\ IsInjective(s) /\ s # <<>>
  BY DEF WorkerInv, WorkerTypeOK, WorkerPartition
<1>2. Rotated = Append(l, h)
  BY DEF Rotated
<1> HIDE DEF s
<1>3. h \in Workers
  BY <1>1, HeadTailProperties
<1>4. l \in Seq(Workers) /\ h \notin Range(l) /\ Before(l, w) \subseteq Before(s, w)
  BY <1>1, RangeOfTail, BeforeTail
<1> HIDE DEF h, l
<1>5. /\ Range(Append(l, h)) = Range(l) \cup {h}
      /\ w # h => Before(Append(l, h), w) \subseteq Before(l, w)
      /\ Before(Append(l, h), h) = Range(l)
  BY <1>3, <1>4, RangeOfAppend, BeforeAppend
<1>6. IF w = h
      THEN Before(Append(l, h), w) = Range(Append(l, h)) \ {w}
      ELSE Before(Append(l, h), w) \subseteq Before(s, w)
  BY <1>4, <1>5
<1> QED
  BY <1>2, <1>6 DEF s, h

\* An idle worker is never overtaken by one that became idle after it: only the
\* front of the deque, which Idle hands out, goes behind the others
\* (workermanager.cc).
THEOREM IdleWorkersKeepTheirPlace == WorkerSpec => IdlePlaceKept
<1> DEFINE PlaceKept(w) ==
      \/ Before(d_idleWorkers', w) \subseteq Before(d_idleWorkers, w)
      \/ /\ w = Head(d_idleWorkers)
         /\ Before(d_idleWorkers', w) = Range(d_idleWorkers') \ {w}
<1>1. ASSUME WorkerInv, [WorkerNext]_workerVars,
             NEW w \in Range(d_idleWorkers) \cap Range(d_idleWorkers')
      PROVE  PlaceKept(w)
  <2>1. /\ d_idleWorkers \in Seq(Workers) /\ IsInjective(d_idleWorkers)
        /\ Range(d_idleWorkers) = d_workers \ d_activeWorkers
        /\ d_workers \subseteq Workers
    BY <1>1 DEF WorkerInv, WorkerTypeOK, WorkerPartition
  <2>2. w \in Workers
    BY <2>1
  <2>3. ASSUME NEW c \in Connections, NEW v \in Workers, AddWorker(c, v) PROVE PlaceKept(w)
    <3>1. v \notin d_workers /\ d_idleWorkers' = Append(d_idleWorkers, v)
      BY <2>3 DEF AddWorker
    <3>2. w # v
      BY <2>1, <3>1
    <3> QED
      BY <2>1, <3>1, <3>2, BeforeAppend
  <2>4. ASSUME NEW v \in Workers, RemoveWorker(v) PROVE PlaceKept(w)
    <3>1. d_idleWorkers' = Without(d_idleWorkers, v)
      BY <2>4 DEF RemoveWorker
    <3> QED
      BY <2>1, <3>1, BeforeWithout
  <2>5. CASE d_idleWorkers' = d_idleWorkers
    BY <2>5
  <2>6. CASE d_idleWorkers # <<>> /\ d_idleWorkers' = Rotated
    BY <1>1, <2>2, <2>6, RotatedKeepsPlaces
  <2>7. ASSUME NEW t \in Tasks, NEW timed \in BOOLEAN, Activate(t, timed) PROVE PlaceKept(w)
    <3> DEFINE h == Head(d_idleWorkers)
    <3>1. d_idleWorkers # <<>> /\ d_idleWorkers' = Without(Rotated, h)
      BY <2>7 DEF Activate
    <3>2. Rotated \in Seq(Workers)
      BY <1>1, <3>1, RotatedProperties
    <3>3. w # h
      BY <3>1, <3>2, WithoutProperties
    <3>4. Before(Rotated, w) \subseteq Before(d_idleWorkers, w)
      BY <1>1, <2>2, <3>1, <3>3, RotatedKeepsPlaces
    <3>5. Before(Without(Rotated, h), w) \subseteq Before(Rotated, w)
      BY <3>2, BeforeWithout
    <3> QED
      BY <3>1, <3>4, <3>5
  <2>8. ASSUME NEW ws \in ActiveLists, DeactivateAll(ws) PROVE PlaceKept(w)
    <3>1. ws \in Seq(d_activeWorkers) /\ ws \in Seq(Workers)
      BY <1>1, ActiveListsAreSeqs
    <3>2. w \notin Range(ws)
      BY <2>1, <3>1, RangeOfSeq
    <3>3. d_idleWorkers' = d_idleWorkers \o ws
      BY <2>8 DEF DeactivateAll
    <3> QED
      BY <2>1, <3>1, <3>2, <3>3, BeforeConcat
  <2> QED
    BY <1>1, <2>3, <2>4, <2>5, <2>6, <2>7, <2>8
    DEF WorkerNext, RotateIdle, ActivateFails, DisarmTimeout, workerVars
<1>2. WorkerInv /\ [WorkerNext]_workerVars =>
        [\A w \in Range(d_idleWorkers) \cap Range(d_idleWorkers') : PlaceKept(w)]_workerVars
  BY <1>1
<1> QED
  BY <1>2, WorkerInitInv, WorkerStepInv, PTL DEF WorkerSpec, IdlePlaceKept

==============================================================================
