--------------------------- MODULE TaskQueueProofs ---------------------------
(***************************************************************************)
(* The task queue keeps its types and never holds a batch without tasks,   *)
(* whatever the order of the calls (TaskQueue, QueueSpec).                 *)
(***************************************************************************)
EXTENDS TaskQueue, OperatorProofs

\* The inductive invariant.
QueueInv == QueueTypeOK /\ QueueGroups /\ NoZombieBatch

(***************************************************************************)
(* Unique ids.                                                             *)
(***************************************************************************)

\* The counter stays between 1 and the greatest id, whatever is added.
LEMMA UniqueIdRange ==
  ASSUME s_uniqueId \in 1 .. MaxUid, NEW n \in Nat
  PROVE  UniqueIdAfter(n) \in 1 .. MaxUid
<1>1. MaxUid \in Nat \ {0}
  BY TaskAssumption
<1>2. s_uniqueId - 1 + n \in Int
  OBVIOUS
<1>3. (s_uniqueId - 1 + n) % MaxUid \in 0 .. (MaxUid - 1)
  BY <1>1, <1>2
<1> QED
  BY <1>1, <1>3 DEF UniqueIdAfter

\* Numbering the tasks of a sequence keeps the types of the ids.
LEMMA SetUniqueIdsType ==
  ASSUME s_uniqueId \in 1 .. MaxUid, uniqueid \in [Tasks -> 0 .. MaxUid],
         NEW ts \in Seq(Tasks), SetUniqueIds(ts)
  PROVE  s_uniqueId' \in 1 .. MaxUid /\ uniqueid' \in [Tasks -> 0 .. MaxUid]
<1> DEFINE at(t) == CHOOSE i \in DOMAIN ts : ts[i] = t
<1>1. Len(ts) \in Nat /\ DOMAIN ts = 1 .. Len(ts)
  BY LenProperties
<1>2. s_uniqueId' \in 1 .. MaxUid
  BY <1>1, UniqueIdRange DEF SetUniqueIds
<1>3. ASSUME NEW t \in Tasks
      PROVE  uniqueid'[t] \in 0 .. MaxUid
  <2>1. CASE t \in Range(ts)
    <3>1. at(t) \in DOMAIN ts
      BY <2>1 DEF Range
    <3>2. at(t) - 1 \in Nat
      BY <1>1, <3>1
    <3>3. UniqueIdAfter(at(t) - 1) \in 1 .. MaxUid
      BY <3>2, UniqueIdRange
    <3>4. uniqueid'[t] = UniqueIdAfter(at(t) - 1)
      BY <2>1 DEF SetUniqueIds
    <3> QED
      BY <3>3, <3>4
  <2>2. CASE t \notin Range(ts)
    BY <2>2 DEF SetUniqueIds
  <2> QED
    BY <2>1, <2>2
<1>4. uniqueid' = [t \in Tasks |-> uniqueid'[t]]
  BY DEF SetUniqueIds
<1> QED
  BY <1>2, <1>3, <1>4

(***************************************************************************)
(* One lemma per operation.                                                *)
(***************************************************************************)

\* A batch message keeps the invariant: the batch it goes to has a waiting task.
LEMMA PushBatchInv ==
  ASSUME QueueInv, NEW g \in Jobs, NEW timed \in BOOLEAN,
         NEW ts \in BatchesOf({t \in Tasks : Group[t] = g}),
         PushBatch(g, ts, timed)
  PROVE  QueueInv'
<1>1. CASE ts = <<>>
  BY <1>1 DEF PushBatch, queueVars, QueueInv, QueueTypeOK, QueueGroups, NoZombieBatch
<1>2. CASE ts # <<>>
  <2> DEFINE mine == {t \in Tasks : Group[t] = g}
  <2>1. ts \in Seq(mine) /\ ts \in Seq(Tasks)
    <3>1. PICK n \in 0 .. MaxBatch : ts \in [1 .. n -> mine]
      BY DEF BatchesOf
    <3>2. n \in Nat
      BY TaskQueueAssumption
    <3> QED
      BY <3>1, <3>2
  <2>2. Range(ts) \subseteq mine
    BY <2>1, RangeOfSeq
  <2>3. Len(ts) \in Nat
    BY <2>1, LenProperties
  <2>4. /\ d_batches' = d_batches \cup {g}
        /\ d_tasks' = [d_tasks EXCEPT ![g] = d_tasks[g] \o ts]
        /\ d_timeout' = [d_timeout EXCEPT ![g] = IF g \in d_batches THEN d_timeout[g] ELSE timed]
        /\ d_running' = [d_running EXCEPT ![g] = d_running[g] \ {TaskId[t] : t \in Range(ts)}]
        /\ d_size' = d_size + Len(ts)
        /\ SetUniqueIds(ts)
    BY <1>2 DEF PushBatch
  <2>5. d_tasks[g] \in Seq(Tasks)
    BY DEF QueueInv, QueueTypeOK
  <2>6. /\ d_tasks[g] \o ts \in Seq(Tasks)
        /\ Range(d_tasks[g] \o ts) = Range(d_tasks[g]) \cup Range(ts)
    BY <2>1, <2>5, ConcatProperties, RangeConcatenation
  <2>7. d_tasks[g] \o ts # <<>>
    BY <1>2, <2>1, <2>5, ConcatEqualIffEmpty
  <2>8. QueueTypeOK'
    <3>1. s_uniqueId' \in 1 .. MaxUid /\ uniqueid' \in [Tasks -> 0 .. MaxUid]
      BY <2>1, <2>4, SetUniqueIdsType DEF QueueInv, QueueTypeOK
    <3>2. d_tasks' \in [Jobs -> Seq(Tasks)]
      BY <2>4, <2>6 DEF QueueInv, QueueTypeOK
    <3> QED
      BY <2>3, <2>4, <3>1, <3>2 DEF QueueInv, QueueTypeOK
  <2>9. QueueGroups'
    <3> SUFFICES ASSUME NEW j \in Jobs, NEW t \in Range(d_tasks'[j])
                 PROVE  Group[t] = j
      BY DEF QueueGroups
    <3>1. CASE j = g
      <4>1. d_tasks'[j] = d_tasks[g] \o ts
        BY <2>4, <3>1 DEF QueueInv, QueueTypeOK
      <4>2. t \in Range(d_tasks[g]) \cup mine
        BY <2>2, <2>6, <4>1
      <4> QED
        BY <3>1, <4>2 DEF QueueInv, QueueGroups
    <3>2. CASE j # g
      <4>1. d_tasks'[j] = d_tasks[j]
        BY <2>4, <3>2 DEF QueueInv, QueueTypeOK
      <4> QED
        BY <4>1 DEF QueueInv, QueueGroups
    <3> QED
      BY <3>1, <3>2
  <2>10. NoZombieBatch'
    BY <2>4, <2>7 DEF NoZombieBatch, QueueInv, QueueTypeOK
  <2> QED
    BY <2>8, <2>9, <2>10 DEF QueueInv
<1> QED
  BY <1>1, <1>2

\* Putting a task back keeps the invariant: the batch it goes to exists.
LEMMA PushTaskInv ==
  ASSUME QueueInv, NEW t \in Tasks, PushTask(t)
  PROVE  QueueInv'
<1> DEFINE g == Group[t]
<1>1. g \in Jobs /\ TaskId[t] \in TaskIds
  BY TaskAssumption
<1>2. CASE g \notin d_batches
  BY <1>2 DEF PushTask, queueVars, QueueInv, QueueTypeOK, QueueGroups, NoZombieBatch
<1>3. CASE g \in d_batches
  <2>1. /\ d_tasks' = [d_tasks EXCEPT ![g] = Append(d_tasks[g], t)]
        /\ d_running' = [d_running EXCEPT ![g] = d_running[g] \ {TaskId[t]}]
        /\ d_size' = d_size + 1
        /\ SetUniqueIds(<<t>>)
        /\ UNCHANGED <<d_batches, d_timeout>>
    BY <1>3 DEF PushTask
  <2>2. d_tasks[g] \in Seq(Tasks)
    BY <1>1 DEF QueueInv, QueueTypeOK
  <2>3. /\ Append(d_tasks[g], t) \in Seq(Tasks)
        /\ Range(Append(d_tasks[g], t)) = Range(d_tasks[g]) \cup {t}
        /\ Append(d_tasks[g], t) # <<>>
    BY <2>2, RangeOfAppend, AppendProperties
  <2>4. s_uniqueId' \in 1 .. MaxUid /\ uniqueid' \in [Tasks -> 0 .. MaxUid]
    <3>1. <<t>> \in Seq(Tasks)
      OBVIOUS
    <3> QED
      BY <2>1, <3>1, SetUniqueIdsType DEF QueueInv, QueueTypeOK
  <2>5. QueueTypeOK'
    BY <1>1, <2>1, <2>3, <2>4 DEF QueueInv, QueueTypeOK
  <2>6. QueueGroups'
    <3> SUFFICES ASSUME NEW j \in Jobs, NEW u \in Range(d_tasks'[j])
                 PROVE  Group[u] = j
      BY DEF QueueGroups
    <3>1. CASE j = g
      <4>1. d_tasks'[j] = Append(d_tasks[g], t)
        BY <2>1, <3>1 DEF QueueInv, QueueTypeOK
      <4>2. u \in Range(d_tasks[g]) \cup {t}
        BY <2>3, <4>1
      <4> QED
        BY <3>1, <4>2 DEF QueueInv, QueueGroups
    <3>2. CASE j # g
      <4>1. d_tasks'[j] = d_tasks[j]
        BY <2>1, <3>2 DEF QueueInv, QueueTypeOK
      <4> QED
        BY <4>1 DEF QueueInv, QueueGroups
    <3> QED
      BY <3>1, <3>2
  <2>7. NoZombieBatch'
    BY <1>3, <2>1, <2>3 DEF NoZombieBatch, QueueInv, QueueTypeOK
  <2> QED
    BY <2>5, <2>6, <2>7 DEF QueueInv
<1> QED
  BY <1>2, <1>3

\* Taking the next task keeps the invariant: its id is among the running ones.
LEMMA PopInv ==
  ASSUME QueueInv, NEW g \in Jobs, Pop(g)
  PROVE  QueueInv'
<1> DEFINE t == Head(d_tasks[g])
<1>1. d_tasks[g] \in Seq(Tasks) /\ d_tasks[g] # <<>>
  BY DEF Pop, QueueInv, QueueTypeOK
<1>2. /\ Tail(d_tasks[g]) \in Seq(Tasks)
      /\ Range(Tail(d_tasks[g])) \subseteq Range(d_tasks[g])
      /\ t \in Tasks
  BY <1>1, RangeOfTail, HeadTailProperties
<1>3. TaskId[t] \in TaskIds
  BY <1>2, TaskAssumption
<1>4. /\ d_tasks' = [d_tasks EXCEPT ![g] = Tail(d_tasks[g])]
      /\ d_running' = [d_running EXCEPT ![g] = d_running[g] \cup {TaskId[t]}]
      /\ d_size' = d_size - 1
      /\ UNCHANGED <<d_batches, d_timeout, s_uniqueId, uniqueid>>
  BY DEF Pop
<1> HIDE DEF t
<1>5. QueueTypeOK'
  BY <1>2, <1>3, <1>4 DEF QueueInv, QueueTypeOK
<1>6. QueueGroups'
  <2> SUFFICES ASSUME NEW j \in Jobs
               PROVE  Range(d_tasks'[j]) \subseteq Range(d_tasks[j])
    BY DEF QueueGroups, QueueInv
  <2>1. d_tasks'[j] = IF j = g THEN Tail(d_tasks[g]) ELSE d_tasks[j]
    BY <1>4 DEF QueueInv, QueueTypeOK
  <2> QED
    BY <1>2, <2>1
<1>7. NoZombieBatch'
  <2>1. g \in d_batches
    BY <1>1 DEF QueueInv, NoZombieBatch
  <2>2. d_running'[g] # {}
    BY <1>4 DEF QueueInv, QueueTypeOK
  <2> QED
    BY <1>4, <2>1, <2>2 DEF NoZombieBatch, QueueInv, QueueTypeOK
<1> QED
  BY <1>5, <1>6, <1>7 DEF QueueInv

\* Taking a task and putting it back at once keeps the invariant: it waits.
LEMMA PopAndPushTaskInv ==
  ASSUME QueueInv, NEW g \in Jobs, PopAndPushTask(g)
  PROVE  QueueInv'
<1> DEFINE t == Head(d_tasks[g])
           s == Append(Tail(d_tasks[g]), t)
<1>1. d_tasks[g] \in Seq(Tasks) /\ d_tasks[g] # <<>>
  BY DEF PopAndPushTask, QueueInv, QueueTypeOK
<1>2. /\ t \in Tasks
      /\ Tail(d_tasks[g]) \in Seq(Tasks)
      /\ Range(d_tasks[g]) = Range(Tail(d_tasks[g])) \cup {t}
  BY <1>1, RangeOfTail, HeadTailProperties
<1> HIDE DEF t
<1>3. s \in Seq(Tasks) /\ Range(s) = Range(d_tasks[g]) /\ s # <<>>
  <2> DEFINE r == Tail(d_tasks[g])
  <2>1. r \in Seq(Tasks) /\ Range(d_tasks[g]) = Range(r) \cup {t} /\ s = Append(r, t)
    BY <1>2
  <2> HIDE DEF r, s
  <2>2. Append(r, t) \in Seq(Tasks) /\ Range(Append(r, t)) = Range(r) \cup {t}
    BY <1>2, <2>1, RangeOfAppend
  <2>3. Append(r, t) # <<>>
    BY <1>2, <2>1, AppendProperties
  <2> QED
    BY <2>1, <2>2, <2>3
<1>4. /\ d_tasks' = [d_tasks EXCEPT ![g] = s]
      /\ d_running' = [d_running EXCEPT ![g] = d_running[g] \ {TaskId[t]}]
      /\ SetUniqueIds(<<t>>)
      /\ UNCHANGED <<d_batches, d_timeout, d_size>>
  BY DEF PopAndPushTask, t
<1> HIDE DEF s
<1>5. s_uniqueId' \in 1 .. MaxUid /\ uniqueid' \in [Tasks -> 0 .. MaxUid]
  <2>1. <<t>> \in Seq(Tasks)
    BY <1>2
  <2> QED
    BY <1>4, <2>1, SetUniqueIdsType DEF QueueInv, QueueTypeOK
<1>6. QueueTypeOK'
  BY <1>3, <1>4, <1>5 DEF QueueInv, QueueTypeOK
<1>7. QueueGroups'
  <2> SUFFICES ASSUME NEW j \in Jobs
               PROVE  Range(d_tasks'[j]) = Range(d_tasks[j])
    BY DEF QueueGroups, QueueInv
  <2>1. d_tasks'[j] = IF j = g THEN s ELSE d_tasks[j]
    BY <1>4 DEF QueueInv, QueueTypeOK
  <2> QED
    BY <1>3, <2>1
<1>8. NoZombieBatch'
  <2>1. g \in d_batches
    BY <1>1 DEF QueueInv, NoZombieBatch
  <2> QED
    BY <1>3, <1>4, <2>1 DEF NoZombieBatch, QueueInv, QueueTypeOK
<1> QED
  BY <1>6, <1>7, <1>8 DEF QueueInv

\* Removing a batch keeps the invariant: its tasks and running ids go with it.
LEMMA RemoveInv ==
  ASSUME QueueInv, NEW g \in Jobs, Remove(g)
  PROVE  QueueInv'
<1>1. Len(d_tasks[g]) \in Nat
  BY LenProperties DEF QueueInv, QueueTypeOK
<1>2. QueueTypeOK'
  BY <1>1, EmptySeq DEF Remove, QueueInv, QueueTypeOK
<1>3. QueueGroups'
  <2> SUFFICES ASSUME NEW j \in Jobs, NEW t \in Range(d_tasks'[j])
               PROVE  Group[t] = j
    BY DEF QueueGroups
  <2>1. CASE j = g
    <3>1. d_tasks'[j] = <<>>
      BY <2>1 DEF Remove, QueueInv, QueueTypeOK
    <3>2. Range(d_tasks'[j]) = {}
      BY <3>1, EmptySeq, EmptyRange
    <3> QED
      BY <3>2
  <2>2. CASE j # g
    <3>1. d_tasks'[j] = d_tasks[j]
      BY <2>2 DEF Remove, QueueInv, QueueTypeOK
    <3> QED
      BY <3>1 DEF QueueInv, QueueGroups
  <2> QED
    BY <2>1, <2>2
<1>4. NoZombieBatch'
  BY DEF Remove, NoZombieBatch, QueueInv, QueueTypeOK
<1> QED
  BY <1>2, <1>3, <1>4 DEF QueueInv

\* Finishing a task keeps the invariant: the last one takes the batch along.
LEMMA FinishedInv ==
  ASSUME QueueInv, NEW t \in Tasks, Finished(t)
  PROVE  QueueInv'
<1> DEFINE g == Group[t]
           left == d_running[g] \ {TaskId[t]}
<1>1. g \in Jobs
  BY TaskAssumption
<1>2. CASE d_tasks[g] = <<>> /\ left = {}
  <2>1. Remove(g)
    BY <1>2 DEF Finished
  <2> QED
    BY <1>1, <2>1, RemoveInv
<1>3. CASE ~(d_tasks[g] = <<>> /\ left = {})
  <2>1. /\ d_running' = [d_running EXCEPT ![g] = left]
        /\ UNCHANGED <<d_batches, d_tasks, d_timeout, d_size, s_uniqueId, uniqueid>>
    BY <1>3 DEF Finished
  <2>2. left \subseteq d_running[g]
    OBVIOUS
  <2> HIDE DEF left
  <2>3. QueueTypeOK'
    BY <1>1, <2>1, <2>2 DEF QueueInv, QueueTypeOK
  <2>4. QueueGroups'
    BY <2>1 DEF QueueInv, QueueGroups
  <2>5. NoZombieBatch'
    BY <1>1, <1>3, <2>1, <2>2 DEF NoZombieBatch, QueueInv, QueueTypeOK
  <2> QED
    BY <2>3, <2>4, <2>5 DEF QueueInv
<1> QED
  BY <1>2, <1>3

(***************************************************************************)
(* The specification.                                                      *)
(***************************************************************************)

\* The empty queue satisfies the invariant.
LEMMA QueueInitInv == QueueInit => QueueInv
<1> SUFFICES ASSUME QueueInit
             PROVE  QueueInv
  OBVIOUS
<1>1. MaxUid \in Nat \ {0}
  BY TaskAssumption
<1>2. QueueTypeOK
  BY <1>1, EmptySeq DEF QueueInit, QueueTypeOK
<1>3. \A j \in Jobs : Range(d_tasks[j]) = {}
  BY EmptySeq, EmptyRange DEF QueueInit
<1>4. QueueGroups
  BY <1>3 DEF QueueGroups
<1>5. NoZombieBatch
  BY DEF QueueInit, NoZombieBatch
<1> QED
  BY <1>2, <1>4, <1>5 DEF QueueInv

\* Every call of the queue keeps the invariant.
LEMMA QueueStepInv == QueueInv /\ [QueueNext]_queueVars => QueueInv'
<1> SUFFICES ASSUME QueueInv, [QueueNext]_queueVars
             PROVE  QueueInv'
  OBVIOUS
<1>1. CASE UNCHANGED queueVars
  BY <1>1 DEF queueVars, QueueInv, QueueTypeOK, QueueGroups, NoZombieBatch
<1>2. ASSUME NEW g \in Jobs, NEW timed \in BOOLEAN,
             NEW ts \in BatchesOf({t \in Tasks : Group[t] = g}),
             PushBatch(g, ts, timed)
      PROVE  QueueInv'
  BY <1>2, PushBatchInv
<1>3. ASSUME NEW t \in Tasks, PushTask(t) \/ Finished(t)
      PROVE  QueueInv'
  BY <1>3, PushTaskInv, FinishedInv
<1>4. ASSUME NEW g \in Jobs, Pop(g) \/ PopAndPushTask(g) \/ Remove(g)
      PROVE  QueueInv'
  BY <1>4, PopInv, PopAndPushTaskInv, RemoveInv
<1> QED
  BY <1>1, <1>2, <1>3, <1>4 DEF QueueNext

\* The queue keeps its types: the counter of unique ids never yields 0 and
\* never leaves its range, for any size of size_t (TaskQueue::NextUniqueId).
THEOREM QueueTypeCorrect == QueueSpec => []QueueTypeOK
<1>1. QueueInv => QueueTypeOK
  BY DEF QueueInv
<1> QED
  BY <1>1, QueueInitInv, QueueStepInv, PTL DEF QueueSpec

\* For any jobs, tasks and task ids, and any order of calls, a batch exists
\* exactly as long as it has a waiting or a running task
\* (TaskQueue::Push, Pop, Finished, Remove).
THEOREM QueueNoZombieBatch == QueueSpec => []NoZombieBatch
<1>1. QueueInv => NoZombieBatch
  BY DEF QueueInv
<1> QED
  BY <1>1, QueueInitInv, QueueStepInv, PTL DEF QueueSpec

(***************************************************************************)
(* Every waiting task has a number.                                        *)
(***************************************************************************)

\* The tasks of a sequence get unique ids, and a task that has one keeps one.
LEMMA SetUniqueIdsNumbers ==
  ASSUME QueueInv, NEW ts \in Seq(Tasks), SetUniqueIds(ts),
         NEW t \in Tasks, t \in Range(ts) \/ uniqueid[t] # 0
  PROVE  uniqueid'[t] # 0
<1> DEFINE at == CHOOSE i \in DOMAIN ts : ts[i] = t
<1>1. CASE t \in Range(ts)
  <2>1. at \in 1 .. Len(ts) /\ Len(ts) \in Nat
    BY <1>1, LenProperties DEF Range
  <2>2. at - 1 \in Nat
    BY <2>1
  <2>3. UniqueIdAfter(at - 1) \in 1 .. MaxUid
    BY <2>2, UniqueIdRange DEF QueueInv, QueueTypeOK
  <2>4. uniqueid'[t] = UniqueIdAfter(at - 1)
    BY <1>1 DEF SetUniqueIds
  <2> QED
    BY <2>3, <2>4
<1>2. CASE t \notin Range(ts)
  BY <1>2 DEF SetUniqueIds
<1> QED
  BY <1>1, <1>2

\* Where the batch of g is the only one that changes, and only by tasks that
\* were just numbered, waiting tasks have numbers.
LEMMA NumberedAfterPush ==
  ASSUME QueueInv, WaitingAreNumbered, NEW g \in Jobs, NEW ts \in Seq(Tasks), NEW s,
         d_tasks' = [d_tasks EXCEPT ![g] = s],
         Range(s) \subseteq Range(d_tasks[g]) \cup Range(ts), SetUniqueIds(ts)
  PROVE  WaitingAreNumbered'
<1> SUFFICES ASSUME NEW j \in Jobs, NEW t \in Range(d_tasks'[j])
             PROVE  uniqueid'[t] # 0
  BY DEF WaitingAreNumbered, Queued
<1>1. t \in Range(d_tasks[j]) \/ t \in Range(ts)
  <2>1. d_tasks'[j] = IF j = g THEN s ELSE d_tasks[j]
    BY DEF QueueInv, QueueTypeOK
  <2> QED
    BY <2>1
<1>2. t \in Tasks
  <2>1. d_tasks[j] \in Seq(Tasks)
    BY DEF QueueInv, QueueTypeOK
  <2> QED
    BY <1>1, <2>1, RangeOfSeq
<1>3. t \in Range(d_tasks[j]) => uniqueid[t] # 0
  BY DEF WaitingAreNumbered, Queued
<1> QED
  BY <1>1, <1>2, <1>3, SetUniqueIdsNumbers

\* Where batches only lose tasks and no unique id changes, they have numbers too.
LEMMA NumberedAfterRemoval ==
  ASSUME WaitingAreNumbered, uniqueid' = uniqueid,
         \A j \in Jobs : Range(d_tasks'[j]) \subseteq Range(d_tasks[j])
  PROVE  WaitingAreNumbered'
BY DEF WaitingAreNumbered, Queued

\* Every call of the queue leaves waiting tasks with numbers.
LEMMA NumberedStep ==
  QueueInv /\ WaitingAreNumbered /\ [QueueNext]_queueVars => WaitingAreNumbered'
<1> SUFFICES ASSUME QueueInv, WaitingAreNumbered, [QueueNext]_queueVars
             PROVE  WaitingAreNumbered'
  OBVIOUS
<1>0. \A j \in Jobs : d_tasks[j] \in Seq(Tasks)
  BY DEF QueueInv, QueueTypeOK
<1>1. CASE UNCHANGED queueVars
  BY <1>1 DEF queueVars, WaitingAreNumbered, Queued
<1>2. ASSUME NEW g \in Jobs, NEW timed \in BOOLEAN,
             NEW ts \in BatchesOf({t \in Tasks : Group[t] = g}),
             PushBatch(g, ts, timed)
      PROVE  WaitingAreNumbered'
  <2>1. CASE ts = <<>>
    BY <1>2, <2>1 DEF PushBatch, queueVars, WaitingAreNumbered, Queued
  <2>2. CASE ts # <<>>
    <3>1. ts \in Seq(Tasks)
      <4>1. PICK n \in 0 .. MaxBatch : ts \in [1 .. n -> {t \in Tasks : Group[t] = g}]
        BY DEF BatchesOf
      <4>2. n \in Nat
        BY TaskQueueAssumption
      <4> QED
        BY <4>1, <4>2
    <3>2. d_tasks' = [d_tasks EXCEPT ![g] = d_tasks[g] \o ts] /\ SetUniqueIds(ts)
      BY <1>2, <2>2 DEF PushBatch
    <3>3. Range(d_tasks[g] \o ts) = Range(d_tasks[g]) \cup Range(ts)
      BY <1>0, <3>1, RangeConcatenation
    <3> QED
      BY <3>1, <3>2, <3>3, NumberedAfterPush
  <2> QED
    BY <2>1, <2>2
<1>3. ASSUME NEW t \in Tasks, PushTask(t)
      PROVE  WaitingAreNumbered'
  <2>1. CASE Group[t] \notin d_batches
    BY <1>3, <2>1 DEF PushTask, queueVars, WaitingAreNumbered, Queued
  <2>2. CASE Group[t] \in d_batches
    <3>1. /\ d_tasks' = [d_tasks EXCEPT ![Group[t]] = Append(d_tasks[Group[t]], t)]
          /\ SetUniqueIds(<<t>>)
      BY <1>3, <2>2 DEF PushTask
    <3>2. Group[t] \in Jobs
      BY TaskAssumption
    <3>3. Range(Append(d_tasks[Group[t]], t)) = Range(d_tasks[Group[t]]) \cup {t}
      BY <1>0, <3>2, RangeOfAppend
    <3>4. <<t>> \in Seq(Tasks) /\ t \in Range(<<t>>)
      BY DEF Range
    <3> QED
      BY <3>1, <3>2, <3>3, <3>4, NumberedAfterPush
  <2> QED
    BY <2>1, <2>2
<1>4. ASSUME NEW g \in Jobs, Remove(g)
      PROVE  WaitingAreNumbered'
  <2>1. \A j \in Jobs : d_tasks'[j] = IF j = g THEN <<>> ELSE d_tasks[j]
    BY <1>4 DEF Remove, QueueInv, QueueTypeOK
  <2>2. Range(<<>>) = {}
    BY EmptySeq, EmptyRange
  <2>3. uniqueid' = uniqueid
    BY <1>4 DEF Remove
  <2> QED
    BY <2>1, <2>2, <2>3, NumberedAfterRemoval
<1>5. ASSUME NEW t \in Tasks, Finished(t)
      PROVE  WaitingAreNumbered'
  <2>1. Group[t] \in Jobs
    BY TaskAssumption
  <2>2. Remove(Group[t]) \/ (d_tasks' = d_tasks /\ uniqueid' = uniqueid)
    BY <1>5 DEF Finished
  <2> QED
    BY <1>4, <2>1, <2>2 DEF WaitingAreNumbered, Queued
<1>6. ASSUME NEW g \in Jobs, Pop(g)
      PROVE  WaitingAreNumbered'
  <2>1. \A j \in Jobs : d_tasks'[j] = IF j = g THEN Tail(d_tasks[g]) ELSE d_tasks[j]
    BY <1>6 DEF Pop, QueueInv, QueueTypeOK
  <2>2. Range(Tail(d_tasks[g])) \subseteq Range(d_tasks[g])
    BY <1>0, <1>6, RangeOfTail DEF Pop
  <2>3. uniqueid' = uniqueid
    BY <1>6 DEF Pop
  <2> QED
    BY <2>1, <2>2, <2>3, NumberedAfterRemoval
<1>7. ASSUME NEW g \in Jobs, PopAndPushTask(g)
      PROVE  WaitingAreNumbered'
  <2> DEFINE t == Head(d_tasks[g])
             r == Tail(d_tasks[g])
  <2>1. d_tasks[g] \in Seq(Tasks) /\ d_tasks[g] # <<>>
    BY <1>0, <1>7 DEF PopAndPushTask
  <2>2. t \in Tasks /\ r \in Seq(Tasks) /\ Range(d_tasks[g]) = Range(r) \cup {t}
    BY <2>1, RangeOfTail, HeadTailProperties
  <2>3. d_tasks' = [d_tasks EXCEPT ![g] = Append(r, t)] /\ SetUniqueIds(<<t>>)
    BY <1>7 DEF PopAndPushTask
  <2> HIDE DEF t, r
  <2>4. Range(Append(r, t)) = Range(r) \cup {t}
    BY <2>2, RangeOfAppend
  <2>5. <<t>> \in Seq(Tasks)
    BY <2>2
  <2> QED
    BY <2>2, <2>3, <2>4, <2>5, NumberedAfterPush
<1> QED
  BY <1>1, <1>2, <1>3, <1>4, <1>5, <1>6, <1>7 DEF QueueNext

\* For any size of size_t, a task that waits carries a unique id: the counter
\* skips 0, and a task is numbered whenever it is pushed (TaskQueue::Push,
\* TaskQueue::NextUniqueId).
THEOREM WaitingTasksNumbered == QueueSpec => []WaitingAreNumbered
<1>1. QueueInit => WaitingAreNumbered
  <2> SUFFICES ASSUME QueueInit
               PROVE  WaitingAreNumbered
    OBVIOUS
  <2>1. \A j \in Jobs : Range(d_tasks[j]) = {}
    BY EmptySeq, EmptyRange DEF QueueInit
  <2> QED
    BY <2>1 DEF WaitingAreNumbered, Queued
<1> QED
  BY <1>1, QueueInitInv, QueueStepInv, NumberedStep, PTL DEF QueueSpec

(***************************************************************************)
(* Unique ids that are not used again.                                     *)
(***************************************************************************)

\* The counter does not wrap.
CountsUp == s_uniqueId' >= s_uniqueId

\* The remainder of less than two times the divisor.
LEMMA ModSmall ==
  ASSUME NEW M \in Nat \ {0}, NEW a \in 0 .. (M - 1)
  PROVE  a % M = a
OBVIOUS

LEMMA ModOnce ==
  ASSUME NEW M \in Nat \ {0}, NEW a \in M .. (2 * M - 1)
  PROVE  a % M = a - M
OBVIOUS

\* The next ids are the next numbers, up to where the counter wraps.
LEMMA UniqueIdCounts ==
  ASSUME s_uniqueId \in 1 .. MaxUid, NEW n \in 0 .. (MaxUid - 1)
  PROVE  UniqueIdAfter(n) =
           IF s_uniqueId + n <= MaxUid THEN s_uniqueId + n ELSE s_uniqueId + n - MaxUid
<1> DEFINE a == s_uniqueId - 1 + n
<1>1. MaxUid \in Nat \ {0} /\ s_uniqueId \in Nat /\ n \in Nat
  BY TaskAssumption
<1>2. CASE s_uniqueId + n <= MaxUid
  <2>1. a \in 0 .. (MaxUid - 1)
    BY <1>1, <1>2
  <2>2. a % MaxUid = a
    BY <1>1, <2>1, ModSmall
  <2> QED
    BY <1>1, <1>2, <2>2 DEF UniqueIdAfter
<1>3. CASE s_uniqueId + n > MaxUid
  <2>1. a \in MaxUid .. (2 * MaxUid - 1)
    BY <1>1, <1>3
  <2>2. a % MaxUid = a - MaxUid
    BY <1>1, <2>1, ModOnce
  <2> QED
    BY <1>1, <1>3, <2>2 DEF UniqueIdAfter
<1> QED
  BY <1>1, <1>2, <1>3

\* Where the counter does not wrap, the tasks of a sequence get new ids, each
\* its own, and no other task gets one.
LEMMA SetUniqueIdsNew ==
  ASSUME QueueInv, CountsUp, NEW ts \in Seq(Tasks), IsInjective(ts), Len(ts) < MaxUid,
         SetUniqueIds(ts)
  PROVE  /\ \A t \in Range(ts) : s_uniqueId <= uniqueid'[t] /\ uniqueid'[t] < s_uniqueId'
         /\ \A t, u \in Range(ts) : uniqueid'[t] = uniqueid'[u] => t = u
         /\ \A t \in Tasks \ Range(ts) : uniqueid'[t] = uniqueid[t]
<1> DEFINE at(t) == CHOOSE i \in DOMAIN ts : ts[i] = t
           n == Len(ts)
<1>1. /\ n \in Nat /\ DOMAIN ts = 1 .. n /\ n \in 0 .. (MaxUid - 1)
      /\ MaxUid \in Nat \ {0} /\ s_uniqueId \in 1 .. MaxUid
  BY LenProperties, TaskAssumption DEF QueueInv, QueueTypeOK
<1>2. s_uniqueId' = UniqueIdAfter(n)
  BY DEF SetUniqueIds
<1> HIDE DEF n
<1>3. s_uniqueId + n <= MaxUid /\ s_uniqueId' = s_uniqueId + n
  <2>1. UniqueIdAfter(n) =
          IF s_uniqueId + n <= MaxUid THEN s_uniqueId + n ELSE s_uniqueId + n - MaxUid
    BY <1>1, UniqueIdCounts
  <2> QED
    BY <1>1, <1>2, <2>1 DEF CountsUp
<1>4. ASSUME NEW t \in Range(ts)
      PROVE  /\ at(t) \in 1 .. n /\ ts[at(t)] = t
             /\ uniqueid'[t] = s_uniqueId + at(t) - 1
  <2>1. at(t) \in 1 .. n /\ ts[at(t)] = t
    BY <1>1 DEF Range
  <2>2. t \in Tasks
    BY RangeOfSeq
  <2>3. uniqueid'[t] = UniqueIdAfter(at(t) - 1)
    BY <2>2 DEF SetUniqueIds
  <2> HIDE DEF at
  <2>4. at(t) - 1 \in 0 .. (MaxUid - 1) /\ s_uniqueId + (at(t) - 1) <= MaxUid
    BY <1>1, <1>3, <2>1
  <2>5. UniqueIdAfter(at(t) - 1) = s_uniqueId + (at(t) - 1)
    BY <1>1, <2>4, UniqueIdCounts
  <2> QED
    BY <1>1, <2>1, <2>3, <2>5
<1> HIDE DEF at
<1>5. \A t \in Range(ts) : s_uniqueId <= uniqueid'[t] /\ uniqueid'[t] < s_uniqueId'
  BY <1>1, <1>3, <1>4
<1>6. ASSUME NEW t \in Range(ts), NEW u \in Range(ts), uniqueid'[t] = uniqueid'[u] PROVE t = u
  <2>1. at(t) = at(u)
    BY <1>1, <1>4, <1>6
  <2> QED
    BY <1>4, <2>1
<1>7. \A t \in Tasks \ Range(ts) : uniqueid'[t] = uniqueid[t]
  BY DEF SetUniqueIds
<1> QED
  BY <1>5, <1>6, <1>7

(***************************************************************************)
(* What may be waiting after a call.                                       *)
(***************************************************************************)

\* A batch that a task is put into holds this task in addition.
LEMMA PushTaskAdds ==
  ASSUME QueueInv, NEW t \in Tasks, PushTask(t)
  PROVE  Queued' \subseteq Queued \cup {t}
<1> DEFINE g == Group[t]
<1>1. CASE g \notin d_batches
  BY <1>1 DEF PushTask, queueVars, Queued
<1>2. CASE g \in d_batches
  <2>1. d_tasks' = [d_tasks EXCEPT ![g] = Append(@, t)] /\ d_tasks \in [Jobs -> Seq(Tasks)]
    BY <1>2 DEF PushTask, QueueInv, QueueTypeOK
  <2>2. ASSUME NEW j \in Jobs PROVE Range(d_tasks'[j]) \subseteq Range(d_tasks[j]) \cup {t}
    <3>1. d_tasks'[j] = d_tasks[j] \/ d_tasks'[j] = Append(d_tasks[j], t)
      BY <2>1
    <3>2. d_tasks[j] \in Seq(Tasks)
      BY <2>1
    <3> QED
      BY <3>1, <3>2, RangeOfAppend
  <2> QED
    BY <2>2 DEF Queued
<1> QED
  BY <1>1, <1>2

\* No task begins to wait when one is taken, finished, or taken and put back,
\* or when a batch is removed; the one that is taken waited.
LEMMA NothingAdded ==
  ASSUME QueueInv, NEW g \in Jobs,
         \/ Pop(g) \/ PopAndPushTask(g) \/ Remove(g)
         \/ \E t \in Tasks : Finished(t)
  PROVE  /\ Queued' \subseteq Queued
         /\ d_tasks[g] # <<>> => Head(d_tasks[g]) \in Queued
<1>0. d_tasks \in [Jobs -> Seq(Tasks)]
  BY DEF QueueInv, QueueTypeOK
<1>1. ASSUME NEW s \in Seq(Tasks), s # <<>>
      PROVE  Head(s) \in Range(s) /\ Range(Tail(s)) \subseteq Range(s)
  BY <1>1, RangeOfTail
<1>2. d_tasks[g] # <<>> => Head(d_tasks[g]) \in Queued
  BY <1>0, <1>1 DEF Queued
<1>3. ASSUME NEW h \in Jobs, Remove(h) PROVE Queued' \subseteq Queued
  <2>1. d_tasks' = [d_tasks EXCEPT ![h] = <<>>] /\ Range(<<>>) = {}
    BY <1>3 DEF Remove, Range
  <2>2. ASSUME NEW j \in Jobs PROVE Range(d_tasks'[j]) \subseteq Range(d_tasks[j])
    BY <1>0, <2>1
  <2> QED
    BY <2>2 DEF Queued
<1>4. CASE Pop(g)
  <2>1. d_tasks[g] # <<>> /\ d_tasks' = [d_tasks EXCEPT ![g] = Tail(@)]
    BY <1>4 DEF Pop
  <2>2. ASSUME NEW j \in Jobs PROVE Range(d_tasks'[j]) \subseteq Range(d_tasks[j])
    BY <1>0, <1>1, <2>1
  <2> QED
    BY <1>2, <2>2 DEF Queued
<1>5. CASE PopAndPushTask(g)
  <2> DEFINE t == Head(d_tasks[g])
             r == Tail(d_tasks[g])
  <2>1. d_tasks[g] # <<>> /\ d_tasks' = [d_tasks EXCEPT ![g] = Append(r, t)]
    BY <1>5 DEF PopAndPushTask
  <2>2. r \in Seq(Tasks) /\ t \in Tasks /\ t \in Range(d_tasks[g]) /\ Range(r) \subseteq Range(d_tasks[g])
    BY <1>0, <1>1, <2>1, HeadTailProperties
  <2> HIDE DEF t, r
  <2>3. Range(Append(r, t)) = Range(r) \cup {t}
    BY <2>2, RangeOfAppend
  <2>4. ASSUME NEW j \in Jobs PROVE Range(d_tasks'[j]) \subseteq Range(d_tasks[j])
    BY <1>0, <2>1, <2>2, <2>3
  <2> QED
    BY <1>2, <2>4 DEF Queued
<1>6. ASSUME NEW t \in Tasks, Finished(t) PROVE Queued' \subseteq Queued
  <2>1. Group[t] \in Jobs
    BY TaskAssumption
  <2>2. Remove(Group[t]) \/ d_tasks' = d_tasks
    BY <1>6 DEF Finished
  <2> QED
    BY <1>3, <2>1, <2>2 DEF Queued
<1> QED
  BY <1>2, <1>3, <1>4, <1>5, <1>6

\* A batch message adds its tasks only.
LEMMA PushBatchAdds ==
  ASSUME QueueInv, NEW g \in Jobs, NEW timed, NEW ts \in Seq(Tasks), PushBatch(g, ts, timed)
  PROVE  Queued' \subseteq Queued \cup Range(ts)
<1>1. CASE ts = <<>>
  BY <1>1 DEF PushBatch, queueVars, Queued
<1>2. CASE ts # <<>>
  <2>1. d_tasks' = [d_tasks EXCEPT ![g] = @ \o ts] /\ d_tasks \in [Jobs -> Seq(Tasks)]
    BY <1>2 DEF PushBatch, QueueInv, QueueTypeOK
  <2>2. ASSUME NEW j \in Jobs PROVE Range(d_tasks'[j]) \subseteq Range(d_tasks[j]) \cup Range(ts)
    <3>1. d_tasks'[j] = d_tasks[j] \/ d_tasks'[j] = d_tasks[j] \o ts
      BY <2>1
    <3>2. d_tasks[j] \in Seq(Tasks)
      BY <2>1
    <3> QED
      BY <3>1, <3>2, RangeConcatenation
  <2> QED
    BY <2>2 DEF Queued
<1> QED
  BY <1>1, <1>2

(***************************************************************************)
(* The queue length.                                                       *)
(***************************************************************************)

\* The lengths of the batches.
Lengths == [j \in Jobs |-> Len(d_tasks[j])]

\* Where one batch changes and d_size by the difference of its lengths, d_size
\* is still the sum.
LEMMA SizeAfter ==
  ASSUME QueueInv, SizeMatches, NEW g \in Jobs, NEW s \in Seq(Tasks),
         d_tasks' = [d_tasks EXCEPT ![g] = s],
         d_size' = d_size + Len(s) - Len(d_tasks[g])
  PROVE  SizeMatches'
<1>1. \A j \in Jobs : Lengths[j] \in Nat /\ Lengths'[j] \in Nat
  <2>1. d_tasks \in [Jobs -> Seq(Tasks)] /\ d_tasks' \in [Jobs -> Seq(Tasks)]
    BY DEF QueueInv, QueueTypeOK
  <2> QED
    BY <2>1, LenProperties DEF Lengths
<1>2. /\ \A j \in Jobs \ {g} : Lengths'[j] = Lengths[j]
      /\ Lengths[g] = Len(d_tasks[g]) /\ Lengths'[g] = Len(s)
  BY DEF Lengths, QueueInv, QueueTypeOK
<1>3. SumFunctionOnSet(Lengths', Jobs)
        = SumFunctionOnSet(Lengths, Jobs) - Lengths[g] + Lengths'[g]
  <2>1. IsFiniteSet(Jobs)
    BY TaskQueueAssumption
  <2>2. \A a, b :
          (\A j \in Jobs : a[j] \in Nat /\ b[j] \in Nat) /\ (\A j \in Jobs \ {g} : b[j] = a[j])
            => SumFunctionOnSet(b, Jobs) = SumFunctionOnSet(a, Jobs) - a[g] + b[g]
    BY <2>1, SumUpdate
  <2> QED
    BY <1>1, <1>2, <2>2
<1>4. SumFunctionOnSet(Lengths, Jobs) \in Nat
  BY <1>1, SumNat, TaskQueueAssumption
<1>5. d_size = SumFunctionOnSet(Lengths, Jobs)
  BY DEF SizeMatches, SumFunction, Lengths
<1>6. d_size' = SumFunctionOnSet(Lengths', Jobs)
  <2>1. \A n, a, b \in Nat : n + b - a = n - a + b
    OBVIOUS
  <2>2. d_size' = SumFunctionOnSet(Lengths, Jobs) + Lengths'[g] - Lengths[g]
    BY <1>2, <1>5
  <2> QED
    BY <1>1, <1>3, <1>4, <2>1, <2>2
<1> QED
  BY <1>6 DEF SizeMatches, SumFunction, Lengths

\* Every call of the queue keeps count.
LEMMA SizeStep ==
  ASSUME QueueInv, SizeMatches, [QueueNext]_queueVars
  PROVE  SizeMatches'
<1>0. \A j \in Jobs : d_tasks[j] \in Seq(Tasks) /\ Len(d_tasks[j]) \in Nat
  BY LenProperties DEF QueueInv, QueueTypeOK
<1>t. d_tasks \in [Jobs -> Seq(Tasks)] /\ d_size \in Int
  BY DEF QueueInv, QueueTypeOK
<1>1. CASE UNCHANGED queueVars
  BY <1>1 DEF queueVars, SizeMatches
<1>2. ASSUME NEW g \in Jobs, NEW timed \in BOOLEAN,
             NEW ts \in BatchesOf({t \in Tasks : Group[t] = g}),
             PushBatch(g, ts, timed)
      PROVE  SizeMatches'
  <2>1. CASE ts = <<>>
    BY <1>2, <2>1 DEF PushBatch, queueVars, SizeMatches
  <2>2. CASE ts # <<>>
    <3>1. ts \in Seq(Tasks)
      <4>1. PICK n \in 0 .. MaxBatch : ts \in [1 .. n -> {t \in Tasks : Group[t] = g}]
        BY DEF BatchesOf
      <4>2. n \in Nat
        BY TaskQueueAssumption
      <4> QED
        BY <4>1, <4>2
    <3>2. d_tasks' = [d_tasks EXCEPT ![g] = d_tasks[g] \o ts] /\ d_size' = d_size + Len(ts)
      BY <1>2, <2>2 DEF PushBatch
    <3>3. /\ d_tasks[g] \o ts \in Seq(Tasks) /\ Len(ts) \in Nat
          /\ Len(d_tasks[g] \o ts) = Len(d_tasks[g]) + Len(ts)
      BY <1>0, <3>1, ConcatProperties, LenProperties
    <3>4. d_size' = d_size + Len(d_tasks[g] \o ts) - Len(d_tasks[g])
      BY <1>0, <1>t, <3>2, <3>3
    <3> QED
      BY <3>2, <3>3, <3>4, SizeAfter
  <2> QED
    BY <2>1, <2>2
<1>3. ASSUME NEW t \in Tasks, PushTask(t)
      PROVE  SizeMatches'
  <2> DEFINE g == Group[t]
  <2>1. CASE g \notin d_batches
    BY <1>3, <2>1 DEF PushTask, queueVars, SizeMatches
  <2>2. CASE g \in d_batches
    <3>1. g \in Jobs
      BY TaskAssumption
    <3>2. d_tasks' = [d_tasks EXCEPT ![g] = Append(d_tasks[g], t)] /\ d_size' = d_size + 1
      BY <1>3, <2>2 DEF PushTask
    <3> HIDE DEF g
    <3>3. Append(d_tasks[g], t) \in Seq(Tasks) /\ Len(Append(d_tasks[g], t)) = Len(d_tasks[g]) + 1
      BY <1>0, <3>1, AppendProperties
    <3>4. d_size' = d_size + Len(Append(d_tasks[g], t)) - Len(d_tasks[g])
      BY <1>0, <1>t, <3>1, <3>2, <3>3
    <3> QED
      BY <3>1, <3>2, <3>3, <3>4, SizeAfter
  <2> QED
    BY <2>1, <2>2
<1>4. ASSUME NEW g \in Jobs, Remove(g)
      PROVE  SizeMatches'
  <2>1. <<>> \in Seq(Tasks) /\ Len(<<>>) = 0
    BY EmptySeq
  <2>2. d_tasks' = [d_tasks EXCEPT ![g] = <<>>] /\ d_size' = d_size - Len(d_tasks[g])
    BY <1>4 DEF Remove
  <2>3. d_size' = d_size + Len(<<>>) - Len(d_tasks[g])
    BY <1>0, <1>t, <2>1, <2>2
  <2> QED
    BY <2>1, <2>2, <2>3, SizeAfter
<1>5. ASSUME NEW t \in Tasks, Finished(t)
      PROVE  SizeMatches'
  <2>1. Group[t] \in Jobs
    BY TaskAssumption
  <2>2. Remove(Group[t]) \/ (d_tasks' = d_tasks /\ d_size' = d_size)
    BY <1>5 DEF Finished
  <2> QED
    BY <1>4, <2>1, <2>2 DEF SizeMatches
<1>6. ASSUME NEW g \in Jobs, Pop(g)
      PROVE  SizeMatches'
  <2>1. d_tasks' = [d_tasks EXCEPT ![g] = Tail(d_tasks[g])] /\ d_size' = d_size - 1
    BY <1>6 DEF Pop
  <2>2. Tail(d_tasks[g]) \in Seq(Tasks) /\ Len(Tail(d_tasks[g])) = Len(d_tasks[g]) - 1
    BY <1>0, <1>6, HeadTailProperties DEF Pop
  <2>3. d_size' = d_size + Len(Tail(d_tasks[g])) - Len(d_tasks[g])
    BY <1>0, <1>t, <2>1, <2>2
  <2> QED
    BY <2>1, <2>2, <2>3, SizeAfter
<1>7. ASSUME NEW g \in Jobs, PopAndPushTask(g)
      PROVE  SizeMatches'
  <2> DEFINE s == Append(Tail(d_tasks[g]), Head(d_tasks[g]))
  <2>1. d_tasks' = [d_tasks EXCEPT ![g] = s] /\ d_size' = d_size
    BY <1>7 DEF PopAndPushTask
  <2>2. /\ Head(d_tasks[g]) \in Tasks /\ Tail(d_tasks[g]) \in Seq(Tasks)
        /\ Len(Tail(d_tasks[g])) = Len(d_tasks[g]) - 1
    BY <1>0, <1>7, HeadTailProperties DEF PopAndPushTask
  <2>3. s \in Seq(Tasks) /\ Len(s) = Len(d_tasks[g]) - 1 + 1
    BY <2>2, AppendProperties
  <2> HIDE DEF s
  <2>4. d_size' = d_size + Len(s) - Len(d_tasks[g])
    BY <1>0, <1>t, <2>1, <2>3
  <2> QED
    BY <2>1, <2>3, <2>4, SizeAfter
<1> QED
  BY <1>1, <1>2, <1>3, <1>4, <1>5, <1>6, <1>7 DEF QueueNext

\* d_size is the number of waiting tasks however the queue is called; in
\* particular it never wraps below 0 (taskqueue.cc, Push, Pop and Remove).
THEOREM QueueLengthRight == QueueSpec => []SizeMatches
<1>1. QueueInit => SizeMatches
  <2> SUFFICES ASSUME QueueInit
               PROVE  SizeMatches
    OBVIOUS
  <2>1. \A j \in Jobs : Lengths[j] = 0
    BY EmptySeq DEF QueueInit, Lengths
  <2>2. SumFunctionOnSet(Lengths, Jobs) = 0
    BY <2>1, SumZero, TaskQueueAssumption
  <2> QED
    BY <2>2 DEF SizeMatches, SumFunction, Lengths, QueueInit
<1>2. QueueInv /\ SizeMatches /\ [QueueNext]_queueVars => SizeMatches'
  BY SizeStep
<1> QED
  BY <1>1, <1>2, QueueInitInv, QueueStepInv, PTL DEF QueueSpec

==============================================================================
