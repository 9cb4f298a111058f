--------------------------- MODULE CommunicatorProofs ---------------------------
(***************************************************************************)
(* The master whose jobs have connections (Communicator) implements the    *)
(* master that is simply told what jobs want (Application); what the       *)
(* connections carry is in order, and clients and master agree on it.      *)
(***************************************************************************)
EXTENDS Communicator, ApplicationProofs

(***************************************************************************)
(* New task objects stay new until the master handles their batch.         *)
(***************************************************************************)

\* Where nothing new comes up, new task objects stay new.
LEMMA FreshFrame ==
  ASSUME NEW t, Fresh(t), t \notin awaiting',
         Queued' \subseteq Queued \cup Held, Held' \subseteq Held \cup Queued,
         \A w \in Workers : \A m \in executing'[w] : m \in executing[w] \/ m.task \in Queued,
         \A w \in Workers : \A k \in DOMAIN wire'[w] :
           \/ \E l \in DOMAIN wire[w] : wire'[w][k] = wire[w][l]
           \/ \E m \in executing[w] : wire'[w][k].task = m.task
  PROVE  Fresh(t)'
<1>1. t \notin awaiting' \cup Queued' \cup Held'
  BY DEF Fresh
<1>2. ASSUME NEW w \in Workers, NEW m \in executing'[w] PROVE m.task # t
  BY <1>2 DEF Fresh
<1>3. ASSUME NEW w \in Workers, NEW k \in DOMAIN wire'[w] PROVE wire'[w][k].task # t
  BY <1>3 DEF Fresh
<1> QED
  BY <1>1, <1>2, <1>3 DEF Fresh

\* The elements of a tail are those of the sequence, one place earlier.
LEMMA ElementOfTail ==
  ASSUME NEW S, NEW s \in Seq(S), s # <<>>, NEW k \in DOMAIN Tail(s)
  PROVE  k + 1 \in DOMAIN s /\ Tail(s)[k] = s[k + 1]
<1>1. Len(Tail(s)) = Len(s) - 1 /\ Len(s) \in Nat \ {0} /\ Tail(s) \in Seq(S)
  OBVIOUS
<1>2. k \in 1 .. Len(s) - 1
  BY <1>1
<1> QED
  BY <1>1, <1>2

\* A step of the master after which no job waits for a task object that was
\* new leaves it new.
LEMMA FreshKept ==
  ASSUME AppInv, NEW t \in Tasks, Fresh(t), [Next]_vars, t \notin awaiting'
  PROVE  Fresh(t)'
<1>0. /\ QueueInv /\ WorkerInv /\ RestTypeOK
      /\ active \in [Workers -> BOOLEAN] /\ task \in [Workers -> Tasks \cup {NoTask}]
      /\ executing \in [Workers -> SUBSET Messages] /\ wire \in [Workers -> Seq(Answers)]
      /\ \A w \in Workers : active[w] => task[w] \in Tasks /\ task[w] \in Held
  BY DEF AppInv, WorkerInv, WorkerTypeOK, ActiveHasTask, RestTypeOK, Held
<1> DEFINE QuietWorkers ==
             \A w \in Workers : \A m \in executing'[w] : m \in executing[w] \/ m.task \in Queued
           QuietWires ==
             \A w \in Workers : \A k \in DOMAIN wire'[w] :
               \/ \E l \in DOMAIN wire[w] : wire'[w][k] = wire[w][l]
               \/ \E m \in executing[w] : wire'[w][k].task = m.task
           QuietWorld == QuietWorkers /\ QuietWires
<1>1. ASSUME Queued' \subseteq Queued \cup Held, Held' \subseteq Held \cup Queued, QuietWorld
      PROVE  Fresh(t)'
  BY <1>1, FreshFrame
<1>2. ASSUME UNCHANGED <<executing, wire>> PROVE QuietWorld
  BY <1>2
<1>3. ASSUME NEW w \in Workers,
             executing' = [executing EXCEPT ![w] = {}], wire' = [wire EXCEPT ![w] = <<>>]
      PROVE  QuietWorld
  BY <1>0, <1>3
<1>4. ASSUME NEW ws, CancelsSent(ws) PROVE QuietWorld
  BY <1>0, <1>4 DEF CancelsSent
<1>5. ASSUME active' = active, task' = task PROVE Held' \subseteq Held
  BY <1>5 DEF Held
<1>6. ASSUME d_tasks' = d_tasks PROVE Queued' \subseteq Queued
  BY <1>6 DEF Queued
<1>7. ASSUME NEW ws, DeactivateAll(ws) PROVE Held' \subseteq Held
  BY <1>0, <1>7, HeldShrinks DEF DeactivateAll
<1>8. ASSUME NEW w \in Workers, active[w], PushTask(task[w]) PROVE Queued' \subseteq Queued \cup Held
  BY <1>0, <1>8, PushTaskAdds
<1>9. ASSUME NEW c \in Connections, NEW w \in Workers, OnGreeting(c, w) PROVE Fresh(t)'
  <2>1. /\ task' = [task EXCEPT ![w] = NoTask] /\ w \notin d_workers
        /\ UNCHANGED <<queueVars, active, awaiting>>
        /\ executing' = [executing EXCEPT ![w] = {}] /\ wire' = [wire EXCEPT ![w] = <<>>]
    BY <1>9 DEF OnGreeting, AddWorker
  <2>2. ~active[w]
    BY <1>0, <2>1 DEF WorkerInv, WorkerPartition
  <2>3. Held' \subseteq Held
    BY <1>0, <2>1, <2>2, HeldShrinks
  <2>4. QuietWorld /\ Queued' \subseteq Queued
    BY <1>3, <1>6, <2>1 DEF queueVars
  <2> QED
    BY <1>0, <1>1, <2>1, <2>3, <2>4
<1>10. ASSUME NEW w \in Workers, OnWorkerClosed(w) PROVE Fresh(t)'
  <2>1. /\ active' = [active EXCEPT ![w] = FALSE] /\ task' = task /\ awaiting' = awaiting
        /\ executing' = [executing EXCEPT ![w] = {}] /\ wire' = [wire EXCEPT ![w] = <<>>]
        /\ IF active[w] THEN PushTask(task[w]) ELSE UNCHANGED queueVars
    BY <1>10 DEF OnWorkerClosed, RemoveWorker
  <2>2. Held' \subseteq Held
    BY <1>0, <2>1, HeldShrinks
  <2>3. Queued' \subseteq Queued \cup Held
    BY <1>6, <1>8, <2>1 DEF queueVars
  <2> QED
    BY <1>0, <1>1, <1>3, <2>1, <2>2, <2>3
<1>11. ASSUME NEW w \in Workers, NEW told \in SendOutcomes, OnWorkerTimeout(w, told)
       PROVE  Fresh(t)'
  <2>1. active[w] /\ PushTask(task[w]) /\ awaiting' = awaiting
    BY <1>0, <1>11 DEF OnWorkerTimeout, WorkerInv, TimerOnlyWhenActive
  <2>2. \/ DeactivateAll(<<w>>) /\ CancelsSent({w})
        \/ DisarmTimeout(w) /\ UNCHANGED <<executing, wire>>
    BY <1>11 DEF OnWorkerTimeout, CancelOrDeactivate
  <2>3. QuietWorld /\ Held' \subseteq Held
    BY <1>2, <1>4, <1>5, <1>7, <2>2 DEF DisarmTimeout
  <2> QED
    BY <1>0, <1>1, <1>8, <2>1, <2>3
<1>12. ASSUME NEW w \in Workers, NEW m \in executing[w], NEW s \in Statuses, WorkerAnswer(w, m, s)
       PROVE  Fresh(t)'
  <2> DEFINE a == [task |-> m.task, uid |-> m.uid, status |-> s]
  <2>1. /\ UNCHANGED <<queueVars, workerVars, awaiting>>
        /\ wire' = [wire EXCEPT ![w] = Append(@, a)]
        /\ executing' = [executing EXCEPT ![w] = IF s = "Challenge" THEN @ ELSE @ \ {m}]
    BY <1>12 DEF WorkerAnswer
  <2>2. a.task = m.task
    OBVIOUS
  <2> HIDE DEF a
  <2>3. QuietWorkers
    BY <1>0, <2>1
  <2>4. ASSUME NEW v \in Workers, NEW k \in DOMAIN wire'[v]
        PROVE  \/ \E l \in DOMAIN wire[v] : wire'[v][k] = wire[v][l]
               \/ \E n \in executing[v] : wire'[v][k].task = n.task
    <3>1. CASE v # w
      BY <1>0, <2>1, <2>4, <3>1
    <3>2. CASE v = w
      <4>1. wire'[w] = Append(wire[w], a) /\ wire[w] \in Seq(Answers)
        BY <1>0, <2>1
      <4>2. (k \in DOMAIN wire[w] /\ wire'[w][k] = wire[w][k]) \/ wire'[w][k] = a
        BY <2>4, <3>2, <4>1
      <4> QED
        BY <1>12, <2>2, <3>2, <4>2
    <3> QED
      BY <3>1, <3>2
  <2> QED
    BY <1>0, <1>1, <1>5, <1>6, <2>1, <2>3, <2>4 DEF queueVars, workerVars
<1>13. ASSUME NEW w \in Workers, OnWorkerCommunication(w) PROVE Fresh(t)'
  <2> DEFINE a == Head(wire[w])
  <2>1. /\ wire[w] # <<>> /\ wire' = [wire EXCEPT ![w] = Tail(@)] /\ executing' = executing
    BY <1>13 DEF OnWorkerCommunication
  <2>2. QuietWires
    <3> SUFFICES ASSUME NEW v \in Workers, NEW k \in DOMAIN wire'[v]
                 PROVE  \E l \in DOMAIN wire[v] : wire'[v][k] = wire[v][l]
      OBVIOUS
    <3>1. CASE v # w
      BY <1>0, <2>1, <3>1
    <3>2. CASE v = w
      <4>1. wire'[w] = Tail(wire[w]) /\ wire[w] \in Seq(Answers)
        BY <1>0, <2>1
      <4>2. k + 1 \in DOMAIN wire[w] /\ Tail(wire[w])[k] = wire[w][k + 1]
        BY <2>1, <3>2, <4>1, ElementOfTail
      <4> QED
        BY <3>2, <4>1, <4>2
    <3> QED
      BY <3>1, <3>2
  <2>3. QuietWorld
    BY <2>1, <2>2
  <2>4. CASE DropAnswer(w) \/ AnswerChallenge(w, a)
    BY <1>0, <1>1, <1>5, <1>6, <2>3, <2>4 DEF DropAnswer, AnswerChallenge, queueVars, workerVars
  <2>5. CASE AnswerWithoutJob(w)
    BY <1>0, <1>1, <1>6, <1>7, <2>3, <2>5 DEF AnswerWithoutJob, queueVars, Deactivate
  <2>6. CASE AnswerSuccess(w, a) \/ AnswerRejected(w, a)
    <3>1. /\ active[w] /\ Finished(task[w]) /\ DeactivateAll(<<w>>)
          /\ awaiting' = AwaitingAfter(Group[task[w]], a)
      BY <2>6 DEF AnswerSuccess, AnswerRejected, HasJob, CompleteTask, Deactivate
    <3>2. Group[task[w]] \in Jobs /\ task[w] \in Tasks
      BY <1>0, <3>1, TaskAssumption
    <3>3. Queued' \subseteq Queued
      BY <1>0, <3>1, <3>2, NothingAdded
    <3> QED
      BY <1>0, <1>1, <1>7, <2>3, <3>1, <3>3 DEF AwaitingAfter
  <2>7. CASE AnswerRescheduled(w, a)
    BY <1>0, <1>1, <1>7, <1>8, <2>3, <2>7 DEF AnswerRescheduled, HasJob, Deactivate
  <2> QED
    BY <1>13, <2>4, <2>5, <2>6, <2>7 DEF OnWorkerCommunication
<1>14. ASSUME NEW j \in Jobs, OnJobAdded(j) PROVE Fresh(t)'
  BY <1>0, <1>1, <1>2, <1>5, <1>6, <1>14 DEF OnJobAdded, queueVars, workerVars, worldVars
<1>15. ASSUME NEW j \in Jobs, NEW x \in BOOLEAN, NEW timed \in Timeouts,
              HandleJobIdentify(j, x, timed)
       PROVE  Fresh(t)'
  BY <1>0, <1>1, <1>2, <1>5, <1>6, <1>15 DEF HandleJobIdentify, queueVars, workerVars, worldVars
<1>16. ASSUME NEW j \in Jobs, NEW ts \in BatchesOf(NewTasks(j)), HandleJobBatch(j, ts)
       PROVE  Fresh(t)'
  <2>1. ts \in Seq(Tasks)
    BY BatchTasks DEF NewTasks
  <2>3. /\ PushBatch(j, ts, timeout[j]) /\ awaiting' = awaiting \cup Range(ts)
        /\ UNCHANGED <<workerVars, executing, wire>>
    BY <1>16 DEF HandleJobBatch
  <2>2. t \notin Range(ts)
    BY <2>3
  <2>4. Queued' \subseteq Queued \cup Range(ts)
    BY <1>0, <2>1, <2>3, PushBatchAdds
  <2>5. Held' \subseteq Held
    BY <1>5, <2>3 DEF workerVars
  <2> QED
    BY <2>2, <2>3, <2>4, <2>5 DEF Fresh
<1>17. ASSUME NEW j \in Jobs, NEW told \in CancelOutcomes(j), OnJobRemoved(j, told)
       PROVE  Fresh(t)'
  <2>1. /\ Remove(j) /\ DeactivateAll(activeWorkers[j]) /\ CancelsSent(told)
        /\ awaiting' = {u \in awaiting : Group[u] # j}
    BY <1>17 DEF OnJobRemoved, CancelOrDeactivate
  <2>2. Queued' \subseteq Queued
    BY <1>0, <2>1, NothingAdded
  <2> QED
    BY <1>0, <1>1, <1>4, <1>7, <2>1, <2>2
<1>18. ASSUME NEW g \in Jobs, DispatchTask(g) PROVE Fresh(t)'
  <2> DEFINE w == Head(d_idleWorkers)
             u == Head(d_tasks[g])
  <2>1. /\ Pop(g) /\ d_tasks[g] # <<>> /\ d_idleWorkers # <<>>
        /\ active' = [active EXCEPT ![w] = TRUE] /\ task' = [task EXCEPT ![w] = u]
        /\ executing' = [executing EXCEPT ![w] = @ \cup {[task |-> u, uid |-> uniqueid[u]]}]
        /\ wire' = wire /\ awaiting' = awaiting
    BY <1>18 DEF DispatchTask, Pop, Activate
  <2>2. Queued' \subseteq Queued /\ u \in Queued
    BY <1>0, <2>1, NothingAdded
  <2>3. w \in Workers
    BY <1>0, <2>1, HeadTailProperties DEF WorkerInv, WorkerTypeOK
  <2> HIDE DEF w, u
  <2>4. Held' \subseteq Held \cup {u}
    <3>1. \A v \in Workers : v # w => active'[v] = active[v] /\ task'[v] = task[v]
      BY <1>0, <2>1, <2>3
    <3>2. task'[w] = u
      BY <1>0, <2>1, <2>3
    <3> QED
      BY <3>1, <3>2 DEF Held
  <2>5. QuietWorld
    BY <1>0, <2>1, <2>2, <2>3
  <2> QED
    BY <1>0, <1>1, <2>1, <2>2, <2>4, <2>5
<1>19. ASSUME NEW g \in Jobs, DispatchFails(g) PROVE Fresh(t)'
  <2>1. /\ PopAndPushTask(g) /\ ActivateFails(Head(d_tasks[g]))
        /\ UNCHANGED <<executing, wire, awaiting>>
    BY <1>19 DEF DispatchFails, worldVars
  <2>2. \A w \in Workers : active'[w] => active[w] /\ task'[w] = task[w]
    BY <1>0, <2>1 DEF ActivateFails
  <2>3. Queued' \subseteq Queued
    BY <1>0, <2>1, NothingAdded
  <2>4. Held' \subseteq Held
    BY <2>2, HeldShrinks
  <2>5. QuietWorld
    BY <1>2, <2>1
  <2> QED
    BY <1>0, <1>1, <2>1, <2>3, <2>4, <2>5
<1>20. CASE DispatchEnd
  BY <1>0, <1>1, <1>2, <1>5, <1>6, <1>20
  DEF DispatchEnd, RotateIdle, queueVars, workerVars, worldVars
<1>21. CASE UNCHANGED vars
  BY <1>0, <1>1, <1>2, <1>5, <1>6, <1>21 DEF vars, queueVars, workerVars, worldVars
<1>22. ASSUME NEW w \in Workers, WorkerStep(w) PROVE Fresh(t)'
  BY <1>10, <1>11, <1>12, <1>13, <1>22 DEF WorkerStep
<1>23. ASSUME NEW j \in Jobs, JobStep(j) PROVE Fresh(t)'
  BY <1>14, <1>15, <1>16, <1>17, <1>23 DEF JobStep, NewTasks
<1>24. CASE DispatchStep
  BY <1>18, <1>19, <1>20, <1>24 DEF DispatchStep, DispatchTurn
<1> QED
  BY <1>9, <1>21, <1>22, <1>23, <1>24 DEF Next

(***************************************************************************)
(* What is under way on the connections of the jobs.                       *)
(***************************************************************************)

\* The tasks of message m.
TasksOf(m) == IF m.type = "Batch" THEN Range(m.tasks) ELSE {}

\* A message that client j may send.
Proper(j, m) ==
  /\ m.type \in {"Identify", "Batch", "Progress", "Token"}
  /\ m.type = "Identify" => m.recent \in BOOLEAN /\ m.timed \in Timeouts
  /\ m.type = "Batch" => m.tasks \in BatchesOf({t \in Tasks : Group[t] = j})

\* Messages are proper, and OnData has not extracted more than there are.
InboxProper ==
  /\ \E S : inbox \in [Jobs -> Seq(S)]
  /\ extracted \in [Jobs -> Nat]
  /\ \A j \in Jobs :
       /\ \A k \in DOMAIN inbox[j] : Proper(j, inbox[j][k])
       /\ extracted[j] <= Len(inbox[j])

\* The tasks in unread batches are new, and in one batch each.
UnreadFresh ==
  \A j \in Jobs :
    /\ \A k \in DOMAIN inbox[j] : \A t \in TasksOf(inbox[j][k]) : Fresh(t)
    /\ \A k, l \in DOMAIN inbox[j] : k # l => TasksOf(inbox[j][k]) \cap TasksOf(inbox[j][l]) = {}

\* The inductive invariant.
CommunicatorInv == AppInv /\ InboxProper /\ UnreadFresh

\* A batch is one of any set that holds its tasks.
LEMMA BatchOfItsTasks ==
  ASSUME NEW S, NEW T, NEW ts \in BatchesOf(S), Range(ts) \subseteq T
  PROVE  ts \in BatchesOf(T)
<1>1. PICK n \in 0 .. MaxBatch : ts \in [1 .. n -> S]
  BY DEF BatchesOf
<1>2. \A k \in 1 .. n : ts[k] \in T
  BY <1>1 DEF Range
<1>3. ts \in [1 .. n -> T]
  BY <1>1, <1>2
<1> QED
  BY <1>3 DEF BatchesOf

\* A message handed out is a step of the master, or none.
LEMMA HandOutIsMasterStep ==
  ASSUME CommunicatorInv, NEW j \in Jobs, OnJobCommunication(j)
  PROVE  \/ UNCHANGED vars
         \/ \E recent \in BOOLEAN, timed \in Timeouts : HandleJobIdentify(j, recent, timed)
         \/ /\ NextMessage(j).type = "Batch"
            /\ NextMessage(j).tasks \in BatchesOf(NewTasks(j))
            /\ HandleJobBatch(j, NextMessage(j).tasks)
<1> DEFINE m == NextMessage(j)
<1>1. 1 \in DOMAIN inbox[j] /\ m = inbox[j][1]
  <2>1. /\ extracted[j] > 0 /\ extracted[j] \in Nat /\ extracted[j] <= Len(inbox[j])
        /\ \E S : inbox[j] \in Seq(S)
    BY DEF OnJobCommunication, CommunicatorInv, InboxProper
  <2> QED
    BY <2>1 DEF NextMessage
<1>2. Proper(j, m) /\ \A t \in TasksOf(m) : Fresh(t)
  BY <1>1 DEF CommunicatorInv, InboxProper, UnreadFresh
<1>3. CASE m.type = "Identify" /\ HandleJobIdentify(j, m.recent, m.timed)
  BY <1>2, <1>3 DEF Proper
<1>4. CASE m.type = "Batch" /\ HandleJobBatch(j, m.tasks)
  <2>1. m.tasks \in BatchesOf({t \in Tasks : Group[t] = j})
    BY <1>2, <1>4 DEF Proper
  <2>2. Range(m.tasks) \subseteq {t \in Tasks : Group[t] = j}
    BY <2>1, BatchTasks
  <2>3. Range(m.tasks) \subseteq NewTasks(j)
    BY <1>2, <1>4, <2>2 DEF TasksOf, NewTasks
  <2> QED
    BY <1>4, <2>1, <2>3, BatchOfItsTasks
<1>5. \/ m.type = "Identify" /\ HandleJobIdentify(j, m.recent, m.timed)
      \/ m.type = "Batch" /\ HandleJobBatch(j, m.tasks)
      \/ UNCHANGED vars
  BY DEF OnJobCommunication, HandleMessage, HandleJobToken
<1> QED
  BY <1>3, <1>4, <1>5

\* Every step of master and connections is a step of the master, or none.
LEMMA StepIsMasterStep ==
  ASSUME CommunicatorInv, [CommunicatorNext]_communicatorVars
  PROVE  [Next]_vars
<1>1. ASSUME NEW j \in Jobs, ClientStep(j) PROVE UNCHANGED vars
  BY <1>1 DEF ClientStep, SendIdentify, SendBatch, SendProgress, SendToken, Send
<1>2. ASSUME NEW j \in Jobs, NEW n, OnData(j, n) PROVE UNCHANGED vars
  BY <1>2 DEF OnData
<1>3. ASSUME NEW j \in Jobs, OnJobCommunication(j) PROVE [Next]_vars
  <2>1. CASE \E recent \in BOOLEAN, timed \in Timeouts : HandleJobIdentify(j, recent, timed)
    BY <2>1 DEF Next, JobStep
  <2>2. ASSUME NEW ts \in BatchesOf(NewTasks(j)), HandleJobBatch(j, ts) PROVE Next
    BY <2>2 DEF Next, JobStep, NewTasks
  <2> QED
    BY <1>3, <2>1, <2>2, HandOutIsMasterStep
<1>4. ASSUME NEW j \in Jobs, Connect(j) PROVE Next
  BY <1>4 DEF Connect, Next, JobStep
<1>5. ASSUME NEW j \in Jobs, Disconnect(j) PROVE Next
  BY <1>5 DEF Disconnect, OnClosed, Next, JobStep
<1>6. ASSUME NEW w \in Workers, ReadAnswer(w) PROVE Next
  BY <1>6 DEF ReadAnswer, Next, WorkerStep
<1>7. ASSUME NEW w \in Workers, NEW m \in executing[w], NEW outcome \in Statuses,
             Answer(w, m, outcome)
      PROVE  Next
  BY <1>7 DEF Answer, Next, WorkerStep
<1>8. CASE WorkerComesOrGoes
  BY <1>8 DEF WorkerComesOrGoes, Next, WorkerStep
<1>9. CASE Dispatching
  BY <1>9 DEF Dispatching, Next
<1>10. CASE UNCHANGED communicatorVars
  BY <1>10 DEF communicatorVars
<1> QED
  BY <1>1, <1>2, <1>3, <1>4, <1>5, <1>6, <1>7, <1>8, <1>9, <1>10 DEF CommunicatorNext

\* A step that hands out no message makes no job wait for more tasks.
LEMMA NothingAwaited ==
  ASSUME [CommunicatorNext]_communicatorVars, \A j \in Jobs : ~OnJobCommunication(j)
  PROVE  awaiting' \subseteq awaiting
<1>1. ASSUME NEW j \in Jobs, ClientStep(j) PROVE awaiting' \subseteq awaiting
  BY <1>1
  DEF ClientStep, SendIdentify, SendBatch, SendProgress, SendToken, Send, vars, worldVars
<1>2. ASSUME NEW j \in Jobs, NEW n, OnData(j, n) PROVE awaiting' \subseteq awaiting
  BY <1>2 DEF OnData, vars, worldVars
<1>3. ASSUME NEW j \in Jobs, Connect(j) \/ Disconnect(j) PROVE awaiting' \subseteq awaiting
  BY <1>3 DEF Connect, OnJobAdded, Disconnect, OnClosed, OnJobRemoved, worldVars
<1>4. ASSUME NEW w \in Workers, ReadAnswer(w) PROVE awaiting' \subseteq awaiting
  <2>1. OnWorkerCommunication(w)
    BY <1>4 DEF ReadAnswer
  <2> QED
    BY <2>1
    DEF OnWorkerCommunication, DropAnswer, AnswerWithoutJob, AnswerSuccess, AnswerRejected,
        AnswerRescheduled, AnswerChallenge, CompleteTask, AwaitingAfter
<1>5. ASSUME NEW w \in Workers, NEW m \in executing[w], NEW outcome \in Statuses,
             Answer(w, m, outcome)
      PROVE  awaiting' \subseteq awaiting
  BY <1>5 DEF Answer, WorkerAnswer
<1>6. CASE WorkerComesOrGoes
  BY <1>6 DEF WorkerComesOrGoes, OnGreeting, OnWorkerClosed, OnWorkerTimeout
<1>7. CASE Dispatching
  BY <1>7
  DEF Dispatching, DispatchStep, DispatchTurn, DispatchTask, DispatchFails, DispatchEnd, worldVars
<1>8. CASE UNCHANGED communicatorVars
  BY <1>8 DEF communicatorVars, vars, worldVars
<1> QED
  BY <1>1, <1>2, <1>3, <1>4, <1>5, <1>6, <1>7, <1>8 DEF CommunicatorNext

\* A message that is sent comes after the others.
LEMMA SendKeeps ==
  ASSUME CommunicatorInv, NEW j \in Jobs, NEW m, Send(j, m), Proper(j, m),
         \A t \in TasksOf(m) : Fresh(t) /\ t \notin Unread(j)
  PROVE  InboxProper' /\ UnreadFresh'
<1>1. /\ inbox' = [inbox EXCEPT ![j] = Append(@, m)]
      /\ extracted' = extracted
      /\ UNCHANGED vars
  BY DEF Send
<1>2. \A t : Fresh(t)' <=> Fresh(t)
  BY <1>1 DEF vars, worldVars, queueVars, workerVars, Fresh, Queued, Held
<1>3. PICK S : inbox \in [Jobs -> Seq(S)]
  BY DEF CommunicatorInv, InboxProper
<1>4. /\ inbox \in [Jobs -> Seq(S \cup {m})] /\ inbox' \in [Jobs -> Seq(S \cup {m})]
      /\ inbox'[j] = Append(inbox[j], m)
      /\ \A i \in Jobs \ {j} : inbox'[i] = inbox[i]
  BY <1>1, <1>3
<1>5. /\ Len(inbox'[j]) = Len(inbox[j]) + 1 /\ Len(inbox[j]) \in Nat
      /\ DOMAIN inbox[j] = 1 .. Len(inbox[j]) /\ DOMAIN inbox'[j] = 1 .. Len(inbox[j]) + 1
      /\ \A k \in DOMAIN inbox'[j] :
           inbox'[j][k] = IF k = Len(inbox[j]) + 1 THEN m ELSE inbox[j][k]
  BY <1>4
<1>6. InboxProper'
  <2>1. extracted \in [Jobs -> Nat]
    BY DEF CommunicatorInv, InboxProper
  <2>2. ASSUME NEW i \in Jobs
        PROVE  /\ \A k \in DOMAIN inbox'[i] : Proper(i, inbox'[i][k])
               /\ extracted[i] <= Len(inbox'[i])
    <3>1. extracted[i] <= Len(inbox[i]) /\ \A k \in DOMAIN inbox[i] : Proper(i, inbox[i][k])
      BY DEF CommunicatorInv, InboxProper
    <3>2. CASE i = j
      BY <1>5, <2>1, <3>1, <3>2
    <3>3. CASE i # j
      BY <1>4, <3>1, <3>3
    <3> QED
      BY <3>2, <3>3
  <2> QED
    BY <1>1, <1>4, <2>1, <2>2 DEF InboxProper, Proper
<1>7. \A k \in DOMAIN inbox[j] : TasksOf(inbox[j][k]) \cap TasksOf(m) = {}
  <2>1. \A k \in DOMAIN inbox[j] : TasksOf(inbox[j][k]) \subseteq Unread(j)
    BY DEF TasksOf, Unread
  <2> QED
    BY <2>1
<1>8. ASSUME NEW i \in Jobs
      PROVE  /\ \A k \in DOMAIN inbox'[i] : \A t \in TasksOf(inbox'[i][k]) : Fresh(t)
             /\ \A k, l \in DOMAIN inbox'[i] :
                  k # l => TasksOf(inbox'[i][k]) \cap TasksOf(inbox'[i][l]) = {}
  <2>1. /\ \A k \in DOMAIN inbox[i] : \A t \in TasksOf(inbox[i][k]) : Fresh(t)
        /\ \A k, l \in DOMAIN inbox[i] :
             k # l => TasksOf(inbox[i][k]) \cap TasksOf(inbox[i][l]) = {}
    BY DEF CommunicatorInv, UnreadFresh
  <2>2. CASE i # j
    BY <1>4, <2>1, <2>2
  <2>3. CASE i = j
    <3>1. \A k \in DOMAIN inbox'[j] :
            \/ k = Len(inbox[j]) + 1 /\ inbox'[j][k] = m
            \/ k \in DOMAIN inbox[j] /\ inbox'[j][k] = inbox[j][k]
      BY <1>5
    <3>2. \A k \in DOMAIN inbox'[j] : \A t \in TasksOf(inbox'[j][k]) : Fresh(t)
      BY <2>1, <2>3, <3>1
    <3>3. ASSUME NEW k \in DOMAIN inbox'[j], NEW l \in DOMAIN inbox'[j], k # l
          PROVE  TasksOf(inbox'[j][k]) \cap TasksOf(inbox'[j][l]) = {}
      <4>1. CASE k \in DOMAIN inbox[j] /\ l \in DOMAIN inbox[j]
        <5>1. inbox'[j][k] = inbox[j][k] /\ inbox'[j][l] = inbox[j][l]
          BY <1>5, <4>1
        <5> QED
          BY <2>1, <2>3, <3>3, <4>1, <5>1
      <4>2. CASE k = Len(inbox[j]) + 1 /\ l \in DOMAIN inbox[j]
        BY <1>5, <1>7, <4>2
      <4>3. CASE l = Len(inbox[j]) + 1 /\ k \in DOMAIN inbox[j]
        BY <1>5, <1>7, <4>3
      <4> QED
        BY <3>1, <3>3, <4>1, <4>2, <4>3
    <3> QED
      BY <2>3, <3>2, <3>3
  <2> QED
    BY <2>2, <2>3
<1>9. UnreadFresh'
  BY <1>2, <1>8 DEF UnreadFresh, TasksOf
<1> QED
  BY <1>6, <1>9

\* The messages after the one that is handed out stay as they are.
LEMMA HandOutKeeps ==
  ASSUME CommunicatorInv, NEW j \in Jobs, OnJobCommunication(j)
  PROVE  InboxProper' /\ UnreadFresh'
<1> DEFINE m == NextMessage(j)
<1>0. AppInv /\ [Next]_vars
  BY StepIsMasterStep DEF CommunicatorInv, CommunicatorNext
<1>1. /\ inbox' = [inbox EXCEPT ![j] = Tail(@)]
      /\ extracted' = [extracted EXCEPT ![j] = @ - 1]
      /\ extracted[j] > 0
  BY DEF OnJobCommunication
<1>2. PICK S : inbox \in [Jobs -> Seq(S)]
  BY DEF CommunicatorInv, InboxProper
<1>3. /\ extracted \in [Jobs -> Nat]
      /\ \A i \in Jobs : extracted[i] <= Len(inbox[i])
      /\ \A i \in Jobs : \A k \in DOMAIN inbox[i] : Proper(i, inbox[i][k])
  BY DEF CommunicatorInv, InboxProper
<1>4. /\ inbox[j] # <<>> /\ inbox[j] \in Seq(S) /\ m = inbox[j][1] /\ 1 \in DOMAIN inbox[j]
      /\ Len(Tail(inbox[j])) = Len(inbox[j]) - 1
  BY <1>1, <1>2, <1>3 DEF NextMessage
<1>5. /\ inbox' \in [Jobs -> Seq(S)]
      /\ inbox'[j] = Tail(inbox[j])
      /\ \A i \in Jobs \ {j} : inbox'[i] = inbox[i]
  BY <1>1, <1>2, <1>4
<1>6. \A k \in DOMAIN inbox'[j] :
        k + 1 \in DOMAIN inbox[j] /\ inbox'[j][k] = inbox[j][k + 1] /\ k + 1 # 1 /\ k \in Nat
  <2> TAKE k \in DOMAIN inbox'[j]
  <2>1. k + 1 \in DOMAIN inbox[j] /\ inbox'[j][k] = inbox[j][k + 1]
    BY <1>4, <1>5, ElementOfTail
  <2>2. k \in 1 .. Len(Tail(inbox[j]))
    BY <1>4, <1>5
  <2> QED
    BY <2>1, <2>2
<1>7. InboxProper'
  <2>1. extracted' \in [Jobs -> Nat] /\ \A i \in Jobs : extracted'[i] <= Len(inbox'[i])
    BY <1>1, <1>2, <1>3, <1>4, <1>5
  <2>2. \A i \in Jobs : \A k \in DOMAIN inbox'[i] : Proper(i, inbox'[i][k])
    BY <1>3, <1>5, <1>6
  <2> QED
    BY <1>5, <2>1, <2>2 DEF InboxProper, Proper
<1>8. ASSUME NEW i \in Jobs, NEW k \in DOMAIN inbox'[i], NEW t \in TasksOf(inbox'[i][k])
      PROVE  Fresh(t)'
  <2>1. PICK l \in DOMAIN inbox[i] : inbox'[i][k] = inbox[i][l] /\ (i = j => l # 1)
    BY <1>5, <1>6
  <2>2. Fresh(t) /\ t \in TasksOf(inbox[i][l])
    BY <1>8, <2>1 DEF CommunicatorInv, UnreadFresh
  <2>3. Group[t] = i /\ t \in Tasks
    <3>1. Proper(i, inbox[i][l]) /\ inbox[i][l].type = "Batch"
      BY <1>3, <2>2 DEF TasksOf
    <3>2. Range(inbox[i][l].tasks) \subseteq {u \in Tasks : Group[u] = i}
      BY <3>1, BatchTasks DEF Proper
    <3> QED
      BY <2>2, <3>1, <3>2 DEF TasksOf
  <2>4. t \notin awaiting'
    <3>1. CASE UNCHANGED vars
      BY <2>2, <3>1 DEF vars, worldVars, Fresh
    <3>2. CASE \E recent \in BOOLEAN, timed \in Timeouts : HandleJobIdentify(j, recent, timed)
      BY <2>2, <3>2 DEF HandleJobIdentify, worldVars, Fresh
    <3>3. CASE /\ m.type = "Batch" /\ m.tasks \in BatchesOf(NewTasks(j))
               /\ HandleJobBatch(j, m.tasks)
      <4>1. awaiting' = awaiting \cup Range(m.tasks) /\ t \notin awaiting
        BY <2>2, <3>3 DEF HandleJobBatch, Fresh
      <4>2. Range(m.tasks) \subseteq NewTasks(j)
        BY <3>3, BatchTasks DEF NewTasks
      <4>3. i = j => t \notin Range(m.tasks)
        BY <1>4, <2>1, <2>2, <3>3 DEF CommunicatorInv, UnreadFresh, TasksOf
      <4> QED
        BY <2>3, <4>1, <4>2, <4>3 DEF NewTasks
    <3> QED
      BY <3>1, <3>2, <3>3, HandOutIsMasterStep
  <2> QED
    BY <1>0, <2>2, <2>3, <2>4, FreshKept
<1>9. ASSUME NEW i \in Jobs, NEW k \in DOMAIN inbox'[i], NEW l \in DOMAIN inbox'[i], k # l
      PROVE  TasksOf(inbox'[i][k]) \cap TasksOf(inbox'[i][l]) = {}
  <2>1. \A a, b \in DOMAIN inbox[i] :
          a # b => TasksOf(inbox[i][a]) \cap TasksOf(inbox[i][b]) = {}
    BY DEF CommunicatorInv, UnreadFresh
  <2>2. CASE i = j
    <3>1. k + 1 # l + 1
      BY <1>6, <1>9, <2>2
    <3> QED
      BY <1>6, <1>9, <2>1, <2>2, <3>1
  <2>3. CASE i # j
    BY <1>5, <1>9, <2>1, <2>3
  <2> QED
    BY <2>2, <2>3
<1> QED
  BY <1>7, <1>8, <1>9 DEF UnreadFresh, TasksOf

\* Every step keeps the invariant.
LEMMA CommunicatorStepInv ==
  ASSUME CommunicatorInv, [CommunicatorNext]_communicatorVars
  PROVE  CommunicatorInv'
<1>0. AppInv /\ [Next]_vars /\ AppInv'
  BY StepIsMasterStep, AppStepInv DEF CommunicatorInv
<1>1. CASE \E j \in Jobs : OnJobCommunication(j)
  BY <1>0, <1>1, HandOutKeeps DEF CommunicatorInv
<1>2. ASSUME NEW j \in Jobs, NEW m, Send(j, m), Proper(j, m),
             \A t \in TasksOf(m) : Fresh(t) /\ t \notin Unread(j)
      PROVE  CommunicatorInv'
  BY <1>0, <1>2, SendKeeps DEF CommunicatorInv
<1>3. ASSUME NEW j \in Jobs, ClientStep(j) PROVE CommunicatorInv'
  <2>1. ASSUME NEW recent \in BOOLEAN, NEW timed \in Timeouts, SendIdentify(j, recent, timed)
        PROVE  CommunicatorInv'
    <3> DEFINE m == [type |-> "Identify", recent |-> recent, timed |-> timed]
    <3>1. Send(j, m) /\ Proper(j, m) /\ TasksOf(m) = {}
      BY <2>1 DEF SendIdentify, Proper, TasksOf
    <3> QED
      BY <1>2, <3>1
  <2>2. ASSUME NEW ts \in BatchesOf(Sendable(j)), SendBatch(j, ts) PROVE CommunicatorInv'
    <3> DEFINE m == [type |-> "Batch", tasks |-> ts]
    <3>1. Sendable(j) \subseteq Tasks /\ Sendable(j) \subseteq {t \in Tasks : Group[t] = j}
      BY DEF Sendable
    <3>2. Range(ts) \subseteq Sendable(j)
      BY <3>1, BatchTasks
    <3>3. ts \in BatchesOf({t \in Tasks : Group[t] = j})
      BY <3>1, <3>2, BatchOfItsTasks
    <3>4. Send(j, m) /\ m.type = "Batch" /\ m.tasks = ts
      BY <2>2 DEF SendBatch
    <3>5. Proper(j, m) /\ TasksOf(m) = Range(ts)
      BY <3>3, <3>4 DEF Proper, TasksOf
    <3>6. \A t \in TasksOf(m) : Fresh(t) /\ t \notin Unread(j)
      BY <3>2, <3>5 DEF Sendable
    <3> QED
      BY <1>2, <3>4, <3>5, <3>6
  <2>3. CASE SendProgress(j)
    <3> DEFINE m == [type |-> "Progress", item |-> reported[j] + 1]
    <3>1. Send(j, m) /\ Proper(j, m) /\ TasksOf(m) = {}
      BY <2>3 DEF SendProgress, Proper, TasksOf
    <3> QED
      BY <1>2, <3>1
  <2>4. ASSUME NEW q, SendToken(j, q) PROVE CommunicatorInv'
    <3> DEFINE m == [type |-> "Token", answers |-> q]
    <3>1. Send(j, m) /\ Proper(j, m) /\ TasksOf(m) = {}
      BY <2>4 DEF SendToken, Proper, TasksOf
    <3> QED
      BY <1>2, <3>1
  <2> QED
    BY <1>3, <2>1, <2>2, <2>3, <2>4 DEF ClientStep
<1>4. ASSUME \A j \in Jobs : ~OnJobCommunication(j),
             InboxProper', \A j \in Jobs : inbox'[j] = inbox[j] \/ inbox'[j] = <<>>
      PROVE  CommunicatorInv'
  <2>1. \A t \in Tasks : Fresh(t) => Fresh(t)'
    BY <1>0, <1>4, NothingAwaited, FreshKept DEF Fresh
  <2>2. ASSUME NEW j \in Jobs, NEW k \in DOMAIN inbox'[j], NEW t \in TasksOf(inbox'[j][k])
        PROVE  Fresh(t)'
    <3>1. k \in DOMAIN inbox[j] /\ inbox'[j] = inbox[j]
      BY <1>4, <2>2
    <3>2. Fresh(t) /\ Proper(j, inbox[j][k]) /\ inbox[j][k].type = "Batch"
      BY <2>2, <3>1 DEF CommunicatorInv, UnreadFresh, InboxProper, TasksOf
    <3>3. Range(inbox[j][k].tasks) \subseteq {u \in Tasks : Group[u] = j}
      BY <3>2, BatchTasks DEF Proper
    <3> QED
      BY <2>1, <2>2, <3>1, <3>2, <3>3 DEF TasksOf
  <2>3. ASSUME NEW j \in Jobs, NEW k \in DOMAIN inbox'[j], NEW l \in DOMAIN inbox'[j], k # l
        PROVE  TasksOf(inbox'[j][k]) \cap TasksOf(inbox'[j][l]) = {}
    <3>1. k \in DOMAIN inbox[j] /\ l \in DOMAIN inbox[j] /\ inbox'[j] = inbox[j]
      BY <1>4, <2>3
    <3> QED
      BY <2>3, <3>1 DEF CommunicatorInv, UnreadFresh
  <2>4. UnreadFresh'
    BY <2>2, <2>3 DEF UnreadFresh, TasksOf
  <2> QED
    BY <1>0, <1>4, <2>4 DEF CommunicatorInv
<1>5. ASSUME \A j \in Jobs : ~OnJobCommunication(j), UNCHANGED <<inbox, extracted>>
      PROVE  CommunicatorInv'
  <2>1. InboxProper'
    BY <1>5 DEF CommunicatorInv, InboxProper, Proper
  <2> QED
    BY <1>4, <1>5, <2>1
<1>6. ASSUME NEW j \in Jobs, NEW n, OnData(j, n), \A i \in Jobs : ~OnJobCommunication(i)
      PROVE  CommunicatorInv'
  <2>1. inbox' = inbox /\ extracted' = [extracted EXCEPT ![j] = n] /\ n \in 1 .. Len(inbox[j])
    BY <1>6 DEF OnData
  <2>2. PICK S : inbox \in [Jobs -> Seq(S)]
    BY DEF CommunicatorInv, InboxProper
  <2>3. n \in Nat /\ n <= Len(inbox[j])
    BY <2>1, <2>2
  <2>4. /\ extracted' \in [Jobs -> Nat]
        /\ \A i \in Jobs : extracted'[i] <= Len(inbox[i])
    BY <2>1, <2>3 DEF CommunicatorInv, InboxProper
  <2>5. InboxProper'
    BY <2>1, <2>4 DEF CommunicatorInv, InboxProper, Proper
  <2> QED
    BY <1>4, <1>6, <2>1, <2>5
<1>7. ASSUME NEW j \in Jobs, Disconnect(j), NotReading, \A i \in Jobs : ~OnJobCommunication(i)
      PROVE  CommunicatorInv'
  <2>1. inbox' = [inbox EXCEPT ![j] = <<>>] /\ extracted' = extracted
    BY <1>7 DEF Disconnect
  <2>2. PICK S : inbox \in [Jobs -> Seq(S)]
    BY DEF CommunicatorInv, InboxProper
  <2>3. /\ inbox' \in [Jobs -> Seq(S)] /\ inbox'[j] = <<>>
        /\ \A i \in Jobs \ {j} : inbox'[i] = inbox[i]
    BY <2>1, <2>2
  <2>4. ASSUME NEW i \in Jobs
        PROVE  /\ \A k \in DOMAIN inbox'[i] : Proper(i, inbox'[i][k])
               /\ extracted'[i] <= Len(inbox'[i])
    <3>1. CASE i = j
      BY <1>7, <2>1, <2>3, <3>1 DEF NotReading
    <3>2. CASE i # j
      BY <2>1, <2>3, <3>2 DEF CommunicatorInv, InboxProper
    <3> QED
      BY <3>1, <3>2
  <2>5. InboxProper'
    BY <2>1, <2>3, <2>4 DEF CommunicatorInv, InboxProper, Proper
  <2> QED
    BY <1>4, <1>7, <2>3, <2>5
<1>8. CASE \/ UNCHANGED lineVars
           \/ UNCHANGED communicatorVars
  BY <1>1, <1>5, <1>8 DEF lineVars, communicatorVars
<1>9. ASSUME NotReading, \E j \in Jobs : Connect(j) \/ Disconnect(j) PROVE CommunicatorInv'
  BY <1>1, <1>7, <1>8, <1>9 DEF Connect
<1>10. CASE \E w \in Workers :
              \/ ReadAnswer(w)
              \/ \E m \in executing[w], outcome \in Statuses : Answer(w, m, outcome)
  BY <1>8, <1>10 DEF ReadAnswer, Answer
<1>11. CASE WorkerComesOrGoes \/ Dispatching
  BY <1>8, <1>11 DEF WorkerComesOrGoes, Dispatching
<1> QED
  BY <1>1, <1>3, <1>6, <1>8, <1>9, <1>10, <1>11 DEF CommunicatorNext

\* At first nothing was sent.
LEMMA CommunicatorInitInv == CommunicatorInit => CommunicatorInv
<1> SUFFICES ASSUME CommunicatorInit PROVE CommunicatorInv
  OBVIOUS
<1>1. AppInv
  BY AppInitInv DEF CommunicatorInit
<1>2. inbox = [j \in Jobs |-> <<>>] /\ extracted = [j \in Jobs |-> 0]
  BY DEF CommunicatorInit
<1>3. inbox \in [Jobs -> Seq({})] /\ \A j \in Jobs : DOMAIN inbox[j] = {} /\ Len(inbox[j]) = 0
  BY <1>2
<1>4. InboxProper /\ UnreadFresh
  BY <1>2, <1>3 DEF InboxProper, UnreadFresh
<1> QED
  BY <1>1, <1>4 DEF CommunicatorInv

\* Jobs with connections of their own, whose messages arrive in any grouping,
\* are nothing new to the master (communicator.cc, OnData; application.cc,
\* OnJobCommunication).
THEOREM ConnectionsAreTransparent == CommunicatorSpec => MasterSpec
<1>1. CommunicatorInit => Init
  BY DEF CommunicatorInit
<1> QED
  BY <1>1, CommunicatorInitInv, CommunicatorStepInv, StepIsMasterStep, PTL
  DEF CommunicatorSpec, MasterSpec, Spec

\* So to jobs that talk to it over their connections the master is a pool, too.
THEOREM ConnectedMasterIsAPool ==
  ASSUME SendsSucceed, OwnIds, ~LateAnswers
  PROVE  CommunicatorSpec => PoolSpec
<1>1. CommunicatorSpec => Spec
  BY ConnectionsAreTransparent DEF MasterSpec
<1> QED
  BY <1>1, MasterIsAPool

(***************************************************************************)
(* What the connections carry, in its order.                               *)
(***************************************************************************)

\* A sequence with one more element.
LEMMA Appended ==
  ASSUME NEW S, NEW s \in Seq(S), NEW e \in S
  PROVE  /\ Append(s, e) \in Seq(S)
         /\ Len(s) \in Nat
         /\ DOMAIN s = 1 .. Len(s)
         /\ DOMAIN Append(s, e) = 1 .. Len(s) + 1
         /\ \A k \in DOMAIN s : Append(s, e)[k] = s[k]
         /\ Append(s, e)[Len(s) + 1] = e
OBVIOUS

\* Messages that are sent have their types.
LEMMA ClientStepType ==
  ASSUME CommunicatorTypeOK, NEW j \in Jobs, ClientStep(j)
  PROVE  CommunicatorTypeOK'
<1>1. ASSUME NEW m \in JobMessages, Send(j, m)
      PROVE  /\ inbox' \in [Jobs -> Seq(JobMessages)]
             /\ UNCHANGED <<extracted, progressItems, asked>>
  <2>1. Append(inbox[j], m) \in Seq(JobMessages)
    BY Appended DEF CommunicatorTypeOK
  <2> QED
    BY <1>1, <2>1 DEF Send, CommunicatorTypeOK
<1>2. ASSUME NEW recent \in BOOLEAN, NEW timed \in Timeouts, SendIdentify(j, recent, timed)
      PROVE  CommunicatorTypeOK'
  <2>1. [type |-> "Identify", recent |-> recent, timed |-> timed] \in JobMessages
    BY ApplicationAssumption DEF JobMessages
  <2> QED
    BY <1>1, <1>2, <2>1 DEF SendIdentify, CommunicatorTypeOK
<1>3. ASSUME NEW ts \in BatchesOf(Sendable(j)), SendBatch(j, ts)
      PROVE  CommunicatorTypeOK'
  <2>1. Sendable(j) \in SUBSET Tasks
    BY DEF Sendable
  <2>2. ts \in Seq(Tasks) /\ Range(ts) \subseteq Tasks
    BY <2>1, BatchTasks
  <2>3. [type |-> "Batch", tasks |-> ts] \in JobMessages
    BY <2>2 DEF JobMessages
  <2>4. sent' \in [Jobs -> SUBSET Tasks] /\ questions' \in [Jobs -> SUBSET Questions]
    BY <1>3, <2>2 DEF SendBatch, CommunicatorTypeOK
  <2> QED
    BY <1>1, <1>3, <2>3, <2>4 DEF SendBatch, CommunicatorTypeOK
<1>4. CASE SendProgress(j)
  <2>1. reported[j] + 1 \in Nat
    BY DEF CommunicatorTypeOK
  <2>2. [type |-> "Progress", item |-> reported[j] + 1] \in JobMessages
    BY <2>1 DEF JobMessages
  <2> QED
    BY <1>1, <1>4, <2>1, <2>2 DEF SendProgress, CommunicatorTypeOK
<1>5. ASSUME NEW q \in questions[j], SendToken(j, q)
      PROVE  CommunicatorTypeOK'
  <2>1. q \in Questions
    BY DEF CommunicatorTypeOK
  <2>2. [type |-> "Token", answers |-> q] \in JobMessages
    BY <2>1 DEF JobMessages
  <2> QED
    BY <1>1, <1>5, <2>2 DEF SendToken, CommunicatorTypeOK
<1> QED
  BY <1>2, <1>3, <1>4, <1>5 DEF ClientStep

\* A message of a type has what messages of that type have.
LEMMA MessageParts ==
  ASSUME NEW m \in JobMessages
  PROVE  /\ m.type \in {"Identify", "Batch", "Progress", "Token"}
         /\ m.type = "Progress" => m.item \in Nat
         /\ m.type = "Token" => m.answers \in Questions
BY DEF JobMessages

\* A message that is handed out is the first one, and the others move up.
LEMMA HandedOut ==
  ASSUME CommunicatorTypeOK, CommunicatorInv, NEW j \in Jobs, OnJobCommunication(j)
  PROVE  /\ inbox[j] # <<>>
         /\ NextMessage(j) = inbox[j][1] /\ 1 \in DOMAIN inbox[j]
         /\ NextMessage(j) \in JobMessages
         /\ inbox'[j] = Tail(inbox[j]) /\ Tail(inbox[j]) \in Seq(JobMessages)
         /\ extracted[j] - 1 \in Nat
         /\ \A k \in DOMAIN inbox'[j] :
              k \in Nat \ {0} /\ k + 1 \in DOMAIN inbox[j] /\ inbox'[j][k] = inbox[j][k + 1]
         /\ \A k \in DOMAIN inbox[j] : k # 1 =>
              k \in Nat /\ k - 1 \in DOMAIN inbox'[j] /\ inbox'[j][k - 1] = inbox[j][k]
<1>1. /\ extracted[j] > 0 /\ extracted[j] \in Nat /\ extracted[j] <= Len(inbox[j])
      /\ inbox \in [Jobs -> Seq(JobMessages)] /\ inbox[j] \in Seq(JobMessages)
      /\ inbox' = [inbox EXCEPT ![j] = Tail(@)]
  BY DEF OnJobCommunication, CommunicatorInv, InboxProper, CommunicatorTypeOK
<1>2. /\ inbox[j] # <<>> /\ NextMessage(j) = inbox[j][1] /\ 1 \in DOMAIN inbox[j]
      /\ NextMessage(j) \in JobMessages
      /\ Tail(inbox[j]) \in Seq(JobMessages) /\ Len(Tail(inbox[j])) = Len(inbox[j]) - 1
  BY <1>1 DEF NextMessage
<1>3. inbox'[j] = Tail(inbox[j])
  BY <1>1
<1>4. ASSUME NEW k \in DOMAIN inbox'[j]
      PROVE  k \in Nat \ {0} /\ k + 1 \in DOMAIN inbox[j] /\ inbox'[j][k] = inbox[j][k + 1]
  BY <1>1, <1>2, <1>3, ElementOfTail
<1>5. ASSUME NEW k \in DOMAIN inbox[j], k # 1
      PROVE  k \in Nat /\ k - 1 \in DOMAIN inbox'[j] /\ inbox'[j][k - 1] = inbox[j][k]
  <2>1. k \in 2 .. Len(inbox[j]) /\ Len(inbox[j]) \in Nat
    BY <1>1, <1>5
  <2>2. k - 1 \in 1 .. Len(Tail(inbox[j])) /\ k - 1 + 1 = k
    BY <1>2, <2>1
  <2>3. k - 1 \in DOMAIN inbox'[j]
    BY <1>2, <1>3, <2>2
  <2> QED
    BY <1>4, <2>1, <2>2, <2>3
<1> QED
  BY <1>1, <1>2, <1>3, <1>4, <1>5

\* A step keeps the types of what the connections carry.
LEMMA CommunicatorTypeStep ==
  ASSUME CommunicatorInv, CommunicatorTypeOK, [CommunicatorNext]_communicatorVars
  PROVE  CommunicatorTypeOK'
<1>0. /\ AppInv /\ AppInv'
      /\ executing \in [Workers -> SUBSET Messages] /\ executing' \in [Workers -> SUBSET Messages]
      /\ wire \in [Workers -> Seq(Answers)]
  <2>1. AppInv /\ AppInv'
    BY CommunicatorStepInv DEF CommunicatorInv
  <2> QED
    BY <2>1 DEF AppInv, RestTypeOK
<1>1. ASSUME NEW j \in Jobs, NEW n \in 1 .. MaxInbox, OnData(j, n) PROVE CommunicatorTypeOK'
  BY <1>1, CommunicatorAssumption DEF OnData, CommunicatorTypeOK, clientVars
<1>2. ASSUME NEW j \in Jobs, OnJobCommunication(j) PROVE CommunicatorTypeOK'
  <2> DEFINE m == NextMessage(j)
  <2>1. /\ inbox' \in [Jobs -> Seq(JobMessages)] /\ extracted' \in [Jobs -> Nat]
        /\ UNCHANGED clientVars /\ m \in JobMessages
    BY <1>2, HandedOut DEF OnJobCommunication, CommunicatorTypeOK
  <2>2. /\ \/ progressItems' = progressItems
           \/ m.type = "Progress" /\ progressItems' = [progressItems EXCEPT ![j] = Append(@, m.item)]
        /\ \/ asked' = asked
           \/ asked' = [w \in Workers |->
                IF Receives(j, m.answers, w) /\ w = m.answers.asker
                THEN asked[w] \ {[task |-> m.answers.task, uid |-> m.answers.uid]}
                ELSE asked[w]]
    BY <1>2 DEF OnJobCommunication, HandleMessage, HandleJobToken
  <2>3. progressItems' \in [Jobs -> Seq(Nat)]
    <3>1. m.type = "Progress" => Append(progressItems[j], m.item) \in Seq(Nat)
      BY <2>1, MessageParts, Appended DEF CommunicatorTypeOK
    <3> QED
      BY <2>2, <3>1 DEF CommunicatorTypeOK
  <2>4. asked' \in [Workers -> SUBSET Messages]
    <3>1. asked \in [Workers -> SUBSET Messages]
      BY DEF CommunicatorTypeOK
    <3>2. asked' = asked \/ \E f : /\ asked' = [w \in Workers |-> f[w]]
                                   /\ \A w \in Workers : f[w] \subseteq asked[w]
      <4> DEFINE f == [w \in Workers |->
                   IF Receives(j, m.answers, w) /\ w = m.answers.asker
                   THEN asked[w] \ {[task |-> m.answers.task, uid |-> m.answers.uid]}
                   ELSE asked[w]]
      <4>1. \A w \in Workers : f[w] \subseteq asked[w]
        OBVIOUS
      <4>2. f = [w \in Workers |-> f[w]]
        OBVIOUS
      <4> QED
        BY <2>2, <4>1, <4>2
    <3> QED
      BY <3>1, <3>2
  <2> QED
    BY <2>1, <2>3, <2>4 DEF CommunicatorTypeOK, clientVars
<1>3. ASSUME AskedOfExecuting PROVE asked' \in [Workers -> SUBSET Messages]
  BY <1>3 DEF AskedOfExecuting, CommunicatorTypeOK
<1>4. ASSUME NEW j \in Jobs, Disconnect(j) PROVE CommunicatorTypeOK'
  <2>1. asked' \in [Workers -> SUBSET Messages]
    BY <1>3, <1>4 DEF Disconnect
  <2>2. <<>> \in Seq(JobMessages) /\ <<>> \in Seq(Nat)
    OBVIOUS
  <2> QED
    BY <1>4, <2>1, <2>2 DEF Disconnect, ProgressClosed, CommunicatorTypeOK
<1>5. ASSUME NEW w \in Workers, ReadAnswer(w) PROVE CommunicatorTypeOK'
  <2> DEFINE a == Head(wire[w])
             g == Group[task[w]]
  <2>1. a \in Answers
    <3>1. wire[w] # <<>> /\ wire[w] \in Seq(Answers)
      BY <1>0, <1>5 DEF ReadAnswer, OnWorkerCommunication
    <3> QED
      BY <3>1, HeadTailProperties
  <2>2. [task |-> a.task, uid |-> a.uid, asker |-> w] \in Questions
    BY <2>1 DEF Answers, Questions
  <2>3. /\ sent' = IF EndsTask(w, a)
                   THEN [sent EXCEPT ![g] = {t \in @ : TaskId[t] # TaskId[a.task]}]
                   ELSE sent
        /\ questions' = IF HasJob(w) /\ a.status = "Challenge"
                        THEN [questions EXCEPT ![g] =
                                @ \cup {[task |-> a.task, uid |-> a.uid, asker |-> w]}]
                        ELSE questions
        /\ UNCHANGED <<lineVars, version, reported, asked>>
    BY <1>5 DEF ReadAnswer
  <2>4. sent' \in [Jobs -> SUBSET Tasks]
    BY <2>3 DEF CommunicatorTypeOK
  <2>5. questions' \in [Jobs -> SUBSET Questions]
    BY <2>2, <2>3 DEF CommunicatorTypeOK
  <2> QED
    BY <2>3, <2>4, <2>5 DEF CommunicatorTypeOK, lineVars
<1>6. ASSUME NEW w \in Workers, NEW m \in executing[w], NEW outcome \in Statuses,
             Answer(w, m, outcome)
      PROVE  CommunicatorTypeOK'
  <2>1. m \in Messages
    BY <1>0
  <2>2. asked' \in [Workers -> SUBSET Messages]
    BY <1>6, <2>1 DEF Answer, CommunicatorTypeOK
  <2> QED
    BY <1>6, <2>2 DEF Answer, CommunicatorTypeOK, lineVars, clientVars
<1>7. CASE WorkerComesOrGoes
  <2>1. asked' \in [Workers -> SUBSET Messages]
    BY <1>3, <1>7 DEF WorkerComesOrGoes
  <2> QED
    BY <1>7, <2>1 DEF WorkerComesOrGoes, CommunicatorTypeOK, lineVars, clientVars
<1>8. CASE \/ \E j \in Jobs : Connect(j)
           \/ Dispatching
           \/ UNCHANGED communicatorVars
  BY <1>8 DEF Connect, Dispatching, communicatorVars, lineVars, clientVars, CommunicatorTypeOK
<1> QED
  BY <1>1, <1>2, <1>4, <1>5, <1>6, <1>7, <1>8, ClientStepType DEF CommunicatorNext

\* A client identifies itself before it sends anything but tokens, and its job
\* is valid once a recent version was read.
GreetedFirst(j) ==
  /\ valid[j] => version[j] = "recent"
  /\ version[j] = "none" => \A k \in DOMAIN inbox[j] : inbox[j][k].type = "Token"
  /\ version[j] = "recent" =>
       valid[j] \/ \E k \in DOMAIN inbox[j] : inbox[j][k].type = "Identify"
  /\ \A k \in DOMAIN inbox[j] : inbox[j][k].type = "Identify" =>
       /\ inbox[j][k].recent <=> version[j] = "recent"
       /\ \A i \in DOMAIN inbox[j] : i < k => inbox[j][i].type = "Token"

\* The unread progress messages of job j.
Progresses(j) == {k \in DOMAIN inbox[j] : inbox[j][k].type = "Progress"}

\* Progress messages are in order, and those that the job of a recent client
\* does not have yet are unread.
ProgressOf(j) ==
  /\ \A k \in DOMAIN progressItems[j] : progressItems[j][k] = k
  /\ \A k \in Progresses(j) : inbox[j][k].item <= reported[j]
  /\ \A k, l \in Progresses(j) : k < l => inbox[j][k].item < inbox[j][l].item
  /\ version[j] = "recent" =>
       /\ Len(progressItems[j]) <= reported[j]
       /\ {inbox[j][k].item : k \in Progresses(j)} = Len(progressItems[j]) + 1 .. reported[j]
  /\ version[j] = "none" => reported[j] = 0
  /\ version[j] # "recent" => progressItems[j] = <<>>

\* Nothing changes about the connection of job j.
SameLine(j) ==
  /\ inbox'[j] = inbox[j]
  /\ progressItems'[j] = progressItems[j]
  /\ version'[j] = version[j]
  /\ reported'[j] = reported[j]
  /\ valid'[j] = valid[j]

LEMMA SameLineKeeps ==
  ASSUME NEW j \in Jobs, GreetedFirst(j), ProgressOf(j), SameLine(j)
  PROVE  GreetedFirst(j)' /\ ProgressOf(j)'
BY DEF SameLine, GreetedFirst, ProgressOf, Progresses

\* A client sends after what it sent before.
LEMMA ClientStepLine ==
  ASSUME CommunicatorTypeOK, AppInv, NEW j \in Jobs, ClientStep(j),
         GreetedFirst(j), ProgressOf(j)
  PROVE  GreetedFirst(j)' /\ ProgressOf(j)' /\ \A i \in Jobs \ {j} : SameLine(i)
<1> DEFINE n == Len(inbox[j]) + 1
           others == \A i \in Jobs \ {j} : SameLine(i)
<1>1. /\ inbox \in [Jobs -> Seq(JobMessages)] /\ progressItems \in [Jobs -> Seq(Nat)]
      /\ version \in [Jobs -> {"none", "old", "recent"}] /\ reported \in [Jobs -> Nat]
  BY DEF CommunicatorTypeOK
<1>2. n \in Nat \ {0} /\ DOMAIN inbox[j] = 1 .. n - 1 /\ \A k \in DOMAIN inbox[j] : k # n /\ k < n
  BY <1>1
<1>3. ASSUME NEW m \in JobMessages, Send(j, m)
      PROVE  /\ DOMAIN inbox'[j] = DOMAIN inbox[j] \cup {n}
             /\ inbox'[j][n] = m
             /\ \A k \in DOMAIN inbox[j] : inbox'[j][k] = inbox[j][k]
             /\ \A i \in Jobs \ {j} : inbox'[i] = inbox[i]
             /\ progressItems' = progressItems /\ valid' = valid
  <2>1. inbox' = [inbox EXCEPT ![j] = Append(inbox[j], m)]
    BY <1>3 DEF Send
  <2>2. inbox'[j] = Append(inbox[j], m) /\ \A i \in Jobs \ {j} : inbox'[i] = inbox[i]
    BY <1>1, <2>1
  <2>3. progressItems' = progressItems /\ valid' = valid
    BY <1>3 DEF Send, vars, jobVars
  <2>4. 1 .. n = DOMAIN inbox[j] \cup {n}
    BY <1>2
  <2> QED
    BY <1>1, <2>2, <2>3, <2>4, Appended
<1> HIDE DEF n
<1>4. ASSUME NEW recent \in BOOLEAN, NEW timed \in Timeouts, SendIdentify(j, recent, timed)
      PROVE  GreetedFirst(j)' /\ ProgressOf(j)' /\ others
  <2> DEFINE m == [type |-> "Identify", recent |-> recent, timed |-> timed]
  <2>1. m \in JobMessages
    BY ApplicationAssumption DEF JobMessages
  <2>2. /\ m.type = "Identify" /\ m.recent = recent /\ Send(j, m) /\ version[j] = "none"
        /\ version'[j] = IF recent THEN "recent" ELSE "old"
        /\ \A i \in Jobs \ {j} : version'[i] = version[i]
        /\ reported' = reported
    BY <1>1, <1>4 DEF SendIdentify
  <2> HIDE DEF m
  <2>3. /\ DOMAIN inbox'[j] = DOMAIN inbox[j] \cup {n}
        /\ inbox'[j][n] = m
        /\ \A k \in DOMAIN inbox[j] : inbox'[j][k] = inbox[j][k]
        /\ \A i \in Jobs \ {j} : inbox'[i] = inbox[i]
        /\ progressItems' = progressItems /\ valid' = valid
    BY <1>3, <2>1, <2>2
  <2>4. \A k \in DOMAIN inbox[j] : inbox[j][k].type = "Token"
    BY <2>2 DEF GreetedFirst
  <2>5. GreetedFirst(j)'
    BY <1>2, <2>2, <2>3, <2>4 DEF GreetedFirst
  <2>6. Progresses(j)' = {}
    BY <2>2, <2>3, <2>4 DEF Progresses
  <2>7. progressItems[j] = <<>> /\ reported[j] = 0
    BY <2>2 DEF ProgressOf
  <2>8. ProgressOf(j)'
    <3>1. Len(progressItems'[j]) = 0 /\ reported'[j] = 0 /\ 0 + 1 .. 0 = {}
      BY <2>2, <2>3, <2>7
    <3> QED
      BY <2>2, <2>3, <2>6, <2>7, <3>1 DEF ProgressOf
  <2> QED
    BY <2>2, <2>3, <2>5, <2>8 DEF SameLine
<1>5. ASSUME NEW m \in JobMessages, Send(j, m), m.type \in {"Batch", "Token"},
             version' = version, reported' = reported,
             m.type = "Batch" => version[j] # "none"
      PROVE  GreetedFirst(j)' /\ ProgressOf(j)' /\ others
  <2>1. /\ DOMAIN inbox'[j] = DOMAIN inbox[j] \cup {n}
        /\ inbox'[j][n] = m
        /\ \A k \in DOMAIN inbox[j] : inbox'[j][k] = inbox[j][k]
        /\ \A i \in Jobs \ {j} : inbox'[i] = inbox[i]
        /\ progressItems' = progressItems /\ valid' = valid
    BY <1>3, <1>5
  <2>2. Progresses(j)' = Progresses(j)
    BY <1>2, <1>5, <2>1 DEF Progresses
  <2>3. \A k \in Progresses(j) : inbox'[j][k] = inbox[j][k]
    BY <2>1 DEF Progresses
  <2>4. {inbox'[j][k].item : k \in Progresses(j)} = {inbox[j][k].item : k \in Progresses(j)}
    BY <2>3
  <2>5. ProgressOf(j)'
    BY <1>5, <2>1, <2>2, <2>3, <2>4 DEF ProgressOf
  <2>6. GreetedFirst(j)'
    BY <1>2, <1>5, <2>1 DEF GreetedFirst
  <2> QED
    BY <1>5, <2>1, <2>5, <2>6 DEF SameLine
<1>6. ASSUME NEW ts \in BatchesOf(Sendable(j)), SendBatch(j, ts)
      PROVE  GreetedFirst(j)' /\ ProgressOf(j)' /\ others
  <2>1. ts \in Seq(Tasks)
    BY BatchTasks DEF Sendable
  <2>2. [type |-> "Batch", tasks |-> ts] \in JobMessages
    BY <2>1 DEF JobMessages
  <2> QED
    BY <1>5, <1>6, <2>2 DEF SendBatch
<1>7. ASSUME NEW q \in questions[j], SendToken(j, q)
      PROVE  GreetedFirst(j)' /\ ProgressOf(j)' /\ others
  <2>1. [type |-> "Token", answers |-> q] \in JobMessages
    BY DEF JobMessages, CommunicatorTypeOK
  <2> QED
    BY <1>5, <1>7, <2>1 DEF SendToken
<1>8. CASE SendProgress(j)
  <2> DEFINE m == [type |-> "Progress", item |-> reported[j] + 1]
  <2>1. reported[j] \in Nat /\ reported[j] + 1 \in Nat
    BY <1>1
  <2>2. m \in JobMessages
    BY <2>1 DEF JobMessages
  <2>3. /\ m.type = "Progress" /\ m.item = reported[j] + 1 /\ Send(j, m)
        /\ version[j] # "none" /\ version' = version
        /\ reported'[j] = reported[j] + 1
        /\ \A i \in Jobs \ {j} : reported'[i] = reported[i]
    BY <1>1, <1>8 DEF SendProgress
  <2> HIDE DEF m
  <2>4. /\ DOMAIN inbox'[j] = DOMAIN inbox[j] \cup {n}
        /\ inbox'[j][n] = m
        /\ \A k \in DOMAIN inbox[j] : inbox'[j][k] = inbox[j][k]
        /\ \A i \in Jobs \ {j} : inbox'[i] = inbox[i]
        /\ progressItems' = progressItems /\ valid' = valid
    BY <1>3, <2>2, <2>3
  <2>5. GreetedFirst(j)'
    BY <1>2, <2>3, <2>4 DEF GreetedFirst
  <2>6. Progresses(j)' = Progresses(j) \cup {n}
    BY <1>2, <2>3, <2>4 DEF Progresses
  <2>7. \A k \in Progresses(j) :
          /\ inbox'[j][k] = inbox[j][k] /\ k < n /\ k # n /\ k \in Nat
          /\ inbox[j][k].item \in Nat
    <3>1. \A k \in DOMAIN inbox[j] : inbox[j][k] \in JobMessages /\ k \in Nat
      BY <1>1
    <3> QED
      BY <1>2, <2>4, <3>1, MessageParts DEF Progresses
  <2>8. {inbox'[j][k].item : k \in Progresses(j)'}
          = {inbox[j][k].item : k \in Progresses(j)} \cup {reported[j] + 1}
    BY <2>3, <2>4, <2>6, <2>7
  <2>9. /\ \A k \in Progresses(j)' : inbox'[j][k].item <= reported'[j]
        /\ \A k, l \in Progresses(j)' : k < l => inbox'[j][k].item < inbox'[j][l].item
    <3>1. \A k \in Progresses(j) : inbox[j][k].item <= reported[j]
      BY DEF ProgressOf
    <3>2. \A k \in Progresses(j) : inbox'[j][k].item \in Nat /\ inbox'[j][k].item < reported[j] + 1
      BY <2>1, <2>7, <3>1
    <3>3. \A k \in Progresses(j)' : inbox'[j][k].item <= reported'[j]
      BY <2>1, <2>3, <2>4, <2>6, <3>2
    <3>4. ASSUME NEW k \in Progresses(j)', NEW l \in Progresses(j)', k < l
          PROVE  inbox'[j][k].item < inbox'[j][l].item
      <4>1. CASE l = n
        <5>1. k \in Progresses(j)
          BY <1>2, <2>6, <3>4, <4>1
        <5> QED
          BY <2>3, <2>4, <3>2, <4>1, <5>1
      <4>2. CASE l # n
        <5>1. l \in Progresses(j) /\ l \in Nat /\ l < n
          BY <2>6, <2>7, <4>2
        <5>2. k # n
          BY <1>2, <3>4, <5>1
        <5> QED
          BY <2>6, <2>7, <3>4, <5>1, <5>2 DEF ProgressOf
      <4> QED
        BY <4>1, <4>2
    <3> QED
      BY <3>3, <3>4
  <2>10. version[j] = "recent" =>
           /\ Len(progressItems'[j]) <= reported'[j]
           /\ {inbox'[j][k].item : k \in Progresses(j)'} = Len(progressItems'[j]) + 1 .. reported'[j]
    <3>1. Len(progressItems[j]) \in Nat
      BY <1>1
    <3>2. Len(progressItems[j]) <= reported[j] =>
            Len(progressItems[j]) + 1 .. reported[j] + 1
              = (Len(progressItems[j]) + 1 .. reported[j]) \cup {reported[j] + 1}
      BY <2>1, <3>1
    <3>3. ASSUME version[j] = "recent"
          PROVE  /\ Len(progressItems[j]) <= reported[j]
                 /\ {inbox[j][k].item : k \in Progresses(j)}
                      = Len(progressItems[j]) + 1 .. reported[j]
      BY <3>3 DEF ProgressOf
    <3>4. progressItems'[j] = progressItems[j] /\ reported'[j] = reported[j] + 1
      BY <2>3, <2>4
    <3>5. Len(progressItems[j]) <= reported[j] => Len(progressItems[j]) <= reported[j] + 1
      BY <2>1, <3>1
    <3> QED
      BY <2>8, <3>2, <3>3, <3>4, <3>5
  <2>11. ProgressOf(j)'
    BY <2>3, <2>4, <2>9, <2>10 DEF ProgressOf
  <2> QED
    BY <2>3, <2>4, <2>5, <2>11 DEF SameLine
<1> QED
  BY <1>4, <1>6, <1>7, <1>8 DEF ClientStep

\* The message that is handed out was the first one.
LEMMA HandOutLine ==
  ASSUME CommunicatorTypeOK, CommunicatorInv, NEW j \in Jobs, OnJobCommunication(j),
         GreetedFirst(j), ProgressOf(j)
  PROVE  GreetedFirst(j)' /\ ProgressOf(j)' /\ \A i \in Jobs \ {j} : SameLine(i)
<1> DEFINE m == NextMessage(j)
           size == Len(progressItems[j])
<1>1. /\ m = inbox[j][1] /\ 1 \in DOMAIN inbox[j] /\ m \in JobMessages
      /\ \A k \in DOMAIN inbox'[j] :
           k \in Nat \ {0} /\ k + 1 \in DOMAIN inbox[j] /\ inbox'[j][k] = inbox[j][k + 1]
      /\ \A k \in DOMAIN inbox[j] : k # 1 =>
           k \in Nat /\ k - 1 \in DOMAIN inbox'[j] /\ inbox'[j][k - 1] = inbox[j][k]
  BY HandedOut
<1>2. /\ inbox \in [Jobs -> Seq(JobMessages)] /\ progressItems \in [Jobs -> Seq(Nat)]
      /\ reported \in [Jobs -> Nat] /\ valid \in [Jobs -> BOOLEAN]
      /\ version'[j] = version[j] /\ reported'[j] = reported[j]
  <2>1. valid \in [Jobs -> BOOLEAN]
    BY DEF CommunicatorInv, AppInv, JobTypeOK
  <2>2. version' = version /\ reported' = reported
    BY DEF OnJobCommunication, clientVars
  <2> QED
    BY <2>1, <2>2 DEF CommunicatorTypeOK
<1>3. /\ \/ m.type = "Identify" /\ valid' = [valid EXCEPT ![j] = m.recent]
         \/ m.type # "Identify" /\ valid' = valid
      /\ \/ /\ m.type = "Progress" /\ valid[j]
            /\ progressItems' = [progressItems EXCEPT ![j] = Append(progressItems[j], m.item)]
         \/ ~(m.type = "Progress" /\ valid[j]) /\ progressItems' = progressItems
  BY DEF OnJobCommunication, HandleMessage, HandleJobToken, HandleJobIdentify, IdentifyJob,
         HandleJobBatch, vars, jobVars
<1>4. \A i \in Jobs \ {j} : SameLine(i)
  <2>1. inbox' = [inbox EXCEPT ![j] = Tail(@)] /\ version' = version /\ reported' = reported
    BY DEF OnJobCommunication, clientVars
  <2>2. \A i \in Jobs \ {j} : inbox'[i] = inbox[i] /\ version'[i] = version[i] /\ reported'[i] = reported[i]
    BY <1>2, <2>1
  <2>3. \A i \in Jobs \ {j} : valid'[i] = valid[i] /\ progressItems'[i] = progressItems[i]
    BY <1>2, <1>3
  <2> QED
    BY <2>2, <2>3 DEF SameLine
<1>5. \A k \in DOMAIN inbox[j] : inbox[j][k] \in JobMessages /\ k \in Nat \ {0}
  BY <1>2
<1> HIDE DEF m
<1>6. m.type # "Token" =>
        \A k \in DOMAIN inbox[j] : k # 1 => inbox[j][k].type # "Identify"
  <2> SUFFICES ASSUME NEW k \in DOMAIN inbox[j], k # 1, inbox[j][k].type = "Identify"
               PROVE  m.type = "Token"
    OBVIOUS
  <2>1. 1 < k
    BY <1>5
  <2> QED
    BY <1>1, <2>1 DEF GreetedFirst
<1>7. GreetedFirst(j)'
  <2>1. CASE m.type = "Identify"
    <3>1. valid'[j] = m.recent /\ (m.recent <=> version[j] = "recent") /\ version[j] # "none"
      BY <1>1, <1>2, <1>3, <2>1 DEF GreetedFirst
    <3>2. \A k \in DOMAIN inbox'[j] : inbox'[j][k].type # "Identify"
      BY <1>1, <1>6, <2>1
    <3> QED
      BY <1>2, <3>1, <3>2 DEF GreetedFirst
  <2>2. CASE m.type # "Identify"
    <3>1. valid'[j] = valid[j]
      BY <1>3, <2>2
    <3>2. version[j] = "none" => \A k \in DOMAIN inbox'[j] : inbox'[j][k].type = "Token"
      BY <1>1 DEF GreetedFirst
    <3>3. (\E k \in DOMAIN inbox[j] : inbox[j][k].type = "Identify")
            => \E k \in DOMAIN inbox'[j] : inbox'[j][k].type = "Identify"
      BY <1>1, <2>2
    <3>4. ASSUME NEW k \in DOMAIN inbox'[j], inbox'[j][k].type = "Identify"
          PROVE  /\ inbox'[j][k].recent <=> version[j] = "recent"
                 /\ \A i \in DOMAIN inbox'[j] : i < k => inbox'[j][i].type = "Token"
      <4>1. \A i \in DOMAIN inbox'[j] : i < k => i + 1 < k + 1
        BY <1>1
      <4> QED
        BY <1>1, <3>4, <4>1 DEF GreetedFirst
    <3> QED
      BY <1>2, <3>1, <3>2, <3>3, <3>4 DEF GreetedFirst
  <2> QED
    BY <2>1, <2>2
<1>8. \A k \in Progresses(j)' :
        /\ k + 1 \in Progresses(j) /\ k + 1 # 1 /\ k \in Nat
        /\ inbox'[j][k] = inbox[j][k + 1]
  BY <1>1 DEF Progresses
<1>9. \A k \in Progresses(j) \ {1} :
        k - 1 \in Progresses(j)' /\ inbox'[j][k - 1] = inbox[j][k]
  BY <1>1 DEF Progresses
<1>10. {inbox'[j][k].item : k \in Progresses(j)'} = {inbox[j][k].item : k \in Progresses(j) \ {1}}
  BY <1>8, <1>9
<1>11. /\ \A k \in Progresses(j)' : inbox'[j][k].item <= reported'[j]
       /\ \A k, l \in Progresses(j)' : k < l => inbox'[j][k].item < inbox'[j][l].item
  <2>1. \A k, l \in Progresses(j)' : k < l => k + 1 < l + 1
    BY <1>8
  <2> QED
    BY <1>2, <1>8, <2>1 DEF ProgressOf
<1>12. size \in Nat /\ reported[j] \in Nat /\ progressItems[j] \in Seq(Nat)
  BY <1>2
<1>13. CASE m.type = "Progress" /\ valid[j]
  <2>1. 1 \in Progresses(j) /\ m.item = inbox[j][1].item /\ m.item \in Nat
    BY <1>1, <1>13, MessageParts DEF Progresses
  <2>2. /\ version[j] = "recent"
        /\ size <= reported[j]
        /\ {inbox[j][k].item : k \in Progresses(j)} = size + 1 .. reported[j]
    BY <1>13 DEF GreetedFirst, ProgressOf
  <2>3. \A k \in Progresses(j) \ {1} : m.item < inbox[j][k].item
    <3>1. \A k \in Progresses(j) \ {1} : 1 < k
      BY <1>5 DEF Progresses
    <3> QED
      BY <2>1, <3>1 DEF ProgressOf
  <2>4. m.item \in size + 1 .. reported[j]
    BY <2>1, <2>2
  <2>5. m.item = size + 1
    <3>1. size + 1 \in size + 1 .. reported[j]
      BY <1>12, <2>4
    <3>2. PICK k \in Progresses(j) : inbox[j][k].item = size + 1
      BY <2>2, <3>1
    <3> QED
      BY <1>12, <2>1, <2>3, <2>4, <3>2
  <2>6. {inbox[j][k].item : k \in Progresses(j) \ {1}} = size + 2 .. reported[j]
    <3>1. ASSUME NEW k \in Progresses(j) \ {1}
          PROVE  inbox[j][k].item \in size + 2 .. reported[j]
      <4>1. inbox[j][k].item \in size + 1 .. reported[j]
        BY <2>2
      <4> QED
        BY <1>12, <2>3, <2>5, <4>1
    <3>2. ASSUME NEW x \in size + 2 .. reported[j]
          PROVE  \E k \in Progresses(j) \ {1} : inbox[j][k].item = x
      <4>1. x \in size + 1 .. reported[j] /\ x # size + 1
        BY <1>12
      <4>2. PICK k \in Progresses(j) : inbox[j][k].item = x
        BY <2>2, <4>1
      <4> QED
        BY <2>1, <2>5, <4>1, <4>2
    <3> QED
      BY <3>1, <3>2
  <2>7. /\ progressItems'[j] = Append(progressItems[j], m.item)
        /\ Len(progressItems'[j]) = size + 1
        /\ \A k \in DOMAIN progressItems'[j] : progressItems'[j][k] = k
    <3>1. progressItems'[j] = Append(progressItems[j], m.item)
      BY <1>2, <1>3, <1>13
    <3>2. /\ DOMAIN Append(progressItems[j], m.item) = 1 .. size + 1
          /\ DOMAIN progressItems[j] = 1 .. size
          /\ \A k \in 1 .. size : Append(progressItems[j], m.item)[k] = progressItems[j][k]
          /\ Append(progressItems[j], m.item)[size + 1] = m.item
          /\ Len(Append(progressItems[j], m.item)) = size + 1
      BY <1>12, <2>1
    <3>3. \A k \in 1 .. size : progressItems[j][k] = k
      BY <3>2 DEF ProgressOf
    <3>4. 1 .. size + 1 = (1 .. size) \cup {size + 1}
      BY <1>12
    <3> QED
      BY <2>5, <3>1, <3>2, <3>3, <3>4
  <2>8. size + 1 <= reported[j] /\ size + 1 + 1 = size + 2
    BY <1>12, <2>4, <2>5
  <2>9. {inbox'[j][k].item : k \in Progresses(j)'} = Len(progressItems'[j]) + 1 .. reported'[j]
    BY <1>2, <1>10, <2>6, <2>7, <2>8
  <2> HIDE DEF size
  <2>10. ProgressOf(j)'
    BY <1>2, <1>11, <2>2, <2>7, <2>8, <2>9 DEF ProgressOf
  <2> QED
    BY <1>4, <1>7, <2>10
<1>14. CASE ~(m.type = "Progress" /\ valid[j])
  <2>1. progressItems' = progressItems
    BY <1>3, <1>14
  <2>2. version[j] = "recent" => m.type # "Progress"
    BY <1>1, <1>6, <1>14 DEF GreetedFirst
  <2>3. version[j] = "recent" =>
          {inbox'[j][k].item : k \in Progresses(j)'} = {inbox[j][k].item : k \in Progresses(j)}
    <3>1. version[j] = "recent" => 1 \notin Progresses(j)
      BY <1>1, <2>2 DEF Progresses
    <3>2. 1 \notin Progresses(j) => Progresses(j) \ {1} = Progresses(j)
      OBVIOUS
    <3> QED
      BY <1>10, <3>1, <3>2
  <2>4. ProgressOf(j)'
    BY <1>2, <1>11, <2>1, <2>3 DEF ProgressOf
  <2> QED
    BY <1>4, <1>7, <2>4
<1> QED
  BY <1>13, <1>14

\* A connection that closes leaves nothing behind.
LEMMA DisconnectLine ==
  ASSUME CommunicatorTypeOK, AppInv, NEW j \in Jobs, Disconnect(j)
  PROVE  GreetedFirst(j)' /\ ProgressOf(j)' /\ \A i \in Jobs \ {j} : SameLine(i)
<1>1. /\ inbox' = [inbox EXCEPT ![j] = <<>>] /\ version' = [version EXCEPT ![j] = "none"]
      /\ progressItems' = [progressItems EXCEPT ![j] = <<>>]
      /\ reported' = [reported EXCEPT ![j] = 0] /\ valid' = [valid EXCEPT ![j] = FALSE]
  BY DEF Disconnect, ProgressClosed, OnClosed, OnJobRemoved, RemoveJob
<1>2. /\ inbox \in [Jobs -> Seq(JobMessages)] /\ progressItems \in [Jobs -> Seq(Nat)]
      /\ version \in [Jobs -> {"none", "old", "recent"}]
      /\ reported \in [Jobs -> Nat] /\ valid \in [Jobs -> BOOLEAN]
  BY DEF CommunicatorTypeOK, AppInv, JobTypeOK
<1>3. \A i \in Jobs \ {j} : SameLine(i)
  BY <1>1, <1>2 DEF SameLine
<1>4. /\ inbox'[j] = <<>> /\ version'[j] = "none" /\ progressItems'[j] = <<>>
      /\ reported'[j] = 0 /\ valid'[j] = FALSE
  BY <1>1, <1>2
<1>5. DOMAIN inbox'[j] = {} /\ DOMAIN progressItems'[j] = {} /\ Progresses(j)' = {}
  BY <1>4 DEF Progresses
<1> QED
  BY <1>3, <1>4, <1>5 DEF GreetedFirst, ProgressOf

\* Nothing else changes what the connections carry.
LEMMA OtherStepsLine ==
  ASSUME [CommunicatorNext]_communicatorVars,
         \A j \in Jobs : ~ClientStep(j) /\ ~OnJobCommunication(j) /\ ~Disconnect(j)
  PROVE  \A j \in Jobs : SameLine(j)
<1> DEFINE same == UNCHANGED <<inbox, progressItems, version, reported, valid>>
<1>1. same => \A j \in Jobs : SameLine(j)
  BY DEF SameLine
<1>2. ASSUME NEW j \in Jobs, NEW n, OnData(j, n) PROVE same
  BY <1>2 DEF OnData, clientVars, vars, jobVars
<1>3. ASSUME NEW j \in Jobs, Connect(j) PROVE same
  BY <1>3 DEF Connect, OnJobAdded, AddJob, lineVars, clientVars
<1>4. ASSUME NEW w \in Workers, ReadAnswer(w) PROVE same
  <2>1. OnWorkerCommunication(w)
    BY <1>4 DEF ReadAnswer
  <2>2. valid' = valid
    BY <2>1
    DEF OnWorkerCommunication, DropAnswer, AnswerWithoutJob, AnswerSuccess, AnswerRejected,
        AnswerRescheduled, AnswerChallenge, CompleteTask, WorkerLeavesJobs, jobVars
  <2> QED
    BY <1>4, <2>2 DEF ReadAnswer, lineVars
<1>5. ASSUME NEW w \in Workers, NEW m \in executing[w], NEW outcome \in Statuses,
             Answer(w, m, outcome)
      PROVE  same
  BY <1>5 DEF Answer, WorkerAnswer, lineVars, clientVars, jobVars
<1>6. ASSUME WorkerComesOrGoes PROVE same
  BY <1>6
  DEF WorkerComesOrGoes, OnGreeting, OnWorkerClosed, OnWorkerTimeout, WorkerLeavesJobs,
      lineVars, clientVars, jobVars
<1>7. ASSUME Dispatching PROVE same
  BY <1>7
  DEF Dispatching, DispatchStep, DispatchTurn, DispatchTask, DispatchFails, DispatchEnd,
      AddWorkerToJob, lineVars, clientVars, jobVars
<1>8. ASSUME UNCHANGED communicatorVars PROVE same
  BY <1>8 DEF communicatorVars, lineVars, clientVars, vars, jobVars
<1> QED
  BY <1>1, <1>2, <1>3, <1>4, <1>5, <1>6, <1>7, <1>8 DEF CommunicatorNext

\* What the connections carry is in order.
LinesInv ==
  /\ CommunicatorInv
  /\ CommunicatorTypeOK
  /\ \A j \in Jobs : GreetedFirst(j) /\ ProgressOf(j)

LEMMA LinesStepInv == LinesInv /\ [CommunicatorNext]_communicatorVars => LinesInv'
<1> SUFFICES ASSUME LinesInv, [CommunicatorNext]_communicatorVars
             PROVE  LinesInv'
  OBVIOUS
<1>1. CommunicatorInv' /\ CommunicatorTypeOK' /\ AppInv
  BY CommunicatorStepInv, CommunicatorTypeStep DEF LinesInv, CommunicatorInv
<1>2. ASSUME NEW j \in Jobs, ClientStep(j) \/ OnJobCommunication(j) \/ Disconnect(j)
      PROVE  /\ GreetedFirst(j)' /\ ProgressOf(j)'
             /\ \A i \in Jobs \ {j} : SameLine(i)
  BY <1>1, <1>2, ClientStepLine, HandOutLine, DisconnectLine DEF LinesInv
<1>3. \A i \in Jobs : SameLine(i) => GreetedFirst(i)' /\ ProgressOf(i)'
  BY SameLineKeeps DEF LinesInv
<1>4. \A i \in Jobs : GreetedFirst(i)' /\ ProgressOf(i)'
  BY <1>2, <1>3, OtherStepsLine
<1> QED
  BY <1>1, <1>4 DEF LinesInv

LEMMA LinesInitInv == CommunicatorInit => LinesInv
<1> SUFFICES ASSUME CommunicatorInit PROVE LinesInv
  OBVIOUS
<1>1. /\ inbox = [j \in Jobs |-> <<>>] /\ extracted = [j \in Jobs |-> 0]
      /\ progressItems = [j \in Jobs |-> <<>>] /\ version = [j \in Jobs |-> "none"]
      /\ sent = [j \in Jobs |-> {}] /\ reported = [j \in Jobs |-> 0]
      /\ questions = [j \in Jobs |-> {}] /\ asked = [w \in Workers |-> {}]
      /\ valid = [j \in Jobs |-> FALSE]
  BY DEF CommunicatorInit, Init, JobInit
<1>2. <<>> \in Seq(JobMessages) /\ <<>> \in Seq(Nat) /\ DOMAIN <<>> = {}
  OBVIOUS
<1>3. CommunicatorTypeOK
  BY <1>1, <1>2 DEF CommunicatorTypeOK
<1>4. \A j \in Jobs : GreetedFirst(j) /\ ProgressOf(j)
  BY <1>1, <1>2 DEF GreetedFirst, ProgressOf, Progresses
<1> QED
  BY <1>3, <1>4, CommunicatorInitInv DEF LinesInv

\* Messages, and what clients and workers know of each other, have their types
\* (communicator.cc, OnData; application.cc, OnJobCommunication).
THEOREM CommunicatorTypeCorrect == CommunicatorSpec => []CommunicatorTypeOK
<1>1. LinesInv => CommunicatorTypeOK
  BY DEF LinesInv
<1> QED
  BY <1>1, LinesInitInv, LinesStepInv, PTL DEF CommunicatorSpec

\* For any number of messages and connections, however many messages a read
\* extracts, progress is kept in order, each message once, and none of an
\* earlier connection (application.cc, HandleJobProgress; job.cc, AddProgress).
THEOREM ProgressKeptInOrder == CommunicatorSpec => []ProgressInOrder
<1>1. LinesInv => ProgressInOrder
  BY DEF LinesInv, ProgressOf, ProgressInOrder
<1> QED
  BY <1>1, LinesInitInv, LinesStepInv, PTL DEF CommunicatorSpec

(***************************************************************************)
(* What clients wait for, and which tokens they send.                      *)
(***************************************************************************)

\* What job j waits for.
AwaitedOf(j) == {t \in awaiting : Group[t] = j}

\* A recent client waits for what is unread and for what its job waits for; for
\* others no job waits for anything.
SentOf(j) ==
  /\ version[j] = "none" => sent[j] = {}
  /\ version[j] # "recent" => AwaitedOf(j) = {}
  /\ version[j] = "recent" => sent[j] = Unread(j) \cup AwaitedOf(j)

\* Nothing changes between client and job j.
SameTalk(j) ==
  /\ SameLine(j)
  /\ sent'[j] = sent[j]
  /\ questions'[j] = questions[j]
  /\ AwaitedOf(j)' = AwaitedOf(j)

LEMMA SameTalkKeeps ==
  ASSUME NEW j \in Jobs, SentOf(j), SameTalk(j)
  PROVE  SentOf(j)'
<1>1. Unread(j)' = Unread(j)
  BY DEF SameTalk, SameLine, Unread
<1> QED
  BY <1>1 DEF SameTalk, SameLine, SentOf

\* Unread tasks are those of the messages.
LEMMA UnreadIs ==
  ASSUME NEW j \in Jobs
  PROVE  Unread(j) = UNION {TasksOf(inbox[j][k]) : k \in DOMAIN inbox[j]}
BY DEF Unread, TasksOf

\* What a client sends is unread.
LEMMA ClientStepTalk ==
  ASSUME LinesInv, NEW j \in Jobs, ClientStep(j), SentOf(j)
  PROVE  SentOf(j)' /\ \A i \in Jobs \ {j} : SameTalk(i)
<1>1. /\ inbox \in [Jobs -> Seq(JobMessages)]
      /\ version \in [Jobs -> {"none", "old", "recent"}]
      /\ sent \in [Jobs -> SUBSET Tasks] /\ questions \in [Jobs -> SUBSET Questions]
  BY DEF LinesInv, CommunicatorTypeOK
<1>2. GreetedFirst(j) /\ \A i \in Jobs \ {j} : SameLine(i)
  BY ClientStepLine DEF LinesInv, CommunicatorInv
<1>3. ASSUME NEW m \in JobMessages, Send(j, m)
      PROVE  /\ Unread(j)' = Unread(j) \cup TasksOf(m)
             /\ awaiting' = awaiting
  <2>1. inbox'[j] = Append(inbox[j], m) /\ awaiting' = awaiting
    BY <1>1, <1>3 DEF Send, vars, worldVars
  <2> DEFINE n == Len(inbox[j]) + 1
  <2>2. 1 .. n = (1 .. Len(inbox[j])) \cup {n} /\ Len(inbox[j]) \in Nat
    BY <1>1
  <2>3. /\ DOMAIN inbox'[j] = DOMAIN inbox[j] \cup {n}
        /\ inbox'[j][n] = m
        /\ \A k \in DOMAIN inbox[j] : inbox'[j][k] = inbox[j][k]
    BY <1>1, <2>1, <2>2, Appended
  <2> HIDE DEF n
  <2>4. UNION {TasksOf(inbox'[j][k]) : k \in DOMAIN inbox'[j]} = Unread(j) \cup TasksOf(m)
    BY <2>3, UnreadIs
  <2>5. Unread(j)' = UNION {TasksOf(inbox'[j][k]) : k \in DOMAIN inbox'[j]}
    BY DEF Unread, TasksOf
  <2> QED
    BY <2>1, <2>3, <2>4, <2>5
<1>4. ASSUME awaiting' = awaiting PROVE \A i \in Jobs : AwaitedOf(i)' = AwaitedOf(i)
  BY <1>4 DEF AwaitedOf
<1>5. ASSUME NEW recent \in BOOLEAN, NEW timed \in Timeouts, SendIdentify(j, recent, timed)
      PROVE  SentOf(j)' /\ \A i \in Jobs \ {j} : SameTalk(i)
  <2> DEFINE m == [type |-> "Identify", recent |-> recent, timed |-> timed]
  <2>1. m \in JobMessages
    BY ApplicationAssumption DEF JobMessages
  <2>2. /\ m.type = "Identify" /\ Send(j, m) /\ version[j] = "none" /\ version'[j] # "none"
        /\ sent' = sent /\ questions' = questions /\ TasksOf(m) = {}
    BY <1>1, <1>5 DEF SendIdentify, TasksOf
  <2> HIDE DEF m
  <2>3. Unread(j) = {}
    BY <1>2, <2>2, UnreadIs DEF GreetedFirst, TasksOf
  <2>4. SentOf(j)'
    BY <1>3, <1>4, <2>1, <2>2, <2>3 DEF SentOf
  <2> QED
    BY <1>2, <1>3, <1>4, <2>1, <2>2, <2>4 DEF SameTalk
<1>6. ASSUME NEW ts \in BatchesOf(Sendable(j)), SendBatch(j, ts)
      PROVE  SentOf(j)' /\ \A i \in Jobs \ {j} : SameTalk(i)
  <2> DEFINE m == [type |-> "Batch", tasks |-> ts]
  <2>1. ts \in Seq(Tasks)
    BY BatchTasks DEF Sendable
  <2>2. m \in JobMessages
    BY <2>1 DEF JobMessages
  <2>3. /\ m.type = "Batch" /\ TasksOf(m) = Range(ts) /\ Send(j, m)
        /\ version[j] # "none" /\ version' = version
        /\ sent'[j] = sent[j] \cup Range(ts) /\ questions'[j] \subseteq questions[j]
        /\ \A i \in Jobs \ {j} : sent'[i] = sent[i] /\ questions'[i] = questions[i]
    BY <1>1, <1>6 DEF SendBatch, TasksOf
  <2> HIDE DEF m
  <2>4. SentOf(j)'
    BY <1>3, <1>4, <2>2, <2>3 DEF SentOf
  <2> QED
    BY <1>2, <1>3, <1>4, <2>2, <2>3, <2>4 DEF SameTalk
<1>7. CASE SendProgress(j)
  <2> DEFINE m == [type |-> "Progress", item |-> reported[j] + 1]
  <2>1. reported[j] + 1 \in Nat
    BY DEF LinesInv, CommunicatorTypeOK
  <2>2. m \in JobMessages
    BY <2>1 DEF JobMessages
  <2>3. /\ m.type = "Progress" /\ TasksOf(m) = {} /\ Send(j, m)
        /\ version' = version /\ sent' = sent /\ questions' = questions
    BY <1>7 DEF SendProgress, TasksOf
  <2> HIDE DEF m
  <2>4. SentOf(j)'
    BY <1>3, <1>4, <2>2, <2>3 DEF SentOf
  <2> QED
    BY <1>2, <1>3, <1>4, <2>2, <2>3, <2>4 DEF SameTalk
<1>8. ASSUME NEW q \in questions[j], SendToken(j, q)
      PROVE  SentOf(j)' /\ \A i \in Jobs \ {j} : SameTalk(i)
  <2> DEFINE m == [type |-> "Token", answers |-> q]
  <2>1. m \in JobMessages
    BY <1>1 DEF JobMessages
  <2>2. /\ m.type = "Token" /\ m.answers = q /\ TasksOf(m) = {} /\ Send(j, m)
        /\ version' = version /\ sent' = sent /\ questions'[j] \subseteq questions[j]
        /\ \A i \in Jobs \ {j} : questions'[i] = questions[i]
    BY <1>1, <1>8 DEF SendToken, TasksOf
  <2> HIDE DEF m
  <2>3. SentOf(j)'
    BY <1>3, <1>4, <2>1, <2>2 DEF SentOf
  <2> QED
    BY <1>2, <1>3, <1>4, <2>1, <2>2, <2>3 DEF SameTalk
<1> QED
  BY <1>5, <1>6, <1>7, <1>8 DEF ClientStep

\* A batch that is handed out is waited for by its job.
LEMMA HandOutTalk ==
  ASSUME LinesInv, NEW j \in Jobs, OnJobCommunication(j), SentOf(j)
  PROVE  SentOf(j)' /\ \A i \in Jobs \ {j} : SameTalk(i)
<1> DEFINE m == NextMessage(j)
<1>1. /\ m = inbox[j][1] /\ 1 \in DOMAIN inbox[j]
      /\ \A k \in DOMAIN inbox'[j] :
           k + 1 \in DOMAIN inbox[j] /\ inbox'[j][k] = inbox[j][k + 1]
      /\ \A k \in DOMAIN inbox[j] : k # 1 =>
           k - 1 \in DOMAIN inbox'[j] /\ inbox'[j][k - 1] = inbox[j][k]
  BY HandedOut DEF LinesInv
<1>2. /\ GreetedFirst(j) /\ \A i \in Jobs \ {j} : SameLine(i)
      /\ \A k \in DOMAIN inbox[j] : k \in Nat \ {0}
      /\ version' = version /\ sent' = sent /\ questions' = questions
  <2>1. inbox[j] \in Seq(JobMessages)
    BY DEF LinesInv, CommunicatorTypeOK
  <2>2. \A k \in DOMAIN inbox[j] : k \in Nat \ {0}
    BY <2>1
  <2> QED
    BY <2>2, HandOutLine DEF LinesInv, OnJobCommunication, clientVars
<1>3. \/ m.type = "Batch" /\ valid[j] /\ awaiting' = awaiting \cup Range(m.tasks)
      \/ ~(m.type = "Batch" /\ valid[j]) /\ awaiting' = awaiting
  BY DEF OnJobCommunication, HandleMessage, HandleJobToken, HandleJobIdentify, HandleJobBatch,
         vars, worldVars
<1>4. m.type = "Batch" => Range(m.tasks) \subseteq {t \in Tasks : Group[t] = j}
  <2>1. m.type = "Batch" => m.tasks \in BatchesOf({t \in Tasks : Group[t] = j})
    BY <1>1 DEF LinesInv, CommunicatorInv, InboxProper, Proper
  <2> QED
    BY <2>1, BatchTasks
<1> HIDE DEF m
<1>5. Unread(j) = TasksOf(m) \cup Unread(j)'
  <2>1. Unread(j)' = UNION {TasksOf(inbox'[j][k]) : k \in DOMAIN inbox'[j]}
    BY DEF Unread, TasksOf
  <2>2. \A t \in Unread(j) : t \in TasksOf(m) \cup Unread(j)'
    BY <1>1, <2>1, UnreadIs
  <2>3. \A t \in TasksOf(m) \cup Unread(j)' : t \in Unread(j)
    BY <1>1, <2>1, UnreadIs
  <2> QED
    BY <2>2, <2>3
<1>7. CASE m.type = "Batch" /\ valid[j]
  <2>1. /\ AwaitedOf(j)' = AwaitedOf(j) \cup TasksOf(m)
        /\ \A i \in Jobs \ {j} : AwaitedOf(i)' = AwaitedOf(i)
    BY <1>3, <1>4, <1>7 DEF AwaitedOf, TasksOf
  <2>2. version[j] = "recent"
    BY <1>2, <1>7 DEF GreetedFirst
  <2>3. SentOf(j)'
    BY <1>2, <1>5, <2>1, <2>2 DEF SentOf
  <2> QED
    BY <1>2, <2>1, <2>3 DEF SameTalk
<1>8. CASE ~(m.type = "Batch" /\ valid[j])
  <2>1. \A i \in Jobs : AwaitedOf(i)' = AwaitedOf(i)
    BY <1>3, <1>8 DEF AwaitedOf
  <2>2. version[j] = "recent" => TasksOf(m) = {}
    <3> SUFFICES ASSUME version[j] = "recent", m.type = "Batch"
                 PROVE  FALSE
      BY DEF TasksOf
    <3>1. PICK k \in DOMAIN inbox[j] : inbox[j][k].type = "Identify"
      BY <1>2, <1>8 DEF GreetedFirst
    <3>2. k # 1 /\ 1 < k
      BY <1>1, <1>2, <3>1
    <3> QED
      BY <1>1, <1>2, <3>1, <3>2 DEF GreetedFirst
  <2>3. SentOf(j)'
    BY <1>2, <1>5, <2>1, <2>2 DEF SentOf
  <2> QED
    BY <1>2, <2>1, <2>3 DEF SameTalk
<1> QED
  BY <1>7, <1>8

\* The client of a connection that closes waits for nothing.
LEMMA DisconnectTalk ==
  ASSUME LinesInv, NEW j \in Jobs, Disconnect(j)
  PROVE  SentOf(j)' /\ \A i \in Jobs \ {j} : SameTalk(i)
<1>1. /\ inbox' = [inbox EXCEPT ![j] = <<>>] /\ version' = [version EXCEPT ![j] = "none"]
      /\ sent' = [sent EXCEPT ![j] = {}] /\ questions' = [questions EXCEPT ![j] = {}]
      /\ awaiting' = {t \in awaiting : Group[t] # j}
  BY DEF Disconnect, OnClosed, OnJobRemoved
<1>2. \A i \in Jobs \ {j} : SameLine(i)
  BY DisconnectLine DEF LinesInv, CommunicatorInv
<1>3. /\ inbox'[j] = <<>> /\ version'[j] = "none" /\ sent'[j] = {} /\ questions'[j] = {}
      /\ \A i \in Jobs \ {j} : sent'[i] = sent[i] /\ questions'[i] = questions[i]
  BY <1>1 DEF LinesInv, CommunicatorTypeOK
<1>4. AwaitedOf(j)' = {} /\ \A i \in Jobs \ {j} : AwaitedOf(i)' = AwaitedOf(i)
  BY <1>1 DEF AwaitedOf
<1>5. DOMAIN inbox'[j] = {}
  BY <1>3
<1> QED
  BY <1>2, <1>3, <1>4, <1>5 DEF SameTalk, SentOf

\* The answer that ends a task is about that task: of what the client waits for,
\* it is the one with the id in the answer.
LEMMA ReadAnswerTalk ==
  ASSUME OwnIds, AwaitInv, LinesInv, NEW w \in Workers, ReadAnswer(w),
         \A j \in Jobs : SentOf(j) /\ SameLine(j)
  PROVE  \A j \in Jobs : SentOf(j)'
<1> DEFINE a == Head(wire[w])
           g == Group[task[w]]
<1>1. AppInv /\ sent \in [Jobs -> SUBSET Tasks]
  BY DEF LinesInv, CommunicatorInv, CommunicatorTypeOK
<1>2. wire[w] # <<>> /\ wire[w] \in Seq(Answers) /\ 1 \in DOMAIN wire[w] /\ a = wire[w][1]
  <2>1. wire[w] # <<>> /\ wire[w] \in Seq(Answers)
    BY <1>1 DEF ReadAnswer, OnWorkerCommunication, AppInv, RestTypeOK
  <2> QED
    BY <2>1
<1>3. HasJob(w) => a.task = task[w] /\ task[w] \in Tasks
  BY <1>1, <1>2
  DEF HasJob, AwaitInv, AllLines, LineOf, AppInv, WorkerInv, ActiveHasTask
<1>4. awaiting' = IF EndsTask(w, a) THEN AwaitingAfter(g, a) ELSE awaiting
  <2>1. a.status \in {"Success", "Failed", "Challenge"}
    <3>1. wire[w][1] \in Answers
      BY <1>2
    <3>2. a \in Answers
      BY <1>2, <3>1
    <3> HIDE DEF a
    <3> QED
      BY <3>2 DEF Answers, Statuses
  <2>2. HasJob(w) => failures[task[w]] \in Nat /\ MaxTaskFailures \in Nat
    BY <1>1, <1>3, ApplicationAssumption DEF AppInv, RestTypeOK
  <2>3. \/ ~HasJob(w) /\ awaiting' = awaiting
        \/ HasJob(w) /\ a.status = "Success" /\ awaiting' = AwaitingAfter(g, a)
        \/ /\ HasJob(w) /\ a.status = "Failed" /\ failures[task[w]] + 1 >= MaxTaskFailures
           /\ awaiting' = AwaitingAfter(g, a)
        \/ /\ HasJob(w) /\ a.status = "Failed" /\ failures[task[w]] + 1 < MaxTaskFailures
           /\ awaiting' = awaiting
        \/ HasJob(w) /\ a.status = "Challenge" /\ awaiting' = awaiting
    BY Zenon
    DEF ReadAnswer, OnWorkerCommunication, DropAnswer, AnswerWithoutJob, AnswerSuccess,
        AnswerRejected, AnswerRescheduled, AnswerChallenge, CompleteTask, HasJob
  <2> HIDE DEF a, g
  <2> QED
    BY <2>1, <2>2, <2>3 DEF EndsTask
<1>5. sent' = IF EndsTask(w, a)
              THEN [sent EXCEPT ![g] = {t \in sent[g] : TaskId[t] # TaskId[a.task]}]
              ELSE sent
  BY DEF ReadAnswer
<1> HIDE DEF a
<1> SUFFICES ASSUME NEW j \in Jobs PROVE SentOf(j)'
  OBVIOUS
<1>6. /\ inbox'[j] = inbox[j] /\ version'[j] = version[j] /\ Unread(j)' = Unread(j)
  BY DEF SameLine, Unread
<1>8. CASE EndsTask(w, a) /\ j = g
  <2>1. a.task = task[w] /\ task[w] \in Tasks /\ Group[a.task] = j
    BY <1>3, <1>8 DEF EndsTask
  <2>2. sent'[j] = {t \in sent[j] : TaskId[t] # TaskId[a.task]}
    BY <1>1, <1>5, <1>8
  <2>3. AwaitedOf(j)' = {t \in AwaitedOf(j) : TaskId[t] # TaskId[a.task]}
    BY <1>4, <1>8 DEF AwaitedOf, AwaitingAfter
  <2>4. ASSUME NEW t \in Unread(j) PROVE TaskId[t] # TaskId[a.task]
    <3>1. PICK k \in DOMAIN inbox[j] : t \in TasksOf(inbox[j][k])
      BY UnreadIs
    <3>2. Fresh(t) /\ Group[t] = j /\ t \in Tasks
      <4>1. Proper(j, inbox[j][k]) /\ inbox[j][k].type = "Batch" /\ t \in Range(inbox[j][k].tasks)
        BY <3>1 DEF LinesInv, CommunicatorInv, InboxProper, TasksOf
      <4>2. Range(inbox[j][k].tasks) \subseteq {u \in Tasks : Group[u] = j}
        BY <4>1, BatchTasks DEF Proper
      <4> QED
        BY <3>1, <4>1, <4>2 DEF LinesInv, CommunicatorInv, UnreadFresh
    <3>3. t # a.task
      BY <1>2, <3>2 DEF Fresh
    <3> QED
      BY <2>1, <3>2, <3>3 DEF OwnIds
  <2> QED
    BY <1>6, <2>2, <2>3, <2>4 DEF SentOf
<1>9. CASE ~(EndsTask(w, a) /\ j = g)
  <2>1. sent'[j] = sent[j]
    BY <1>1, <1>5, <1>9
  <2>2. AwaitedOf(j)' = AwaitedOf(j)
    BY <1>4, <1>9 DEF AwaitedOf, AwaitingAfter
  <2> QED
    BY <1>6, <2>1, <2>2 DEF SentOf
<1> QED
  BY <1>8, <1>9

\* Nothing else changes what clients and jobs wait for.
LEMMA OtherStepsTalk ==
  ASSUME [CommunicatorNext]_communicatorVars,
         \A j \in Jobs : ~ClientStep(j) /\ ~OnJobCommunication(j) /\ ~Disconnect(j),
         \A w \in Workers : ~ReadAnswer(w)
  PROVE  \A j \in Jobs : SameTalk(j)
<1> DEFINE same == UNCHANGED <<sent, questions, awaiting>>
<1>1. \A j \in Jobs : SameLine(j)
  BY OtherStepsLine
<1>2. same => \A j \in Jobs : SameTalk(j)
  BY <1>1 DEF SameTalk, AwaitedOf
<1>3. ASSUME NEW j \in Jobs, NEW n, OnData(j, n) PROVE same
  BY <1>3 DEF OnData, clientVars, vars, worldVars
<1>4. ASSUME NEW j \in Jobs, Connect(j) PROVE same
  BY <1>4 DEF Connect, OnJobAdded, worldVars, clientVars
<1>5. ASSUME NEW w \in Workers, NEW m \in executing[w], NEW outcome \in Statuses,
             Answer(w, m, outcome)
      PROVE  same
  BY <1>5 DEF Answer, WorkerAnswer, clientVars
<1>6. ASSUME WorkerComesOrGoes PROVE same
  BY <1>6 DEF WorkerComesOrGoes, OnGreeting, OnWorkerClosed, OnWorkerTimeout, clientVars
<1>7. ASSUME Dispatching PROVE same
  BY <1>7
  DEF Dispatching, DispatchStep, DispatchTurn, DispatchTask, DispatchFails, DispatchEnd,
      worldVars, clientVars
<1>8. ASSUME UNCHANGED communicatorVars PROVE same
  BY <1>8 DEF communicatorVars, clientVars, vars, worldVars
<1> QED
  BY <1>2, <1>3, <1>4, <1>5, <1>6, <1>7, <1>8 DEF CommunicatorNext

\* Clients, connections and master agree.
TalkInv ==
  /\ AwaitInv
  /\ LinesInv
  /\ \A j \in Jobs : SentOf(j)

LEMMA TalkStepInv ==
  ASSUME SendsSucceed, OwnIds, ~LateAnswers, TalkInv, [CommunicatorNext]_communicatorVars
  PROVE  TalkInv'
<1>1. AwaitInv' /\ LinesInv'
  BY StepIsMasterStep, AwaitStepInv, LinesStepInv DEF TalkInv, LinesInv
<1>2. \A i \in Jobs : SameTalk(i) => SentOf(i)'
  BY SameTalkKeeps DEF TalkInv
<1>3. ASSUME NEW j \in Jobs, ClientStep(j) \/ OnJobCommunication(j) \/ Disconnect(j)
      PROVE  TalkInv'
  <2>1. SentOf(j)' /\ \A i \in Jobs \ {j} : SameTalk(i)
    BY <1>3, ClientStepTalk, HandOutTalk, DisconnectTalk DEF TalkInv
  <2> QED
    BY <1>1, <1>2, <2>1 DEF TalkInv
<1>4. ASSUME NEW w \in Workers, ReadAnswer(w) PROVE TalkInv'
  <2>1. \A j \in Jobs : SameLine(j)
    <3>1. UNCHANGED <<inbox, progressItems, version, reported>>
      BY <1>4 DEF ReadAnswer, lineVars
    <3>2. OnWorkerCommunication(w)
      BY <1>4 DEF ReadAnswer
    <3>3. valid' = valid
      BY <3>2
      DEF OnWorkerCommunication, DropAnswer, AnswerWithoutJob, AnswerSuccess, AnswerRejected,
          AnswerRescheduled, AnswerChallenge, CompleteTask, WorkerLeavesJobs, jobVars
    <3> QED
      BY <3>1, <3>3 DEF SameLine
  <2> QED
    BY <1>1, <1>4, <2>1, ReadAnswerTalk DEF TalkInv
<1> QED
  BY <1>1, <1>2, <1>3, <1>4, OtherStepsTalk DEF TalkInv

LEMMA TalkInitInv == CommunicatorInit => TalkInv
<1> SUFFICES ASSUME CommunicatorInit PROVE TalkInv
  OBVIOUS
<1>1. AwaitInv /\ LinesInv
  BY AwaitInitInv, LinesInitInv DEF CommunicatorInit
<1>2. /\ inbox = [j \in Jobs |-> <<>>] /\ version = [j \in Jobs |-> "none"]
      /\ sent = [j \in Jobs |-> {}] /\ questions = [j \in Jobs |-> {}] /\ awaiting = {}
  BY DEF CommunicatorInit, Init
<1>3. ASSUME NEW j \in Jobs PROVE DOMAIN inbox[j] = {}
  <2>1. inbox[j] = <<>>
    BY <1>2
  <2>2. DOMAIN <<>> = {}
    OBVIOUS
  <2> QED
    BY <2>1, <2>2
<1> QED
  BY <1>1, <1>2, <1>3 DEF TalkInv, SentOf, AwaitedOf

\* Nothing that a client sends is ignored or lost, however many messages arrive
\* at once, and nothing of an earlier connection is taken for its own: what it
\* waits for is under way, waiting or running (communicator.cc, OnData and
\* OnClosed; application.cc, HandleJobBatch).
THEOREM NothingSentIgnored ==
  ASSUME SendsSucceed, OwnIds, ~LateAnswers
  PROVE  CommunicatorSpec => []NothingIgnored
<1>1. TalkInv => NothingIgnored
  BY DEF TalkInv, SentOf, AwaitedOf, NothingIgnored
<1> QED
  BY <1>1, TalkInitInv, TalkStepInv, PTL DEF CommunicatorSpec

(***************************************************************************)
(* Which worker a token reaches, with ids that jobs share and clients use  *)
(* again.                                                                  *)
(***************************************************************************)

\* The tasks of job j that wait or run.
ScheduledOf(j) == {t \in Scheduled : Group[t] = j}

\* Of the tasks T, none but that of q has its id.
OnlyOne(q, T) == \A t \in T : TaskId[t] = TaskId[q.task] => t = q.task

\* A client waits for all of its tasks that are unread, wait or run.
KnownOf(j) == Unread(j) \cup ScheduledOf(j) \subseteq sent[j]

\* What a client is asked is about no other task that it waits for; and what it
\* answered is about no other that waits or runs, or will once the batches in
\* front of the token are read.
TokensOf(j) ==
  /\ \A q \in questions[j] : OnlyOne(q, sent[j])
  /\ \A k \in DOMAIN inbox[j] : inbox[j][k].type = "Token" =>
       /\ OnlyOne(inbox[j][k].answers, ScheduledOf(j))
       /\ \A l \in DOMAIN inbox[j] : l < k => OnlyOne(inbox[j][k].answers, TasksOf(inbox[j][l]))

TokenInv ==
  /\ PlaceInv
  /\ LinesInv
  /\ \A j \in Jobs : KnownOf(j) /\ TokensOf(j)

\* Without a new batch nothing begins to wait or run.
LEMMA ScheduledShrinks ==
  ASSUME SendsSucceed, PlaceInv, [Next]_vars, awaiting' \subseteq awaiting
  PROVE  Scheduled' \subseteq Scheduled
<1>1. AppInv /\ QueueInv'
  BY AppStepInv DEF PlaceInv, AppInv
<1>2. CASE NothingMoves
  BY <1>2, NothingPlace DEF Scheduled
<1>3. ASSUME NEW w \in Workers, GoesBack(w) \/ Ends(w) PROVE Scheduled' \subseteq Scheduled
  <2>1. task[w] \in Held
    BY <1>3, PlaceParts DEF GoesBack, Ends, Stops
  <2> QED
    BY <1>1, <1>3, <2>1, GoesBackPlace, EndsPlace DEF Scheduled
<1>4. ASSUME NEW j \in Jobs, NEW ts \in BatchesOf(NewTasks(j)), HandleJobBatch(j, ts)
      PROVE  Scheduled' \subseteq Scheduled
  <2>1. /\ Held' = Held /\ Queued' = Queued \cup Range(ts)
        /\ Range(ts) \cap (awaiting \cup Queued \cup Held) = {}
    BY <1>1, <1>4, BatchPlace
  <2>2. awaiting' = awaiting \cup Range(ts)
    BY <1>4 DEF HandleJobBatch
  <2> QED
    BY <2>1, <2>2 DEF Scheduled
<1>5. ASSUME NEW j \in Jobs, Leaves(j) PROVE Scheduled' \subseteq Scheduled
  BY <1>1, <1>5, LeavesPlace DEF Scheduled
<1>6. ASSUME NEW g \in Jobs, DispatchTask(g) PROVE Scheduled' \subseteq Scheduled
  BY <1>1, <1>6, DispatchPlace DEF Scheduled
<1> QED
  BY <1>1, <1>2, <1>3, <1>4, <1>5, <1>6, StepMoves

\* Where nothing is sent, read or asked, nothing new is known.
LEMMA QuietTokens ==
  ASSUME NEW j \in Jobs, KnownOf(j), TokensOf(j), Scheduled' \subseteq Scheduled,
         inbox'[j] = inbox[j], sent'[j] = sent[j], questions'[j] = questions[j]
  PROVE  KnownOf(j)' /\ TokensOf(j)'
<1>1. ScheduledOf(j)' \subseteq ScheduledOf(j)
  BY DEF ScheduledOf
<1>2. Unread(j)' = Unread(j)
  BY DEF Unread
<1>3. KnownOf(j)'
  BY <1>1, <1>2 DEF KnownOf
<1>4. \A q : OnlyOne(q, ScheduledOf(j)) => OnlyOne(q, ScheduledOf(j)')
  BY <1>1 DEF OnlyOne
<1> QED
  BY <1>3, <1>4 DEF TokensOf, OnlyOne, TasksOf

\* A message that is sent comes after all that the client sent before.
LEMMA SendTokens ==
  ASSUME inbox \in [Jobs -> Seq(JobMessages)], NEW j \in Jobs, KnownOf(j), TokensOf(j),
         NEW m \in JobMessages, Send(j, m),
         sent'[j] = sent[j] \cup TasksOf(m),
         \A q \in questions'[j] : q \in questions[j] /\ OnlyOne(q, TasksOf(m)),
         m.type = "Token" => m.answers \in questions[j]
  PROVE  KnownOf(j)' /\ TokensOf(j)'
<1> DEFINE n == Len(inbox[j]) + 1
<1>1. inbox'[j] = Append(inbox[j], m) /\ UNCHANGED vars
  BY DEF Send
<1>2. 1 .. n = (1 .. Len(inbox[j])) \cup {n} /\ Len(inbox[j]) \in Nat
  OBVIOUS
<1>3. /\ DOMAIN inbox'[j] = DOMAIN inbox[j] \cup {n}
      /\ inbox'[j][n] = m
      /\ \A k \in DOMAIN inbox[j] : inbox'[j][k] = inbox[j][k] /\ k < n
      /\ n \in Nat
  BY <1>1, <1>2, Appended
<1> HIDE DEF n
<1>4. ScheduledOf(j)' = ScheduledOf(j)
  BY <1>1 DEF vars, queueVars, workerVars, ScheduledOf, Scheduled, Queued, Held
<1>5. Unread(j)' = Unread(j) \cup TasksOf(m)
  <2>1. UNION {TasksOf(inbox'[j][k]) : k \in DOMAIN inbox'[j]} = Unread(j) \cup TasksOf(m)
    BY <1>3, UnreadIs
  <2>2. Unread(j)' = UNION {TasksOf(inbox'[j][k]) : k \in DOMAIN inbox'[j]}
    BY DEF Unread, TasksOf
  <2> QED
    BY <2>1, <2>2
<1>6. KnownOf(j)'
  BY <1>4, <1>5 DEF KnownOf
<1>7. \A q \in questions'[j] : OnlyOne(q, sent'[j])
  BY DEF TokensOf, OnlyOne
<1>8. ASSUME NEW k \in DOMAIN inbox'[j], inbox'[j][k].type = "Token"
      PROVE  /\ OnlyOne(inbox'[j][k].answers, ScheduledOf(j))
             /\ \A l \in DOMAIN inbox'[j] : l < k =>
                  OnlyOne(inbox'[j][k].answers, TasksOf(inbox'[j][l]))
  <2>1. CASE k = n
    <3> DEFINE q == m.answers
    <3>1. inbox'[j][k] = m /\ q \in questions[j] /\ OnlyOne(q, sent[j])
      BY <1>3, <1>8, <2>1 DEF TokensOf
    <3>2. TasksOf(m) = {}
      BY <1>3, <1>8, <2>1 DEF TasksOf
    <3>3. \A l \in DOMAIN inbox[j] : TasksOf(inbox[j][l]) \subseteq sent[j]
      BY UnreadIs DEF KnownOf
    <3>4. ScheduledOf(j) \subseteq sent[j]
      BY DEF KnownOf
    <3> HIDE DEF q
    <3>5. \A l \in DOMAIN inbox'[j] : OnlyOne(q, TasksOf(inbox'[j][l]))
      BY <1>3, <3>1, <3>2, <3>3 DEF OnlyOne
    <3>6. OnlyOne(q, ScheduledOf(j))
      BY <3>1, <3>4 DEF OnlyOne
    <3> QED
      BY <3>1, <3>5, <3>6 DEF q
  <2>2. CASE k # n
    <3>1. k \in DOMAIN inbox[j] /\ inbox'[j][k] = inbox[j][k] /\ k < n /\ k \in Nat
      BY <1>2, <1>3, <2>2, Appended
    <3>2. \A l \in DOMAIN inbox'[j] : l < k => l \in DOMAIN inbox[j]
      BY <1>3, <3>1
    <3> QED
      BY <1>3, <1>8, <3>1, <3>2 DEF TokensOf
  <2> QED
    BY <2>1, <2>2
<1> QED
  BY <1>4, <1>6, <1>7, <1>8 DEF TokensOf, OnlyOne, TasksOf

\* What a client sends keeps the tasks apart.
LEMMA ClientStepTokens ==
  ASSUME CommunicatorTypeOK, NEW j \in Jobs, ClientStep(j), KnownOf(j), TokensOf(j)
  PROVE  KnownOf(j)' /\ TokensOf(j)'
<1>1. /\ inbox \in [Jobs -> Seq(JobMessages)]
      /\ sent \in [Jobs -> SUBSET Tasks] /\ questions \in [Jobs -> SUBSET Questions]
      /\ reported \in [Jobs -> Nat]
  BY DEF CommunicatorTypeOK
<1>2. ASSUME NEW recent \in BOOLEAN, NEW timed \in Timeouts, SendIdentify(j, recent, timed)
      PROVE  KnownOf(j)' /\ TokensOf(j)'
  <2> DEFINE m == [type |-> "Identify", recent |-> recent, timed |-> timed]
  <2>1. m \in JobMessages
    BY ApplicationAssumption DEF JobMessages
  <2>2. /\ m.type = "Identify" /\ Send(j, m) /\ TasksOf(m) = {}
        /\ sent' = sent /\ questions' = questions
    BY <1>2 DEF SendIdentify, TasksOf
  <2> HIDE DEF m
  <2> QED
    BY <1>1, <2>1, <2>2, SendTokens DEF OnlyOne
<1>3. ASSUME NEW ts \in BatchesOf(Sendable(j)), SendBatch(j, ts)
      PROVE  KnownOf(j)' /\ TokensOf(j)'
  <2> DEFINE m == [type |-> "Batch", tasks |-> ts]
  <2>1. ts \in Seq(Tasks)
    BY BatchTasks DEF Sendable
  <2>2. m \in JobMessages
    BY <2>1 DEF JobMessages
  <2>3. /\ m.type = "Batch" /\ TasksOf(m) = Range(ts) /\ Send(j, m)
        /\ sent'[j] = sent[j] \cup Range(ts)
        /\ \A q \in questions'[j] :
             q \in questions[j] /\ \A t \in Range(ts) : TaskId[q.task] # TaskId[t]
    BY <1>1, <1>3 DEF SendBatch, TasksOf
  <2> HIDE DEF m
  <2> QED
    BY <1>1, <2>2, <2>3, SendTokens DEF OnlyOne
<1>4. CASE SendProgress(j)
  <2> DEFINE m == [type |-> "Progress", item |-> reported[j] + 1]
  <2>1. m \in JobMessages
    BY <1>1 DEF JobMessages
  <2>2. /\ m.type = "Progress" /\ Send(j, m) /\ TasksOf(m) = {}
        /\ sent' = sent /\ questions' = questions
    BY <1>4 DEF SendProgress, TasksOf
  <2> HIDE DEF m
  <2> QED
    BY <1>1, <2>1, <2>2, SendTokens DEF OnlyOne
<1>5. ASSUME NEW q \in questions[j], SendToken(j, q) PROVE KnownOf(j)' /\ TokensOf(j)'
  <2> DEFINE m == [type |-> "Token", answers |-> q]
  <2>1. m \in JobMessages
    BY <1>1 DEF JobMessages
  <2>2. /\ m.type = "Token" /\ m.answers = q /\ Send(j, m) /\ TasksOf(m) = {}
        /\ sent' = sent /\ questions'[j] \subseteq questions[j]
    BY <1>1, <1>5 DEF SendToken, TasksOf
  <2> HIDE DEF m
  <2> QED
    BY <1>1, <2>1, <2>2, SendTokens DEF OnlyOne
<1> QED
  BY <1>2, <1>3, <1>4, <1>5 DEF ClientStep

\* What a job is handed begins to wait: the tokens behind it know of it.
LEMMA HandOutTokens ==
  ASSUME SendsSucceed, TokenInv, NEW j \in Jobs, OnJobCommunication(j), [Next]_vars
  PROVE  \A i \in Jobs : KnownOf(i)' /\ TokensOf(i)'
<1> DEFINE m == NextMessage(j)
<1>1. /\ m = inbox[j][1] /\ 1 \in DOMAIN inbox[j]
      /\ \A k \in DOMAIN inbox'[j] :
           k \in Nat \ {0} /\ k + 1 \in DOMAIN inbox[j] /\ inbox'[j][k] = inbox[j][k + 1]
  BY HandedOut DEF TokenInv, LinesInv
<1>2. /\ sent' = sent /\ questions' = questions
      /\ \A i \in Jobs \ {j} : inbox'[i] = inbox[i]
  BY DEF TokenInv, LinesInv, CommunicatorTypeOK, OnJobCommunication, clientVars
<1>3. /\ Scheduled' \subseteq Scheduled \cup TasksOf(m)
      /\ \A t \in TasksOf(m) : Group[t] = j
  <2>1. AppInv /\ QueueInv'
    BY AppStepInv DEF TokenInv, PlaceInv, AppInv
  <2>2. UNCHANGED vars => Scheduled' = Scheduled
    BY DEF vars, queueVars, workerVars, Scheduled, Queued, Held
  <2>3. ASSUME NEW recent \in BOOLEAN, NEW timed \in Timeouts, HandleJobIdentify(j, recent, timed)
        PROVE  Scheduled' \subseteq Scheduled
    BY <2>3, ScheduledShrinks DEF HandleJobIdentify, worldVars, TokenInv
  <2>4. ASSUME m.type = "Batch", m.tasks \in BatchesOf(NewTasks(j)), HandleJobBatch(j, m.tasks)
        PROVE  Scheduled' \subseteq Scheduled \cup TasksOf(m)
    BY <2>1, <2>4, BatchPlace DEF Scheduled, TasksOf, TokenInv
  <2>5. \A t \in TasksOf(m) : Group[t] = j
    <3>1. m.type = "Batch" => m.tasks \in BatchesOf({t \in Tasks : Group[t] = j})
      BY <1>1 DEF TokenInv, LinesInv, CommunicatorInv, InboxProper, Proper
    <3> QED
      BY <3>1, BatchTasks DEF TasksOf
  <2> QED
    BY <2>2, <2>3, <2>4, <2>5, HandOutIsMasterStep DEF TokenInv, LinesInv
<1> HIDE DEF m
<1>4. ASSUME NEW i \in Jobs \ {j} PROVE KnownOf(i)' /\ TokensOf(i)'
  <2>1. ScheduledOf(i)' \subseteq ScheduledOf(i)
    BY <1>3 DEF ScheduledOf
  <2>2. Unread(i)' = Unread(i)
    BY <1>2 DEF Unread
  <2>3. KnownOf(i)'
    BY <1>2, <2>1, <2>2 DEF KnownOf, TokenInv
  <2>4. \A q : OnlyOne(q, ScheduledOf(i)) => OnlyOne(q, ScheduledOf(i)')
    BY <2>1 DEF OnlyOne
  <2> QED
    BY <1>2, <2>3, <2>4 DEF TokensOf, OnlyOne, TasksOf, TokenInv
<1>5. ScheduledOf(j)' \subseteq ScheduledOf(j) \cup TasksOf(m)
  BY <1>3 DEF ScheduledOf
<1>6. KnownOf(j)'
  <2>1. Unread(j)' = UNION {TasksOf(inbox'[j][k]) : k \in DOMAIN inbox'[j]}
    BY DEF Unread, TasksOf
  <2>2. Unread(j)' \subseteq Unread(j) /\ TasksOf(m) \subseteq Unread(j)
    BY <1>1, <2>1, UnreadIs
  <2> QED
    BY <1>2, <1>5, <2>2 DEF KnownOf, TokenInv
<1>7. ASSUME NEW k \in DOMAIN inbox'[j], inbox'[j][k].type = "Token"
      PROVE  /\ OnlyOne(inbox'[j][k].answers, ScheduledOf(j)')
             /\ \A l \in DOMAIN inbox'[j] : l < k =>
                  OnlyOne(inbox'[j][k].answers, TasksOf(inbox'[j][l]))
  <2> DEFINE q == inbox'[j][k].answers
  <2>1. /\ k + 1 \in DOMAIN inbox[j] /\ inbox[j][k + 1] = inbox'[j][k] /\ 1 < k + 1
        /\ \A l \in DOMAIN inbox'[j] : l < k => l + 1 < k + 1
    BY <1>1
  <2>2. TokensOf(j)
    BY DEF TokenInv
  <2>3. /\ OnlyOne(q, ScheduledOf(j))
        /\ \A l \in DOMAIN inbox[j] : l < k + 1 => OnlyOne(q, TasksOf(inbox[j][l]))
    BY <1>7, <2>1, <2>2 DEF TokensOf
  <2> HIDE DEF q
  <2>4. OnlyOne(q, ScheduledOf(j)')
    BY <1>1, <1>5, <2>1, <2>3 DEF OnlyOne
  <2>5. \A l \in DOMAIN inbox'[j] : l < k => OnlyOne(q, TasksOf(inbox'[j][l]))
    BY <1>1, <2>1, <2>3
  <2> QED
    BY <2>4, <2>5 DEF q
<1> QED
  BY <1>2, <1>4, <1>6, <1>7 DEF TokensOf, OnlyOne, TasksOf, TokenInv

\* Of a connection that closes nothing is left.
LEMMA DisconnectTokens ==
  ASSUME SendsSucceed, TokenInv, NEW j \in Jobs, Disconnect(j), QueueInv'
  PROVE  \A i \in Jobs : KnownOf(i)' /\ TokensOf(i)'
<1>1. /\ inbox'[j] = <<>> /\ sent'[j] = {} /\ questions'[j] = {}
      /\ \A i \in Jobs \ {j} :
           inbox'[i] = inbox[i] /\ sent'[i] = sent[i] /\ questions'[i] = questions[i]
  BY DEF TokenInv, LinesInv, CommunicatorTypeOK, Disconnect
<1>2. Leaves(j)
  <2>1. PICK told \in CancelOutcomes(j) : OnJobRemoved(j, told)
    BY DEF Disconnect, OnClosed
  <2> QED
    BY <2>1 DEF OnJobRemoved, CancelOrDeactivate, DeactivateAll, Leaves
<1>3. Scheduled' = {t \in Scheduled : Group[t] # j}
  BY <1>2, LeavesPlace DEF TokenInv, Scheduled
<1>4. KnownOf(j)' /\ TokensOf(j)'
  <2>1. DOMAIN inbox'[j] = {}
    BY <1>1
  <2>2. ScheduledOf(j)' = {} /\ Unread(j)' = {}
    BY <1>3, <2>1 DEF ScheduledOf, Unread
  <2> QED
    BY <1>1, <2>1, <2>2 DEF KnownOf, TokensOf
<1>5. \A i \in Jobs \ {j} : KnownOf(i)' /\ TokensOf(i)'
  BY <1>1, <1>3, QuietTokens DEF TokenInv
<1> QED
  BY <1>4, <1>5

\* The answer that ends a task is about it, and of what its client waits for, it
\* alone has its id; a challenge is about the task that its worker has.
LEMMA ReadAnswerTokens ==
  ASSUME SendsSucceed, TokenInv, IdsApart, AnswersOwn, QueueInv', [Next]_vars,
         NEW w \in Workers, ReadAnswer(w), awaiting' \subseteq awaiting
  PROVE  \A j \in Jobs : KnownOf(j)' /\ TokensOf(j)'
<1> DEFINE a == Head(wire[w])
           g == Group[task[w]]
<1>1. /\ PlaceInv /\ AppInv /\ Scheduled' \subseteq Scheduled
      /\ sent \in [Jobs -> SUBSET Tasks] /\ questions \in [Jobs -> SUBSET Questions]
  BY ScheduledShrinks DEF TokenInv, PlaceInv, LinesInv, CommunicatorTypeOK
<1>2. /\ inbox' = inbox /\ OnWorkerCommunication(w) /\ wire[w] # <<>>
      /\ sent' = IF EndsTask(w, a)
                 THEN [sent EXCEPT ![g] = {t \in sent[g] : TaskId[t] # TaskId[a.task]}]
                 ELSE sent
      /\ questions' = IF HasJob(w) /\ a.status = "Challenge"
                      THEN [questions EXCEPT ![g] =
                              questions[g] \cup {[task |-> a.task, uid |-> a.uid, asker |-> w]}]
                      ELSE questions
  BY DEF ReadAnswer, OnWorkerCommunication, lineVars
<1>3. HasJob(w) => /\ a.task = task[w] /\ task[w] \in Tasks /\ task[w] \in Held
                   /\ task[w] \in sent[g] /\ g \in Jobs
  <2> SUFFICES ASSUME HasJob(w)
               PROVE  /\ a.task = task[w] /\ task[w] \in Tasks /\ task[w] \in Held
                      /\ task[w] \in sent[g] /\ g \in Jobs
    OBVIOUS
  <2>1. active[w] /\ a.task = task[w]
    BY <1>2 DEF HasJob, AnswersOwn
  <2>2. task[w] \in Tasks /\ task[w] \in Held /\ g \in Jobs
    BY <1>1, <2>1, PlaceParts, TaskAssumption
  <2> QED
    BY <2>1, <2>2 DEF TokenInv, KnownOf, ScheduledOf, Scheduled
<1>4. EndsTask(w, a) => Scheduled' = Scheduled \ {task[w]}
  <2> SUFFICES ASSUME EndsTask(w, a) PROVE Scheduled' = Scheduled \ {task[w]}
    OBVIOUS
  <2>1. HasJob(w) /\ active[w]
    BY DEF EndsTask, HasJob
  <2>2. AnswerSuccess(w, a) \/ AnswerRejected(w, a)
    <3>1. failures[task[w]] \in Nat /\ MaxTaskFailures \in Nat
      BY <1>1, <1>3, <2>1, ApplicationAssumption DEF AppInv, RestTypeOK
    <3>2. /\ a.status \in {"Success", "Failed"}
          /\ a.status = "Failed" => ~(failures[task[w]] + 1 < MaxTaskFailures)
      BY <3>1 DEF EndsTask
    <3> HIDE DEF a
    <3>3. ~AnswerChallenge(w, a) /\ ~AnswerRescheduled(w, a)
      BY <3>2 DEF AnswerChallenge, AnswerRescheduled
    <3>4. ~DropAnswer(w) /\ ~AnswerWithoutJob(w)
      BY <2>1 DEF DropAnswer, AnswerWithoutJob, HasJob
    <3> QED
      BY <1>2, <3>3, <3>4 DEF OnWorkerCommunication, a
  <2>3. CompleteTask(w, a)
    BY <2>2 DEF AnswerSuccess, AnswerRejected
  <2>4. Stops(w) /\ Finished(task[w]) /\ awaiting' = AwaitingAfter(g, a)
    BY <1>1, <2>1, <2>3, DeactivateIsStop DEF CompleteTask, AppInv
  <2>5. Ends(w)
    BY <1>2, <2>2, <2>4 DEF AnswerSuccess, AnswerRejected, Ends
  <2>6. Held' = Held \ {task[w]} /\ Queued' = Queued /\ task[w] \notin Queued
    BY <1>1, <2>1, <2>5, EndsPlace, PlaceParts
  <2> QED
    BY <2>6 DEF Scheduled
<1>5. ASSUME EndsTask(w, a), NEW t \in Unread(g), HasJob(w) PROVE t # task[w]
  <2>1. PICK k \in DOMAIN inbox[g] : t \in TasksOf(inbox[g][k])
    BY <1>3, <1>5, UnreadIs
  <2>2. Fresh(t)
    BY <1>3, <1>5, <2>1 DEF TokenInv, LinesInv, CommunicatorInv, UnreadFresh
  <2> QED
    BY <1>3, <1>5, <2>2 DEF Fresh
<1> HIDE DEF a
<1> TAKE j \in Jobs
<1>6. ScheduledOf(j)' \subseteq ScheduledOf(j) /\ Unread(j)' = Unread(j) /\ inbox'[j] = inbox[j]
  BY <1>1, <1>2 DEF ScheduledOf, Unread
<1>7. sent'[j] \subseteq sent[j]
  BY <1>1, <1>2
<1>8. KnownOf(j)'
  <2>1. CASE EndsTask(w, a) /\ j = g
    <3>1. HasJob(w)
      BY <2>1 DEF EndsTask
    <3>2. sent'[j] = {t \in sent[j] : TaskId[t] # TaskId[task[w]]}
      BY <1>1, <1>2, <1>3, <2>1, <3>1
    <3>3. \A t \in sent[j] : t # task[w] => TaskId[t] # TaskId[task[w]]
      BY <1>3, <2>1, <3>1 DEF IdsApart
    <3>4. ScheduledOf(j)' = ScheduledOf(j) \ {task[w]}
      BY <1>4, <2>1 DEF ScheduledOf
    <3>5. task[w] \notin Unread(j)
      BY <1>5, <2>1, <3>1
    <3> QED
      BY <1>6, <3>2, <3>3, <3>4, <3>5 DEF KnownOf, TokenInv
  <2>2. CASE ~(EndsTask(w, a) /\ j = g)
    <3>1. sent'[j] = sent[j]
      BY <1>1, <1>2, <2>2
    <3> QED
      BY <1>6, <3>1 DEF KnownOf, TokenInv
  <2> QED
    BY <2>1, <2>2
<1>9. ASSUME NEW q \in questions'[j] PROVE OnlyOne(q, sent'[j])
  <2>1. CASE q \in questions[j]
    BY <1>7, <2>1 DEF TokensOf, OnlyOne, TokenInv
  <2>2. CASE j = g /\ HasJob(w) /\ q.task = a.task
    BY <1>3, <1>7, <2>2 DEF OnlyOne, IdsApart
  <2> QED
    BY <1>1, <1>2, <1>9, <2>1, <2>2
<1>10. \A q : OnlyOne(q, ScheduledOf(j)) => OnlyOne(q, ScheduledOf(j)')
  BY <1>6 DEF OnlyOne
<1> QED
  BY <1>6, <1>8, <1>9, <1>10 DEF TokensOf, OnlyOne, TasksOf, TokenInv

\* A client changes nothing of another's.
SameClient(j) ==
  inbox'[j] = inbox[j] /\ sent'[j] = sent[j] /\ questions'[j] = questions[j]

LEMMA ClientStepOthers ==
  ASSUME CommunicatorTypeOK, NEW j \in Jobs, ClientStep(j)
  PROVE  \A i \in Jobs \ {j} : SameClient(i)
<1>1. /\ inbox \in [Jobs -> Seq(JobMessages)]
      /\ sent \in [Jobs -> SUBSET Tasks] /\ questions \in [Jobs -> SUBSET Questions]
  BY DEF CommunicatorTypeOK
<1>2. ASSUME NEW m, Send(j, m) PROVE \A i \in Jobs \ {j} : inbox'[i] = inbox[i]
  BY <1>1, <1>2 DEF Send
<1> QED
  BY <1>1, <1>2
  DEF ClientStep, SendIdentify, SendBatch, SendProgress, SendToken, SameClient

LEMMA TokenStepInv ==
  ASSUME SendsSucceed, TokenInv, IdsApart, AnswersOwn, [CommunicatorNext]_communicatorVars
  PROVE  TokenInv'
<1>1. /\ [Next]_vars /\ PlaceInv' /\ LinesInv' /\ QueueInv'
      /\ CommunicatorTypeOK
  BY StepIsMasterStep, PlaceStepInv, LinesStepInv DEF TokenInv, LinesInv, PlaceInv, AppInv
<1>2. ASSUME NEW j \in Jobs, OnJobCommunication(j) PROVE TokenInv'
  BY <1>1, <1>2, HandOutTokens DEF TokenInv
<1>3. ASSUME NEW j \in Jobs, Disconnect(j) PROVE TokenInv'
  BY <1>1, <1>3, DisconnectTokens DEF TokenInv
<1>4. CASE \A j \in Jobs : ~OnJobCommunication(j) /\ ~Disconnect(j)
  <2>1. awaiting' \subseteq awaiting
    BY <1>4, NothingAwaited
  <2>2. Scheduled' \subseteq Scheduled
    BY <1>1, <2>1, ScheduledShrinks DEF TokenInv
  <2>3. \A i \in Jobs : SameTalk(i) => KnownOf(i)' /\ TokensOf(i)'
    BY <2>2, QuietTokens DEF TokenInv, SameTalk, SameLine
  <2>4. ASSUME NEW j \in Jobs, ClientStep(j) PROVE TokenInv'
    <3>1. KnownOf(j)' /\ TokensOf(j)'
      BY <1>1, <2>4, ClientStepTokens DEF TokenInv
    <3>2. \A i \in Jobs \ {j} : SameClient(i)
      BY <1>1, <2>4, ClientStepOthers
    <3>3. \A i \in Jobs \ {j} : KnownOf(i)' /\ TokensOf(i)'
      BY <2>2, <3>2, QuietTokens DEF TokenInv, SameClient
    <3> QED
      BY <1>1, <3>1, <3>3 DEF TokenInv
  <2>5. ASSUME NEW w \in Workers, ReadAnswer(w) PROVE TokenInv'
    BY <1>1, <2>1, <2>5, ReadAnswerTokens DEF TokenInv
  <2>6. CASE (\A j \in Jobs : ~ClientStep(j)) /\ \A w \in Workers : ~ReadAnswer(w)
    BY <1>1, <1>4, <2>3, <2>6, OtherStepsTalk DEF TokenInv
  <2> QED
    BY <2>4, <2>5, <2>6
<1> QED
  BY <1>2, <1>3, <1>4

LEMMA TokenInitInv == CommunicatorInit => TokenInv
<1> SUFFICES ASSUME CommunicatorInit PROVE TokenInv
  OBVIOUS
<1>1. PlaceInv /\ LinesInv
  BY PlaceInitInv, LinesInitInv DEF CommunicatorInit
<1>2. /\ inbox = [j \in Jobs |-> <<>>] /\ questions = [j \in Jobs |-> {}]
      /\ d_tasks = [j \in Jobs |-> <<>>] /\ active = [w \in Workers |-> FALSE]
  BY DEF CommunicatorInit, Init, QueueInit, WorkerInit
<1>3. ASSUME NEW j \in Jobs PROVE DOMAIN inbox[j] = {} /\ Range(d_tasks[j]) = {}
  <2>1. inbox[j] = <<>> /\ d_tasks[j] = <<>> /\ DOMAIN <<>> = {}
    BY <1>2
  <2>2. Range(<<>>) = {}
    BY DEF Range
  <2> QED
    BY <2>1, <2>2
<1>4. Scheduled = {}
  BY <1>2, <1>3 DEF Scheduled, Queued, Held
<1> QED
  BY <1>1, <1>2, <1>3, <1>4 DEF TokenInv, KnownOf, TokensOf, Unread, ScheduledOf

\* A token is relayed to a worker that runs the task it is about, and to no
\* other (application.cc, HandleJobToken), although it is matched by an id that
\* jobs share and that a client uses again, and although the task may have moved
\* to another worker: as long as no client waits for two tasks with one id, and
\* no worker is taken at its word about a task it does not have.
THEOREM TokensReachTheirTask ==
  ASSUME SendsSucceed
  PROVE  CommunicatorSpec /\ []IdsApart /\ []AnswersOwn => []TokenOfItsTask
<1>1. ASSUME TokenInv PROVE TokenOfItsTask
  <2> SUFFICES ASSUME NEW j \in Jobs, extracted[j] > 0, NextMessage(j).type = "Token",
                      NEW w \in Workers, Receives(j, NextMessage(j).answers, w)
               PROVE  task[w] = NextMessage(j).answers.task
    BY DEF TokenOfItsTask
  <2> DEFINE q == NextMessage(j).answers
  <2>1. /\ extracted[j] \in Nat /\ extracted[j] <= Len(inbox[j])
        /\ inbox[j] \in Seq(JobMessages) /\ AppInv /\ TokensOf(j)
    BY <1>1 DEF TokenInv, LinesInv, CommunicatorInv, InboxProper, CommunicatorTypeOK
  <2>2. 1 \in DOMAIN inbox[j] /\ NextMessage(j) = inbox[j][1]
    BY <2>1 DEF NextMessage
  <2>3. OnlyOne(q, ScheduledOf(j))
    BY <2>1, <2>2 DEF TokensOf
  <2>4. w \in Range(activeWorkers[j]) /\ TaskId[task[w]] = TaskId[q.task]
    BY DEF Receives, Matching
  <2>5. active[w] /\ Group[task[w]] = j /\ task[w] \in ScheduledOf(j)
    BY <2>1, <2>4 DEF AppInv, JobWorkerLink, ScheduledOf, Scheduled, Held
  <2> QED
    BY <2>3, <2>4, <2>5 DEF OnlyOne
<1> QED
  BY <1>1, TokenInitInv, TokenStepInv, PTL DEF CommunicatorSpec

==============================================================================
