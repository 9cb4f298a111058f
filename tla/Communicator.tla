----------------------------- MODULE Communicator -----------------------------
(***************************************************************************)
(* The connections of the jobs (communicator.cc), and what comes over them *)
(* (application.cc, OnJobCommunication).  A client identifies itself, and  *)
(* then sends batches, progress messages and tokens; a token answers the   *)
(* challenge of a worker, which the master relayed to the client.          *)
(*                                                                         *)
(* Messages of one connection keep their order.  OnData extracts those     *)
(* that have arrived, and hands them out one by one before any other       *)
(* handler runs.                                                           *)
(***************************************************************************)
EXTENDS Application

CONSTANTS
  MaxInbox,    \* bound: unread messages of one job
  MaxProgress  \* bound: progress messages of one connection

ASSUME CommunicatorAssumption ==
  /\ MaxInbox \in Nat
  /\ MaxProgress \in Nat

VARIABLES
  inbox,          \* what each client sent on its connection, not handled yet
  extracted,      \* how many of them OnData has extracted and not handed out
  progressItems,  \* Job::Data::progressItems
  version,        \* the version each client identified itself with, or "none"
  sent,           \* the tasks each client sent and has no answer for
  reported,       \* how many progress messages each client sent
  questions,      \* the challenges each client got and has not answered
  asked           \* the challenges each worker process has no token for

clientVars == <<version, sent, reported, questions>>
lineVars == <<inbox, extracted, progressItems>>
communicatorVars == <<vars, lineVars, clientVars, asked>>

\* A challenge, or the token that answers it: about which task, by which
\* worker, in which run.
Questions == [task : Tasks, uid : 0 .. MaxUid, asker : Workers]

JobMessages ==
  [type : {"Identify"}, recent : BOOLEAN, timed : BOOLEAN]
  \cup [type : {"Batch"}, tasks : Seq(Tasks)]
  \cup [type : {"Progress"}, item : Nat]
  \cup [type : {"Token"}, answers : Questions]

CommunicatorTypeOK ==
  /\ inbox \in [Jobs -> Seq(JobMessages)]
  /\ extracted \in [Jobs -> Nat]
  /\ progressItems \in [Jobs -> Seq(Nat)]
  /\ version \in [Jobs -> {"none", "old", "recent"}]
  /\ sent \in [Jobs -> SUBSET Tasks]
  /\ reported \in [Jobs -> Nat]
  /\ questions \in [Jobs -> SUBSET Questions]
  /\ asked \in [Workers -> SUBSET Messages]

CommunicatorInit ==
  /\ Init
  /\ inbox = [j \in Jobs |-> <<>>]
  /\ extracted = [j \in Jobs |-> 0]
  /\ progressItems = [j \in Jobs |-> <<>>]
  /\ version = [j \in Jobs |-> "none"]
  /\ sent = [j \in Jobs |-> {}]
  /\ reported = [j \in Jobs |-> 0]
  /\ questions = [j \in Jobs |-> {}]
  /\ asked = [w \in Workers |-> {}]

-----------------------------------------------------------------------------
(* Helpers *)

\* No OnData is handing out messages.
NotReading == \A j \in Jobs : extracted[j] = 0

\* The tasks of j in batches that the master has not handled.
Unread(j) ==
  UNION {IF inbox[j][k].type = "Batch" THEN Range(inbox[j][k].tasks) ELSE {} :
         k \in DOMAIN inbox[j]}

\* Tokens about task t are under way, or a client may still send one.
TokenAhead(t) ==
  \E j \in Jobs :
    \/ \E q \in questions[j] : q.task = t
    \/ \E k \in DOMAIN inbox[j] :
         inbox[j][k].type = "Token" /\ inbox[j][k].answers.task = t

\* A client numbers the tasks it waits for differently, and a batch is made of
\* new task objects.
Sendable(j) ==
  {t \in Tasks :
     /\ Group[t] = j
     /\ Fresh(t)
     /\ t \notin Unread(j)
     /\ ~TokenAhead(t)
     /\ \A u \in sent[j] : TaskId[u] # TaskId[t]}

\* A worker process forgets about the challenges of tasks it no longer has.
AskedOfExecuting == asked' = [w \in Workers |-> asked[w] \cap executing'[w]]

-----------------------------------------------------------------------------
(* The client *)

Send(j, m) ==
  /\ LoopFree
  /\ NotReading
  /\ j \in d_jobs
  /\ Len(inbox[j]) < MaxInbox
  /\ inbox' = [inbox EXCEPT ![j] = Append(@, m)]
  /\ UNCHANGED <<vars, extracted, progressItems, asked>>

SendIdentify(j, recent, timed) ==
  /\ version[j] = "none"
  /\ version' = [version EXCEPT ![j] = IF recent THEN "recent" ELSE "old"]
  /\ Send(j, [type |-> "Identify", recent |-> recent, timed |-> timed])
  /\ UNCHANGED <<sent, reported, questions>>

\* A batch; the client has read the answers to tasks whose ids it uses again,
\* and no longer answers challenges about them.
SendBatch(j, ts) ==
  /\ version[j] # "none"
  /\ sent' = [sent EXCEPT ![j] = @ \cup Range(ts)]
  /\ questions' = [questions EXCEPT
       ![j] = {q \in @ : \A t \in Range(ts) : TaskId[q.task] # TaskId[t]}]
  /\ Send(j, [type |-> "Batch", tasks |-> ts])
  /\ UNCHANGED <<version, reported>>

SendProgress(j) ==
  /\ version[j] # "none"
  /\ reported[j] < MaxProgress
  /\ reported' = [reported EXCEPT ![j] = @ + 1]
  /\ Send(j, [type |-> "Progress", item |-> reported[j] + 1])
  /\ UNCHANGED <<version, sent, questions>>

SendToken(j, q) ==
  /\ q \in questions[j]
  /\ questions' = [questions EXCEPT ![j] = @ \ {q}]
  /\ Send(j, [type |-> "Token", answers |-> q])
  /\ UNCHANGED <<version, sent, reported>>

ClientStep(j) ==
  \/ \E recent \in BOOLEAN, timed \in Timeouts : SendIdentify(j, recent, timed)
  \/ \E ts \in BatchesOf(Sendable(j)) : ts # <<>> /\ SendBatch(j, ts)
  \/ SendProgress(j)
  \/ \E q \in questions[j] : SendToken(j, q)

-----------------------------------------------------------------------------
(* Reading *)

\* Communicator::Data::OnData, which extracts the first n messages.
OnData(j, n) ==
  /\ LoopFree
  /\ NotReading
  /\ n \in 1 .. Len(inbox[j])
  /\ extracted' = [extracted EXCEPT ![j] = n]
  /\ UNCHANGED <<vars, inbox, progressItems, clientVars, asked>>

\* The message that is handed out now.
NextMessage(j) == Head(inbox[j])

\* HandleJobIdentify, HandleJobBatch and HandleJobProgress of message m; of an
\* invalid job the last two change nothing.
HandleMessage(j, m) ==
  \/ /\ m.type = "Identify"
     /\ HandleJobIdentify(j, m.recent, m.timed)
     /\ UNCHANGED <<progressItems, asked>>
  \/ /\ m.type = "Batch"
     /\ valid[j]
     /\ HandleJobBatch(j, m.tasks)
     /\ UNCHANGED <<progressItems, asked>>
  \/ /\ m.type = "Progress"
     /\ valid[j]
     /\ progressItems' = [progressItems EXCEPT ![j] = Append(@, m.item)]
     /\ UNCHANGED <<vars, asked>>
  \/ /\ m.type \in {"Batch", "Progress", "Token"}
     /\ ~valid[j]
     /\ UNCHANGED <<vars, progressItems, asked>>

\* The active workers of j whose task has the id in token q.
Matching(j, q) ==
  {w \in Range(activeWorkers[j]) : TaskId[task[w]] = TaskId[q.task]}

\* Faulty: any active worker whose task has the id receives the token.
ReceivesAnyJob(j, q, w) == active[w] /\ TaskId[task[w]] = TaskId[q.task]

\* Faulty: the search starts at the second worker.
ReceivesNotFirst(j, q, w) ==
  \E k \in DOMAIN activeWorkers[j] :
    k > 1 /\ activeWorkers[j][k] = w /\ w \in Matching(j, q)

\* Is w, among the workers of job j whose task has the id in token q, the one
\* that j lists first?
Receives(j, q, w) ==
  /\ w \in Matching(j, q)
  /\ \E k \in DOMAIN activeWorkers[j] :
       /\ activeWorkers[j][k] = w
       /\ \A i \in 1 .. k - 1 : activeWorkers[j][i] \notin Matching(j, q)

\* HandleJobToken of a valid job: the token is relayed to one worker, which
\* goes on if the token answers its own challenge.
HandleJobToken(j, q) ==
  /\ valid[j]
  /\ asked' = [w \in Workers |->
       IF Receives(j, q, w) /\ w = q.asker
       THEN asked[w] \ {[task |-> q.task, uid |-> q.uid]}
       ELSE asked[w]]
  /\ UNCHANGED <<vars, progressItems>>

\* Faulty: only the first message of a read is handed out.
HandOutFirst(j) ==
  /\ extracted[j] > 0
  /\ inbox' = [inbox EXCEPT ![j] = SubSeq(@, extracted[j] + 1, Len(@))]
  /\ extracted' = [extracted EXCEPT ![j] = 0]
  /\ LET m == NextMessage(j)
     IN \/ HandleMessage(j, m)
        \/ m.type = "Token" /\ HandleJobToken(j, m.answers)
  /\ UNCHANGED clientVars

\* Faulty: the message that was extracted last is handed out first.
HandOutLast(j) ==
  LET n == extracted[j]
      m == inbox[j][n]
  IN /\ n > 0
     /\ inbox' = [inbox EXCEPT ![j] = SubSeq(@, 1, n - 1) \o SubSeq(@, n + 1, Len(@))]
     /\ extracted' = [extracted EXCEPT ![j] = n - 1]
     /\ \/ HandleMessage(j, m)
        \/ m.type = "Token" /\ HandleJobToken(j, m.answers)
     /\ UNCHANGED clientVars

\* One turn of the loop in OnData, and OnJobCommunication of its message.
OnJobCommunication(j) ==
  /\ extracted[j] > 0
  /\ inbox' = [inbox EXCEPT ![j] = Tail(@)]
  /\ extracted' = [extracted EXCEPT ![j] = @ - 1]
  /\ LET m == NextMessage(j)
     IN \/ HandleMessage(j, m)
        \/ m.type = "Token" /\ HandleJobToken(j, m.answers)
  /\ UNCHANGED clientVars

-----------------------------------------------------------------------------
(* Jobs and workers *)

\* A connection of job j: nothing has come over it.
Connect(j) ==
  /\ OnJobAdded(j)
  /\ UNCHANGED <<lineVars, clientVars, asked>>

\* Progress items go with the Job object.
ProgressClosed(j) == [progressItems EXCEPT ![j] = <<>>]

\* Faulty: the job manager does not tell the application.
ClosesQuietly(j) ==
  /\ RemoveJob(j)
  /\ UNCHANGED <<queueVars, workerVars, failures, dispatch, idleTimer, worldVars>>

\* Communicator::Data::OnClosed, which calls OnJobClosed and OnJobRemoved.
OnClosed(j) == \E told \in CancelOutcomes(j) : OnJobRemoved(j, told)

\* The connection of j is closed, by the client or by a command.  What was not
\* read of it is lost.
Disconnect(j) ==
  /\ OnClosed(j)
  /\ inbox' = [inbox EXCEPT ![j] = <<>>]
  /\ progressItems' = ProgressClosed(j)
  /\ version' = [version EXCEPT ![j] = "none"]
  /\ sent' = [sent EXCEPT ![j] = {}]
  /\ reported' = [reported EXCEPT ![j] = 0]
  /\ questions' = [questions EXCEPT ![j] = {}]
  /\ AskedOfExecuting
  /\ UNCHANGED extracted

\* A worker process ends a task or asks about it.  It does not end a task with
\* a success as long as it waits for a token, and asks once at a time.
Answer(w, m, outcome) ==
  /\ WorkerAnswer(w, m, outcome)
  /\ outcome \in {"Success", "Challenge"} => m \notin asked[w]
  /\ asked' = [asked EXCEPT ![w] = IF outcome = "Challenge" THEN @ \cup {m} ELSE @ \ {m}]
  /\ UNCHANGED <<lineVars, clientVars>>

\* Is the answer that w is about to be read from relayed, and as the end of a
\* task?
EndsTask(w, a) ==
  /\ HasJob(w)
  /\ \/ a.status = "Success"
     \/ a.status = "Failed" /\ failures[task[w]] + 1 >= MaxTaskFailures

\* OnWorkerCommunication, and the client that gets the answer.
ReadAnswer(w) ==
  LET a == Head(wire[w])
      g == Group[task[w]]
  IN /\ OnWorkerCommunication(w)
     /\ sent' = IF EndsTask(w, a)
                THEN [sent EXCEPT ![g] = {t \in @ : TaskId[t] # TaskId[a.task]}]
                ELSE sent
     /\ questions' = IF HasJob(w) /\ a.status = "Challenge"
                     THEN [questions EXCEPT ![g] =
                             @ \cup {[task |-> a.task, uid |-> a.uid, asker |-> w]}]
                     ELSE questions
     /\ UNCHANGED <<lineVars, version, reported, asked>>

\* A worker greets, disconnects or takes too long.
WorkerComesOrGoes ==
  /\ \/ \E c \in Connections, w \in Workers : OnGreeting(c, w)
     \/ \E w \in Workers :
          OnWorkerClosed(w) \/ \E told \in SendOutcomes : OnWorkerTimeout(w, told)
  /\ AskedOfExecuting
  /\ UNCHANGED <<lineVars, clientVars>>

\* OnDispatch.
Dispatching == DispatchStep /\ UNCHANGED <<lineVars, clientVars, asked>>

CommunicatorNext ==
  \/ \E j \in Jobs :
       \/ ClientStep(j)
       \/ \E n \in 1 .. MaxInbox : OnData(j, n)
       \/ OnJobCommunication(j)
  \/ /\ NotReading
     /\ \/ \E j \in Jobs : Connect(j) \/ Disconnect(j)
        \/ \E w \in Workers :
             \/ ReadAnswer(w)
             \/ \E m \in executing[w], outcome \in Statuses : Answer(w, m, outcome)
        \/ WorkerComesOrGoes
        \/ Dispatching

CommunicatorSpec == CommunicatorInit /\ [][CommunicatorNext]_communicatorVars

-----------------------------------------------------------------------------
\* A worker that waits for no token ends its task.
EndTask(w) ==
  /\ NotReading
  /\ \E m \in executing[w] \ asked[w], outcome \in Statuses \ {"Challenge"} :
       Answer(w, m, outcome)

\* Fairness, beside that of the master: messages that arrived are read, and a
\* client answers the challenges it gets.
CommunicatorFairness ==
  /\ SF_communicatorVars(NotReading /\ Dispatching)
  /\ \A w \in Workers :
       /\ SF_communicatorVars(ReadAnswer(w))
       /\ SF_communicatorVars(EndTask(w))
  /\ \A j \in Jobs :
       /\ SF_communicatorVars(\E n \in 1 .. MaxInbox : OnData(j, n))
       /\ WF_communicatorVars(OnJobCommunication(j))
       /\ SF_communicatorVars(\E q \in questions[j] : SendToken(j, q))

FairCommunicatorSpec == CommunicatorSpec /\ CommunicatorFairness

-----------------------------------------------------------------------------
\* To the master, jobs with connections of their own are nothing new.
MasterSpec == Spec

\* What a client with a recent protocol version waits for is under way to the
\* master, waiting there, or running: no batch that it sends after it
\* identified itself is ignored or lost, and nothing that was sent over an
\* earlier connection with its descriptor is taken for its own.
NothingIgnored ==
  \A j \in Jobs : version[j] = "recent" =>
    sent[j] = Unread(j) \cup {t \in awaiting : Group[t] = j}

\* The progress messages of a client are kept in their order, each once, and
\* none of an earlier connection (what a progress command reports).
ProgressInOrder ==
  \A j \in Jobs : \A k \in DOMAIN progressItems[j] : progressItems[j][k] = k

\* Each client numbers the tasks it waits for differently.
IdsApart == \A j \in Jobs : \A t, u \in sent[j] : TaskId[t] = TaskId[u] => t = u

\* The next answer of an active worker is about the task it has (the comparison
\* in OnWorkerCommunication, which only logs).
AnswersOwn == \A w \in Workers : active[w] /\ wire[w] # <<>> => Head(wire[w]).task = task[w]

\* A token that is handed out is relayed to a worker that runs the very task
\* the challenge was about, and to no other, although master and client only
\* compare ids, which jobs share and which a client may use again.
TokenOfItsTask ==
  \A j \in Jobs :
    extracted[j] > 0 /\ valid[j] /\ NextMessage(j).type = "Token" =>
      \A w \in Workers :
        Receives(j, NextMessage(j).answers, w) => task[w] = NextMessage(j).answers.task

-----------------------------------------------------------------------------
(* Liveness *)

\* From some time on no worker and no job comes or goes, and a worker is there.
Calm ==
  /\ <>[][d_workers' = d_workers /\ d_jobs' = d_jobs]_vars
  /\ []<>(d_workers # {})

\* Every task that a client with a recent version sends is answered in the end,
\* by a success or after MaxTaskFailures failures: no message is left unread, no
\* wake-up of the dispatcher is lost and no task is forgotten.
EverySentTaskAnswered ==
  Calm => \A t \in Tasks :
    (t \in sent[Group[t]] /\ version[Group[t]] = "recent") ~> t \notin sent[Group[t]]

\* Every challenge is answered: a worker that waits for a token gets it, or no
\* longer has the task.
EveryChallengeAnswered ==
  Calm => \A w \in Workers : asked[w] # {} ~> asked[w] = {}

==============================================================================
