-------------------------------- MODULE Command --------------------------------
(***************************************************************************)
(* The command interface of the master (command.cc): clients that connect, *)
(* authenticate by answering a challenge, ask about jobs, kill them and    *)
(* set their priority.  The commands are handled by the same main loop as  *)
(* everything else, one at a time.                                         *)
(***************************************************************************)
EXTENDS Application, JobPriority

CONSTANTS
  Clients,      \* descriptors of command connections
  Nonces,       \* bound: the challenges the master makes, none of them twice
  NoChallenge,  \* the empty challenge
  NoJob,        \* a response that is about no job
  NoResponse    \* a step that writes no response

ASSUME CommandAssumption ==
  /\ NoChallenge \notin Nonces
  /\ \A j \in Jobs : NoResponse # [type |-> "Kill", status |-> TRUE, job |-> j]

VARIABLES
  hasPassword,  \* Config::CommandPassword # ""
  connected,    \* the open command connections
  clientData,   \* map<int, ClientData>, by descriptor
  used,         \* the challenges made so far
  tried,        \* the challenges that an answer was checked against
  response      \* the response that the last step wrote

sessionVars == <<hasPassword, connected, clientData, used, tried>>
commandVars == <<vars, priority, sessionVars, response>>

ClientData == [challenge : Nonces \cup {NoChallenge}, authenticated : BOOLEAN]

CommandTypes == {"List", "Info", "Kill", "SetPriority", "Authenticate", "Progress", "Idle"}

NewClientData == [challenge |-> NoChallenge, authenticated |-> FALSE]

CommandInit ==
  /\ Init
  /\ PriorityInit
  /\ hasPassword \in BOOLEAN
  /\ connected = {}
  /\ clientData = [c \in {} |-> NewClientData]
  /\ used = {}
  /\ tried = {}
  /\ response = NoResponse

\* A job object that is gone takes its priority along.
PriorityGoesWithJob ==
  priority' = [j \in Jobs |-> IF j \in d_jobs' THEN priority[j] ELSE DefaultPriority]

Respond(type, ok, j) == response' = [type |-> type, status |-> ok, job |-> j]

\* The master goes about its work; an identify message may set the priority.
MasterStep ==
  /\ \/ Next /\ PriorityGoesWithJob
     \/ \E j \in Jobs, isValid \in BOOLEAN, timed \in Timeouts, p \in Priorities :
          HandleJobIdentify(j, isValid, timed) /\ SetPriority(j, p)
  /\ response' = NoResponse
  /\ UNCHANGED sessionVars

-----------------------------------------------------------------------------
(* Connections *)

Accept(c) ==
  /\ LoopFree
  /\ c \notin connected
  /\ connected' = connected \cup {c}
  /\ clientData' = [k \in DOMAIN clientData \cup {c} |->
       IF k = c THEN NewClientData ELSE clientData[k]]
  /\ response' = NoResponse
  /\ UNCHANGED <<vars, priority, hasPassword, used, tried>>

\* Faulty: the data of the connection stay.
ClientDataStays(c) ==
  /\ LoopFree
  /\ c \in connected
  /\ connected' = connected \ {c}
  /\ response' = NoResponse
  /\ UNCHANGED <<vars, priority, hasPassword, clientData, used, tried>>

OnClientClosed(c) ==
  /\ LoopFree
  /\ c \in connected
  /\ connected' = connected \ {c}
  /\ clientData' = Restrict(clientData, DOMAIN clientData \ {c})
  /\ response' = NoResponse
  /\ UNCHANGED <<vars, priority, hasPassword, used, tried>>

-----------------------------------------------------------------------------
(* Authentication *)

\* GenerateChallenge(client, command); a client that is authenticated gets no
\* other challenge.
GenerateChallenge(c) ==
  /\ clientData[c].challenge = NoChallenge
  /\ IF clientData[c].authenticated
     THEN UNCHANGED <<clientData, used>>
     ELSE \E n \in Nonces \ used :
            /\ clientData' = [clientData EXCEPT ![c].challenge = n]
            /\ used' = used \cup {n}
  /\ Respond("Authenticate", TRUE, NoJob)
  /\ UNCHANGED tried

\* Faulty: the empty password is a password.
AcceptedWithoutPassword(right) == right

\* Is the token in the answer that of the challenge, and is there a password?
Accepted(right) == right /\ hasPassword

\* Faulty: after a wrong answer the challenge can be answered again.
ValidateChallengeAgain(c, right) ==
  /\ clientData[c].challenge # NoChallenge
  /\ tried' = tried \cup {clientData[c].challenge}
  /\ clientData' =
       IF Accepted(right)
       THEN [clientData EXCEPT ![c] = [challenge |-> NoChallenge, authenticated |-> TRUE]]
       ELSE clientData
  /\ Respond("Authenticate", Accepted(right), NoJob)
  /\ UNCHANGED used

\* ValidateChallenge(client, command): the challenge is spent, whatever the
\* answer.
ValidateChallenge(c, right) ==
  /\ clientData[c].challenge # NoChallenge
  /\ tried' = tried \cup {clientData[c].challenge}
  /\ clientData' = [clientData EXCEPT
       ![c] = [challenge |-> NoChallenge, authenticated |-> @.authenticated \/ Accepted(right)]]
  /\ Respond("Authenticate", Accepted(right), NoJob)
  /\ UNCHANGED used

\* ValidateChallenge, without a digest to check the answer with.
DigestFails(c) ==
  /\ clientData[c].challenge # NoChallenge
  /\ Respond("Authenticate", FALSE, NoJob)
  /\ UNCHANGED <<clientData, used, tried>>

\* HandleAuthenticate(client, command), with the right token or a wrong one.
HandleAuthenticate(c, right) ==
  /\ GenerateChallenge(c) \/ ValidateChallenge(c, right) \/ DigestFails(c)
  /\ UNCHANGED <<vars, priority, hasPassword, connected>>

-----------------------------------------------------------------------------
(* Commands about jobs *)

\* The command is refused: CheckAuthentication fails, or Find does.
Refuse(type, j) ==
  /\ Respond(type, FALSE, j)
  /\ UNCHANGED <<vars, priority, sessionVars>>

\* Faulty: the job is taken off the list, and nobody is told.
KillQuietly(j) ==
  /\ RemoveJob(j)
  /\ UNCHANGED <<queueVars, workerVars, failures, dispatch, idleTimer, worldVars>>

\* Closing the connection of job j calls OnJobClosed at once.
CloseJob(j) == \E sent \in CancelOutcomes(j) : OnJobRemoved(j, sent)

\* HandleKill(client, command).
HandleKill(c, j) ==
  \/ /\ ~clientData[c].authenticated \/ j \notin d_jobs
     /\ Refuse("Kill", j)
  \/ /\ clientData[c].authenticated
     /\ j \in d_jobs
     /\ CloseJob(j)
     /\ PriorityGoesWithJob
     /\ Respond("Kill", TRUE, j)
     /\ UNCHANGED sessionVars

\* HandleSetPriority(client, command).  A client that is not authenticated is
\* refused as if it had asked to kill.
HandleSetPriority(c, j, p) ==
  \/ ~clientData[c].authenticated /\ Refuse("Kill", j)
  \/ clientData[c].authenticated /\ j \notin d_jobs /\ Refuse("SetPriority", j)
  \/ /\ clientData[c].authenticated
     /\ j \in d_jobs
     /\ SetPriority(j, p)
     /\ Respond("SetPriority", TRUE, j)
     /\ UNCHANGED <<vars, sessionVars>>

\* HandleInfo and HandleProgress: about a job that is there.
HandleQuery(type, j) ==
  /\ Respond(type, j \in d_jobs, j)
  /\ UNCHANGED <<vars, priority, sessionVars>>

\* HandleList and HandleIdle.
HandleOverview(type) ==
  /\ Respond(type, TRUE, NoJob)
  /\ UNCHANGED <<vars, priority, sessionVars>>

\* OnClientData(args, client) for one command; one without the data of its
\* type is invalid.
OnClientData(c) ==
  /\ LoopFree
  /\ c \in connected
  /\ \/ \E right \in BOOLEAN : HandleAuthenticate(c, right)
     \/ \E j \in Jobs :
          \/ HandleKill(c, j)
          \/ \E p \in Priorities : HandleSetPriority(c, j, p)
          \/ \E type \in {"Info", "Progress"} : HandleQuery(type, j)
     \/ \E type \in {"List", "Idle"} : HandleOverview(type)
     \/ \E type \in CommandTypes : Refuse(type, NoJob)

CommandNext ==
  \/ MasterStep
  \/ \E c \in Clients : Accept(c) \/ OnClientClosed(c) \/ OnClientData(c)

CommandSpec == CommandInit /\ [][CommandNext]_commandVars

-----------------------------------------------------------------------------
\* There are data for exactly the open connections: a client on a descriptor
\* that was used before does not take over what another one proved.
SessionsMatch == clientData \in [connected -> ClientData]

\* A challenge is answered once: one that is still open was not tried before,
\* and no two connections have the same (command.cc, ValidateChallenge).
ChallengeUsedOnce ==
  \A c \in connected : LET n == clientData[c].challenge IN
    n # NoChallenge =>
      /\ n \in used \ tried
      /\ \A d \in connected \ {c} : clientData[d].challenge # n

\* "The command password, if not set authentication will always fail"
\* (optimaster.conf.ex): no one gets to change a priority or to kill a job.
NoPasswordNoAccess ==
  [][~hasPassword =>
       /\ \A c \in connected' : ~clientData'[c].authenticated
       /\ response' # NoResponse /\ response'.status =>
            response'.type \notin {"Kill", "SetPriority"}]_commandVars

\* When a client is told that a job was killed, the job is gone, nothing of it
\* waits or runs any more, and what other jobs have waiting or running is
\* untouched (command.cc, HandleKill).
KillEndsJob ==
  [][\A j \in Jobs :
       response' = [type |-> "Kill", status |-> TRUE, job |-> j] =>
         /\ j \notin d_jobs'
         /\ \A t \in Queued' \cup Held' : Group[t] # j
         /\ \A k \in Jobs \ {j} :
              UNCHANGED <<d_tasks[k], d_running[k], activeWorkers[k]>>]_commandVars

\* Commands do nothing to the master that jobs and workers could not do.
MasterSpec == Spec

==============================================================================
