----------------------------- MODULE CommandProofs -----------------------------
(***************************************************************************)
(* Theorems about the command interface (Command): what is proved of the   *)
(* master still holds with commands, and an open challenge is a new one.   *)
(***************************************************************************)
EXTENDS Command, ApplicationProofs

(***************************************************************************)
(* Commands and the master.                                                *)
(***************************************************************************)

\* A kill is the disconnection of a job; no other command changes the master.
LEMMA CommandIsMasterStep == [CommandNext]_commandVars => [Next]_vars
<1> SUFFICES ASSUME [CommandNext]_commandVars PROVE [Next]_vars
  OBVIOUS
<1>1. CASE MasterStep
  <2>1. ASSUME NEW j \in Jobs, NEW isValid \in BOOLEAN, NEW timed \in Timeouts,
               HandleJobIdentify(j, isValid, timed)
        PROVE  Next
    <3>1. JobStep(j)
      BY <2>1 DEF JobStep
    <3> QED
      BY <3>1 DEF Next
  <2> QED
    BY <1>1, <2>1 DEF MasterStep
<1>2. ASSUME NEW c \in Clients, OnClientData(c) PROVE [Next]_vars
  <2>1. ASSUME NEW j \in Jobs, CloseJob(j) PROVE Next
    <3>1. JobStep(j)
      BY <2>1 DEF CloseJob, JobStep
    <3> QED
      BY <3>1 DEF Next
  <2>2. ASSUME NEW j \in Jobs, HandleKill(c, j) PROVE [Next]_vars
    BY <2>1, <2>2 DEF HandleKill, Refuse
  <2>3. ASSUME NEW j, NEW p, HandleSetPriority(c, j, p) PROVE UNCHANGED vars
    BY <2>3 DEF HandleSetPriority, Refuse
  <2>4. ASSUME NEW right, HandleAuthenticate(c, right) PROVE UNCHANGED vars
    BY <2>4 DEF HandleAuthenticate
  <2>5. ASSUME NEW type, NEW j, HandleQuery(type, j) \/ HandleOverview(type) \/ Refuse(type, j)
        PROVE  UNCHANGED vars
    BY <2>5 DEF HandleQuery, HandleOverview, Refuse
  <2> QED
    BY <1>2, <2>2, <2>3, <2>4, <2>5 DEF OnClientData
<1>3. ASSUME NEW c \in Clients, Accept(c) \/ OnClientClosed(c) PROVE UNCHANGED vars
  BY <1>3 DEF Accept, OnClientClosed
<1>4. CASE UNCHANGED commandVars
  BY <1>4 DEF commandVars
<1> QED
  BY <1>1, <1>2, <1>3, <1>4 DEF CommandNext

\* The master with commands implements the master without (command.cc).
THEOREM CommandsAreHarmless == CommandSpec => MasterSpec
<1>1. CommandInit => Init
  BY DEF CommandInit
<1> QED
  BY <1>1, CommandIsMasterStep, PTL DEF CommandSpec, MasterSpec, Spec

\* So also with commands nothing waits or runs for a job that is gone.
THEOREM NothingOrphanedByCommands == CommandSpec => []NoOrphans
<1>1. CommandSpec => Spec
  BY CommandsAreHarmless DEF MasterSpec
<1> QED
  BY <1>1, NothingOrphaned, PTL

(***************************************************************************)
(* Sessions.                                                               *)
(***************************************************************************)

\* The inductive invariant: of the challenges only those that were made are
\* tried, so a new one is not.
SessionInv ==
  /\ tried \subseteq used
  /\ SessionsMatch
  /\ ChallengeUsedOnce
  /\ ~hasPassword => \A c \in connected : ~clientData[c].authenticated

\* A step that leaves the sessions alone keeps the invariant.
LEMMA SessionsUnchanged ==
  ASSUME SessionInv, UNCHANGED sessionVars
  PROVE  SessionInv'
BY DEF SessionInv, SessionsMatch, ChallengeUsedOnce, sessionVars

\* A connection is opened with data of its own, and takes them along.
LEMMA ConnectionsKeepSessions ==
  ASSUME SessionInv, NEW c \in Clients, Accept(c) \/ OnClientClosed(c)
  PROVE  SessionInv'
<1>1. /\ tried' = tried
      /\ used' = used
      /\ hasPassword' = hasPassword
  BY DEF Accept, OnClientClosed
<1>2. clientData \in [connected -> ClientData]
  BY DEF SessionInv, SessionsMatch
<1>3. NewClientData \in ClientData
  BY DEF NewClientData, ClientData
<1>4. CASE Accept(c)
  <2>1. /\ connected' = connected \cup {c}
        /\ clientData' = [k \in connected \cup {c} |-> IF k = c THEN NewClientData ELSE clientData[k]]
    BY <1>2, <1>4 DEF Accept
  <2>2. SessionsMatch'
    BY <1>2, <1>3, <2>1 DEF SessionsMatch
  <2>3. \A k \in connected' : IF k = c THEN /\ clientData'[k].challenge = NoChallenge
                                            /\ clientData'[k].authenticated = FALSE
                                       ELSE k \in connected /\ clientData'[k] = clientData[k]
    BY <2>1 DEF NewClientData
  <2>4. ChallengeUsedOnce'
    BY <1>1, <2>3 DEF ChallengeUsedOnce, SessionInv
  <2> QED
    BY <1>1, <2>2, <2>3, <2>4 DEF SessionInv
<1>5. CASE OnClientClosed(c)
  <2>1. /\ connected' = connected \ {c}
        /\ clientData' = [k \in connected \ {c} |-> clientData[k]]
    BY <1>2, <1>5 DEF OnClientClosed, Restrict
  <2>2. SessionsMatch'
    BY <1>2, <2>1 DEF SessionsMatch
  <2>3. \A k \in connected' : k \in connected /\ clientData'[k] = clientData[k]
    BY <2>1
  <2>4. ChallengeUsedOnce'
    BY <1>1, <2>3 DEF ChallengeUsedOnce, SessionInv
  <2> QED
    BY <1>1, <2>2, <2>3, <2>4 DEF SessionInv
<1> QED
  BY <1>4, <1>5

\* A challenge that is made was not made before, one that is answered is spent.
LEMMA AuthenticationKeepsSessions ==
  ASSUME SessionInv, NEW c \in connected, NEW right \in BOOLEAN, HandleAuthenticate(c, right)
  PROVE  SessionInv'
<1>1. connected' = connected /\ hasPassword' = hasPassword
  BY DEF HandleAuthenticate
<1>2. clientData \in [connected -> ClientData]
  BY DEF SessionInv, SessionsMatch
<1>3. CASE UNCHANGED <<clientData, used, tried>>
  BY <1>1, <1>3, SessionsUnchanged DEF sessionVars
<1>4. ASSUME NEW n \in Nonces \ used,
             clientData' = [clientData EXCEPT ![c].challenge = n],
             used' = used \cup {n}, tried' = tried
      PROVE  SessionInv'
  <2>1. n \notin tried /\ n # NoChallenge
    BY CommandAssumption DEF SessionInv
  <2>2. SessionsMatch'
    BY <1>1, <1>2, <1>4 DEF SessionsMatch, ClientData
  <2>3. \A k \in connected : /\ clientData'[k].authenticated = clientData[k].authenticated
                             /\ clientData'[k].challenge = IF k = c THEN n ELSE clientData[k].challenge
    BY <1>2, <1>4 DEF ClientData
  <2>4. \A k \in connected : clientData[k].challenge # n \/ n = NoChallenge
    BY DEF SessionInv, ChallengeUsedOnce
  <2>5. ChallengeUsedOnce'
    BY <1>1, <1>4, <2>1, <2>3, <2>4 DEF SessionInv, ChallengeUsedOnce
  <2> QED
    BY <1>1, <1>4, <2>2, <2>3, <2>5 DEF SessionInv
<1>5. CASE ValidateChallenge(c, right)
  <2> DEFINE n == clientData[c].challenge
             in == clientData[c].authenticated \/ Accepted(right)
  <2>1. /\ n # NoChallenge
        /\ tried' = tried \cup {n}
        /\ clientData' = [clientData EXCEPT
             ![c] = [challenge |-> NoChallenge, authenticated |-> in]]
        /\ used' = used
    BY <1>5 DEF ValidateChallenge
  <2>2. clientData[c] \in ClientData /\ in \in BOOLEAN
    BY <1>2 DEF ClientData, Accepted
  <2>3. SessionsMatch'
    BY <1>1, <1>2, <2>1, <2>2 DEF SessionsMatch, ClientData
  <2>4. n \in used \ tried /\ \A k \in connected \ {c} : clientData[k].challenge # n
    BY <2>1 DEF SessionInv, ChallengeUsedOnce
  <2>5. \A k \in connected : IF k = c THEN /\ clientData'[k].challenge = NoChallenge
                                           /\ clientData'[k].authenticated = in
                                      ELSE clientData'[k] = clientData[k]
    BY <1>2, <2>1
  <2>6. ChallengeUsedOnce'
    BY <1>1, <2>1, <2>4, <2>5 DEF SessionInv, ChallengeUsedOnce
  <2>7. ~hasPassword => ~in
    BY DEF SessionInv, Accepted
  <2>8. (~hasPassword => \A k \in connected : ~clientData[k].authenticated)'
    BY <1>1, <2>5, <2>7 DEF SessionInv
  <2> QED
    BY <2>1, <2>3, <2>4, <2>6, <2>8 DEF SessionInv
<1> QED
  BY <1>3, <1>4, <1>5 DEF HandleAuthenticate, GenerateChallenge, DigestFails

\* Every step keeps the invariant.
LEMMA SessionStepInv == SessionInv /\ [CommandNext]_commandVars => SessionInv'
<1> SUFFICES ASSUME SessionInv, [CommandNext]_commandVars PROVE SessionInv'
  OBVIOUS
<1>1. CASE MasterStep
  BY <1>1, SessionsUnchanged DEF MasterStep
<1>2. ASSUME NEW c \in Clients, OnClientData(c) PROVE SessionInv'
  <2>1. c \in connected
    BY <1>2 DEF OnClientData
  <2>2. ASSUME NEW right \in BOOLEAN, HandleAuthenticate(c, right) PROVE SessionInv'
    BY <2>1, <2>2, AuthenticationKeepsSessions
  <2>3. ASSUME NEW j, NEW p, HandleKill(c, j) \/ HandleSetPriority(c, j, p)
        PROVE  SessionInv'
    BY <2>3, SessionsUnchanged DEF HandleKill, HandleSetPriority, Refuse
  <2>4. ASSUME NEW type, NEW j, HandleQuery(type, j) \/ HandleOverview(type) \/ Refuse(type, j)
        PROVE  SessionInv'
    BY <2>4, SessionsUnchanged DEF HandleQuery, HandleOverview, Refuse
  <2> QED
    BY <1>2, <2>2, <2>3, <2>4 DEF OnClientData
<1>3. CASE UNCHANGED commandVars
  BY <1>3, SessionsUnchanged DEF commandVars
<1> QED
  BY <1>1, <1>2, <1>3, ConnectionsKeepSessions DEF CommandNext

\* In the initial states there is no connection.
LEMMA SessionInitInv == CommandInit => SessionInv
BY DEF CommandInit, SessionInv, SessionsMatch, ChallengeUsedOnce

\* There are data for exactly the open connections (command.cc, Accept and
\* OnClientClosed).
THEOREM SessionsAreSound == CommandSpec => []SessionsMatch
<1>1. SessionInv => SessionsMatch
  BY DEF SessionInv
<1> QED
  BY <1>1, SessionInitInv, SessionStepInv, PTL DEF CommandSpec

\* A challenge that is open was not tried before and belongs to one connection
\* (command.cc, ValidateChallenge).
THEOREM ChallengesUsedOnce == CommandSpec => []ChallengeUsedOnce
<1>1. SessionInv => ChallengeUsedOnce
  BY DEF SessionInv
<1> QED
  BY <1>1, SessionInitInv, SessionStepInv, PTL DEF CommandSpec

\* Without a password no client kills a job or sets a priority, nor is any
\* authenticated (command.cc, ValidateChallenge and CheckAuthentication).
THEOREM NoPasswordNoCommands == CommandSpec => NoPasswordNoAccess
<1> DEFINE A ==
      ~hasPassword =>
        /\ \A c \in connected' : ~clientData'[c].authenticated
        /\ response' # NoResponse /\ response'.status =>
             response'.type \notin {"Kill", "SetPriority"}
<1>1. SessionInv /\ SessionInv' /\ [CommandNext]_commandVars => [A]_commandVars
  <2> SUFFICES ASSUME SessionInv, SessionInv', CommandNext, ~hasPassword PROVE A
    OBVIOUS
  <2>1. hasPassword' = hasPassword
    BY DEF CommandNext, MasterStep, Accept, OnClientClosed, OnClientData, HandleAuthenticate,
           HandleKill, HandleSetPriority, HandleQuery, HandleOverview, Refuse, sessionVars
  <2>2. \A c \in connected' : ~clientData'[c].authenticated
    BY <2>1 DEF SessionInv
  <2>3. ASSUME response' # NoResponse, response'.status
        PROVE  response'.type \notin {"Kill", "SetPriority"}
    <3>1. PICK c \in Clients : OnClientData(c)
      BY <2>3 DEF CommandNext, MasterStep, Accept, OnClientClosed
    <3>2. c \in connected /\ ~clientData[c].authenticated
      BY <3>1 DEF OnClientData, SessionInv
    <3>3. ASSUME NEW right, HandleAuthenticate(c, right) PROVE response'.type = "Authenticate"
      BY <3>3 DEF HandleAuthenticate, GenerateChallenge, ValidateChallenge, DigestFails, Respond
    <3>4. ASSUME NEW j, NEW p, HandleKill(c, j) \/ HandleSetPriority(c, j, p)
          PROVE  response'.status = FALSE
      BY <3>2, <3>4 DEF HandleKill, HandleSetPriority, Refuse, Respond
    <3>5. ASSUME NEW type, NEW j, HandleQuery(type, j) \/ HandleOverview(type)
          PROVE  response'.type = type
      BY <3>5 DEF HandleQuery, HandleOverview, Respond
    <3>6. ASSUME NEW type, NEW j, Refuse(type, j) PROVE response'.status = FALSE
      BY <3>6 DEF Refuse, Respond
    <3> QED
      BY <2>3, <3>1, <3>3, <3>4, <3>5, <3>6 DEF OnClientData
  <2> QED
    BY <2>2, <2>3
<1> QED
  BY <1>1, SessionInitInv, SessionStepInv, PTL DEF CommandSpec, NoPasswordNoAccess
(***************************************************************************)
(* Kills.                                                                  *)
(***************************************************************************)

\* A step that answers a kill with success closes the job.
LEMMA KillCloses ==
  ASSUME CommandNext, NEW j \in Jobs, response' = [type |-> "Kill", status |-> TRUE, job |-> j]
  PROVE  CloseJob(j)
<1> DEFINE killed == [type |-> "Kill", status |-> TRUE, job |-> j]
<1>1. NoResponse # killed
  BY CommandAssumption
<1>2. killed.type = "Kill" /\ killed.status = TRUE /\ killed.job = j
  OBVIOUS
<1>3. response' = killed
  OBVIOUS
<1> HIDE DEF killed
<1>4. PICK c \in Clients : OnClientData(c)
  BY <1>1, <1>3 DEF CommandNext, MasterStep, Accept, OnClientClosed
<1>5. ASSUME NEW right, HandleAuthenticate(c, right) PROVE FALSE
  <2>1. response'.type = "Authenticate"
    BY <1>5 DEF HandleAuthenticate, GenerateChallenge, ValidateChallenge, DigestFails, Respond
  <2> QED
    BY <1>2, <1>3, <2>1
<1>6. ASSUME NEW k, NEW p, HandleSetPriority(c, k, p) PROVE FALSE
  <2>1. response'.type = "SetPriority" \/ response'.status = FALSE
    BY <1>6 DEF HandleSetPriority, Refuse, Respond
  <2> QED
    BY <1>2, <1>3, <2>1
<1>7. ASSUME NEW type, NEW k, HandleQuery(type, k) \/ HandleOverview(type), type # "Kill"
      PROVE  FALSE
  <2>1. response'.type = type
    BY <1>7 DEF HandleQuery, HandleOverview, Respond
  <2> QED
    BY <1>2, <1>3, <1>7, <2>1
<1>8. ASSUME NEW type, NEW k, Refuse(type, k) PROVE FALSE
  <2>1. response'.status = FALSE
    BY <1>8 DEF Refuse, Respond
  <2> QED
    BY <1>2, <1>3, <2>1
<1>9. PICK k \in Jobs : HandleKill(c, k)
  BY <1>4, <1>5, <1>6, <1>7, <1>8 DEF OnClientData
<1>10. CloseJob(k) /\ response' = [type |-> "Kill", status |-> TRUE, job |-> k]
  BY <1>8, <1>9 DEF HandleKill, Respond
<1>11. k = j
  <2>1. response'.job = k
    BY <1>10
  <2> QED
    BY <1>2, <1>3, <2>1
<1> QED
  BY <1>10, <1>11

\* Closing job j takes everything of j out, and leaves other jobs alone.
LEMMA CloseEndsJob ==
  ASSUME AppInv, AppInv', NEW j \in Jobs, CloseJob(j)
  PROVE  /\ j \notin d_jobs'
         /\ \A t \in Queued' \cup Held' : Group[t] # j
         /\ \A k \in Jobs \ {j} : UNCHANGED <<d_tasks[k], d_running[k], activeWorkers[k]>>
<1>1. PICK sent \in CancelOutcomes(j) : OnJobRemoved(j, sent)
  BY DEF CloseJob
<1>2. j \notin d_jobs'
  BY <1>1 DEF OnJobRemoved, RemoveJob
<1>3. NoOrphans'
  BY InvNoOrphans, PTL
<1>4. ASSUME NEW k \in Jobs \ {j}
      PROVE  UNCHANGED <<d_tasks[k], d_running[k], activeWorkers[k]>>
  <2>1. d_tasks'[k] = d_tasks[k] /\ d_running'[k] = d_running[k]
    BY <1>1 DEF OnJobRemoved, Remove, AppInv, QueueInv, QueueTypeOK
  <2>2. activeWorkers'[k] = activeWorkers[k]
    BY <1>1 DEF OnJobRemoved, RemoveJob, AppInv, JobTypeOK
  <2> QED
    BY <2>1, <2>2
<1> QED
  BY <1>2, <1>3, <1>4 DEF NoOrphans

\* When a client is told that a job was killed (command.cc, HandleKill), the job
\* is gone, nothing of it waits or runs any more, and other jobs go on: for any
\* number of jobs, clients and workers, and whichever cancel messages could not
\* be sent.
THEOREM KillsEndJobs == CommandSpec => KillEndsJob
<1> DEFINE A ==
      \A j \in Jobs :
        response' = [type |-> "Kill", status |-> TRUE, job |-> j] =>
          /\ j \notin d_jobs'
          /\ \A t \in Queued' \cup Held' : Group[t] # j
          /\ \A k \in Jobs \ {j} :
               UNCHANGED <<d_tasks[k], d_running[k], activeWorkers[k]>>
<1>1. AppInv /\ AppInv' /\ [CommandNext]_commandVars => [A]_commandVars
  <2> SUFFICES ASSUME AppInv, AppInv', CommandNext,
                      NEW j \in Jobs, response' = [type |-> "Kill", status |-> TRUE, job |-> j]
               PROVE  /\ j \notin d_jobs'
                      /\ \A t \in Queued' \cup Held' : Group[t] # j
                      /\ \A k \in Jobs \ {j} :
                           UNCHANGED <<d_tasks[k], d_running[k], activeWorkers[k]>>
    OBVIOUS
  <2> QED
    BY KillCloses, CloseEndsJob
<1>2. CommandSpec => []AppInv
  BY CommandsAreHarmless, AppInvariant, PTL DEF MasterSpec
<1> QED
  BY <1>1, <1>2, PTL DEF CommandSpec, KillEndsJob

==============================================================================
