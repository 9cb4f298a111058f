------------------------------- MODULE TaskPool -------------------------------
(***************************************************************************)
(* What the master promises to the jobs: a task that was submitted waits   *)
(* until it is started, may go back to waiting any number of times, and    *)
(* leaves only as the answer to its running, or with all other tasks of a  *)
(* job that disconnects.  One step never answers or starts two tasks.      *)
(***************************************************************************)
EXTENDS Naturals, FiniteSets

CONSTANTS Jobs, Tasks, Group

VARIABLE status

TypeOK == status \in [Tasks -> {"none", "waiting", "running"}]

Init == status = [t \in Tasks |-> "none"]

\* A job submits a batch.
Submit(batch) ==
  /\ \A t \in batch : status[t] = "none"
  /\ \A t, u \in batch : Group[t] = Group[u]
  /\ status' = [t \in Tasks |-> IF t \in batch THEN "waiting" ELSE status[t]]

Move(t, from, to) ==
  /\ status[t] = from
  /\ status' = [status EXCEPT ![t] = to]

Start(t) == Move(t, "waiting", "running")

\* The worker crashed, took too long, or failed.
Retry(t) == Move(t, "running", "waiting")

Answer(t) == Move(t, "running", "none")

\* The job disconnects.
Withdraw(j) ==
  status' = [t \in Tasks |-> IF Group[t] = j THEN "none" ELSE status[t]]

Next ==
  \/ \E batch \in SUBSET Tasks : Submit(batch)
  \/ \E t \in Tasks : Start(t) \/ Retry(t) \/ Answer(t)
  \/ \E j \in Jobs : Withdraw(j)

Spec == Init /\ [][Next]_status

==============================================================================
