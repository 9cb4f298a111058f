------------------------------- MODULE MCCommand -------------------------------
(***************************************************************************)
(* A small instance of Command for TLC.                                    *)
(***************************************************************************)
EXTENDS Command, TLC

CONSTANTS j1, j2, i1, k1, k2, n1, n2

\* Bound: a task is pushed and fails only so often.
FewCopies ==
  /\ \A j \in Jobs : Len(d_tasks[j]) <= 1
  /\ \A t \in Tasks : failures[t] <= MaxTaskFailures

\* A task per job.
MCGroup == [t \in Tasks |-> t]
MCTaskId == [t \in Tasks |-> i1]

\* No action depends on the response that the last step wrote.
View == <<vars, priority, sessionVars>>

\* Clients and challenges are alike.
Symmetry == Permutations({k1, k2}) \cup Permutations({n1, n2})

==============================================================================
