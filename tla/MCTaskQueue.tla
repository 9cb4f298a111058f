----------------------------- MODULE MCTaskQueue -----------------------------
(***************************************************************************)
(* A small instance of TaskQueue for TLC.                                  *)
(***************************************************************************)
EXTENDS TaskQueue

CONSTANTS j1, j2, t1, t2, t3, i1, i2

MCGroup == [t \in Tasks |-> IF t = t3 THEN j2 ELSE j1]

\* Two tasks of j1 with ids of their own; j2 uses one of them too.
MCTaskId == [t \in Tasks |-> IF t = t2 THEN i2 ELSE i1]

\* Bound: the same task may be pushed again and again.
ShortQueues == \A j \in Jobs : Len(d_tasks[j]) <= 2

==============================================================================
