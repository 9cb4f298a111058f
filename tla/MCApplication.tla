---------------------------- MODULE MCApplication ----------------------------
(***************************************************************************)
(* Small instances of Application for TLC.                                 *)
(***************************************************************************)
EXTENDS Application, TLC

CONSTANTS j1, j2, w1, w2, c1, c2, t1, t2, t3, i1, i2

\* Tasks t1 and t2 belong to job j1, t3 to job j2.
MCGroup == [t \in Tasks |-> IF t = t3 THEN j2 ELSE j1]

\* Ids are unique within a job; j2 uses an id that j1 uses too.
MCTaskId == [t \in Tasks |-> IF t = t2 THEN i2 ELSE i1]

\* A client that uses one id for two tasks.
MCSameId == [t \in Tasks |-> i1]

Symmetry == Permutations({w1, w2}) \cup Permutations({c1, c2})

==============================================================================
