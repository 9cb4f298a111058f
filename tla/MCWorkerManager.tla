--------------------------- MODULE MCWorkerManager ---------------------------
(***************************************************************************)
(* A small instance of WorkerManager for TLC.                              *)
(***************************************************************************)
EXTENDS WorkerManager, TLC

CONSTANTS w1, w2, w3, c1, c2, c3, t1, t2

\* The manager does not look at the group or the id of a task.
MCOne == [t \in Tasks |-> 1]

Symmetry ==
  Permutations({w1, w2, w3})

==============================================================================
