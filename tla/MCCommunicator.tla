---------------------------- MODULE MCCommunicator ----------------------------
(***************************************************************************)
(* Small instances of Communicator for TLC.                                *)
(***************************************************************************)
EXTENDS Communicator, TLC

CONSTANTS j1, j2, w1, w2, c1, c2, t1, t2, t3, i1, i2

MCGroup == [t \in Tasks |-> IF t = t3 THEN j2 ELSE j1]

\* Ids are unique within a job.
MCTaskId == [t \in Tasks |-> IF t = t2 THEN i2 ELSE i1]

\* One id for all tasks.
MCSameId == [t \in Tasks |-> i1]

\* Bounds: j1 may have two unread messages, j2 one, and not both at once; both
\* have a recent version; and only j1 is asked for tokens, whose ids j2 shares.
OneReadsAhead ==
  /\ Len(inbox[j2]) <= 1
  /\ inbox[j2] = <<>> \/ inbox[j1] = <<>>
  /\ \A j \in Jobs : version[j] # "old"
  /\ questions[j2] = {}

Symmetry == Permutations({w1, w2}) \cup Permutations({c1, c2})

==============================================================================
