--------------------------------- MODULE Task ---------------------------------
(***************************************************************************)
(* The tasks the master handles (task.cc).  A task object, shared by all   *)
(* its copies, is a member of Tasks.  It belongs to a group, the id of the *)
(* job that sent it, and carries the task id that the client chose.  What  *)
(* changes about it is kept by the components that change it: its unique   *)
(* id by TaskQueue, its failures by Application.                           *)
(***************************************************************************)
EXTENDS Integers

CONSTANTS
  Jobs,     \* job ids (the descriptors of client connections)
  Tasks,    \* task objects
  TaskIds,  \* task ids chosen by the clients
  Group,    \* Task::Group
  TaskId,   \* Task::Id
  MaxUid    \* numeric_limits<size_t>::max(), where the unique ids wrap

ASSUME TaskAssumption ==
  /\ Group \in [Tasks -> Jobs]
  /\ TaskId \in [Tasks -> TaskIds]
  /\ MaxUid \in Nat \ {0}

===============================================================================
