------------------------------ MODULE JobPriority ------------------------------
(***************************************************************************)
(* The priority of a job (job.cc): set by its constructor, by an identify  *)
(* message and by the set-priority command.                                *)
(***************************************************************************)
EXTENDS Task

CONSTANT Priorities  \* the priorities clients ask for

ASSUME PriorityAssumption == Priorities \subseteq Nat

DefaultPriority == 1

VARIABLE priority

PriorityInit == priority = [j \in Jobs |-> DefaultPriority]

\* A new Job object for descriptor j.
DefaultPriorityOf(j) == priority' = [priority EXCEPT ![j] = DefaultPriority]

SetPriority(j, p) == priority' = [priority EXCEPT ![j] = p]

==============================================================================
