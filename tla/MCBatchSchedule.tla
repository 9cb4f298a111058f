---------------------------- MODULE MCBatchSchedule ----------------------------
(***************************************************************************)
(* A small instance of BatchSchedule for TLC.                              *)
(***************************************************************************)
EXTENDS BatchSchedule

CONSTANTS i1, MaxWaiting, MaxWait, MaxPassed

\* A task per job.
MCGroup == [t \in Tasks |-> t]
MCTaskId == [t \in Tasks |-> i1]

\* Bounds: few copies of a task wait, no wait time grows without end, and no
\* batch without priority is passed over for ever.  Job 3 keeps its priority
\* and has no run times.
Bounded ==
  \A j \in Jobs :
    /\ Len(d_tasks[j]) <= MaxWaiting
    /\ waitTime[j] <= MaxWait
    /\ passed[j] <= MaxPassed
    /\ j = 3 => priority[j] = DefaultPriority /\ lastRunTimes[j] = <<>>

==============================================================================
