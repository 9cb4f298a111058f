---------------------------- MODULE RunTimeEstimate ----------------------------
(***************************************************************************)
(* The last run times of the tasks of each job (job.cc), from which the    *)
(* bias of its next batch is taken.                                        *)
(***************************************************************************)
EXTENDS Task, Sequences, FiniteSets, Functions

CONSTANTS
  RunTimeEstimation,  \* Config::RunTimeEstimation
  RunTimes,           \* how long a task may run, in some unit of time
  MaxSize             \* numeric_limits<size_t>::max()

ASSUME RunTimeAssumption ==
  /\ MaxSize \in Nat
  /\ RunTimeEstimation \in 0 .. MaxSize
  /\ RunTimes \subseteq Nat

VARIABLE lastRunTimes  \* Job::Data::lastRunTimes

RunTimeInit == lastRunTimes = [j \in Jobs |-> <<>>]

\* The last n members of s, all of them if there are fewer.
Latest(s, n) == IF Len(s) <= n THEN s ELSE SubSeq(s, Len(s) - n + 1, Len(s))

\* Faulty: one run time more is kept.
KeptOneMore == RunTimeEstimation

\* How many run times stay when the next one comes: RunTimeEstimation - 1, in
\* the arithmetic of size_t.
KeptRunTimes == (RunTimeEstimation - 1) % (MaxSize + 1)

\* OnWorkerDeactivated: a task of job j ended after time r, in whatever way.
AddRunTime(j, r) ==
  lastRunTimes' = [lastRunTimes EXCEPT ![j] = Append(Latest(@, KeptRunTimes), r)]

\* A new Job object for descriptor j.
ForgetRunTimes(j) == lastRunTimes' = [lastRunTimes EXCEPT ![j] = <<>>]

\* The average run time as a fraction; 0 as long as no task ended.
AverageRunTime(j) ==
  [sum |-> SumFunction(lastRunTimes[j]), num |-> Len(lastRunTimes[j])]

\* The estimate is over no more tasks than configured, or at least over no more
\* than one ("The number of tasks to estimate the run time over",
\* optimaster.conf.ex:15): the list of run times does not grow without end.
EstimateOverFew ==
  \A j \in Jobs :
    Len(lastRunTimes[j]) <= IF RunTimeEstimation = 0 THEN 1 ELSE RunTimeEstimation

==============================================================================
