--------------------------- MODULE MCRunTimeEstimate ---------------------------
(***************************************************************************)
(* The run times of jobs on their own, for TLC.                            *)
(***************************************************************************)
EXTENDS RunTimeEstimate

CONSTANTS j1, j2

\* Tasks play no part here.
MCGroup == <<>>

EstimateNext ==
  \E j \in Jobs : ForgetRunTimes(j) \/ \E r \in RunTimes : AddRunTime(j, r)

EstimateSpec == RunTimeInit /\ [][EstimateNext]_lastRunTimes

==============================================================================
