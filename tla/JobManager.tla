------------------------------ MODULE JobManager ------------------------------
(***************************************************************************)
(* The connected jobs (jobmanager.cc) and the state of one job (job.cc).   *)
(* A job id is the descriptor of its connection and may be used again      *)
(* after the connection is closed.                                         *)
(***************************************************************************)
EXTENDS WorkerManager

VARIABLES
  d_jobs,        \* the connected jobs
  valid,         \* Job::Valid: identified itself with a recent protocol
  timeout,       \* Job::Timeout > 0
  activeWorkers  \* the workers that run tasks of the job, in order of start;
                 \* the job listens to OnDeactivated of exactly these

jobVars == <<d_jobs, valid, timeout, activeWorkers>>

JobTypeOK ==
  /\ d_jobs \in SUBSET Jobs
  /\ valid \in [Jobs -> BOOLEAN]
  /\ timeout \in [Jobs -> BOOLEAN]
  /\ activeWorkers \in [Jobs -> Seq(Workers)]

JobInit ==
  /\ d_jobs = {}
  /\ valid = [j \in Jobs |-> FALSE]
  /\ timeout = [j \in Jobs |-> FALSE]
  /\ activeWorkers = [j \in Jobs |-> <<>>]

\* OnNewConnection(client) with descriptor j.
AddJob(j) ==
  /\ j \notin d_jobs
  /\ d_jobs' = d_jobs \cup {j}
  /\ UNCHANGED <<valid, timeout, activeWorkers>>

\* SetProtocolVersion and SetTimeout as the identify message says.
IdentifyJob(j, isValid, timed) ==
  /\ j \in d_jobs
  /\ valid' = [valid EXCEPT ![j] = isValid]
  /\ timeout' = [timeout EXCEPT ![j] = timed]
  /\ UNCHANGED <<d_jobs, activeWorkers>>

\* OnJobClosed(communicator), with the deactivation of the job's workers that
\* follows it: the job object is gone, a later one starts from its defaults.
RemoveJob(j) ==
  /\ j \in d_jobs
  /\ d_jobs' = d_jobs \ {j}
  /\ valid' = [valid EXCEPT ![j] = FALSE]
  /\ timeout' = [timeout EXCEPT ![j] = FALSE]
  /\ activeWorkers' = [activeWorkers EXCEPT ![j] = <<>>]

\* Add(worker) on job g, if the job is still there.
AddWorkerToJob(g, w) ==
  /\ activeWorkers' =
       IF g \in d_jobs
       THEN [activeWorkers EXCEPT ![g] = Append(@, w)]
       ELSE activeWorkers
  /\ UNCHANGED <<d_jobs, valid, timeout>>

\* Faulty: the job goes on listing the worker.
WorkerStaysInJobs(w) == UNCHANGED jobVars

\* Job::Data::OnWorkerDeactivated(worker), on whichever job listens.
WorkerLeavesJobs(w) ==
  /\ activeWorkers' = [j \in Jobs |-> Without(activeWorkers[j], w)]
  /\ UNCHANGED <<d_jobs, valid, timeout>>

==============================================================================
