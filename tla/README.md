# A formal model of optimaster

optimaster is the master of a distributed optimization system. Clients
("jobs") connect and send batches of tasks; worker processes announce
themselves and are connected to; the master hands each waiting task to an idle
worker and relays the answer to the job. The master is one process with one
GLib main loop, so its handlers never run in parallel. What makes it hard is
the order in which callbacks come: workers crash, time out or answer late, jobs
disconnect while their tasks run, and the dispatcher is an idle callback that
is connected on demand.

This directory holds TLA+ modules translated from `src/src`, TLC
configurations that check them on small instances, and proofs for every
instance, checked by TLAPS. `PROJECT.json` lists every definition with the
lines it models.

## Inventory

| component | code | state | operations |
| --- | --- | --- | --- |
| task queue | `taskqueue.cc`, `batch.cc`, `task.cc` | a batch of waiting tasks per job, the client ids of its running tasks, the queue length, the counter of unique ids, wait times | `Push` (batch, task), `Pop`, `Finished`, `Remove`, `NextUniqueId` |
| worker manager | `workermanager.cc`, `worker.cc` | registered workers, addresses, idle deque, active workers; per worker: active, task, timeout source, timer, active time per job | `Add`, `RemoveWorker`, `Idle`, `Activate`, `Cancel`, `Deactivate`, `OnTimeout`, `ResetIdleTime` |
| job manager | `jobmanager.cc`, `job.cc` | connected jobs; per job: protocol version, priority, time limit, active workers, run times, progress items, counts of tasks | `OnNewConnection`, `OnJobClosed`, `Add`, `OnWorkerDeactivated`, setters |
| application | `application.cc` | idle dispatcher, idle timer | handlers of greetings, worker answers, time-outs and disconnects, job messages (identify, batch, progress, token) and disconnects; `IdleDispatch`, `OnDispatch` |
| statistics and logging | `application.cc`, `worker.cc`, `job.cc` | idle time, active time per user and per job, tasks that failed and succeeded | `AddIdleTime`, `OnPeriodicLogStatus` |
| command interface | `command.cc` | per client: authenticated, challenge | authenticate, list, info, kill, set-priority, idle, progress |
| communicator | `communicator.cc` | connection, its descriptor, the messages of a read | `OnData` reads several messages at once and hands them out one by one; `OnClosed` loses what was not read |
| configuration, start-up, logging | `config.cc`, `optimaster.cc` | options | read once; output |

How they interact: `WorkerManager`, `TaskQueue` and `Worker` emit signals.
`OnNotifyAvailable` (a batch or a task was pushed, a worker was added or
deactivated) connects the dispatcher. `OnActivated` and `OnDeactivated` of a
worker move it between the manager's idle deque and active map, and
`OnDeactivated` also takes it out of its job's list. `OnRemoved` of a worker
makes the application push its task back; `OnRemoved` of a job makes it remove
the batch and cancel the job's workers. All of these run synchronously inside
the handler that caused them, which is why a handler is one action here.

What is hard to test:

- the dispatcher is disconnected at the end of its loop while requests made
  during the loop were ignored (a lost wake-up would leave tasks waiting beside
  idle workers);
- the answer of a worker, a time-out, a disconnect of the worker and of the job
  can come in any order, and a task must end up in exactly one place;
- a cancelled worker may have answered already; its answer is then read while
  it has another task;
- the task queue's running ids decide when a batch goes, by client-chosen ids;
- a token is matched with a worker by the client's id of the task alone, which other
  jobs use too, and the task may have moved by the time the token comes;
- several messages arrive in one read, and the later ones depend on the earlier;
- descriptors are reused, with what was kept under them;
- one timer per worker measures idle and active time in turn, and a periodic report
  reads it at any moment;
- sends may fail in the middle of dispatching and of cancelling;
- which batch is served depends on wait times that every batch collects, also
  while it has no task to give, and on priorities that change;
- a kill command closes a job's connection, and with it runs all that a
  disconnection does, in the middle of the command handler.

What makes each component correct: the queue's batches, running ids and length
agree (`NoZombieBatch`, `SizeMatches`, `RunningMatchesWorkers`), and its schedule
starves nobody (`NoStarvation`); the manager's idle deque, active map, addresses
and timers agree (`WorkerPartition`, `HashMatches`, `TimerOnlyWhenActive`), and no
idle worker is overtaken (`IdlePlaceKept`); a job knows its workers
(`JobWorkerLink`); unique ids tell runs apart (`RunsToldApart`); the application loses no task, no wake-up and
no retry, and leaves nothing behind (`AwaitedIsScheduled`, `NoLostWakeup`,
`FailureBudget`, `NoOrphans`); a connection delivers all that a client sends, in order
and to the right worker (`NothingIgnored`, `ProgressInOrder`, `TokenOfItsTask`); no
moment and no failure is counted twice or not at all (`WorkerTimeCountedOnce`,
`UserTimeCountedOnce`, `FailuresCounted`), and no run is cut off before its limit
(`NotCutShort`); commands act through the same handlers as
everything else (`MasterSpec`), for those alone who may (`ChallengeUsedOnce`,
`NoPasswordNoAccess`).

## Modules

| module | what it models |
| --- | --- |
| `Task` | the constants: jobs, tasks, the group and the client id of each task |
| `TaskQueue` | `TaskQueue`, `Batch`, `Task`: one operator per method, and `QueueSpec`, the queue called in any order |
| `EraseRemove` | the erase-remove idiom, in closed form |
| `WorkerManager` | `WorkerManager` and `Worker`, and `WorkerSpec`, the manager called in any order |
| `JobManager` | `JobManager` and `Job` |
| `TaskPool` | abstract: what the jobs are promised about their tasks |
| `Application` | the handlers and the dispatcher, composed of `TaskQueue`, `WorkerManager` and `JobManager`, with the worker processes and their connections |
| `Communicator` | the connections of the jobs and what comes over them: identify, batch, progress and token messages, read several at once; the clients that send them |
| `Timekeeping` | time: the timers of the workers, idle and active time, the counts of tasks, the periodic report, time limits |
| `JobPriority`, `RunTimeEstimate` | the priority and the last run times of each job |
| `BatchSchedule` | the wait times of the batches, on top of `TaskQueue`: which batch `Pop` serves |
| `Command` | the command interface, composed with all of `Application` |
| `MCTaskQueue`, `MCWorkerManager`, `MCApplication`, `MCBatchSchedule`, `MCRunTimeEstimate`, `MCCommand`, `MCCommunicator`, `MCTimekeeping` | small instances for TLC |
| `OperatorProofs` | lemmas about the operators: erase-remove, sequences, sums over finite sets; induction over finite sets |
| `TaskQueueProofs`, `WorkerManagerProofs`, `ApplicationProofs`, `CommunicatorProofs`, `TimekeepingProofs`, `BatchScheduleProofs`, `CommandProofs` | theorems about the module of that name |

How they are composed: `Application` extends `TaskQueue` and `JobManager` (which
extends `WorkerManager`), and its actions are conjunctions of their operators.
`Command`, `Communicator` and `Timekeeping` each extend `Application`: their actions
are its handlers, with what they do to the state that the module adds. In `Application`
a job's message is handled at any moment; in `Communicator` it was sent over a
connection first, and waits there behind others. `Pool == INSTANCE TaskPool WITH status
<- whereabouts` in `Application` maps its state to that of the abstract pool: a task
that a job awaits is `"running"` if an active worker has it, `"waiting"` if it is in a
batch. `BatchSchedule` extends
`TaskQueue` and strengthens each of its operations; `Application` is composed with
the queue that may serve any batch, which `BatchSchedule` is proved to implement,
so what holds of the application does not depend on the schedule.

Correspondence. Variables that model a member of a class have its name
(`d_batches`, `d_idleWorkers`, ...). An object reached through a map is an index:
a batch is the value of `d_tasks`, `d_timeout` and `d_running` at its job, a worker
the value of `active`, `task` and `armed` at its descriptor. A task object is a
member of `Tasks`; copies of a `Task` share their data in the code (they are
`Cloneable` handles), so a task has one unique id and one failure count wherever
it is. `dispatch` is `d_idleDispatch`: `"off"`, `"pending"` (the idle callback is
connected) or `"running"` (inside the loop of `OnDispatch`). The loop takes one
action per turn, and `LoopFree` keeps all other handlers out until it ends.

Outside the code, and modelled from how it is used: a worker process
(`executing`: the tasks it was sent and not cancelled; `wire`: its answers that
the master has not read), a client (`awaiting`: the tasks for which it has got no
answer), and `Send`, which may fail when `SendOutcomes` has `FALSE`. Descriptors
are reused: a worker or a job may connect with the index of one that went.

Operators whose comment starts with "Faulty" are not part of the model. They
are versions of a neighbouring operator with a plausible bug, kept to confirm
that each property notices one (`PROJECT.json`, `mutants`).

## Runs

Run one with `tlc -config Conservation.cfg MCApplication.tla`.

| configuration | module | shows | bounds |
| --- | --- | --- | --- |
| `Queue.cfg` | `MCTaskQueue` | `NoZombieBatch`, `SizeMatches`, `WaitingAreNumbered` however the queue is called | 2 jobs, 3 tasks, 2 ids (one used by both jobs), unique ids up to 3, at most 2 waiting tasks per job |
| `Workers.cfg` | `MCWorkerManager` | `WorkerPartition`, `HashMatches`, `TimerOnlyWhenActive`, `IdlePlaceKept` however the manager is called | 3 workers, 3 addresses |
| `Bookkeeping.cfg` | `MCTimekeeping` | `JobWorkerLink`, `FailuresCounted`, `RunsToldApart`, `ManagerSpec`, with answers that race a cancel | 2 jobs of one task, which share an id, 2 workers, 2 tasks that end, unique ids up to 4, 2 unread answers of a worker, no time |
| `Conservation.cfg` | `MCApplication` | a task is in exactly one place, is retried within its budget and never lost, workers do what the master believes (`RunningMatchesWorkers`, `OnePlace`, `AwaitedIsScheduled`, `FailureBudget`, `NoDoubleWork`, `TimeLimitKept`); `PoolSpec`: the master implements `TaskPool` | 1 job of 2 tasks, 2 workers, 2 failures, unique ids up to 3 |
| `SendFailures.cfg` | `MCTimekeeping` | `NoLostWakeup` and `NoOrphans` when sends fail; `WorkerTimeCountedOnce`, `UserTimeCountedOnce`, `NotCutShort` | 1 job of one task with a limit of one second and a half, 2 workers, 2 ticks a second, `MaxOwed` 3, one task that ends, at most 2 copies queued |
| `Liveness.cfg` | `MCCommunicator` | `NothingIgnored`, `ProgressInOrder`; `MasterSpec`; `EverySentTaskAnswered`, `EveryChallengeAnswered` under fairness | 1 job of 2 tasks, 1 worker, 2 unread messages, 2 progress messages |
| `Tokens.cfg` | `MCCommunicator` | `TokenOfItsTask` | 2 jobs, 2 tasks of the one and 1 of the other, all with the same id, batches of one, 2 workers, of the 2 unread messages at most 1 of the second job, which gets no challenges (`OneReadsAhead`); late answers, but none that an active worker is taken at its word for (`AnswersOwn`) |
| `Schedule.cfg` | `MCBatchSchedule` | `NoStarvation`; `ServedByLoop`: the batch `Pop` serves is the one its loop ends with; `EstimateOverFew` | 3 jobs, two with priority 1 or 0 and run times that halve the rate, one waiting task per job, wait times and passes up to 8 |
| `Commands.cfg` | `MCCommand` | `SessionsMatch`, `ChallengeUsedOnce`, `NoPasswordNoAccess`, `KillEndsJob`, `MasterSpec` | 2 clients, 2 challenges, with and without a password; 2 jobs, one of them with a task, 1 worker; the last response, which no guard reads, is not part of the fingerprint (`VIEW`) |
| `NoEstimate.cfg` | `MCRunTimeEstimate` | violated: `EstimateOverFew` when the estimate is over 0 run times | 2 jobs |
| `LateAnswer.cfg` | `MCApplication` | violated: `SuccessIsOfItsTask` | as `Conservation.cfg`, unique ids up to 6 |
| `ReusedIds.cfg` | `MCApplication` | violated: `CrashReschedules` when two tasks of a job share a client id | 2 tasks, batches of one |

Why the bounds are enough. Two workers and two tasks are the least with which
one worker can have its task while another crashes, times out or answers, with
which the idle deque has an order, and with which a batch has both a waiting
and a running task. Two jobs are the least with which one can go while the other
goes on, and they share a client id. `MaxUid` is small so that the unique ids
wrap. `MaxWire` is 1: a worker that has more unread answers behaves as one whose
answers come later, because it works on one task at a time. `FewCopies` and
`ShortQueues` bound how often the same task can be queued, which without them
could grow for ever: when a cancel is not sent the task is queued again while
it runs, and the queue on its own accepts any push.

In `Liveness.cfg` the client may have two unread messages, `MaxInbox`, the least
with which one read hands out two: an identify message and the batch that depends
on it, or a batch and the token for a task of an earlier one. It sends up to two
progress messages per connection (`MaxProgress`), which one read may hand out, and
which a later connection must not find. With one worker a token can still meet the
worker idle, with another task or with the same task again.

`Tokens.cfg` is about the ids by which tokens are matched, so all tasks have the same
one. The client of `j1` uses it again for its second task once it has the answer to the
first; the worker that asked may disconnect and the task go on at the other one; and a worker of `j2` runs a task with that id all the while.
That the client of `j2` is never asked is no loss: the code treats both alike.
`sent`, `reported`, `questions` and `version` are the client's own state, `asked` that
of the worker process; a client does not use an id again as long as it waits for a
task with it or may still answer a challenge about one (`Sendable`, `SendBatch`).

In `Timekeeping` time is in ticks, and passes between handlers. `owed` is not state of
the program: it is the time that passed, less what the log says and what the master
knowingly gives up (the time of a worker that goes, and of a run that is cut off or
that has no job). `MaxOwed` bounds it, `FewEnds` the tasks that end. A limit of
three ticks at two ticks a second is cut to one second, so truncation shows; three
ticks of time are enough to idle, work and be cut off, and to be reported in
between. `reported`, `past` and `replaced` are not state of the program either: how many
tasks the log says ended, how many of those were of earlier jobs with the descriptor, and
how often task objects failed that a later batch replaced in the model by new ones.
`FewRuns` stops the exploration before the unique ids wrap, in `Bookkeeping.cfg` alone. `StartValues` are two values that the uninitialised `d_idleTime` may have.

In `BatchSchedule` rates and wait times, doubles in the code, are whole numbers of
1/`Unit`, chosen such that the rates of the instance are whole; rounding of doubles
is not modelled, nor are negative priorities, which the code would accept. `MaxRate`
bounds the rates. `MaxWait`, `MaxWaiting` and `MaxPassed` end the exploration where
wait times, waiting tasks or passes of a batch without priority would grow for ever;
the bound that `NoStarvation` states lies within them. `passed`, `used` and
`tried` are not state of the program: they record what a property is about. A challenge is random in the
code and taken from `Nonces` here, never twice; the digest of the password and the
challenge is abstracted to whether the answer is right.

`Conservation.cfg`, `Liveness.cfg`, `SendFailures.cfg` and `Commands.cfg` set `LateAnswers` to
`FALSE`: a cancel then also drops the answers that the worker sent and the master
has not read, as if the cancel had come before the worker answered. `AwaitedIsScheduled`,
`NoDoubleWork`, `PoolSpec` and the liveness properties do not hold
without it; `LateAnswer.cfg` shows why, and is listed under the findings.
`Bookkeeping.cfg` sets it to `TRUE`: it is there that `RunsToldApart` says what the code
could know of a late answer. `Tokens.cfg` sets it to `TRUE` too, and stops (`AnswersOwn`)
where the next answer of an active worker is about another task than the one it has: what
the code then does is the finding of `LateAnswer.cfg`, and a token may then reach the wrong
worker. Late answers that meet an idle worker are dropped by the code and stay in the run.
The theorems say which of them needs it: most do not.

No run turns the deadlock check off: a worker can always greet or disconnect.

## Fairness

`FairCommunicatorSpec` assumes, beside `CommunicatorSpec`:

- The dispatcher, once connected, runs and goes on (`NotReading /\ Dispatching`): GLib
  calls an idle source when nothing else is ready, and inside the loop the code just
  runs.
- Data that arrived are read, of a job (`OnData`) and of a worker (`ReadAnswer`): the main
  loop polls every connection in each iteration. The loop of `OnData` goes on
  (`OnJobCommunication`).
- A worker process that waits for no token ends its task (`EndTask`), and a client answers
  the challenges it got (`SendToken`). Workers and clients are outside the code;
  without this nothing can be promised.

All are strong fairness, but for the loop of `OnData`, which nothing interrupts: an
action here is disabled while another handler runs, which in the model takes several
steps, so it is enabled again and again but not without a break, and weak fairness
would not oblige it. No time passes for the main loop between those steps, so what is
disabled in that way is not forgotten: its source is still ready in the next iteration.

Nothing is assumed of greetings, disconnects, new jobs, batches, progress messages or
time-outs. Both properties are stated under `Calm`, that workers and jobs stop coming
and going and a worker is left: without it a task can be rescheduled for ever. There
are no time limits in the run, because the code does not count a time-out as a
failure, so that a task that is too slow for its limit is retried for ever; and sends
succeed, because a task that cannot be sent is popped and pushed for ever.

## What is proved

Every invariant and every action property that a passing run checks, and each
refinement, is also a theorem. The theorems hold for every value of the constants that
the named assumptions of the modules admit: any finite sets of jobs, users and workers,
any tasks and ids, any failure limit, sends that fail or not, answers that race a cancel
or not. Three assumptions restrict some of them, and each is named where it is used:
`SendsSucceed`; `OwnIds`, that tasks of one job have different ids; and `~LateAnswers`.
Two theorems have premises about the behaviour instead, which leave ids and answers free:
`RunsAreToldApart` and `TokensReachTheirTask`.
`ReusedIds.cfg` and `LateAnswer.cfg` show what happens without the last two. (The jobs are
finite for the sums over them, in `SizeMatches` and in `Timekeeping`, and for the count of
batches in `BatchSchedule`.)

- `OperatorProofs`: what the operators do. Erasing `x` from a finite sequence leaves
  a sequence over the same elements, without `x`, injective if the sequence was, and
  in their order (`WithoutProperties`, `BeforeWithout`). The argument is
  `RankBijection`: the positions that stay are numbered from 1 to their number by their
  rank, because the rank is an injection between two finite sets of the same size. A
  library theorem on induction takes the induction
  hypothesis as an operator, which the provers cannot instantiate; here it is a set, the
  set of the cases for which it holds (`NatSetInduction`, `SetInduction`). Sums over
  finite sets are reduced to cardinalities: `Area` is the set of pairs `<<x, k>>` with `k`
  from 1 to the number at `x`, its size is the sum (`SumIsArea`, by induction over
  subsets), and that sums add, split and grow by what one of the numbers grows follows
  from what is known of finite sets.
- `TaskQueueProofs`: types and `NoZombieBatch`. `QueueInv` adds that a batch holds
  tasks of its own job, and is inductive: `Pop` needs a batch where there is a waiting
  task, which is `NoZombieBatch`, and each operation needs the types of the
  sequences it changes. From it `WaitingTasksNumbered`: each operation numbers what
  it adds to a batch (`NumberedAfterPush`) or adds nothing (`NumberedAfterRemoval`); and
  `QueueLengthRight`: each operation changes the length of one batch by as much as it
  changes `d_size` (`SizeAfter`).
- `WorkerManagerProofs`: types, `WorkerPartition`, `HashMatches` and
  `TimerOnlyWhenActive`, together inductive (`WorkerInv`). Removing and activating a
  worker rest on `WithoutProperties`; that a deactivation keeps the deque injective
  needs that the worker was active, which the partition tells. `IdleWorkersKeepTheirPlace`
  follows step by step: what is in front of an idle worker (`Before`) only shrinks, unless
  it is the one that `Idle` hands out.
- `ApplicationProofs`, the master as a whole: first, that each step of the master is a step
  of the queue and of the manager or leaves them alone (`MasterUsesQueueRightly`,
  `MasterUsesManagerRightly`), so that their invariants hold inside it (`QueueLengthInLog`
  is one that the log prints). The second
  one needs `JobWorkerLink`: a job that goes deactivates the workers it lists, and
  the manager's contract is that these are active and listed once. The inductive
  invariant `AppInv` joins `QueueInv`, `WorkerInv`, `JobWorkerLink`, that jobs with a
  batch or an active worker are connected (`JobsPresent`, which implies
  `NoOrphans`), the types, and `NoLostWakeup`.
- `ApplicationProofs`, where a task is. If sends succeed, no task waits twice, runs
  twice, or waits while it runs (`EachTaskInOnePlace`), and none is scheduled beyond its
  failures (`BudgetKept`): `PlaceInv`, which is `AppInv` with both, is inductive. With
  `OwnIds` the queue's running ids are what the workers run (`BooksMatch`), which needs
  `EachTaskInOnePlace`, since the end of one of two runs would erase the id of both; and
  a run has a timeout source exactly if its batch has a limit (`TimeLimitsKept`), which
  needs that a batch does not go, and come back with another limit, while a task of it
  runs: `BooksInv`. With `~LateAnswers` what jobs wait for is what is scheduled
  (`NoTaskLost`), and workers do only what they were told last (`NoWorkTwice`). These rest on `AllLines`: the
  answers of a worker, and then what it executes, are all about its present run, at
  most the last of them not a challenge; `AwaitInv` joins all. From it follows
  `MasterIsAPool`, that the master implements `TaskPool`: each step submits, starts,
  retries, answers or withdraws at most what the pool allows in one step.
- `ApplicationProofs`, what two of the findings need. `CrashesReschedule` proves
  `CrashReschedules` if ids are used once, so the constant that `ReusedIds.cfg` sets
  otherwise is all that is wrong there. It needs `BooksInv`: a running task keeps its batch
  alive, so that the push finds one. `RunsAreToldApart` is about the late answers of
  `LateAnswer.cfg`, with `LateAnswers` as it may be: the unique id that the code compares
  (`application.cc:718`) does tell whether an answer is about the present run, so a handler
  that went by it would be right. It assumes `SendsSucceed`, that the counter of unique
  ids has room for a batch, and that it does not wrap (`CountsUp`, of the behaviour): an
  id that is used again tells nothing. The invariant `RunInv` is that scheduled tasks and
  messages under way have ids that the counter has passed, that no two scheduled tasks
  share one (`NumbersApart`), and that what carries the id of a scheduled task is about
  that task and of its present run (`Told`, `RunOf`).
- `TimekeepingProofs`: `MeasuringChangesNothing`, that the master whose time is measured
  implements the master, so that `AppInv` holds in it; and with it the inductive invariant
  `TimeInv`, under none of the three assumptions.
  `NotCutShort` is inductive once the types are known, because a timer and a timeout
  source start together, and no handler starts the timer anew and leaves the source.
  `WorkerTimeIsCountedOnce` and `UserTimeIsCountedOnce` are `OwedMatches`, three sums that
  each step changes at one worker or at all of a job; they need that a worker that went left
  no entries (`GoneForgotten`), else its descriptor would bring back time that was
  given up. `FailuresAreCounted` compares, for each job, a sum over its tasks with a count,
  and the sums over all jobs with the log: an end of a task is added to both sides once
  (`SumOneMore`), and a connection or a batch moves what was counted into the history.
  Here the tasks are a finite set.
- `CommunicatorProofs`: `ConnectionsAreTransparent`, that the master with connections
  implements the master that is told directly what jobs want, without any of the three
  assumptions, and so (`ConnectedMasterIsAPool`) with them it implements the pool. The
  step that is not immediate is a batch that is handled long after it was sent: its
  tasks must still be new. `CommunicatorInv` says so (`UnreadFresh`: no task is in two
  unread batches, and none of those is known to the master), and `FreshKept` that a
  task stays new whatever handler runs in between. Two more invariants are about the
  connections. `LinesInv`, without assumptions: besides the types
  (`CommunicatorTypeCorrect`), a client sends nothing but tokens before its greeting,
  and its job is valid only after it (`GreetedFirst`); the progress a job lacks of what its
  client reported is what is unread, in order (`ProgressOf`); hence
  `ProgressKeptInOrder`. `TalkInv`, under the three assumptions: it joins `LinesInv`
  with `AwaitInv`, and adds that what a client sent is unread or waited for (`SentOf`);
  hence `NothingSentIgnored`. It rests on `HandOutLine` and its
  like, that a message handed out leaves one client's line and touches no other.
- `CommunicatorProofs`, tokens: `TokensReachTheirTask`, with neither `OwnIds` nor
  `~LateAnswers`. Jobs may share ids, a client may use an id again once it has the answer,
  and a task may go back and run elsewhere while its challenge is open. Two premises about
  the behaviour remain: no client waits for two tasks with one id (`IdsApart`, of the
  clients, which the model's keep), and no answer is read about another task than the one
  the worker has (`AnswersOwn`; without it `Tokens.cfg` does fail). `TokenInv` says that a
  question is about no other task its client waits for than that of its id, and a token
  about no other that waits or runs, or is in a batch in front of it (`TokensOf`); and that
  all of those are tasks the client waits for (`KnownOf`). What can go wrong is an id that
  is used again behind an open question, which `SendTokens` excludes, and a task that ends
  for the client while the master still has it, which `ReadAnswerTokens` excludes.
- `BatchScheduleProofs`: `ScheduleIsQueue`, and `NothingStarves`. The bound does not
  follow from one batch's wait time alone. Once `j` has waited longer than `Others *
  MaxRate` and is still passed over, the batch served in its stead restarts from 0
  and cannot pass `j` again before many more pops: `RecentGrows` says that after `i`
  such passes at least `i + 1` batches have waited for at most `i * MaxRate`, and
  there are no more than `Others`. `LoopServesLongest` is by induction on the ids that the
  loop of `Pop` has passed: of the batches so far it has the first among those that
  waited longest (`LoopFindsFirst`). `EstimateIsOverFew` assumes that the configured
  number is not 0; `NoEstimate.cfg` shows why.
- `CommandProofs`: `CommandsAreHarmless`, that the master with commands implements
  the master without, and with it every theorem about `Spec` carries over
  (`NothingOrphanedByCommands` is one); that a challenge is used once (`ChallengesUsedOnce`), client
  data belong to open connections, and nobody acts without a password
  (`SessionInv`, whose strengthening is that only challenges that were made are
  tried); and `KillsEndJobs`: only a kill that found its job is answered so, it closes the
  job (`KillCloses`), and closing clears the job's batch and workers and no other's
  (`CloseEndsJob`), because `JobWorkerLink` says that the job's list is complete and its own.

Only model-checked: liveness (`EverySentTaskAnswered`, `EveryChallengeAnswered`), because
reasoning about fairness needs `ENABLED`, which the provers do not support; and that the
instances of the violation runs do violate their properties.

## Findings

1. `LateAnswer.cfg`. A response with the wrong unique id is logged and then
   used (`application.cc:718-722`).
2. `ReusedIds.cfg`. With equal client ids inside a job, the queue's running ids
   lose one of two running tasks; when the other ends the batch is removed, and
   the disconnect of the worker loses the task (`taskqueue.cc:221-226`).
3. `NoEstimate.cfg`. With `runtime estimation = 0` the number of run times to keep
   underflows (`job.cc:100`), and every run time is kept.

Seen while modelling, without a document that clearly says otherwise:

- A client that is not authenticated and sets a priority gets a response of type `Kill`
  (`command.cc:140`). `HandleSetPriority` models it so.
- A token goes to the first worker of the job whose task has its id (`application.cc:549`).
  After a retry that may be another worker than the one that asked; that worker gets a
  token it did not ask for, and the challenge of its own is answered later. `HandleJobToken`
  models it; `TokenOfItsTask` says what holds.
- `Worker::Data::OnTimeout` makes a `Worker` of its data, whose constructor starts the
  timer anew (`worker.cc:65-71`), before the run is added up. A run that is cut off
  counts as if it had taken no time, for the job, and its user is not charged.
- A limit is truncated to whole seconds (`worker.cc:199`); one below a second fires at once.
- `optimaster.conf.ex:12` speaks of "the maximum number of task failures before rejecting
  a job"; the code counts failures per task and rejects that task alone
  (`application.cc:758`), the job goes on. `AnswerRejected` models it.
- `d_idleTime` is never initialised; the first report adds what the memory held.
- An identify message sets what its user was charged back to 0, also for other jobs of
  that user.
- `OnWorkerCommunication` looks whether the job of the task is still there. It always is:
  `JobsPresent` is proved.

## Not modelled

- The wake-up script, start-up and configuration: read once or pure I/O. What the
  handlers read of the configuration are constants.
- Names and fitness of jobs, where the log goes, and what the query commands report:
  output that nothing depends on.
- The framing of messages, the signal library and the main loop itself: external code. A
  handler is taken to run all its listeners. A write that finds the connection closed
  and runs `OnClosed` inside the handler that writes is not modelled.
- Several commands, or several answers of a worker, in one read: handlers of commands
  and of workers keep no state between the messages of a read, so it behaves as single
  reads one after the other. For jobs the loop is modelled.
- Rounding of doubles, and negative priorities.

## Plan

Done: every module above, their runs, and the theorems listed. Left, in order:

1. `Application` with the schedule and the run times in it (a batch takes its rate
   from the run times of the tasks before it). What is proved does not depend on it.
2. Theorems: an abstract specification of what the log promises (each report says what
   happened since the last), with `Timekeeping` implementing it; `MasterIsAPool` without
   `~LateAnswers`, for a pool that may answer a task with another one's result.
3. A connection that closes while the master writes to it, inside another handler.
4. Liveness with failing sends and with time limits, under what the operator has to
   guarantee.
