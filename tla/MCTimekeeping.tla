---------------------------- MODULE MCTimekeeping ----------------------------
(***************************************************************************)
(* Small instances of Timekeeping for TLC.                                 *)
(***************************************************************************)
EXTENDS Timekeeping, TLC

CONSTANTS
  j1, j2, w1, w2, c1, c2, t1, t2, i1, u1,
  MaxEnds  \* bound: tasks that end in all

\* Task t1 belongs to job j1, t2 to job j2.
MCGroup == [t \in Tasks |-> IF t = t1 THEN j1 ELSE j2]

\* Both jobs use the same id.
MCTaskId == [t \in Tasks |-> i1]
MCUser == [j \in Jobs |-> u1]

\* One second and a half.
MCLimit == [j \in Jobs |-> 3]

\* Less than a second: a time limit that may pass at once.
MCShortLimit == [j \in Jobs |-> 1]

Symmetry == Permutations({w1, w2}) \cup Permutations({c1, c2})

\* Bound: with lost cancels the same task may be pushed, and fail, again and
\* again.
FewCopies ==
  /\ \A j \in Jobs : Len(d_tasks[j]) <= 2
  /\ \A t \in Tasks : failures[t] <= MaxTaskFailures + 1

\* Bound: tasks that end in all.
FewEnds == reported.failed + d_tasksFailed + reported.success + d_tasksSuccess <= MaxEnds

\* Bound: unique ids that are handed out, before the counter wraps.
FewRuns == s_uniqueId < MaxUid

==============================================================================
