----------------------------- MODULE EraseRemove -----------------------------
(***************************************************************************)
(* The erase-remove idiom, erase(remove(s.begin(), s.end(), x), s.end()),  *)
(* by which the master takes a worker out of its idle deque                *)
(* (workermanager.cc) and out of the active workers of a job (job.cc).     *)
(* Written as a closed form over the positions that stay.                  *)
(***************************************************************************)
EXTENDS Integers, Sequences, FiniteSets

\* The positions of s that hold something other than x.
Kept(s, x) == {i \in DOMAIN s : s[i] # x}

\* How many positions of S are at or before position i.
Rank(S, i) == Cardinality({j \in S : j <= i})

\* s without any occurrence of x, the others in their order.
Without(s, x) ==
  LET kept == Kept(s, x)
  IN [k \in 1 .. Cardinality(kept) |-> s[CHOOSE i \in kept : Rank(kept, i) = k]]

\* The members of s in front of x.
Before(s, x) == {s[i] : i \in {k \in DOMAIN s : \E l \in DOMAIN s : k < l /\ s[l] = x}}

==============================================================================
