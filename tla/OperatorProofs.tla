-------------------------- MODULE OperatorProofs --------------------------
(***************************************************************************)
(* Facts about the operators that the model is built from, and that the    *)
(* library's theorem modules do not state: Without, ranges of sequences,   *)
(* sums; and induction.  Proved once for the proofs of all components.     *)
(***************************************************************************)
EXTENDS EraseRemove, Functions, FiniteSetTheorems, SequenceTheorems, TLAPS

(***************************************************************************)
(* Ranking.                                                                *)
(***************************************************************************)

\* The kept positions are some of the positions of the sequence.
LEMMA KeptFinite ==
  ASSUME NEW S, NEW s \in Seq(S), NEW x
  PROVE  /\ Kept(s, x) \subseteq 1 .. Len(s)
         /\ IsFiniteSet(Kept(s, x))
         /\ Cardinality(Kept(s, x)) \in Nat
<1>1. Len(s) \in Nat /\ DOMAIN s = 1 .. Len(s)
  BY LenProperties
<1>2. Kept(s, x) \subseteq 1 .. Len(s)
  BY <1>1 DEF Kept
<1>3. IsFiniteSet(1 .. Len(s))
  BY <1>1, FS_Interval
<1>4. IsFiniteSet(Kept(s, x))
  BY <1>2, <1>3, FS_Subset
<1> QED
  BY <1>2, <1>4, FS_CardinalityType

\* The rank of a member of a finite set of integers is one of 1 .. its size.
LEMMA RankType ==
  ASSUME NEW K \in SUBSET Int, IsFiniteSet(K), NEW i \in K
  PROVE  Rank(K, i) \in 1 .. Cardinality(K)
<1> DEFINE below == {j \in K : j <= i}
<1>1. below \in SUBSET K /\ i \in below
  OBVIOUS
<1>2. IsFiniteSet(below) /\ Cardinality(below) <= Cardinality(K)
  BY <1>1, FS_Subset
<1>3. Cardinality(below) \in Nat /\ Cardinality(K) \in Nat
  BY <1>2, FS_CardinalityType
<1>4. Cardinality(below) # 0
  BY <1>1, <1>2, FS_EmptySet
<1>5. Rank(K, i) = Cardinality(below)
  BY DEF Rank
<1> HIDE DEF below
<1> QED
  BY <1>2, <1>3, <1>4, <1>5

\* A greater member has a greater rank.
LEMMA RankMonotone ==
  ASSUME NEW K \in SUBSET Int, IsFiniteSet(K), NEW i \in K, NEW k \in K, i < k
  PROVE  Rank(K, i) < Rank(K, k)
<1> DEFINE low == {j \in K : j <= i}
           high == {j \in K : j <= k}
<1>1. low \in SUBSET K /\ high \in SUBSET K
  OBVIOUS
<1>2. IsFiniteSet(low) /\ IsFiniteSet(high)
  BY <1>1, FS_Subset
<1>3. k \notin low /\ low \cup {k} \in SUBSET high
  <2>1. i \in Int /\ k \in Int /\ \A j \in K : j \in Int
    OBVIOUS
  <2>2. k \notin low
    BY <2>1
  <2>3. \A j \in low : j \in high
    BY <2>1
  <2>4. k \in high
    BY <2>1
  <2> QED
    BY <2>2, <2>3, <2>4
<1>4. Cardinality(low \cup {k}) = Cardinality(low) + 1
  BY <1>2, <1>3, FS_AddElement
<1>5. Cardinality(low \cup {k}) <= Cardinality(high)
  BY <1>2, <1>3, FS_Subset
<1>6. Cardinality(low) \in Nat /\ Cardinality(high) \in Nat
  BY <1>2, FS_CardinalityType
<1>7. Rank(K, i) = Cardinality(low) /\ Rank(K, k) = Cardinality(high)
  BY DEF Rank
<1> HIDE DEF low, high
<1> QED
  BY <1>4, <1>5, <1>6, <1>7

\* Ranking is one to one, and reaches every rank.
LEMMA RankBijection ==
  ASSUME NEW K \in SUBSET Int, IsFiniteSet(K)
  PROVE  /\ \A i, k \in K : Rank(K, i) = Rank(K, k) => i = k
         /\ \A r \in 1 .. Cardinality(K) : \E i \in K : Rank(K, i) = r
<1> DEFINE n == Cardinality(K)
           f == [i \in K |-> Rank(K, i)]
<1>1. n \in Nat
  BY FS_CardinalityType
<1>2. \A i \in K : Rank(K, i) \in 1 .. n
  BY RankType
<1>3. ASSUME NEW i \in K, NEW k \in K, Rank(K, i) = Rank(K, k)
      PROVE  i = k
  <2>1. ~(i < k) /\ ~(k < i)
    <3>1. Rank(K, i) \in Int /\ Rank(K, k) \in Int
      BY <1>1, <1>2
    <3>2. CASE i < k
      <4>1. Rank(K, i) < Rank(K, k)
        BY <3>2, RankMonotone
      <4> QED
        BY <1>3, <3>1, <4>1
    <3>3. CASE k < i
      <4>1. Rank(K, k) < Rank(K, i)
        BY <3>3, RankMonotone
      <4> QED
        BY <1>3, <3>1, <4>1
    <3> QED
      BY <3>2, <3>3
  <2> QED
    BY <2>1
<1>4. f \in Injection(K, 1 .. n)
  BY <1>2, <1>3 DEF Injection, IsInjective
<1>5. IsFiniteSet(1 .. n) /\ Cardinality(1 .. n) = n
  BY <1>1, FS_Interval
<1>6. f \in Surjection(K, 1 .. n)
  BY <1>4, <1>5, FS_Injection
<1> QED
  BY <1>3, <1>6 DEF Surjection

(***************************************************************************)
(* Without.                                                                *)
(***************************************************************************)

\* Without(s, x) is a sequence of the members of s other than x, and lists no
\* member twice if s does not.
LEMMA WithoutProperties ==
  ASSUME NEW S, NEW s \in Seq(S), NEW x
  PROVE  /\ Without(s, x) \in Seq(S)
         /\ Range(Without(s, x)) = Range(s) \ {x}
         /\ IsInjective(s) => IsInjective(Without(s, x))
<1> DEFINE kept == Kept(s, x)
           n == Cardinality(kept)
           at(k) == CHOOSE i \in kept : Rank(kept, i) = k
<1>1. kept \subseteq 1 .. Len(s) /\ IsFiniteSet(kept) /\ n \in Nat
  BY KeptFinite
<1>2. Len(s) \in Nat /\ DOMAIN s = 1 .. Len(s) /\ s \in [1 .. Len(s) -> S]
  BY LenProperties
<1>3. kept \in SUBSET Int
  BY <1>1, <1>2
<1>4. \A k \in 1 .. n : at(k) \in kept /\ Rank(kept, at(k)) = k
  BY <1>1, <1>3, RankBijection
<1>5. \A i \in kept : Rank(kept, i) \in 1 .. n
  BY <1>1, <1>3, RankType
<1>6. \A i \in kept : at(Rank(kept, i)) = i
  BY <1>1, <1>3, <1>4, <1>5, RankBijection
<1>7. Without(s, x) = [k \in 1 .. n |-> s[at(k)]]
  BY DEF Without
<1>8. \A i \in kept : i \in DOMAIN s /\ s[i] # x
  BY DEF Kept
<1>9. \A i \in DOMAIN s : s[i] # x => i \in kept
  BY DEF Kept
<1> HIDE DEF kept, n, at
<1>10. Without(s, x) \in Seq(S)
  <2>1. \A k \in 1 .. n : s[at(k)] \in S
    BY <1>2, <1>4, <1>8
  <2> QED
    BY <1>1, <1>7, <2>1, IsASeq
<1>11. DOMAIN Without(s, x) = 1 .. n /\ \A k \in 1 .. n : Without(s, x)[k] = s[at(k)]
  BY <1>7
<1>12. Range(Without(s, x)) = Range(s) \ {x}
  <2>1. \A k \in 1 .. n : s[at(k)] \in Range(s) \ {x}
    BY <1>4, <1>8 DEF Range
  <2>2. \A i \in DOMAIN s : s[i] # x => \E k \in 1 .. n : s[i] = s[at(k)]
    BY <1>5, <1>6, <1>9
  <2> DEFINE t == Without(s, x)
  <2>3. DOMAIN t = 1 .. n /\ \A k \in 1 .. n : t[k] = s[at(k)]
    BY <1>11
  <2> HIDE DEF t
  <2>4. \A v \in Range(t) : v \in Range(s) \ {x}
    BY <2>1, <2>3 DEF Range
  <2>5. \A v \in Range(s) \ {x} : v \in Range(t)
    BY <2>2, <2>3 DEF Range
  <2>6. Range(t) = Range(s) \ {x}
    BY <2>4, <2>5
  <2> QED
    BY <2>6 DEF t
<1>13. ASSUME IsInjective(s)
       PROVE  IsInjective(Without(s, x))
  <2> SUFFICES ASSUME NEW k \in 1 .. n, NEW l \in 1 .. n, s[at(k)] = s[at(l)]
               PROVE  k = l
    BY <1>11 DEF IsInjective
  <2>1. at(k) = at(l)
    BY <1>4, <1>8, <1>13 DEF IsInjective
  <2> QED
    BY <1>4, <2>1
<1> QED
  BY <1>10, <1>12, <1>13

(***************************************************************************)
(* Ranges of other sequences.                                              *)
(***************************************************************************)

\* Only the empty sequence lists nothing.
LEMMA EmptyRange ==
  ASSUME NEW S, NEW s \in Seq(S)
  PROVE  s = <<>> <=> Range(s) = {}
<1>1. Len(s) \in Nat /\ DOMAIN s = 1 .. Len(s)
  BY LenProperties
<1>2. s # <<>> => Len(s) \in Nat \ {0}
  BY EmptySeq
<1>3. s # <<>> => 1 \in DOMAIN s
  BY <1>1, <1>2
<1>4. s = <<>> => DOMAIN s = {}
  BY <1>1, EmptySeq
<1> QED
  BY <1>3, <1>4 DEF Range

\* Appending lists one more member, and keeps a sequence free of repetitions
\* if that member is new.
LEMMA RangeOfAppend ==
  ASSUME NEW S, NEW s \in Seq(S), NEW e \in S
  PROVE  /\ Append(s, e) \in Seq(S)
         /\ Range(Append(s, e)) = Range(s) \cup {e}
         /\ IsInjective(s) /\ e \notin Range(s) => IsInjective(Append(s, e))
<1> DEFINE a == Append(s, e)
<1>1. /\ a \in Seq(S) /\ Len(a) = Len(s) + 1
      /\ \A i \in 1 .. Len(s) : a[i] = s[i]
      /\ a[Len(s) + 1] = e
  BY AppendProperties
<1>2. Len(s) \in Nat /\ DOMAIN s = 1 .. Len(s) /\ DOMAIN a = 1 .. (Len(s) + 1)
  BY <1>1, LenProperties
<1> HIDE DEF a
<1>3. Range(a) = Range(s) \cup {e}
  <2>1. \A i \in DOMAIN a : a[i] \in Range(s) \cup {e}
    BY <1>1, <1>2 DEF Range
  <2>2. \A i \in DOMAIN s : \E k \in DOMAIN a : a[k] = s[i]
    BY <1>1, <1>2
  <2>3. \E k \in DOMAIN a : a[k] = e
    BY <1>1, <1>2
  <2> QED
    BY <2>1, <2>2, <2>3 DEF Range
<1>4. ASSUME IsInjective(s), e \notin Range(s)
      PROVE  IsInjective(a)
  <2> SUFFICES ASSUME NEW i \in DOMAIN a, NEW k \in DOMAIN a, a[i] = a[k]
               PROVE  i = k
    BY DEF IsInjective
  <2>1. \A l \in 1 .. Len(s) : s[l] # e
    BY <1>2, <1>4 DEF Range
  <2>2. CASE i \in 1 .. Len(s) /\ k \in 1 .. Len(s)
    BY <1>1, <1>2, <1>4, <2>2 DEF IsInjective
  <2>3. CASE ~(i \in 1 .. Len(s) /\ k \in 1 .. Len(s))
    BY <1>1, <1>2, <2>1, <2>3
  <2> QED
    BY <2>2, <2>3
<1> QED
  BY <1>1, <1>3, <1>4 DEF a

\* The range of a sequence is its head and the range of its tail; taking the
\* head off a sequence free of repetitions takes it out of the range.
LEMMA RangeOfTail ==
  ASSUME NEW S, NEW s \in Seq(S), s # <<>>
  PROVE  /\ Tail(s) \in Seq(S)
         /\ Range(s) = Range(Tail(s)) \cup {Head(s)}
         /\ IsInjective(s) => IsInjective(Tail(s)) /\ Head(s) \notin Range(Tail(s))
<1>1. /\ Head(s) \in S /\ Tail(s) \in Seq(S)
      /\ Len(Tail(s)) = Len(s) - 1
      /\ \A i \in 1 .. Len(Tail(s)) : Tail(s)[i] = s[i + 1]
  BY HeadTailProperties
<1>2. Len(s) \in Nat \ {0} /\ DOMAIN s = 1 .. Len(s) /\ DOMAIN Tail(s) = 1 .. (Len(s) - 1)
  BY <1>1, LenProperties, EmptySeq
<1>3. Head(s) = s[1]
  OBVIOUS
<1>4. \A i \in DOMAIN Tail(s) : i + 1 \in DOMAIN s /\ Tail(s)[i] = s[i + 1]
  BY <1>1, <1>2
<1>5. \A i \in DOMAIN s : i # 1 => i - 1 \in DOMAIN Tail(s) /\ Tail(s)[i - 1] = s[i]
  BY <1>1, <1>2
<1>6. 1 \in DOMAIN s
  BY <1>2
<1>7. Range(s) = Range(Tail(s)) \cup {Head(s)}
  <2>1. \A v \in Range(s) : v \in Range(Tail(s)) \cup {Head(s)}
    <3> SUFFICES ASSUME NEW i \in DOMAIN s
                 PROVE  s[i] \in Range(Tail(s)) \cup {Head(s)}
      BY DEF Range
    <3> QED
      BY <1>3, <1>5 DEF Range
  <2>2. \A v \in Range(Tail(s)) : v \in Range(s)
    <3> SUFFICES ASSUME NEW i \in DOMAIN Tail(s)
                 PROVE  Tail(s)[i] \in Range(s)
      BY DEF Range
    <3> QED
      BY <1>4 DEF Range
  <2>3. Head(s) \in Range(s)
    BY <1>3, <1>6 DEF Range
  <2> QED
    BY <2>1, <2>2, <2>3
<1>8. ASSUME IsInjective(s)
      PROVE  IsInjective(Tail(s)) /\ Head(s) \notin Range(Tail(s))
  <2>1. IsInjective(Tail(s))
    BY <1>2, <1>4, <1>8 DEF IsInjective
  <2>2. \A i \in DOMAIN Tail(s) : i + 1 # 1
    BY <1>2
  <2>3. Head(s) \notin Range(Tail(s))
    BY <1>3, <1>4, <1>6, <1>8, <2>2 DEF IsInjective, Range
  <2> QED
    BY <2>1, <2>3
<1> QED
  BY <1>1, <1>7, <1>8

\* Two sequences free of repetitions with nothing in common, one after the
\* other, are free of repetitions.
LEMMA InjectiveConcat ==
  ASSUME NEW S, NEW s \in Seq(S), NEW t \in Seq(S),
         IsInjective(s), IsInjective(t), Range(s) \cap Range(t) = {}
  PROVE  IsInjective(s \o t)
<1> DEFINE c == s \o t
<1>1. /\ c \in Seq(S) /\ Len(c) = Len(s) + Len(t)
      /\ \A i \in 1 .. Len(s) + Len(t) :
           c[i] = IF i <= Len(s) THEN s[i] ELSE t[i - Len(s)]
  BY ConcatProperties
<1>2. /\ Len(s) \in Nat /\ DOMAIN s = 1 .. Len(s)
      /\ Len(t) \in Nat /\ DOMAIN t = 1 .. Len(t)
      /\ DOMAIN c = 1 .. Len(s) + Len(t)
  BY <1>1, LenProperties
<1> HIDE DEF c
<1> SUFFICES ASSUME NEW i \in DOMAIN c, NEW k \in DOMAIN c, c[i] = c[k]
             PROVE  i = k
  BY DEF IsInjective, c
<1>3. \A a \in DOMAIN s, b \in DOMAIN t : s[a] # t[b]
  BY DEF Range
<1>4. CASE i <= Len(s) /\ k <= Len(s)
  BY <1>1, <1>2, <1>4 DEF IsInjective
<1>5. CASE ~(i <= Len(s)) /\ ~(k <= Len(s))
  <2>1. /\ i - Len(s) \in DOMAIN t /\ c[i] = t[i - Len(s)]
        /\ k - Len(s) \in DOMAIN t /\ c[k] = t[k - Len(s)]
    BY <1>1, <1>2, <1>5
  <2>2. i - Len(s) = k - Len(s)
    BY <2>1 DEF IsInjective
  <2> QED
    BY <1>2, <2>2
<1>6. CASE i <= Len(s) /\ ~(k <= Len(s))
  <2>1. i \in DOMAIN s /\ c[i] = s[i] /\ k - Len(s) \in DOMAIN t /\ c[k] = t[k - Len(s)]
    BY <1>1, <1>2, <1>6
  <2> QED
    BY <1>3, <2>1
<1>7. CASE ~(i <= Len(s)) /\ k <= Len(s)
  <2>1. k \in DOMAIN s /\ c[k] = s[k] /\ i - Len(s) \in DOMAIN t /\ c[i] = t[i - Len(s)]
    BY <1>1, <1>2, <1>7
  <2> QED
    BY <1>3, <2>1
<1> QED
  BY <1>4, <1>5, <1>6, <1>7

(***************************************************************************)
(* Who is in front of whom.                                                *)
(***************************************************************************)

\* Taking a member out of a sequence brings nobody in front of another.
LEMMA BeforeWithout ==
  ASSUME NEW S, NEW s \in Seq(S), NEW x, NEW y
  PROVE  Before(Without(s, x), y) \subseteq Before(s, y)
<1> DEFINE kept == Kept(s, x)
           n == Cardinality(kept)
           at(k) == CHOOSE i \in kept : Rank(kept, i) = k
           t == Without(s, x)
<1>1. kept \subseteq 1 .. Len(s) /\ IsFiniteSet(kept) /\ n \in Nat
  BY KeptFinite
<1>2. Len(s) \in Nat /\ DOMAIN s = 1 .. Len(s)
  BY LenProperties
<1>3. kept \in SUBSET Int
  BY <1>1, <1>2
<1>4. \A k \in 1 .. n : at(k) \in kept /\ Rank(kept, at(k)) = k
  BY <1>1, <1>3, RankBijection
<1>5. DOMAIN t = 1 .. n /\ \A k \in 1 .. n : t[k] = s[at(k)]
  BY DEF Without
<1>6. \A i, k \in kept : i < k => Rank(kept, i) < Rank(kept, k)
  BY <1>1, <1>3, RankMonotone
<1> HIDE DEF kept, n, at, t
<1>7. \A k, l \in 1 .. n : k < l => at(k) < at(l)
  <2> SUFFICES ASSUME NEW k \in 1 .. n, NEW l \in 1 .. n, k < l, ~(at(k) < at(l))
               PROVE  FALSE
    OBVIOUS
  <2>1. at(k) \in Int /\ at(l) \in Int
    BY <1>3, <1>4
  <2>2. CASE at(k) = at(l)
    BY <1>1, <1>4, <2>2
  <2>3. CASE at(l) < at(k)
    <3>1. Rank(kept, at(l)) < Rank(kept, at(k))
      BY <1>4, <1>6, <2>3
    <3> QED
      BY <1>1, <1>4, <3>1
  <2> QED
    BY <2>1, <2>2, <2>3
<1>8. ASSUME NEW k \in DOMAIN t, NEW l \in DOMAIN t, k < l, t[l] = y
      PROVE  t[k] \in Before(s, y)
  <2>1. /\ at(k) \in DOMAIN s /\ at(l) \in DOMAIN s /\ at(k) < at(l)
        /\ s[at(l)] = y /\ t[k] = s[at(k)]
    BY <1>1, <1>2, <1>4, <1>5, <1>7, <1>8
  <2> QED
    BY <2>1 DEF Before
<1>9. Before(t, y) \subseteq Before(s, y)
  BY <1>8 DEF Before
<1> QED
  BY <1>9 DEF t

\* What is put behind a member is not in front of it.
LEMMA BeforeConcat ==
  ASSUME NEW S, NEW s \in Seq(S), NEW t \in Seq(S), NEW y, y \notin Range(t)
  PROVE  Before(s \o t, y) \subseteq Before(s, y)
<1> DEFINE u == s \o t
<1>1. /\ u \in Seq(S) /\ Len(u) = Len(s) + Len(t)
      /\ \A i \in 1 .. Len(s) : u[i] = s[i]
      /\ \A i \in 1 .. Len(u) : i > Len(s) => u[i] = t[i - Len(s)]
  <2>1. \A i \in 1 .. Len(s) + Len(t) : u[i] = IF i <= Len(s) THEN s[i] ELSE t[i - Len(s)]
    BY ConcatProperties
  <2>2. u \in Seq(S) /\ Len(u) = Len(s) + Len(t) /\ Len(s) \in Nat /\ Len(t) \in Nat
    BY ConcatProperties, LenProperties
  <2> HIDE DEF u
  <2> QED
    BY <2>1, <2>2
<1>2. /\ Len(s) \in Nat /\ Len(t) \in Nat
      /\ DOMAIN s = 1 .. Len(s) /\ DOMAIN t = 1 .. Len(t) /\ DOMAIN u = 1 .. Len(u)
  BY <1>1, LenProperties
<1> HIDE DEF u
<1>3. ASSUME NEW k \in DOMAIN u, NEW l \in DOMAIN u, k < l, u[l] = y
      PROVE  u[k] \in Before(s, y)
  <2>1. l <= Len(s)
    <3> SUFFICES ASSUME l > Len(s) PROVE FALSE
      BY <1>1, <1>2
    <3>1. l - Len(s) \in DOMAIN t /\ t[l - Len(s)] = y
      BY <1>1, <1>2, <1>3
    <3> QED
      BY <3>1 DEF Range
  <2>2. k \in DOMAIN s /\ l \in DOMAIN s /\ s[l] = y /\ u[k] = s[k]
    BY <1>1, <1>2, <1>3, <2>1
  <2> QED
    BY <1>3, <2>2 DEF Before
<1>4. Before(u, y) \subseteq Before(s, y)
  BY <1>3 DEF Before
<1> QED
  BY <1>4 DEF u

\* The same of one member that is put behind; in front of it are the others.
LEMMA BeforeAppend ==
  ASSUME NEW S, NEW s \in Seq(S), NEW e \in S
  PROVE  /\ \A y : y # e => Before(Append(s, e), y) \subseteq Before(s, y)
         /\ e \notin Range(s) => Before(Append(s, e), e) = Range(s)
<1> DEFINE a == Append(s, e)
<1>1. /\ Len(a) = Len(s) + 1
      /\ \A i \in 1 .. Len(s) : a[i] = s[i]
      /\ a[Len(s) + 1] = e
  BY AppendProperties
<1>2. Len(s) \in Nat /\ DOMAIN s = 1 .. Len(s) /\ DOMAIN a = 1 .. (Len(s) + 1)
  BY <1>1, LenProperties, AppendProperties
<1> HIDE DEF a
<1>3. \A i \in DOMAIN a : i \in DOMAIN s \/ i = Len(s) + 1
  BY <1>2
<1>4. \A i \in DOMAIN s : i \in DOMAIN a /\ a[i] = s[i] /\ i < Len(s) + 1
  BY <1>1, <1>2
<1>5. \A k, l \in DOMAIN a : k < l => k \in DOMAIN s
  BY <1>2
<1>6. ASSUME NEW y, y # e
      PROVE  Before(a, y) \subseteq Before(s, y)
  <2>1. ASSUME NEW k \in DOMAIN a, NEW l \in DOMAIN a, k < l, a[l] = y
        PROVE  a[k] \in Before(s, y)
    <3>1. k \in DOMAIN s /\ l \in DOMAIN s /\ s[l] = y /\ a[k] = s[k]
      BY <1>1, <1>3, <1>4, <1>5, <1>6, <2>1
    <3> QED
      BY <2>1, <3>1 DEF Before
  <2> QED
    BY <2>1 DEF Before
<1>7. ASSUME e \notin Range(s)
      PROVE  Before(a, e) = Range(s)
  <2>1. ASSUME NEW k \in DOMAIN a, NEW l \in DOMAIN a, k < l, a[l] = e
        PROVE  a[k] \in Range(s)
    BY <1>4, <1>5, <2>1 DEF Range
  <2>2. ASSUME NEW k \in DOMAIN s
        PROVE  s[k] \in Before(a, e)
    <3>1. Len(s) + 1 \in DOMAIN a
      BY <1>2
    <3> QED
      BY <1>1, <1>4, <3>1 DEF Before
  <2> QED
    BY <2>1, <2>2 DEF Before, Range
<1> QED
  BY <1>6, <1>7 DEF a

\* Taking the head off brings nobody in front of another.
LEMMA BeforeTail ==
  ASSUME NEW S, NEW s \in Seq(S), s # <<>>, NEW y
  PROVE  Before(Tail(s), y) \subseteq Before(s, y)
<1> DEFINE t == Tail(s)
<1>1. /\ t \in Seq(S) /\ Len(t) = Len(s) - 1
      /\ \A i \in 1 .. Len(t) : t[i] = s[i + 1]
  BY HeadTailProperties
<1>2. Len(s) \in Nat \ {0} /\ DOMAIN s = 1 .. Len(s) /\ DOMAIN t = 1 .. (Len(s) - 1)
  BY <1>1, LenProperties, EmptySeq
<1> HIDE DEF t
<1>3. ASSUME NEW k \in DOMAIN t, NEW l \in DOMAIN t, k < l, t[l] = y
      PROVE  t[k] \in Before(s, y)
  <2>1. /\ k + 1 \in DOMAIN s /\ l + 1 \in DOMAIN s /\ k + 1 < l + 1
        /\ s[l + 1] = y /\ t[k] = s[k + 1]
    BY <1>1, <1>2, <1>3
  <2> QED
    BY <2>1 DEF Before
<1>4. Before(t, y) \subseteq Before(s, y)
  BY <1>3 DEF Before
<1> QED
  BY <1>4 DEF t

(***************************************************************************)
(* Induction.  An induction theorem over an operator cannot be applied     *)
(* here, but one over the set of the members it holds of can.              *)
(***************************************************************************)

\* What holds of a set whenever it holds of its proper subsets holds of all
\* subsets of a finite set.
LEMMA SubsetInduction ==
  ASSUME NEW S, IsFiniteSet(S), NEW C,
         \A T \in SUBSET S : (\A U \in SUBSET T : U # T => U \in C) => T \in C
  PROVE  SUBSET S \subseteq C
<1> DEFINE Bad == (SUBSET S) \ C
<1> SUFFICES ASSUME Bad # {} PROVE FALSE
  OBVIOUS
<1>1. Bad \subseteq FiniteSubsetsOf(S)
  BY FS_FiniteSubsetsOfFinite
<1>2. IsWellFoundedOn(StrictSubsetOrdering(S), FiniteSubsetsOf(S))
  BY FS_StrictSubsetOrderingWellFounded
<1>3. PICK m \in Bad : \A y \in Bad : <<y, m>> \notin StrictSubsetOrdering(S)
  <2> HIDE DEF Bad
  <2> QED
    BY <1>1, <1>2, WFMin
<1>4. ASSUME NEW U \in SUBSET m, U # m PROVE U \in C
  <2>1. <<U, m>> \in StrictSubsetOrdering(S)
    BY <1>4 DEF StrictSubsetOrdering
  <2> QED
    BY <1>3, <2>1
<1> QED
  BY <1>4

\* What holds of the empty set, and of a set with one member more, holds of a
\* finite set.
LEMMA SetInduction ==
  ASSUME NEW S, IsFiniteSet(S), NEW C, {} \in C,
         \A T \in SUBSET S, x \in S : T \in C /\ x \notin T => T \cup {x} \in C
  PROVE  S \in C
<1>1. ASSUME NEW T \in SUBSET S, \A U \in SUBSET T : U # T => U \in C PROVE T \in C
  <2>1. CASE T = {}
    BY <2>1
  <2>2. CASE T # {}
    <3>1. PICK x : x \in T
      BY <2>2
    <3>2. T \ {x} \in C
      BY <1>1, <3>1
    <3>3. (T \ {x}) \cup {x} = T
      BY <3>1
    <3> QED
      BY <3>1, <3>2, <3>3
  <2> QED
    BY <2>1, <2>2
<1> QED
  BY <1>1, SubsetInduction

\* What holds of 0, and of n + 1 if it holds of n, holds of every natural.
LEMMA NatSetInduction ==
  ASSUME NEW C, 0 \in C, \A n \in Nat : n \in C => n + 1 \in C
  PROVE  Nat \subseteq C
<1> SUFFICES ASSUME NEW n \in Nat PROVE n \in C
  OBVIOUS
<1> DEFINE D == {T \in SUBSET (1 .. n) : Cardinality(T) \in C}
<1>1. IsFiniteSet(1 .. n) /\ Cardinality(1 .. n) = n
  BY FS_Interval
<1>2. {} \in D
  BY FS_EmptySet
<1>3. ASSUME NEW T \in SUBSET (1 .. n), NEW x \in 1 .. n, T \in D, x \notin T
      PROVE  T \cup {x} \in D
  <2>1. IsFiniteSet(T) 
    BY <1>1, FS_Subset
  <2>2. Cardinality(T) \in Nat /\ Cardinality(T \cup {x}) = Cardinality(T) + 1
    BY <1>3, <2>1, FS_AddElement, FS_CardinalityType
  <2> QED
    BY <1>3, <2>2
<1>4. 1 .. n \in D
  <2> HIDE DEF D
  <2> QED
    BY <1>1, <1>2, <1>3, SetInduction
<1> QED
  BY <1>1, <1>4

(***************************************************************************)
(* Sums over finite sets.  The fold of the library module Functions takes  *)
(* the members in an order that is left open; that the order does not      *)
(* matter follows from counting the points under the graph of f.           *)
(***************************************************************************)

\* The points under the graph of f over S.
Area(f, S) == UNION {{x} \X (1 .. f[x]) : x \in S}

\* A member x adds f[x] points.
LEMMA AreaAdd ==
  ASSUME NEW S, IsFiniteSet(S), NEW f, NEW x, f[x] \in Nat, x \notin S, IsFiniteSet(Area(f, S))
  PROVE  /\ IsFiniteSet(Area(f, S \cup {x}))
         /\ Cardinality(Area(f, S \cup {x})) = f[x] + Cardinality(Area(f, S))
<1> DEFINE col == {x} \X (1 .. f[x])
<1>1. Area(f, S \cup {x}) = Area(f, S) \cup col
  BY DEF Area
<1>2. Area(f, S) \cap col = {}
  BY DEF Area
<1>3. IsFiniteSet(1 .. f[x]) /\ Cardinality(1 .. f[x]) = f[x]
  BY FS_Interval
<1>4. IsFiniteSet({x}) /\ Cardinality({x}) = 1
  BY FS_Singleton
<1>5. IsFiniteSet(col) /\ Cardinality(col) = f[x]
  <2>1. IsFiniteSet(col) /\ Cardinality(col) = Cardinality({x}) * Cardinality(1 .. f[x])
    BY <1>3, <1>4, FS_Product
  <2> HIDE DEF col
  <2> QED
    BY <1>3, <1>4, <2>1
<1>6. Cardinality({}) = 0 /\ Cardinality(Area(f, S)) \in Nat
  BY FS_CardinalityType, FS_EmptySet
<1> HIDE DEF col
<1>7. /\ IsFiniteSet(Area(f, S) \cup col)
      /\ Cardinality(Area(f, S) \cup col)
         = Cardinality(Area(f, S)) + Cardinality(col) - Cardinality(Area(f, S) \cap col)
  BY <1>5, FS_Union
<1>8. Cardinality(Area(f, S) \cap col) = 0
  BY <1>2, <1>6
<1>9. Cardinality(Area(f, S \cup {x})) = f[x] + Cardinality(Area(f, S))
  <2>1. Cardinality(Area(f, S \cup {x})) = Cardinality(Area(f, S)) + f[x] - 0
    BY <1>1, <1>5, <1>7, <1>8
  <2>2. \A m, n \in Nat : m + n - 0 = n + m
    OBVIOUS
  <2> QED
    BY <1>6, <2>1, <2>2
<1>10. IsFiniteSet(Area(f, S \cup {x}))
  BY <1>1, <1>7
<1> QED
  BY <1>9, <1>10

\* There are finitely many points.
LEMMA AreaFinite ==
  ASSUME NEW S, IsFiniteSet(S), NEW f, \A x \in S : f[x] \in Nat
  PROVE  IsFiniteSet(Area(f, S)) /\ Cardinality(Area(f, S)) \in Nat
<1> DEFINE C == {T \in SUBSET S : IsFiniteSet(Area(f, T))}
<1>1. {} \in C
  BY FS_EmptySet DEF Area
<1>2. ASSUME NEW T \in SUBSET S, NEW x \in S, T \in C, x \notin T
      PROVE  T \cup {x} \in C
  BY <1>2, AreaAdd, FS_Subset
<1>3. S \in C
  <2> HIDE DEF C
  <2> QED
    BY <1>1, <1>2, SetInduction
<1> QED
  BY <1>3, FS_CardinalityType

\* The fold counts the points: their numbers satisfy its recursive equation,
\* which has one solution.
LEMMA SumIsArea ==
  ASSUME NEW S, IsFiniteSet(S), NEW f, \A x \in S : f[x] \in Nat
  PROVE  SumFunctionOnSet(f, S) = Cardinality(Area(f, S))
<1> DEFINE one(s) == CHOOSE x \in s : TRUE
           iter[s \in SUBSET S] == IF s = {} THEN 0 ELSE f[one(s)] + iter[s \ {one(s)}]
           G == [s \in SUBSET S |-> Cardinality(Area(f, s))]
           Step(g) == [s \in SUBSET S |-> IF s = {} THEN 0 ELSE f[one(s)] + g[s \ {one(s)}]]
<1>1. SumFunctionOnSet(f, S) = iter[S]
  BY DEF SumFunctionOnSet, FoldFunctionOnSet, MapThenFoldSet
<1>2. \A s \in SUBSET S : s # {} => one(s) \in s
  OBVIOUS
<1>3. \A s \in SUBSET S : s # {} =>
        Cardinality(Area(f, s)) = f[one(s)] + Cardinality(Area(f, s \ {one(s)}))
  <2> SUFFICES ASSUME NEW s \in SUBSET S, NEW x \in s
               PROVE  Cardinality(Area(f, s)) = f[x] + Cardinality(Area(f, s \ {x}))
    BY <1>2
  <2>1. IsFiniteSet(s \ {x}) /\ (s \ {x}) \cup {x} = s
    BY FS_Subset
  <2>2. IsFiniteSet(Area(f, s \ {x}))
    BY <2>1, AreaFinite
  <2> QED
    BY <2>1, <2>2, AreaAdd
<1>4. Cardinality(Area(f, {})) = 0
  BY FS_EmptySet DEF Area
<1>5. G = Step(G)
  BY <1>2, <1>3, <1>4
<1>6. iter = Step(iter)
  <2> HIDE DEF G
  <2> QED
    BY <1>5
<1>7. S \in {s \in SUBSET S : iter[s] = G[s]}
  <2> DEFINE C == {s \in SUBSET S : iter[s] = G[s]}
  <2>1. ASSUME NEW T \in SUBSET S, \A U \in SUBSET T : U # T => U \in C PROVE T \in C
    <3>1. CASE T = {}
      BY <1>5, <1>6, <3>1
    <3>2. CASE T # {}
      <4>1. T \ {one(T)} \in C
        BY <1>2, <2>1, <3>2
      <4> HIDE DEF one, G, iter
      <4> QED
        BY <1>5, <1>6, <3>2, <4>1
    <3> QED
      BY <3>1, <3>2
  <2>2. SUBSET S \subseteq C
    <3> HIDE DEF C
    <3> QED
      BY <2>1, SubsetInduction
  <2> QED
    BY <2>2
<1> QED
  BY <1>1, <1>7

\* Sums of naturals are naturals.
LEMMA SumNat ==
  ASSUME NEW S, IsFiniteSet(S), NEW f, \A x \in S : f[x] \in Nat
  PROVE  SumFunctionOnSet(f, S) \in Nat
BY SumIsArea, AreaFinite

\* There is nothing to add up.
LEMMA SumEmpty ==
  ASSUME NEW f
  PROVE  SumFunctionOnSet(f, {}) = 0
<1>1. Area(f, {}) = {}
  BY DEF Area
<1> QED
  BY <1>1, SumIsArea, FS_EmptySet

\* One member more.
LEMMA SumAdd ==
  ASSUME NEW S, IsFiniteSet(S), NEW f, NEW x, x \notin S, \A y \in S \cup {x} : f[y] \in Nat
  PROVE  SumFunctionOnSet(f, S \cup {x}) = f[x] + SumFunctionOnSet(f, S)
<1>1. IsFiniteSet(Area(f, S)) /\ SumFunctionOnSet(f, S) = Cardinality(Area(f, S))
  BY SumIsArea, AreaFinite
<1>2. IsFiniteSet(S \cup {x})
  BY FS_AddElement
<1>3. SumFunctionOnSet(f, S \cup {x}) = Cardinality(Area(f, S \cup {x}))
  BY <1>2, SumIsArea
<1>4. f[x] \in Nat
  OBVIOUS
<1> QED
  BY <1>1, <1>3, <1>4, AreaAdd

\* One member less.
LEMMA SumRemove ==
  ASSUME NEW S, IsFiniteSet(S), NEW f, NEW x \in S, \A y \in S : f[y] \in Nat
  PROVE  SumFunctionOnSet(f, S) = f[x] + SumFunctionOnSet(f, S \ {x})
<1> DEFINE R == S \ {x}
<1>1. IsFiniteSet(R) /\ R \cup {x} = S /\ x \notin R
  BY FS_Subset
<1> HIDE DEF R
<1>2. SumFunctionOnSet(f, R \cup {x}) = f[x] + SumFunctionOnSet(f, R)
  BY <1>1, SumAdd
<1> QED
  BY <1>1, <1>2 DEF R

\* Only the values on S count.
LEMMA SumEqual ==
  ASSUME NEW S, IsFiniteSet(S), NEW f, NEW g, \A x \in S : f[x] \in Nat /\ g[x] = f[x]
  PROVE  SumFunctionOnSet(g, S) = SumFunctionOnSet(f, S)
<1>1. Area(g, S) = Area(f, S)
  BY DEF Area
<1> QED
  BY <1>1, SumIsArea

\* One member.
LEMMA SumOne ==
  ASSUME NEW f, NEW x, f[x] \in Nat
  PROVE  SumFunctionOnSet(f, {x}) = f[x]
<1>1. {} \cup {x} = {x} /\ IsFiniteSet({})
  BY FS_EmptySet
<1>2. SumFunctionOnSet(f, {} \cup {x}) = f[x] + SumFunctionOnSet(f, {})
  BY <1>1, SumAdd
<1> QED
  BY <1>1, <1>2, SumEmpty

\* Nothing adds up to 0.
LEMMA SumZero ==
  ASSUME NEW S, IsFiniteSet(S), NEW f, \A x \in S : f[x] = 0
  PROVE  SumFunctionOnSet(f, S) = 0
<1>1. \A x \in S : {x} \X (1 .. f[x]) = {}
  OBVIOUS
<1>2. Area(f, S) = {}
  BY <1>1 DEF Area
<1> QED
  BY <1>2, SumIsArea, FS_EmptySet

\* Where one value changes, the sum changes by the difference.
LEMMA SumUpdate ==
  ASSUME NEW S, IsFiniteSet(S), NEW f, NEW g, NEW x \in S,
         \A y \in S : f[y] \in Nat /\ g[y] \in Nat,
         \A y \in S \ {x} : g[y] = f[y]
  PROVE  SumFunctionOnSet(g, S) = SumFunctionOnSet(f, S) - f[x] + g[x]
<1> DEFINE R == S \ {x}
<1>1. IsFiniteSet(R)
  BY FS_Subset
<1>2. SumFunctionOnSet(g, R) = SumFunctionOnSet(f, R) /\ SumFunctionOnSet(f, R) \in Nat
  BY <1>1, SumEqual, SumNat
<1>3. /\ SumFunctionOnSet(f, S) = f[x] + SumFunctionOnSet(f, R)
      /\ SumFunctionOnSet(g, S) = g[x] + SumFunctionOnSet(g, R)
  BY SumRemove
<1>4. f[x] \in Nat /\ g[x] \in Nat
  OBVIOUS
<1> HIDE DEF R
<1> QED
  BY <1>2, <1>3, <1>4

\* Where the members of T grow by h and the others stay, the sum grows by that
\* of h over T.
LEMMA SumGrows ==
  ASSUME NEW S, IsFiniteSet(S), NEW T \in SUBSET S, NEW f, NEW g, NEW h,
         \A x \in S : f[x] \in Nat, \A x \in T : h[x] \in Nat,
         \A x \in S : g[x] = IF x \in T THEN f[x] + h[x] ELSE f[x]
  PROVE  SumFunctionOnSet(g, S) = SumFunctionOnSet(f, S) + SumFunctionOnSet(h, T)
<1> DEFINE C == {U \in SUBSET S :
                   SumFunctionOnSet(g, U) = SumFunctionOnSet(f, U) + SumFunctionOnSet(h, U \cap T)}
<1>1. {} \in C
  <2>1. {} \cap T = {}
    OBVIOUS
  <2> QED
    BY <2>1, SumEmpty
<1>2. ASSUME NEW U \in SUBSET S, NEW x \in S, U \in C, x \notin U
      PROVE  U \cup {x} \in C
  <2>1. IsFiniteSet(U) /\ IsFiniteSet(U \cap T)
    BY FS_Subset
  <2>2. \A y \in S : g[y] \in Nat
    OBVIOUS
  <2>3. /\ SumFunctionOnSet(f, U \cup {x}) = f[x] + SumFunctionOnSet(f, U)
        /\ SumFunctionOnSet(g, U \cup {x}) = g[x] + SumFunctionOnSet(g, U)
    BY <1>2, <2>1, <2>2, SumAdd
  <2>4. /\ SumFunctionOnSet(f, U) \in Nat /\ SumFunctionOnSet(g, U) \in Nat
        /\ SumFunctionOnSet(h, U \cap T) \in Nat
    BY <2>1, <2>2, SumNat
  <2>5. SumFunctionOnSet(g, U) = SumFunctionOnSet(f, U) + SumFunctionOnSet(h, U \cap T)
    BY <1>2
  <2>6. CASE x \in T
    <3>1. (U \cup {x}) \cap T = (U \cap T) \cup {x}
      BY <2>6
    <3>2. SumFunctionOnSet(h, (U \cap T) \cup {x}) = h[x] + SumFunctionOnSet(h, U \cap T)
      BY <1>2, <2>1, <2>6, SumAdd
    <3>3. g[x] = f[x] + h[x] /\ f[x] \in Nat /\ h[x] \in Nat
      BY <2>6
    <3> QED
      BY <2>3, <2>4, <2>5, <3>1, <3>2, <3>3
  <2>7. CASE x \notin T
    <3>1. (U \cup {x}) \cap T = U \cap T
      BY <2>7
    <3>2. g[x] = f[x] /\ f[x] \in Nat
      BY <2>7
    <3> QED
      BY <2>3, <2>4, <2>5, <3>1, <3>2
  <2> QED
    BY <2>6, <2>7
<1>3. S \in C
  <2> HIDE DEF C
  <2> QED
    BY <1>1, <1>2, SetInduction
<1>4. S \cap T = T
  OBVIOUS
<1> QED
  BY <1>3, <1>4

\* A sum over two parts.
LEMMA SumSplit ==
  ASSUME NEW S, IsFiniteSet(S), NEW T \in SUBSET S, NEW f, \A x \in S : f[x] \in Nat
  PROVE  SumFunctionOnSet(f, S) = SumFunctionOnSet(f, S \ T) + SumFunctionOnSet(f, T)
<1> DEFINE z == [x \in S |-> IF x \in T THEN 0 ELSE f[x]]
           R == S \ T
<1>1. IsFiniteSet(R) /\ IsFiniteSet(T)
  BY FS_Subset
<1>2. SumFunctionOnSet(f, S) = SumFunctionOnSet(z, S) + SumFunctionOnSet(f, T)
  <2>1. \A x \in S : z[x] \in Nat /\ f[x] = IF x \in T THEN z[x] + f[x] ELSE z[x]
    OBVIOUS
  <2> HIDE DEF z
  <2> QED
    BY <2>1, SumGrows
<1>3. SumFunctionOnSet(z, S) = SumFunctionOnSet(f, R)
  <2>1. Area(z, S) = Area(f, R)
    <3>1. \A x \in T : {x} \X (1 .. z[x]) = {}
      OBVIOUS
    <3>2. \A x \in R : z[x] = f[x]
      OBVIOUS
    <3> HIDE DEF z
    <3> QED
      BY <3>1, <3>2 DEF Area
  <2>2. \A x \in S : z[x] \in Nat
    OBVIOUS
  <2>3. \A x \in R : f[x] \in Nat
    OBVIOUS
  <2> HIDE DEF z, R
  <2> QED
    BY <1>1, <2>1, <2>2, <2>3, SumIsArea
<1> QED
  BY <1>2, <1>3

\* The members of T leave, the others keep their values.
LEMMA SumLeave ==
  ASSUME NEW S, IsFiniteSet(S), NEW T \in SUBSET S, NEW f, NEW g,
         \A x \in S : f[x] \in Nat, \A x \in S \ T : g[x] = f[x]
  PROVE  SumFunctionOnSet(g, S \ T) = SumFunctionOnSet(f, S) - SumFunctionOnSet(f, T)
<1> DEFINE R == S \ T
<1>1. IsFiniteSet(R) /\ IsFiniteSet(T)
  BY FS_Subset
<1>2. SumFunctionOnSet(g, R) = SumFunctionOnSet(f, R)
  BY <1>1, SumEqual
<1>3. SumFunctionOnSet(f, R) \in Nat /\ SumFunctionOnSet(f, T) \in Nat
  BY <1>1, SumNat
<1>4. SumFunctionOnSet(f, S) = SumFunctionOnSet(f, R) + SumFunctionOnSet(f, T)
  BY SumSplit
<1> QED
  BY <1>2, <1>3, <1>4

\* The members of T join with the value 0, the others keep their values.
LEMMA SumJoin ==
  ASSUME NEW S, IsFiniteSet(S), NEW T, IsFiniteSet(T), NEW f, NEW g,
         \A x \in S : f[x] \in Nat, \A x \in S : g[x] = f[x], \A x \in T \ S : g[x] = 0
  PROVE  SumFunctionOnSet(g, S \cup T) = SumFunctionOnSet(f, S)
<1> DEFINE R == T \ S
           U == S \cup T
<1>1. IsFiniteSet(R) /\ IsFiniteSet(U)
  BY FS_Subset, FS_Union
<1>2. U \ R = S /\ R \in SUBSET U
  OBVIOUS
<1>3. \A x \in U : g[x] \in Nat
  OBVIOUS
<1>4. SumFunctionOnSet(g, R) = 0
  BY <1>1, SumZero
<1>5. SumFunctionOnSet(g, S) = SumFunctionOnSet(f, S) /\ SumFunctionOnSet(f, S) \in Nat
  BY SumEqual, SumNat
<1>6. SumFunctionOnSet(g, U) = SumFunctionOnSet(g, U \ R) + SumFunctionOnSet(g, R)
  <2> HIDE DEF U, R
  <2> QED
    BY <1>1, <1>2, <1>3, SumSplit
<1> QED
  BY <1>2, <1>4, <1>5, <1>6

\* Where every member grows by one, the sum grows by their number.
LEMMA SumTick ==
  ASSUME NEW S, IsFiniteSet(S), NEW f, NEW g, \A x \in S : f[x] \in Nat /\ g[x] = f[x] + 1
  PROVE  SumFunctionOnSet(g, S) = SumFunctionOnSet(f, S) + Cardinality(S)
<1> DEFINE one == [x \in S |-> 1]
           C == {U \in SUBSET S : SumFunctionOnSet(one, U) = Cardinality(U)}
<1>1. {} \in C
  BY SumEmpty, FS_EmptySet
<1>2. ASSUME NEW U \in SUBSET S, NEW x \in S, U \in C, x \notin U
      PROVE  U \cup {x} \in C
  <2>1. IsFiniteSet(U) /\ Cardinality(U) \in Nat
    BY FS_Subset, FS_CardinalityType
  <2>2. one[x] = 1 /\ \A y \in U \cup {x} : one[y] \in Nat
    BY DEF one
  <2> HIDE DEF one
  <2>3. SumFunctionOnSet(one, U \cup {x}) = 1 + SumFunctionOnSet(one, U)
    BY <1>2, <2>1, <2>2, SumAdd
  <2>4. Cardinality(U \cup {x}) = Cardinality(U) + 1
    BY <1>2, <2>1, FS_AddElement
  <2> QED
    BY <1>2, <2>1, <2>3, <2>4
<1>3. SumFunctionOnSet(one, S) = Cardinality(S)
  <2>1. S \in C
    <3> HIDE DEF C
    <3> QED
      BY <1>1, <1>2, SetInduction
  <2> QED
    BY <2>1
<1>4. \A x \in S : one[x] = 1
  OBVIOUS
<1> HIDE DEF one
<1>5. SumFunctionOnSet(g, S) = SumFunctionOnSet(f, S) + SumFunctionOnSet(one, S)
  BY <1>4, SumGrows
<1> QED
  BY <1>3, <1>5

(***************************************************************************)
(* Finite ranges.                                                          *)
(***************************************************************************)

\* A function on a finite set takes finitely many values.
LEMMA RangeFinite ==
  ASSUME NEW S, IsFiniteSet(S), NEW T, NEW f \in [S -> T]
  PROVE  IsFiniteSet(Range(f))
<1>1. f \in Surjection(S, Range(f))
  BY DEF Surjection, Range
<1> QED
  BY <1>1, FS_Surjection

\* A sequence has finitely many elements.
LEMMA SeqRangeFinite ==
  ASSUME NEW S, NEW s \in Seq(S)
  PROVE  IsFiniteSet(Range(s))
<1>1. s \in [1 .. Len(s) -> S] /\ Len(s) \in Nat
  BY LenProperties
<1>2. IsFiniteSet(1 .. Len(s))
  BY <1>1, FS_Interval
<1> QED
  BY <1>1, <1>2, RangeFinite

==============================================================================
