----------------------------- MODULE TimersProofs -----------------------------
(***************************************************************************)
(* Proofs about Timers for any streams, any number of slots and any        *)
(* timeouts: a stream is never linked twice through timer_link, the two    *)
(* lists that are kept in the order of their times stay in it, and, where  *)
(* a check looks at as many streams as there are, the slots are what the   *)
(* streams say and no stream is overlooked.                                *)
(***************************************************************************)
EXTENDS Timers, SequenceTheorems, FiniteSetTheorems, WellFoundedInduction, TLAPS

LEMMA Sizes ==
    /\ Hash \in Nat /\ Hash >= 1 /\ Every \in Nat \ {0} /\ Thresh \in Nat
    /\ Thresh >= 1 /\ MaxRto \in Nat /\ Timeout \in Nat /\ Timewait \in Nat
    /\ MaxTs \in Nat /\ IsFiniteSet(Streams) /\ Hash \in 0 .. Hash
    /\ Cardinality(Streams) \in Nat
<1>1. IsFiniteSet(Streams)
  BY ConstantsAssumption
<1>2. Cardinality(Streams) \in Nat
  BY <1>1, FS_CardinalityType
<1> QED
  BY <1>1, <1>2, ConstantsAssumption
-----------------------------------------------------------------------------
(* Places of a list.                                                        *)

\* A set of natural numbers has a least one.
LEMMA LeastNumber ==
  ASSUME NEW T, T \subseteq Nat, T # {}
  PROVE  \E m \in T : \A k \in T : m <= k
<1> DEFINE R == {ss \in Nat \X Nat : ss[1] < ss[2]}
<1>1. IsWellFoundedOn(R, Nat)
  BY NatLessThanWellFounded DEF OpToRel
<1>2. PICK x \in T : \A y \in T : ~ (<<y, x>> \in R)
  BY <1>1, WFMin
<1>3. ASSUME NEW y \in T PROVE x <= y
  <2>1. <<y, x>> \in Nat \X Nat
    OBVIOUS
  <2>2. ~ (y < x)
    BY <1>2, <2>1
  <2> QED
    BY <2>2
<1> QED
  BY <1>3

\* The places of a list are counted one by one.
LEMMA RankSteps ==
  ASSUME NEW n \in Nat, NEW K \in SUBSET (1 .. n), NEW m \in Nat
  PROVE  /\ IsFiniteSet(K) /\ Cardinality(K) \in Nat
         /\ Rank(K, m) \in 0 .. Cardinality(K)
         /\ Rank(K, m + 1) = IF m + 1 \in K THEN Rank(K, m) + 1 ELSE Rank(K, m)
<1> DEFINE A == {j \in K : j <= m}
           B == {j \in K : j <= m + 1}
<1>1. IsFiniteSet(K) /\ Cardinality(K) \in Nat
  <2>1. IsFiniteSet(1 .. n)
    BY FS_Interval
  <2>2. IsFiniteSet(K)
    BY <2>1, FS_Subset
  <2> QED
    BY <2>2, FS_CardinalityType
<1>2. IsFiniteSet(A) /\ Cardinality(A) \in Nat
      /\ Cardinality(A) <= Cardinality(K)
  <2>1. A \in SUBSET K
    OBVIOUS
  <2>2. IsFiniteSet(A) /\ Cardinality(A) <= Cardinality(K)
    BY <1>1, <2>1, FS_Subset
  <2> QED
    BY <2>2, FS_CardinalityType
<1>0. \A j \in K : j \in Nat
  OBVIOUS
<1>3. B = IF m + 1 \in K THEN A \cup {m + 1} ELSE A
  <2>1. \A j \in K : j <= m + 1 <=> j <= m \/ j = m + 1
    BY <1>0
  <2>2. \A j : j \in B <=> j \in A \/ (m + 1 \in K /\ j = m + 1)
    BY <2>1
  <2> QED
    BY <2>2
<1>4. m + 1 \notin A
  BY <1>0
<1>5. Cardinality(A \cup {m + 1}) = Cardinality(A) + 1
  BY <1>2, <1>4, FS_AddElement
<1>6. Cardinality(B) = IF m + 1 \in K THEN Cardinality(A) + 1
                       ELSE Cardinality(A)
  BY <1>3, <1>5
<1>7. Rank(K, m) = Cardinality(A) /\ Rank(K, m + 1) = Cardinality(B)
  BY DEF Rank
<1> HIDE DEF A, B
<1> QED
  BY <1>1, <1>2, <1>6, <1>7

\* Counting never goes back, and a place that is in the set counts.
LEMMA RankOrder ==
  ASSUME NEW n \in Nat, NEW K \in SUBSET (1 .. n),
         NEW i \in Nat, NEW j \in K, i < j
  PROVE  Rank(K, i) < Rank(K, j)
<1> DEFINE A == {k \in K : k <= i}
           B == {k \in K : k <= j}
<1>1. IsFiniteSet(B)
  <2>1. B \in SUBSET K /\ IsFiniteSet(K)
    BY RankSteps
  <2> QED
    BY <2>1, FS_Subset
<1>0. \A k \in K : k \in Nat
  OBVIOUS
<1>2. A \in SUBSET B /\ j \in B /\ j \notin A
  <2>1. j \in Nat /\ \A k \in K : k <= i => k <= j
    BY <1>0
  <2>2. j <= j /\ ~ (j <= i)
    BY <2>1
  <2> QED
    BY <2>1, <2>2
<1>3. Cardinality(A) <= Cardinality(B) /\ Cardinality(A) # Cardinality(B)
  BY <1>1, <1>2, FS_Subset
<1>4. Rank(K, i) = Cardinality(A) /\ Rank(K, j) = Cardinality(B)
  BY DEF Rank
<1>5. Cardinality(A) \in Nat /\ Cardinality(B) \in Nat
  BY <1>1, <1>2, FS_Subset, FS_CardinalityType
<1> HIDE DEF A, B
<1> QED
  BY <1>3, <1>4, <1>5

\* Every count up to the number of places is the count at one of them.
LEMMA RankOnto ==
  ASSUME NEW n \in Nat, NEW K \in SUBSET (1 .. n),
         NEW k \in 1 .. Cardinality(K)
  PROVE  \E i \in K : Rank(K, i) = k
<1> DEFINE T == {m \in Nat : Rank(K, m) >= k}
<1>0. \A j \in K : j \in Nat /\ 1 <= j /\ j <= n
  OBVIOUS
<1>1. IsFiniteSet(K) /\ Cardinality(K) \in Nat
  BY RankSteps
<1>2. n \in T
  <2>1. {j \in K : j <= n} = K
    BY <1>0
  <2> QED
    BY <1>1, <2>1 DEF Rank
<1>3. PICK m \in T : \A l \in T : m <= l
  BY <1>2, LeastNumber
<1>4. m # 0
  <2>1. {j \in K : j <= 0} = {}
    <3>1. \A j \in K : ~ (j <= 0)
      BY <1>0
    <3> QED
      BY <3>1
  <2>2. Rank(K, 0) = 0
    BY <2>1, FS_EmptySet DEF Rank
  <2> QED
    BY <2>2, <1>1
<1>5. m - 1 \in Nat /\ m - 1 \notin T
  BY <1>3, <1>4
<1>6. /\ Rank(K, m - 1) \in 0 .. Cardinality(K)
      /\ Rank(K, m) = IF m \in K THEN Rank(K, m - 1) + 1 ELSE Rank(K, m - 1)
  <2> DEFINE l == m - 1
  <2>1. l \in Nat /\ l + 1 = m
    BY <1>5
  <2> HIDE DEF l
  <2>2. /\ Rank(K, l) \in 0 .. Cardinality(K)
        /\ Rank(K, l + 1) = IF l + 1 \in K THEN Rank(K, l) + 1 ELSE Rank(K, l)
    BY <2>1, RankSteps
  <2> QED
    BY <2>1, <2>2 DEF l
<1> QED
  BY <1>1, <1>5, <1>6
-----------------------------------------------------------------------------
(* Lists of streams.                                                        *)

\* Kept takes the places of the streams in S, in order.
LEMMA KeptPlaces ==
  ASSUME NEW list \in Seq(Streams), NEW S
  PROVE  LET t == Kept(list, S)
         IN  /\ t \in Seq(Streams)
             /\ \E pos \in [1 .. Len(t) -> 1 .. Len(list)] :
                   /\ \A k \in 1 .. Len(t) :
                         t[k] = list[pos[k]] /\ list[pos[k]] \in S
                   /\ \A k, l \in 1 .. Len(t) : k < l => pos[k] < pos[l]
                   /\ \A i \in 1 .. Len(list) : list[i] \in S =>
                         \E k \in 1 .. Len(t) : pos[k] = i
<1> DEFINE n == Len(list)
           K == {i \in 1 .. n : list[i] \in S}
           c == Cardinality(K)
           pos == [k \in 1 .. c |-> CHOOSE i \in K : Rank(K, i) = k]
           t == [k \in 1 .. c |-> list[pos[k]]]
<1>1. n \in Nat /\ K \in SUBSET (1 .. n) /\ list \in [1 .. n -> Streams]
  BY LenProperties
<1>2. c \in Nat /\ \A i \in K : i \in Nat
  <2>1. \A i \in K : i \in Nat
    BY <1>1
  <2>2. 0 \in Nat
    OBVIOUS
  <2> HIDE DEF n, K
  <2>3. c \in Nat
    BY <1>1, <2>2, RankSteps
  <2> QED
    BY <2>1, <2>3
<1>3. Kept(list, S) = t
  BY DEF Kept
<1> HIDE DEF n, K, c
<1>4. \A k \in 1 .. c : pos[k] \in K /\ Rank(K, pos[k]) = k
  <2> TAKE k \in 1 .. c
  <2>1. \E i \in K : Rank(K, i) = k
    BY <1>1, RankOnto DEF c
  <2> QED
    BY <2>1
<1> HIDE DEF pos
<1>5. pos \in [1 .. c -> 1 .. n]
  <2>1. \A k \in 1 .. c : pos[k] \in 1 .. n
    BY <1>1, <1>4
  <2> QED
    BY <2>1 DEF pos
<1>6. \A k \in 1 .. c : list[pos[k]] \in S /\ list[pos[k]] \in Streams
  BY <1>1, <1>4, <1>5 DEF K
<1>7. t \in Seq(Streams) /\ Len(t) = c
  BY <1>2, <1>6
<1>8. \A k, l \in 1 .. c : k < l => pos[k] < pos[l]
  <2> SUFFICES ASSUME NEW k \in 1 .. c, NEW l \in 1 .. c, k < l,
                      ~ (pos[k] < pos[l])
               PROVE  FALSE
    OBVIOUS
  <2>1. pos[k] \in K /\ pos[l] \in K /\ pos[k] \in Nat /\ pos[l] \in Nat
    BY <1>2, <1>4
  <2>2. pos[l] < pos[k] \/ pos[l] = pos[k]
    BY <2>1
  <2>3. pos[l] < pos[k] => Rank(K, pos[l]) < Rank(K, pos[k])
    BY <1>1, <2>1, RankOrder
  <2> QED
    BY <1>2, <1>4, <2>2, <2>3
<1>9. ASSUME NEW i \in 1 .. n, list[i] \in S
      PROVE  \E k \in 1 .. c : pos[k] = i
  <2>1. i \in K /\ i - 1 \in Nat
    BY <1>1, <1>9 DEF K
  <2>2. Rank(K, i) \in 1 .. c
    <3> DEFINE h == i - 1
    <3>1. h \in Nat /\ i \in Nat /\ h < i
      BY <2>1
    <3> HIDE DEF h
    <3>2. Rank(K, h) < Rank(K, i)
      BY <1>1, <2>1, <3>1, RankOrder
    <3>3. Rank(K, h) \in 0 .. c /\ Rank(K, i) \in 0 .. c
      BY <1>1, <3>1, RankSteps DEF c
    <3> QED
      BY <1>2, <3>2, <3>3
  <2> DEFINE p == pos[Rank(K, i)]
  <2>3. p \in K /\ Rank(K, p) = Rank(K, i)
    BY <1>4, <2>2
  <2> HIDE DEF p
  <2>4. p \in Nat /\ i \in Nat
    BY <1>2, <2>1, <2>3
  <2>5. /\ p < i => Rank(K, p) < Rank(K, i)
        /\ i < p => Rank(K, i) < Rank(K, p)
    BY <1>1, <2>1, <2>3, <2>4, RankOrder
  <2>6. p = i
    BY <1>2, <2>2, <2>3, <2>4, <2>5
  <2> QED
    BY <2>2, <2>6 DEF p
<1>10. \A k \in 1 .. c : t[k] = list[pos[k]]
  OBVIOUS
<1> HIDE DEF t
<1> QED
  BY <1>3, <1>5, <1>6, <1>7, <1>8, <1>9, <1>10 DEF n

\* A list is in the order of the times ts.
Sorted(list, ts) ==
    \A i, j \in 1 .. Len(list) : i <= j => ts[list[i]] <= ts[list[j]]

\* What is kept is what was on the list and is in S, each once and in order.
LEMMA KeptFacts ==
  ASSUME NEW list \in Seq(Streams), NEW S
  PROVE  LET t == Kept(list, S)
         IN  /\ t \in Seq(Streams)
             /\ ToSet(t) = ToSet(list) \cap S
             /\ IsInjective(list) => IsInjective(t)
             /\ \A ts : Sorted(list, ts) => Sorted(t, ts)
<1> DEFINE t == Kept(list, S)
<1>1. t \in Seq(Streams)
  BY KeptPlaces
<1>2. PICK pos \in [1 .. Len(t) -> 1 .. Len(list)] :
         /\ \A k \in 1 .. Len(t) :
               t[k] = list[pos[k]] /\ list[pos[k]] \in S
         /\ \A k, l \in 1 .. Len(t) : k < l => pos[k] < pos[l]
         /\ \A i \in 1 .. Len(list) : list[i] \in S =>
               \E k \in 1 .. Len(t) : pos[k] = i
  BY KeptPlaces
<1> HIDE DEF t
<1>3. /\ Len(t) \in Nat /\ DOMAIN t = 1 .. Len(t)
      /\ Len(list) \in Nat /\ DOMAIN list = 1 .. Len(list)
  BY <1>1, LenProperties
<1>4. ToSet(t) = ToSet(list) \cap S
  <2>1. \A k \in 1 .. Len(t) : pos[k] \in 1 .. Len(list)
    BY <1>2
  <2>2. ToSet(t) \subseteq ToSet(list) \cap S
    BY <1>2, <1>3, <2>1 DEF ToSet
  <2>3. ASSUME NEW i \in 1 .. Len(list), list[i] \in S
        PROVE  list[i] \in ToSet(t)
    <3>1. PICK k \in 1 .. Len(t) : pos[k] = i
      BY <1>2, <2>3
    <3> QED
      BY <1>2, <1>3, <3>1 DEF ToSet
  <2> QED
    BY <1>3, <2>2, <2>3 DEF ToSet
<1>5. IsInjective(list) => IsInjective(t)
  <2> SUFFICES ASSUME IsInjective(list), NEW k \in 1 .. Len(t),
                      NEW l \in 1 .. Len(t), t[k] = t[l]
               PROVE  k = l
    BY <1>3 DEF IsInjective
  <2>1. pos[k] = pos[l] /\ pos[k] \in Nat
    BY <1>2, <1>3 DEF IsInjective
  <2>2. ~ (k < l) /\ ~ (l < k)
    BY <1>2, <2>1
  <2> QED
    BY <1>3, <2>2
<1>6. ASSUME NEW ts, Sorted(list, ts) PROVE Sorted(t, ts)
  <2> SUFFICES ASSUME NEW k \in 1 .. Len(t), NEW l \in 1 .. Len(t), k <= l
               PROVE  ts[t[k]] <= ts[t[l]]
    BY DEF Sorted
  <2>1. pos[k] \in 1 .. Len(list) /\ pos[l] \in 1 .. Len(list)
    BY <1>2
  <2>2. pos[k] <= pos[l]
    <3>1. k < l => pos[k] < pos[l]
      BY <1>2
    <3>2. k = l => pos[k] = pos[l]
      OBVIOUS
    <3> QED
      BY <1>3, <2>1, <3>1, <3>2
  <2> QED
    BY <1>2, <1>6, <2>1, <2>2 DEF Sorted
<1> QED
  BY <1>1, <1>4, <1>5, <1>6 DEF t

LEMMA WithoutFacts ==
  ASSUME NEW list \in Seq(Streams), NEW S
  PROVE  LET t == Without(list, S)
         IN  /\ t \in Seq(Streams)
             /\ ToSet(t) = ToSet(list) \ S
             /\ IsInjective(list) => IsInjective(t)
             /\ \A ts : Sorted(list, ts) => Sorted(t, ts)
<1>1. ToSet(list) \subseteq Streams
  BY LenProperties DEF ToSet
<1> QED
  BY <1>1, KeptFacts DEF Without

\* A stream that is added at the end, with the latest time.
LEMMA AppendFacts ==
  ASSUME NEW list \in Seq(Streams), NEW s \in Streams
  PROVE  LET t == Append(list, s)
         IN  /\ t \in Seq(Streams)
             /\ ToSet(t) = ToSet(list) \cup {s}
             /\ IsInjective(list) /\ s \notin ToSet(list) => IsInjective(t)
             /\ \A ts, us :
                   /\ Sorted(list, ts)
                   /\ \A x \in ToSet(list) : us[x] = ts[x]
                   /\ \A x \in ToSet(t) : us[x] <= us[s]
                   => Sorted(t, us)
<1> DEFINE t == Append(list, s)
           n == Len(list)
<1>1. /\ t \in Seq(Streams) /\ Len(t) = n + 1 /\ n \in Nat
      /\ \A k \in 1 .. n : t[k] = list[k]
      /\ t[n + 1] = s
  BY AppendProperties, LenProperties
<1>2. DOMAIN t = 1 .. n + 1 /\ DOMAIN list = 1 .. n
  BY <1>1, LenProperties
<1> HIDE DEF t, n
<1>3. \A k \in 1 .. n + 1 : k \in 1 .. n \/ k = n + 1
  BY <1>1
<1>4. 1 .. n \subseteq 1 .. n + 1 /\ n + 1 \in 1 .. n + 1
  BY <1>1
<1>5. ToSet(t) = ToSet(list) \cup {s}
  BY <1>1, <1>2, <1>3, <1>4 DEF ToSet
<1>6. IsInjective(list) /\ s \notin ToSet(list) => IsInjective(t)
  BY <1>1, <1>2, <1>3 DEF IsInjective, ToSet
<1>7. ASSUME NEW ts, NEW us, Sorted(list, ts),
             \A x \in ToSet(list) : us[x] = ts[x],
             \A x \in ToSet(t) : us[x] <= us[s]
      PROVE  Sorted(t, us)
  <2> SUFFICES ASSUME NEW k \in 1 .. n + 1, NEW l \in 1 .. n + 1, k <= l
               PROVE  us[t[k]] <= us[t[l]]
    BY <1>1 DEF Sorted
  <2>1. CASE l = n + 1
    BY <1>1, <1>2, <1>7, <2>1 DEF ToSet
  <2>2. CASE l # n + 1
    <3>1. k \in 1 .. n /\ l \in 1 .. n
      BY <1>1, <2>2
    <3>2. ts[list[k]] <= ts[list[l]]
      BY <1>7, <3>1 DEF Sorted, n
    <3> QED
      BY <1>1, <1>2, <1>7, <3>1, <3>2 DEF ToSet
  <2> QED
    BY <2>1, <2>2
<1> QED
  BY <1>1, <1>5, <1>6, <1>7 DEF t

\* A stream that goes to the end, with the latest time.
LEMMA ToTailFacts ==
  ASSUME NEW list \in Seq(Streams), NEW s \in Streams
  PROVE  LET t == ToTail(list, s)
         IN  /\ t \in Seq(Streams)
             /\ ToSet(t) = ToSet(list) \cup {s}
             /\ IsInjective(list) => IsInjective(t)
             /\ \A ts, us :
                   /\ Sorted(list, ts)
                   /\ \A x \in ToSet(list) \ {s} : us[x] = ts[x]
                   /\ \A x \in ToSet(t) : us[x] <= us[s]
                   => Sorted(t, us)
<1> DEFINE w == Without(list, {s})
           t == Append(w, s)
<1>1. /\ w \in Seq(Streams) /\ ToSet(w) = ToSet(list) \ {s}
      /\ IsInjective(list) => IsInjective(w)
      /\ \A ts : Sorted(list, ts) => Sorted(w, ts)
  BY WithoutFacts
<1> HIDE DEF w
<1>2. /\ t \in Seq(Streams)
      /\ ToSet(t) = ToSet(w) \cup {s}
      /\ IsInjective(w) /\ s \notin ToSet(w) => IsInjective(t)
      /\ \A ts, us :
            /\ Sorted(w, ts)
            /\ \A x \in ToSet(w) : us[x] = ts[x]
            /\ \A x \in ToSet(t) : us[x] <= us[s]
            => Sorted(t, us)
  BY <1>1, AppendFacts
<1>3. ToTail(list, s) = t
  BY DEF ToTail, w
<1> HIDE DEF t
<1> QED
  BY <1>1, <1>2, <1>3

LEMMA SortedSame ==
  ASSUME NEW list \in Seq(Streams), NEW ts, NEW us, Sorted(list, ts),
         \A x \in ToSet(list) : us[x] = ts[x]
  PROVE  Sorted(list, us)
<1>1. DOMAIN list = 1 .. Len(list)
  BY LenProperties
<1> QED
  BY <1>1 DEF Sorted, ToSet

\* A list that has no stream twice is no longer than there are streams.
LEMMA InjectiveLen ==
  ASSUME NEW list \in Seq(Streams), IsInjective(list)
  PROVE  /\ Len(list) = Cardinality(ToSet(list))
         /\ Len(list) <= Cardinality(Streams)
         /\ ToSet(list) \subseteq Streams
<1> DEFINE n == Len(list)
           D == 1 .. n
           T == ToSet(list)
<1>1. n \in Nat /\ list \in [D -> Streams] /\ DOMAIN list = D
  BY LenProperties
<1>2. T \subseteq Streams
  BY <1>1 DEF ToSet
<1>3. IsFiniteSet(D) /\ Cardinality(D) = n
  BY <1>1, FS_Interval
<1>4. list \in Bijection(D, T)
  BY <1>1 DEF Bijection, Injection, Surjection, IsInjective, ToSet
<1>5. ExistsBijection(D, T)
  BY <1>4 DEF ExistsBijection
<1>6. Cardinality(T) = n
  BY <1>3, <1>5, FS_Bijection
<1>7. Cardinality(T) <= Cardinality(Streams)
  BY <1>2, Sizes, FS_Subset
<1> QED
  BY <1>2, <1>6, <1>7
-----------------------------------------------------------------------------
(* The invariants.                                                          *)

StoreType ==
    [idx : [Streams -> Int], list : [0 .. Hash -> Seq(Streams)], cnt : Int,
     now_idx : 0 .. Hash - 1, now_ts : Nat]

TypeOK ==
    /\ cur_ts \in Nat
    /\ ts_rto \in [Streams -> Nat]
    /\ Store \in StoreType
    /\ state \in [Streams -> {"free", "open", "closed", "TIME_WAIT"}]
    /\ ts_tw_expire \in [Streams -> Nat]
    /\ timewait_list \in Seq(Streams)
    /\ last_active_ts \in [Streams -> Nat]
    /\ timeout_list \in Seq(Streams)
    /\ on_control \subseteq Streams

\* The list of idle connections is in the order of the times they were last
\* active; it has the open streams only, which AddtoTimeoutList relies on.
IdleOrder ==
    /\ IsInjective(timeout_list)
    /\ Sorted(timeout_list, last_active_ts)
    /\ \A s \in Streams : last_active_ts[s] <= cur_ts
    /\ \A s \in ToSet(timeout_list) : state[s] = "open"

\* The list of TIME_WAIT is in the order in which it ends.
TimewaitOrder ==
    /\ IsInjective(timewait_list)
    /\ Sorted(timewait_list, ts_tw_expire)
    /\ \A s \in Streams : ts_tw_expire[s] <= cur_ts + Timewait
    /\ \A s \in ToSet(timewait_list) : state[s] = "TIME_WAIT"

ListsInv ==
    /\ TypeOK
    /\ IdleOrder
    /\ TimewaitOrder
    /\ OneTimerLink

\* IdxIsSlot for a store, where slots are numbered from 0 to Hash.
SlotInv(st) ==
    /\ \A k \in 0 .. Hash :
          /\ IsInjective(st.list[k])
          /\ ToSet(st.list[k]) = {s \in Streams : st.idx[s] = k}
    /\ \A s \in Streams : st.idx[s] \in -1 .. Hash
    /\ st.cnt = Cardinality({s \in Streams : st.idx[s] >= 0})

-----------------------------------------------------------------------------
(* The store.                                                               *)

LEMMA StoreFields ==
  ASSUME NEW st \in StoreType
  PROVE  /\ st.idx \in [Streams -> Int] /\ st.list \in [0 .. Hash -> Seq(Streams)]
         /\ st.cnt \in Int /\ st.now_idx \in 0 .. Hash - 1 /\ st.now_ts \in Nat
  BY DEF StoreType

\* A store is given by its five parts.
LEMMA StoreNext ==
  ASSUME NEW st \in StoreType, StoreIs(st)
  PROVE  Store' = st
  BY DEF StoreType, StoreIs, Store

LEMMA CountFinite ==
  ASSUME NEW st
  PROVE  /\ IsFiniteSet({s \in Streams : st.idx[s] >= 0})
         /\ Cardinality({s \in Streams : st.idx[s] >= 0}) \in Nat
         /\ Cardinality({s \in Streams : st.idx[s] >= 0}) <= Cardinality(Streams)
<1> DEFINE C == {s \in Streams : st.idx[s] >= 0}
<1>1. C \in SUBSET Streams
  OBVIOUS
<1>2. IsFiniteSet(C) /\ Cardinality(C) <= Cardinality(Streams)
  BY <1>1, Sizes, FS_Subset
<1> QED
  BY <1>2, FS_CardinalityType

\* A stream that is taken off its slot.
LEMMA RemoveEffect ==
  ASSUME NEW st \in StoreType, NEW s \in Streams
  PROVE  LET u == RemoveFromRTOList(st, s)
         IN  /\ u \in StoreType
             /\ u.idx[s] < 0
             /\ \A x \in Streams \ {s} : u.idx[x] = st.idx[x]
             /\ SlotInv(st) => SlotInv(u)
<1>1. CASE st.idx[s] < 0
  BY <1>1 DEF RemoveFromRTOList
<1>2. CASE ~ (st.idx[s] < 0)
  <2> DEFINE k0 == st.idx[s]
             w == Without(st.list[k0], {s})
             i == [st.idx EXCEPT ![s] = -1]
             l == [st.list EXCEPT ![k0] = w]
             u == [st EXCEPT !.list = l, !.idx = i, !.cnt = st.cnt - 1]
  <2>0. /\ st.idx \in [Streams -> Int] /\ st.list \in [0 .. Hash -> Seq(Streams)]
        /\ st.cnt \in Int /\ st.now_idx \in 0 .. Hash - 1 /\ st.now_ts \in Nat
    BY StoreFields
  <2>1. k0 \in 0 .. Hash => st.list[k0] \in Seq(Streams)
    BY <2>0
  <2>2. k0 \in 0 .. Hash =>
          /\ w \in Seq(Streams) /\ ToSet(w) = ToSet(st.list[k0]) \ {s}
          /\ IsInjective(st.list[k0]) => IsInjective(w)
    BY <2>1, WithoutFacts
  <2>3. RemoveFromRTOList(st, s) = u
    BY <1>2, <2>0 DEF RemoveFromRTOList, StoreType
  <2>4. k0 \in Int /\ k0 >= 0
    BY <1>2, <2>0
  <2>5. i \in [Streams -> Int] /\ l \in [0 .. Hash -> Seq(Streams)]
        /\ st.cnt - 1 \in Int
    <3>1. i \in [Streams -> Int] /\ st.cnt - 1 \in Int
      BY <2>0
    <3>2. CASE k0 \in 0 .. Hash
      <4>1. w \in Seq(Streams)
        BY <2>2, <3>2
      <4> HIDE DEF w, k0, i
      <4> QED
        BY <2>0, <3>1, <4>1
    <3>3. CASE k0 \notin 0 .. Hash
      <4>1. l = st.list
        <5> HIDE DEF w, k0
        <5> QED
          BY <2>0, <3>3
      <4> HIDE DEF l, i
      <4> QED
        BY <2>0, <3>1, <4>1
    <3> QED
      BY <3>2, <3>3
  <2>6. /\ i[s] = -1 /\ \A x \in Streams \ {s} : i[x] = st.idx[x]
    BY <2>0
  <2>7. \A k \in 0 .. Hash : l[k] = IF k = k0 THEN w ELSE st.list[k]
    BY <2>0
  <2> HIDE DEF w, i, l
  <2>8. /\ u \in StoreType /\ u.idx = i /\ u.list = l /\ u.cnt = st.cnt - 1
    BY <2>0, <2>5 DEF StoreType
  <2> HIDE DEF u
  <2>9. ASSUME SlotInv(st) PROVE SlotInv(u)
    <3>1. k0 \in 0 .. Hash
      BY <2>4, <2>9 DEF SlotInv
    <3>2. ASSUME NEW k \in 0 .. Hash
          PROVE  /\ IsInjective(u.list[k])
                 /\ ToSet(u.list[k]) = {x \in Streams : u.idx[x] = k}
      <4>1. IsInjective(st.list[k])
            /\ ToSet(st.list[k]) = {x \in Streams : st.idx[x] = k}
        BY <2>9 DEF SlotInv
      <4>2. i[s] # k
        BY <2>6
      <4>3. CASE k = k0
        <5>1. u.list[k] = w
          BY <2>7, <2>8, <4>3
        <5>2. {x \in Streams : i[x] = k} = {x \in Streams : st.idx[x] = k} \ {s}
          BY <2>6, <4>2
        <5> QED
          BY <2>2, <2>8, <3>1, <4>1, <4>3, <5>1, <5>2
      <4>4. CASE k # k0
        <5>1. u.list[k] = st.list[k]
          BY <2>7, <2>8, <4>4
        <5>2. {x \in Streams : i[x] = k} = {x \in Streams : st.idx[x] = k}
          BY <2>6, <4>2, <4>4
        <5> QED
          BY <2>8, <4>1, <5>1, <5>2
      <4> QED
        BY <4>3, <4>4
    <3>3. \A x \in Streams : u.idx[x] \in -1 .. Hash
      BY <2>6, <2>8, <2>9, Sizes DEF SlotInv
    <3>4. u.cnt = Cardinality({x \in Streams : u.idx[x] >= 0})
      <4> DEFINE C == {x \in Streams : st.idx[x] >= 0}
      <4>1. {x \in Streams : i[x] >= 0} = C \ {s}
        BY <2>6
      <4>2. s \in C
        BY <2>4
      <4>3. IsFiniteSet(C)
        BY CountFinite
      <4>4. Cardinality(C \ {s}) = Cardinality(C) - 1
        BY <4>2, <4>3, FS_RemoveElement
      <4>5. st.cnt = Cardinality(C)
        BY <2>9 DEF SlotInv
      <4> QED
        BY <2>8, <4>1, <4>4, <4>5
    <3> QED
      BY <3>2, <3>3, <3>4 DEF SlotInv
  <2> QED
    BY <2>3, <2>6, <2>8, <2>9
<1> QED
  BY <1>1, <1>2

\* A stream that is on no slot goes to the one for its time.
LEMMA AddEffect ==
  ASSUME NEW st \in StoreType, NEW s \in Streams, NEW ts \in Nat, st.idx[s] < 0
  PROVE  LET u == AddtoRTOList(st, s, ts)
         IN  /\ u \in StoreType
             /\ \A x \in Streams \ {s} : u.idx[x] = st.idx[x]
             /\ SlotInv(st) => SlotInv(u)
<1> DEFINE r == IF st.cnt = 0 THEN [st EXCEPT !.now_idx = 0, !.now_ts = ts]
                ELSE st
           slot == IF ts - r.now_ts < Hash THEN ts % Hash ELSE Hash
           a == Append(r.list[slot], s)
           i == [r.idx EXCEPT ![s] = slot]
           l == [r.list EXCEPT ![slot] = a]
           u == [r EXCEPT !.list = l, !.idx = i, !.cnt = r.cnt + 1]
<1>0. /\ st.idx \in [Streams -> Int] /\ st.list \in [0 .. Hash -> Seq(Streams)]
      /\ st.cnt \in Int /\ st.now_idx \in 0 .. Hash - 1 /\ st.now_ts \in Nat
  BY StoreFields
<1>1. /\ r \in StoreType /\ r.idx = st.idx /\ r.list = st.list
      /\ r.cnt = st.cnt
  <2>1. 0 \in 0 .. Hash - 1
    BY Sizes
  <2> QED
    BY <1>0, <2>1 DEF StoreType
<1>2. AddtoRTOList(st, s, ts) = u
  <2>1. ~ (r.idx[s] >= 0)
    BY <1>0, <1>1
  <2>2. u = [r EXCEPT !.list[slot] = Append(@, s), !.idx[s] = slot,
                      !.cnt = @ + 1]
    <3> HIDE DEF r, slot
    <3> QED
      BY <1>1 DEF StoreType
  <2> HIDE DEF u
  <2> QED
    BY <2>1, <2>2 DEF AddtoRTOList
<1>3. slot \in 0 .. Hash
  <2>1. ts % Hash \in 0 .. Hash
    BY Sizes
  <2> HIDE DEF r
  <2> QED
    BY <2>1, Sizes
<1> HIDE DEF r, slot
<1>4. st.list[slot] \in Seq(Streams)
  BY <1>0, <1>3
<1>5. /\ a \in Seq(Streams) /\ ToSet(a) = ToSet(st.list[slot]) \cup {s}
      /\ IsInjective(st.list[slot]) /\ s \notin ToSet(st.list[slot])
           => IsInjective(a)
  BY <1>1, <1>4, AppendFacts
<1> HIDE DEF a
<1>6. /\ i \in [Streams -> Int] /\ l \in [0 .. Hash -> Seq(Streams)]
      /\ r.cnt + 1 \in Int
  BY <1>0, <1>1, <1>3, <1>5
<1>7. /\ i[s] = slot /\ \A x \in Streams \ {s} : i[x] = st.idx[x]
  BY <1>0, <1>1
<1>8. \A k \in 0 .. Hash : l[k] = IF k = slot THEN a ELSE st.list[k]
  BY <1>0, <1>1
<1> HIDE DEF i, l
<1>9. u \in StoreType /\ u.idx = i /\ u.list = l /\ u.cnt = st.cnt + 1
  BY <1>1, <1>6 DEF StoreType
<1> HIDE DEF u
<1>10. ASSUME SlotInv(st) PROVE SlotInv(u)
  <2>1. st.idx[s] = -1
    BY <1>0, <1>10 DEF SlotInv
  <2>2. ASSUME NEW k \in 0 .. Hash
        PROVE  /\ IsInjective(u.list[k])
               /\ ToSet(u.list[k]) = {x \in Streams : u.idx[x] = k}
    <3>1. IsInjective(st.list[k])
          /\ ToSet(st.list[k]) = {x \in Streams : st.idx[x] = k}
      BY <1>10 DEF SlotInv
    <3>2. s \notin ToSet(st.list[k])
      BY <2>1, <3>1
    <3>3. CASE k = slot
      <4>1. u.list[k] = a
        BY <1>8, <1>9, <3>3
      <4>2. {x \in Streams : i[x] = k} = {x \in Streams : st.idx[x] = k} \cup {s}
        BY <1>7, <3>3
      <4> QED
        BY <1>5, <1>9, <3>1, <3>2, <3>3, <4>1, <4>2
    <3>4. CASE k # slot
      <4>1. u.list[k] = st.list[k]
        BY <1>8, <1>9, <3>4
      <4>2. {x \in Streams : i[x] = k} = {x \in Streams : st.idx[x] = k}
        BY <1>7, <2>1, <3>4
      <4> QED
        BY <1>9, <3>1, <4>1, <4>2
    <3> QED
      BY <3>3, <3>4
  <2>3. \A x \in Streams : u.idx[x] \in -1 .. Hash
    BY <1>3, <1>7, <1>9, <1>10 DEF SlotInv
  <2>4. u.cnt = Cardinality({x \in Streams : u.idx[x] >= 0})
    <3> DEFINE C == {x \in Streams : st.idx[x] >= 0}
    <3>1. {x \in Streams : i[x] >= 0} = C \cup {s}
      <4>1. slot >= 0
        BY <1>3
      <4> QED
        BY <1>7, <4>1
    <3>2. s \notin C
      BY <2>1
    <3>3. IsFiniteSet(C)
      BY CountFinite
    <3>4. Cardinality(C \cup {s}) = Cardinality(C) + 1
      BY <3>2, <3>3, FS_AddElement
    <3>5. st.cnt = Cardinality(C)
      BY <1>10 DEF SlotInv
    <3> QED
      BY <1>9, <3>1, <3>4, <3>5
  <2> QED
    BY <2>2, <2>3, <2>4 DEF SlotInv
<1> QED
  BY <1>2, <1>7, <1>9, <1>10

\* The current slot moves on: the slots and their streams stay as they are.
LEMMA MovedEffect ==
  ASSUME NEW st \in StoreType, NEW ts \in Nat
  PROVE  LET u == MovedTo(st, ts)
         IN  /\ u \in StoreType
             /\ u.idx = st.idx /\ u.list = st.list /\ u.cnt = st.cnt
             /\ SlotInv(st) => SlotInv(u)
<1> DEFINE m == (st.now_idx + (ts - st.now_ts)) % Hash
           u == [st EXCEPT !.now_idx = m, !.now_ts = ts]
<1>1. m \in 0 .. Hash - 1
  BY StoreFields, Sizes
<1>2. MovedTo(st, ts) = u
  BY DEF MovedTo, StoreType
<1> HIDE DEF m
<1>3. /\ u \in StoreType
      /\ u.idx = st.idx /\ u.list = st.list /\ u.cnt = st.cnt
  BY <1>1 DEF StoreType
<1> HIDE DEF u
<1> QED
  BY <1>2, <1>3 DEF SlotInv

LEMMA EmptyList ==
  ASSUME NEW list \in Seq(Streams)
  PROVE  ToSet(list) = {} <=> list = << >>
<1>1. DOMAIN list = 1 .. Len(list) /\ Len(list) \in Nat
  BY LenProperties
<1>2. ToSet(<< >>) = {}
  BY DEF ToSet
<1>3. ASSUME list # << >> PROVE ToSet(list) # {}
  <2>1. Len(list) \in Nat \ {0}
    BY <1>3, EmptySeq
  <2>2. 1 \in DOMAIN list
    BY <1>1, <2>1
  <2>3. list[1] \in ToSet(list)
    BY <2>2 DEF ToSet
  <2> QED
    BY <2>3
<1> QED
  BY <1>2, <1>3

\* Streams due later move to a slot; where there are none, nothing changes.
LEMMA RearrangeEffect ==
  ASSUME NEW st \in StoreType, ts_rto \in [Streams -> Nat]
  PROVE  LET u == RearrangeRTOStore(st)
         IN  /\ u \in StoreType
             /\ \A x \in Streams : st.idx[x] < 0 => u.idx[x] = st.idx[x]
             /\ SlotInv(st) /\ (\A x \in Streams : st.idx[x] # Hash)
                  => SlotInv(u)
<1> DEFINE Offset(s) == CRem((st.now_ts - ts_rto[s]) + st.now_idx, Hash)
           moved == {s \in Streams : /\ st.idx[s] = Hash
                                     /\ st.now_ts - ts_rto[s] < Hash}
           i == [s \in Streams |-> IF s \in moved THEN Offset(s) ELSE st.idx[s]]
           later(k) == Kept(st.list[Hash], {s \in moved : Offset(s) = k})
           l == [k \in 0 .. Hash |->
                   IF k = Hash THEN Without(st.list[k], moved)
                   ELSE st.list[k] \o later(k)]
           u == [st EXCEPT !.idx = i, !.list = l]
<1>0. /\ st.idx \in [Streams -> Int] /\ st.list \in [0 .. Hash -> Seq(Streams)]
      /\ st.cnt \in Int /\ st.now_idx \in 0 .. Hash - 1 /\ st.now_ts \in Nat
  BY StoreFields
<1>1. RearrangeRTOStore(st) = u
  BY DEF RearrangeRTOStore, StoreType
<1>2. \A s \in Streams : Offset(s) \in Int
  <2> TAKE s \in Streams
  <2> DEFINE a == (st.now_ts - ts_rto[s]) + st.now_idx
  <2>1. a \in Int
    BY <1>0
  <2> HIDE DEF a
  <2>2. CRem(a, Hash) \in Int
    BY <2>1, Sizes DEF CRem
  <2> QED
    BY <2>2 DEF a
<1> HIDE DEF Offset
<1>3. i \in [Streams -> Int]
  BY <1>0, <1>2
<1>4. st.list[Hash] \in Seq(Streams) /\ \A k \in 0 .. Hash : st.list[k] \in Seq(Streams)
  BY <1>0, Sizes
<1>5. \A k : later(k) \in Seq(Streams)
             /\ ToSet(later(k)) \subseteq ToSet(st.list[Hash])
  BY <1>4, KeptFacts
<1>6. /\ Without(st.list[Hash], moved) \in Seq(Streams)
      /\ ToSet(Without(st.list[Hash], moved)) = ToSet(st.list[Hash]) \ moved
      /\ IsInjective(st.list[Hash]) =>
           IsInjective(Without(st.list[Hash], moved))
  BY <1>4, WithoutFacts
<1> HIDE DEF later
<1>7. l \in [0 .. Hash -> Seq(Streams)]
  <2>1. ASSUME NEW k \in 0 .. Hash PROVE st.list[k] \o later(k) \in Seq(Streams)
    BY <1>4, <1>5, ConcatProperties
  <2> HIDE DEF moved
  <2> QED
    BY <1>6, <2>1
<1>8. \A x \in Streams : st.idx[x] < 0 => i[x] = st.idx[x]
  BY <1>0, Sizes
<1>9. ASSUME SlotInv(st), \A x \in Streams : st.idx[x] # Hash
      PROVE  SlotInv(u)
  <2>1. moved = {}
    BY <1>9
  <2>2. i = st.idx
    BY <1>0, <2>1
  <2>3. ToSet(st.list[Hash]) = {} /\ st.list[Hash] = << >>
    <3>1. ToSet(st.list[Hash]) = {x \in Streams : st.idx[x] = Hash}
      BY <1>9, Sizes DEF SlotInv
    <3>2. ToSet(st.list[Hash]) = {}
      BY <1>9, <3>1
    <3> QED
      BY <1>4, <3>2, EmptyList
  <2>4. \A k : later(k) = << >>
    BY <1>5, <2>3, EmptyList
  <2>5. \A k \in 0 .. Hash : st.list[k] \o << >> = st.list[k]
    BY <1>4, ConcatEmptySeq
  <2>6. Without(st.list[Hash], moved) = << >>
    BY <1>6, <2>3, EmptyList
  <2>7. \A k \in 0 .. Hash : l[k] = st.list[k]
    <3> HIDE DEF moved
    <3> QED
      BY <2>3, <2>4, <2>5, <2>6
  <2>8. u.list = l /\ u.idx = st.idx /\ u.cnt = st.cnt
    <3> HIDE DEF l, i
    <3> QED
      BY <2>2 DEF StoreType
  <2> HIDE DEF u, l
  <2> QED
    BY <1>9, <2>7, <2>8 DEF SlotInv
<1>10. u \in StoreType /\ u.idx = i
  <2> HIDE DEF i, l
  <2> QED
    BY <1>3, <1>7 DEF StoreType
<1> HIDE DEF u, i
<1> QED
  BY <1>1, <1>8, <1>9, <1>10

\* The current slot moves on over the time that has passed.
LEMMA AdvancedEffect ==
  ASSUME NEW st \in StoreType, ts_rto \in [Streams -> Nat], cur_ts \in Nat
  PROVE  LET u == Advanced(st)
         IN  /\ u \in StoreType
             /\ \A x \in Streams : st.idx[x] < 0 => u.idx[x] = st.idx[x]
             /\ SlotInv(st) /\ (\A x \in Streams : st.idx[x] # Hash)
                  => SlotInv(u)
<1> DEFINE stops == {ts \in st.now_ts + 1 .. cur_ts + 1 :
                       MovedTo(st, ts).now_idx % Every = 0}
           first == CHOOSE ts \in stops : \A t \in stops : ts <= t
           m == MovedTo(st, first)
           r == IF stops = {} THEN st ELSE RearrangeRTOStore(m)
<1>1. Advanced(st) = MovedTo(r, cur_ts + 1)
  BY DEF Advanced
<1>2. stops \subseteq Nat
  BY StoreFields
<1> HIDE DEF stops
<1>3. stops # {} => first \in Nat
  <2>1. stops # {} => \E ts \in stops : \A t \in stops : ts <= t
    BY <1>2, LeastNumber
  <2> QED
    BY <1>2, <2>1
<1> HIDE DEF first
<1>4. stops # {} =>
        /\ m \in StoreType
        /\ m.idx = st.idx
        /\ SlotInv(st) => SlotInv(m)
  BY <1>3, MovedEffect
<1> HIDE DEF m
<1>5. stops # {} =>
        LET v == RearrangeRTOStore(m)
        IN  /\ v \in StoreType
            /\ \A x \in Streams : m.idx[x] < 0 => v.idx[x] = m.idx[x]
            /\ SlotInv(m) /\ (\A x \in Streams : m.idx[x] # Hash) => SlotInv(v)
  BY <1>4, RearrangeEffect
<1>6. /\ r \in StoreType
      /\ \A x \in Streams : st.idx[x] < 0 => r.idx[x] = st.idx[x]
      /\ SlotInv(st) /\ (\A x \in Streams : st.idx[x] # Hash) => SlotInv(r)
  BY <1>4, <1>5
<1> HIDE DEF r
<1>7. cur_ts + 1 \in Nat
  OBVIOUS
<1>8. LET v == MovedTo(r, cur_ts + 1)
      IN  v \in StoreType /\ v.idx = r.idx /\ (SlotInv(r) => SlotInv(v))
  BY <1>6, <1>7, MovedEffect
<1> QED
  BY <1>1, <1>6, <1>8
-----------------------------------------------------------------------------
(* The operations on the store.                                             *)

\* Streams that are destroyed leave their slots.
LEMMA LeaveEffect ==
  ASSUME NEW st \in StoreType, NEW D \in SUBSET Streams
  PROVE  LET u == [st EXCEPT
                     !.list = [k \in 0 .. Hash |-> Without(st.list[k], D)],
                     !.idx = [s \in Streams |-> IF s \in D THEN -1
                                                ELSE st.idx[s]],
                     !.cnt = st.cnt - Cardinality({s \in D : st.idx[s] >= 0})]
         IN  /\ u \in StoreType
             /\ \A x \in Streams : st.idx[x] < 0 => u.idx[x] < 0
             /\ SlotInv(st) => SlotInv(u)
<1> DEFINE l == [k \in 0 .. Hash |-> Without(st.list[k], D)]
           i == [s \in Streams |-> IF s \in D THEN -1 ELSE st.idx[s]]
           c == st.cnt - Cardinality({s \in D : st.idx[s] >= 0})
           u == [st EXCEPT !.list = l, !.idx = i, !.cnt = c]
           C == {x \in Streams : st.idx[x] >= 0}
<1>0. /\ st.idx \in [Streams -> Int] /\ st.list \in [0 .. Hash -> Seq(Streams)]
      /\ st.cnt \in Int /\ st.now_idx \in 0 .. Hash - 1 /\ st.now_ts \in Nat
  BY StoreFields
<1>1. \A k \in 0 .. Hash :
         /\ Without(st.list[k], D) \in Seq(Streams)
         /\ ToSet(Without(st.list[k], D)) = ToSet(st.list[k]) \ D
         /\ IsInjective(st.list[k]) => IsInjective(Without(st.list[k], D))
  <2> TAKE k \in 0 .. Hash
  <2>1. st.list[k] \in Seq(Streams)
    BY <1>0
  <2> QED
    BY <2>1, WithoutFacts
<1>2. IsFiniteSet(C) /\ Cardinality(C) \in Nat
  BY CountFinite
<1>3. {s \in D : st.idx[s] >= 0} = C \cap D
  OBVIOUS
<1>4. /\ Cardinality(C \ D) = Cardinality(C) - Cardinality(C \cap D)
      /\ Cardinality(C \cap D) \in Nat
  <2>1. Cardinality(C \ D) = Cardinality(C) - Cardinality(C \cap D)
    BY <1>2, FS_Difference
  <2>2. C \cap D \in SUBSET C
    OBVIOUS
  <2>3. IsFiniteSet(C \cap D)
    BY <1>2, <2>2, FS_Subset
  <2> QED
    BY <2>1, <2>3, FS_CardinalityType
<1>5. l \in [0 .. Hash -> Seq(Streams)] /\ i \in [Streams -> Int]
  BY <1>0, <1>1
<1>6. c \in Int
  <2>1. c = st.cnt - Cardinality(C \cap D)
    BY <1>3
  <2> HIDE DEF c, C
  <2> QED
    BY <1>0, <1>4, <2>1
<1>7. \A k \in 0 .. Hash : l[k] = Without(st.list[k], D)
  OBVIOUS
<1>8. \A x \in Streams : i[x] = IF x \in D THEN -1 ELSE st.idx[x]
  OBVIOUS
<1>9. c = st.cnt - Cardinality(C \cap D)
  BY <1>3
<1> HIDE DEF l, i, c
<1>10. u \in StoreType /\ u.idx = i /\ u.list = l /\ u.cnt = c
  BY <1>5, <1>6 DEF StoreType
<1> HIDE DEF u
<1>11. ASSUME SlotInv(st) PROVE SlotInv(u)
  <2>1. ASSUME NEW k \in 0 .. Hash
        PROVE  /\ IsInjective(u.list[k])
               /\ ToSet(u.list[k]) = {x \in Streams : u.idx[x] = k}
    <3>1. IsInjective(st.list[k])
          /\ ToSet(st.list[k]) = {x \in Streams : st.idx[x] = k}
      BY <1>11 DEF SlotInv
    <3>2. -1 # k
      OBVIOUS
    <3>3. {x \in Streams : i[x] = k} = {x \in Streams : st.idx[x] = k} \ D
      BY <1>8, <3>2
    <3> QED
      BY <1>1, <1>7, <1>10, <3>1, <3>3
  <2>2. \A x \in Streams : u.idx[x] \in -1 .. Hash
    BY <1>8, <1>10, <1>11, Sizes DEF SlotInv
  <2>3. u.cnt = Cardinality({x \in Streams : u.idx[x] >= 0})
    <3>1. {x \in Streams : i[x] >= 0} = C \ D
      BY <1>8
    <3>2. st.cnt = Cardinality(C)
      BY <1>11 DEF SlotInv
    <3> HIDE DEF C
    <3> QED
      BY <1>4, <1>9, <1>10, <3>1, <3>2
  <2> QED
    BY <2>1, <2>2, <2>3 DEF SlotInv
<1>12. \A x \in Streams : st.idx[x] < 0 => i[x] < 0
  BY <1>8
<1> QED
  BY <1>10, <1>11, <1>12 DEF u, l, i, c

\* The streams of the current slot, or Thresh of them, are taken off; where
\* Thresh is the number of streams at least, no stream is left in the slot, and
\* the slot moves on only when no stream is left in any.
LEMMA CheckEffect ==
  ASSUME NEW st \in StoreType, ts_rto \in [Streams -> Nat], cur_ts \in Nat
  PROVE  LET due == st.list[st.now_idx]
             n == IF Len(due) < Thresh THEN Len(due) ELSE Thresh
             handled == {due[k] : k \in 1 .. n}
             u == [st EXCEPT
                     !.list[st.now_idx] = SubSeq(due, n + 1, Len(due)),
                     !.idx = [s \in Streams |->
                                IF s \in handled THEN -1 ELSE st.idx[s]],
                     !.cnt = st.cnt - n]
             v == IF n < Thresh THEN u ELSE Advanced(u)
         IN  /\ v \in StoreType
             /\ \A x \in Streams : st.idx[x] < 0 => v.idx[x] < 0
             /\ Cardinality(Streams) <= Thresh /\ SlotInv(st) => SlotInv(v)
<1> DEFINE k0 == st.now_idx
           due == st.list[k0]
           n == IF Len(due) < Thresh THEN Len(due) ELSE Thresh
           handled == {due[k] : k \in 1 .. n}
           rest == SubSeq(due, n + 1, Len(due))
           l == [st.list EXCEPT ![k0] = rest]
           i == [s \in Streams |-> IF s \in handled THEN -1 ELSE st.idx[s]]
           u == [st EXCEPT !.list = l, !.idx = i, !.cnt = st.cnt - n]
           v == IF n < Thresh THEN u ELSE Advanced(u)
           C == {x \in Streams : st.idx[x] >= 0}
<1>0. /\ st.idx \in [Streams -> Int] /\ st.list \in [0 .. Hash -> Seq(Streams)]
      /\ st.cnt \in Int /\ st.now_idx \in 0 .. Hash - 1 /\ st.now_ts \in Nat
  BY StoreFields
<1>1. k0 \in 0 .. Hash
  BY <1>0, Sizes
<1>2. /\ due \in Seq(Streams) /\ Len(due) \in Nat /\ DOMAIN due = 1 .. Len(due)
      /\ \A j \in 1 .. Len(due) : due[j] \in Streams
  <2>1. due \in Seq(Streams)
    BY <1>0, <1>1
  <2> HIDE DEF due
  <2> QED
    BY <2>1, LenProperties
<1>2a. u = [st EXCEPT !.list[st.now_idx] = rest, !.idx = i, !.cnt = st.cnt - n]
  <2> HIDE DEF rest, i, n
  <2> QED
    BY DEF StoreType
<1> HIDE DEF due, k0
<1>3. n \in Nat /\ n <= Len(due)
  BY <1>2, Sizes
<1>4. rest \in Seq(Streams)
  <2> HIDE DEF n
  <2>1. \A j \in n + 1 .. Len(due) : due[j] \in Streams
    BY <1>2, <1>3
  <2>2. n + 1 \in Int /\ Len(due) \in Int
    BY <1>2, <1>3
  <2> QED
    BY <2>1, <2>2, SubSeqProperties
<1>5. (Len(due) <= Thresh => n = Len(due)) /\ (n < Thresh \/ n = Thresh)
  <2>1. Len(due) \in Nat /\ Thresh \in Nat
    BY <1>2, Sizes
  <2>2. ~ (Len(due) < Thresh) /\ Len(due) <= Thresh => Len(due) = Thresh
    BY <2>1
  <2> QED
    BY <2>2
<1>6. n = Len(due) => rest = << >> /\ handled = ToSet(due)
  <2> HIDE DEF n
  <2>1. Len(due) < Len(due) + 1 /\ Len(due) + 1 \in Int /\ Len(due) \in Int
    BY <1>2
  <2>2. SubSeq(due, Len(due) + 1, Len(due)) = << >>
    BY <2>1, SubSeqEmpty
  <2> QED
    BY <1>2, <2>2 DEF ToSet
<1> HIDE DEF n
<1>7. /\ i \in [Streams -> Int] /\ l \in [0 .. Hash -> Seq(Streams)]
      /\ st.cnt - n \in Int
  <2>1. i \in [Streams -> Int] /\ st.cnt - n \in Int
    BY <1>0, <1>3
  <2> HIDE DEF i, rest
  <2> QED
    BY <1>0, <1>4, <2>1
<1>8. \A x \in Streams : i[x] = IF x \in handled THEN -1 ELSE st.idx[x]
  OBVIOUS
<1>9. \A k \in 0 .. Hash : l[k] = IF k = k0 THEN rest ELSE st.list[k]
  BY <1>0
<1> HIDE DEF l, i, rest, handled
<1>10. u \in StoreType /\ u.idx = i /\ u.list = l /\ u.cnt = st.cnt - n
  BY <1>7 DEF StoreType
<1> HIDE DEF u
<1>11. /\ Advanced(u) \in StoreType
       /\ \A x \in Streams : u.idx[x] < 0 => Advanced(u).idx[x] = u.idx[x]
       /\ SlotInv(u) /\ (\A x \in Streams : u.idx[x] # Hash)
            => SlotInv(Advanced(u))
  BY <1>10, AdvancedEffect
<1>12. v \in StoreType /\ \A x \in Streams : st.idx[x] < 0 => v.idx[x] < 0
  <2>1. \A x \in Streams : st.idx[x] < 0 => u.idx[x] < 0
    BY <1>8, <1>10
  <2> QED
    BY <1>10, <1>11, <2>1
<1>13. ASSUME Cardinality(Streams) <= Thresh, SlotInv(st) PROVE SlotInv(v)
  <2>1. IsInjective(due) /\ ToSet(due) = {x \in Streams : st.idx[x] = k0}
    BY <1>1, <1>13 DEF SlotInv, due
  <2>2. Len(due) = Cardinality(ToSet(due)) /\ Len(due) <= Cardinality(Streams)
    BY <1>2, <2>1, InjectiveLen
  <2>3. n = Len(due) /\ rest = << >> /\ handled = {x \in Streams : st.idx[x] = k0}
    <3>1. Len(due) <= Thresh
      BY <1>2, <1>13, <2>2, Sizes
    <3> QED
      BY <1>5, <1>6, <2>1, <3>1
  <2>4. SlotInv(u)
    <3>1. ASSUME NEW k \in 0 .. Hash
          PROVE  /\ IsInjective(u.list[k])
                 /\ ToSet(u.list[k]) = {x \in Streams : u.idx[x] = k}
      <4>1. IsInjective(st.list[k])
            /\ ToSet(st.list[k]) = {x \in Streams : st.idx[x] = k}
        BY <1>13 DEF SlotInv
      <4>2. -1 # k
        OBVIOUS
      <4>3. CASE k = k0
        <5>1. u.list[k] = << >>
          BY <1>9, <1>10, <2>3, <4>3
        <5>2. {x \in Streams : i[x] = k} = {}
          BY <1>8, <2>3, <4>2, <4>3
        <5>3. IsInjective(<< >>) /\ ToSet(<< >>) = {}
          BY DEF IsInjective, ToSet
        <5> QED
          BY <1>10, <5>1, <5>2, <5>3
      <4>4. CASE k # k0
        <5>1. u.list[k] = st.list[k]
          BY <1>9, <1>10, <4>4
        <5>2. {x \in Streams : i[x] = k} = {x \in Streams : st.idx[x] = k}
          BY <1>8, <2>3, <4>2, <4>4
        <5> QED
          BY <1>10, <4>1, <5>1, <5>2
      <4> QED
        BY <4>3, <4>4
    <3>2. \A x \in Streams : u.idx[x] \in -1 .. Hash
      BY <1>8, <1>10, <1>13, Sizes DEF SlotInv
    <3>3. u.cnt = Cardinality({x \in Streams : u.idx[x] >= 0})
      <4>1. {x \in Streams : i[x] >= 0} = C \ handled
        BY <1>8
      <4>2. C \cap handled = ToSet(due)
        <5>1. k0 >= 0
          BY <1>1
        <5>2. handled \subseteq C
          BY <2>3, <5>1
        <5> QED
          BY <2>1, <2>3, <5>2
      <4>3. st.cnt = Cardinality(C)
        BY <1>13 DEF SlotInv
      <4>4. IsFiniteSet(C)
        BY CountFinite
      <4>5. Cardinality(C \ handled) = Cardinality(C) - Cardinality(C \cap handled)
        BY <4>4, FS_Difference
      <4> HIDE DEF C
      <4> QED
        BY <1>10, <2>2, <2>3, <4>1, <4>2, <4>3, <4>5
    <3> QED
      BY <3>1, <3>2, <3>3 DEF SlotInv
  <2>5. ASSUME n = Thresh PROVE \A x \in Streams : u.idx[x] # Hash
    <3>1. Cardinality(Streams) = Cardinality(ToSet(due))
      BY <1>2, <1>13, <2>2, <2>3, <2>5, Sizes
    <3>2. ToSet(due) \in SUBSET Streams
      BY <2>1
    <3>3. Streams = ToSet(due)
      BY <3>1, <3>2, Sizes, FS_Subset
    <3>4. -1 # Hash
      BY Sizes
    <3> QED
      BY <1>8, <1>10, <2>1, <2>3, <3>3, <3>4
  <2> QED
    BY <1>5, <1>11, <2>4, <2>5, Sizes
<1> HIDE DEF v
<1> QED
  BY <1>2a, <1>12, <1>13 DEF v, due, n, handled, i, rest, k0
-----------------------------------------------------------------------------
(* The steps.                                                               *)

\* IdxIsSlot, with the range of on_rto_idx
SlotsInv == SlotInv(Store)

LEMMA TypeFacts ==
  ASSUME TypeOK
  PROVE  /\ cur_ts \in Nat /\ ts_rto \in [Streams -> Nat]
         /\ Store \in StoreType
         /\ on_rto_idx \in [Streams -> Int] /\ Store.idx = on_rto_idx
         /\ rto_list \in [0 .. Hash -> Seq(Streams)] /\ Store.list = rto_list
         /\ Store.cnt = rto_list_cnt /\ Store.now_idx = rto_now_idx
         /\ state \in [Streams -> {"free", "open", "closed", "TIME_WAIT"}]
         /\ ts_tw_expire \in [Streams -> Nat]
         /\ timewait_list \in Seq(Streams)
         /\ last_active_ts \in [Streams -> Nat]
         /\ timeout_list \in Seq(Streams)
         /\ on_control \subseteq Streams
<1>1. /\ Store.idx = on_rto_idx /\ Store.list = rto_list
      /\ Store.cnt = rto_list_cnt /\ Store.now_idx = rto_now_idx
  BY DEF Store
<1>2. Store \in StoreType
  BY DEF TypeOK
<1> QED
  BY <1>1, <1>2, StoreFields DEF TypeOK

\* A step that changes the store only, and puts no stream that waits in
\* TIME_WAIT on a slot.
LEMMA StoreStep ==
  ASSUME ListsInv, NEW st \in StoreType, StoreIs(st),
         ts_rto' \in [Streams -> Nat],
         UNCHANGED <<cur_ts, state, waits, idles, on_control>>,
         \A x \in ToSet(timewait_list) : st.idx[x] < 0
  PROVE  ListsInv' /\ Store' = st
<1>1. Store' = st /\ on_rto_idx' = st.idx
  BY StoreNext DEF StoreIs
<1>2. /\ cur_ts' = cur_ts /\ state' = state /\ on_control' = on_control
      /\ ts_tw_expire' = ts_tw_expire /\ timewait_list' = timewait_list
      /\ last_active_ts' = last_active_ts /\ timeout_list' = timeout_list
  BY DEF waits, idles
<1>3. TypeOK'
  BY <1>1, <1>2 DEF ListsInv, TypeOK
<1>4. IdleOrder'
  BY <1>2 DEF ListsInv, IdleOrder
<1>5. TimewaitOrder'
  BY <1>2 DEF ListsInv, TimewaitOrder
<1>6. OneTimerLink'
  BY <1>1, <1>2 DEF OneTimerLink
<1> QED
  BY <1>1, <1>3, <1>4, <1>5, <1>6 DEF ListsInv

\* A step that leaves the store as it is.
LEMMA SameStore ==
  ASSUME TypeOK, UNCHANGED store
  PROVE  /\ Store' = Store /\ Store' \in StoreType /\ ts_rto' = ts_rto
         /\ on_rto_idx' = on_rto_idx
  BY DEF TypeOK, Store, store

\* A stream that waits in TIME_WAIT is on no slot.
LEMMA WaitingIsOff ==
  ASSUME ListsInv, NEW s \in ToSet(timewait_list)
  PROVE  s \in Streams /\ on_rto_idx[s] < 0 /\ state[s] = "TIME_WAIT"
<1>1. ToSet(timewait_list) \subseteq Streams
  BY LenProperties, TypeFacts DEF ToSet, ListsInv
<1> QED
  BY <1>1 DEF ListsInv, OneTimerLink, TimewaitOrder

LEMMA RtoStep ==
  ASSUME ListsInv, NEW s \in Streams, NEW rto \in 1 .. MaxRto,
         UpdateRetransmissionTimer(s, rto)
  PROVE  ListsInv' /\ (SlotsInv => SlotsInv')
<1> DEFINE r == RemoveFromRTOList(Store, s)
           ts == cur_ts + rto
           u == AddtoRTOList(r, s, ts)
<1>1. /\ cur_ts \in Nat /\ ts_rto \in [Streams -> Nat] /\ Store \in StoreType
      /\ Store.idx = on_rto_idx
  BY TypeFacts DEF ListsInv
<1>2. ts \in Nat /\ ts_rto' = [ts_rto EXCEPT ![s] = ts] /\ StoreIs(u)
      /\ state[s] \in {"open", "closed"}
  BY <1>1 DEF UpdateRetransmissionTimer
<1> HIDE DEF ts
<1>3. /\ r \in StoreType /\ r.idx[s] < 0
      /\ \A x \in Streams \ {s} : r.idx[x] = Store.idx[x]
      /\ SlotInv(Store) => SlotInv(r)
  BY <1>1, RemoveEffect
<1> HIDE DEF r
<1>4. /\ u \in StoreType
      /\ \A x \in Streams \ {s} : u.idx[x] = r.idx[x]
      /\ SlotInv(r) => SlotInv(u)
  BY <1>2, <1>3, AddEffect
<1> HIDE DEF u
<1>5. \A x \in ToSet(timewait_list) : u.idx[x] < 0
  <2> TAKE x \in ToSet(timewait_list)
  <2>1. x \in Streams /\ on_rto_idx[x] < 0 /\ state[x] = "TIME_WAIT"
    BY WaitingIsOff
  <2>2. x # s
    BY <1>2, <2>1
  <2> QED
    BY <1>1, <1>3, <1>4, <2>1, <2>2
<1>6. ts_rto' \in [Streams -> Nat]
  BY <1>1, <1>2
<1>7. ListsInv' /\ Store' = u
  BY <1>2, <1>4, <1>5, <1>6, StoreStep DEF UpdateRetransmissionTimer
<1> QED
  BY <1>3, <1>4, <1>7 DEF SlotsInv

LEMMA DisarmStep ==
  ASSUME ListsInv, NEW s \in Streams, Disarm(s)
  PROVE  ListsInv' /\ (SlotsInv => SlotsInv')
<1> DEFINE u == RemoveFromRTOList(Store, s)
<1>1. /\ ts_rto \in [Streams -> Nat] /\ Store \in StoreType
      /\ Store.idx = on_rto_idx
  BY TypeFacts DEF ListsInv
<1>2. StoreIs(u) /\ ts_rto' \in [Streams -> Nat]
  BY <1>1 DEF Disarm
<1>3. /\ u \in StoreType /\ u.idx[s] < 0
      /\ \A x \in Streams \ {s} : u.idx[x] = Store.idx[x]
      /\ SlotInv(Store) => SlotInv(u)
  BY <1>1, RemoveEffect
<1> HIDE DEF u
<1>4. \A x \in ToSet(timewait_list) : u.idx[x] < 0
  BY <1>1, <1>3, WaitingIsOff
<1>5. ListsInv' /\ Store' = u
  BY <1>2, <1>3, <1>4, StoreStep DEF Disarm
<1> QED
  BY <1>3, <1>5 DEF SlotsInv

LEMMA CheckRtmStep ==
  ASSUME ListsInv, CheckRtmTimeout
  PROVE  /\ ListsInv'
         /\ Cardinality(Streams) <= Thresh /\ SlotsInv => SlotsInv'
<1> DEFINE due == Store.list[Store.now_idx]
           n == IF Len(due) < Thresh THEN Len(due) ELSE Thresh
           handled == {due[k] : k \in 1 .. n}
           u == [Store EXCEPT
                   !.list[Store.now_idx] = SubSeq(due, n + 1, Len(due)),
                   !.idx = [s \in Streams |->
                              IF s \in handled THEN -1 ELSE Store.idx[s]],
                   !.cnt = Store.cnt - n]
           v == IF n < Thresh THEN u ELSE Advanced(u)
<1>1. /\ cur_ts \in Nat /\ ts_rto \in [Streams -> Nat] /\ Store \in StoreType
      /\ Store.idx = on_rto_idx /\ Store.list = rto_list
      /\ Store.now_idx = rto_now_idx
  BY TypeFacts DEF ListsInv
<1>2. StoreIs(v) /\ ts_rto' \in [Streams -> Nat]
  BY <1>1 DEF CheckRtmTimeout
<1>3. /\ v \in StoreType
      /\ \A x \in Streams : Store.idx[x] < 0 => v.idx[x] < 0
      /\ Cardinality(Streams) <= Thresh /\ SlotInv(Store) => SlotInv(v)
  BY <1>1, CheckEffect
<1> HIDE DEF v
<1>4. \A x \in ToSet(timewait_list) : v.idx[x] < 0
  BY <1>1, <1>3, WaitingIsOff
<1>5. ListsInv' /\ Store' = v
  BY <1>2, <1>3, <1>4, StoreStep DEF CheckRtmTimeout
<1> QED
  BY <1>3, <1>5 DEF SlotsInv

\* Streams leave every list they are on; the rest keep their order.
LEMMA DestroyStep ==
  ASSUME ListsInv, NEW D \in SUBSET Streams, DestroyTcpStream(D)
  PROVE  ListsInv' /\ (SlotsInv => SlotsInv')
<1> DEFINE u == [Store EXCEPT
                   !.list = [k \in 0 .. Hash |-> Without(Store.list[k], D)],
                   !.idx = [s \in Streams |-> IF s \in D THEN -1
                                              ELSE Store.idx[s]],
                   !.cnt = Store.cnt - Cardinality({s \in D : Store.idx[s] >= 0})]
           w == Without(timewait_list, D)
           t == Without(timeout_list, D)
<1>1. /\ cur_ts \in Nat /\ ts_rto \in [Streams -> Nat] /\ Store \in StoreType
      /\ Store.idx = on_rto_idx /\ on_control \subseteq Streams
      /\ timewait_list \in Seq(Streams) /\ timeout_list \in Seq(Streams)
      /\ state \in [Streams -> {"free", "open", "closed", "TIME_WAIT"}]
  BY TypeFacts DEF ListsInv
<1>2. /\ StoreIs(u) /\ timewait_list' = w /\ timeout_list' = t
      /\ cur_ts' = cur_ts /\ ts_rto' = ts_rto /\ ts_tw_expire' = ts_tw_expire
      /\ last_active_ts' = last_active_ts /\ on_control' = on_control \ D
      /\ state' = [s \in Streams |-> IF s \in D THEN "free" ELSE state[s]]
  BY <1>1 DEF DestroyTcpStream
<1>3. /\ u \in StoreType
      /\ \A x \in Streams : Store.idx[x] < 0 => u.idx[x] < 0
      /\ SlotInv(Store) => SlotInv(u)
  BY <1>1, LeaveEffect
<1> HIDE DEF u
<1>4. /\ w \in Seq(Streams) /\ ToSet(w) = ToSet(timewait_list) \ D
      /\ IsInjective(timewait_list) => IsInjective(w)
      /\ Sorted(timewait_list, ts_tw_expire) => Sorted(w, ts_tw_expire)
  BY <1>1, WithoutFacts
<1>5. /\ t \in Seq(Streams) /\ ToSet(t) = ToSet(timeout_list) \ D
      /\ IsInjective(timeout_list) => IsInjective(t)
      /\ Sorted(timeout_list, last_active_ts) => Sorted(t, last_active_ts)
  BY <1>1, WithoutFacts
<1> HIDE DEF w, t
<1>6. Store' = u /\ on_rto_idx' = u.idx
  BY <1>2, <1>3, StoreNext DEF StoreIs
<1>7. ToSet(timeout_list) \subseteq Streams /\ ToSet(timewait_list) \subseteq Streams
  BY <1>1, LenProperties DEF ToSet
<1>8. TypeOK'
  <2>1. state' \in [Streams -> {"free", "open", "closed", "TIME_WAIT"}]
    BY <1>1, <1>2
  <2> QED
    BY <1>1, <1>2, <1>3, <1>4, <1>5, <1>6, <2>1 DEF ListsInv, TypeOK
<1>9. IdleOrder'
  <2>1. \A s \in ToSet(t) : state'[s] = "open"
    BY <1>2, <1>5, <1>7 DEF ListsInv, IdleOrder
  <2> QED
    BY <1>2, <1>5, <2>1 DEF ListsInv, IdleOrder
<1>10. TimewaitOrder'
  <2>1. \A s \in ToSet(w) : state'[s] = "TIME_WAIT"
    BY <1>2, <1>4, <1>7 DEF ListsInv, TimewaitOrder
  <2> QED
    BY <1>2, <1>4, <2>1 DEF ListsInv, TimewaitOrder
<1>11. OneTimerLink'
  BY <1>1, <1>2, <1>3, <1>4, <1>6 DEF ListsInv, OneTimerLink
<1> QED
  BY <1>3, <1>6, <1>8, <1>9, <1>10, <1>11 DEF ListsInv, SlotsInv

LEMMA ConnectStep ==
  ASSUME ListsInv, NEW s \in Streams, AddtoTimeoutList(s)
  PROVE  ListsInv' /\ (SlotsInv => SlotsInv')
<1> DEFINE t == Append(timeout_list, s)
<1>1. /\ cur_ts \in Nat /\ ts_rto \in [Streams -> Nat]
      /\ timewait_list \in Seq(Streams) /\ timeout_list \in Seq(Streams)
      /\ last_active_ts \in [Streams -> Nat]
      /\ state \in [Streams -> {"free", "open", "closed", "TIME_WAIT"}]
  BY TypeFacts DEF ListsInv
<1>2. /\ state[s] = "free" /\ state' = [state EXCEPT ![s] = "open"]
      /\ last_active_ts' = [last_active_ts EXCEPT ![s] = cur_ts]
      /\ timeout_list' = t /\ cur_ts' = cur_ts /\ on_control' = on_control
      /\ ts_tw_expire' = ts_tw_expire /\ timewait_list' = timewait_list
  BY DEF AddtoTimeoutList, waits
<1>3. /\ Store' = Store /\ Store' \in StoreType /\ ts_rto' = ts_rto
      /\ on_rto_idx' = on_rto_idx
  BY SameStore DEF AddtoTimeoutList, ListsInv
<1>4. /\ t \in Seq(Streams) /\ ToSet(t) = ToSet(timeout_list) \cup {s}
      /\ IsInjective(timeout_list) /\ s \notin ToSet(timeout_list)
           => IsInjective(t)
      /\ \A ts, us :
            /\ Sorted(timeout_list, ts)
            /\ \A x \in ToSet(timeout_list) : us[x] = ts[x]
            /\ \A x \in ToSet(t) : us[x] <= us[s]
            => Sorted(t, us)
  BY <1>1, AppendFacts
<1> HIDE DEF t
<1>5. s \notin ToSet(timeout_list) /\ s \notin ToSet(timewait_list)
  BY <1>2 DEF ListsInv, IdleOrder, TimewaitOrder
<1>6. ToSet(timeout_list) \subseteq Streams /\ ToSet(timewait_list) \subseteq Streams
  BY <1>1, LenProperties DEF ToSet
<1>7. /\ last_active_ts' \in [Streams -> Nat]
      /\ state' \in [Streams -> {"free", "open", "closed", "TIME_WAIT"}]
      /\ \A x \in Streams \ {s} : /\ last_active_ts'[x] = last_active_ts[x]
                                  /\ state'[x] = state[x]
      /\ last_active_ts'[s] = cur_ts /\ state'[s] = "open"
  BY <1>1, <1>2
<1>8. \A x \in Streams : last_active_ts'[x] <= cur_ts
  <2>1. \A x \in Streams : last_active_ts[x] <= cur_ts
    BY DEF ListsInv, IdleOrder
  <2>2. cur_ts <= cur_ts
    BY <1>1
  <2> QED
    BY <1>7, <2>1, <2>2
<1>9. TypeOK'
  BY <1>1, <1>2, <1>3, <1>4, <1>7 DEF ListsInv, TypeOK
<1>10. IdleOrder'
  <2>1. Sorted(timeout_list, last_active_ts) /\ IsInjective(timeout_list)
    BY DEF ListsInv, IdleOrder
  <2>2. \A x \in ToSet(timeout_list) : last_active_ts'[x] = last_active_ts[x]
    BY <1>5, <1>6, <1>7
  <2>3. \A x \in ToSet(t) : last_active_ts'[x] <= last_active_ts'[s]
    BY <1>4, <1>6, <1>7, <1>8
  <2>4. Sorted(t, last_active_ts')
    BY <1>4, <2>1, <2>2, <2>3
  <2>5. \A x \in ToSet(t) : state'[x] = "open"
    BY <1>4, <1>5, <1>6, <1>7 DEF ListsInv, IdleOrder
  <2> QED
    BY <1>2, <1>4, <1>5, <1>8, <2>1, <2>4, <2>5 DEF IdleOrder
<1>11. TimewaitOrder'
  <2>1. \A x \in ToSet(timewait_list) : state'[x] = "TIME_WAIT"
    BY <1>5, <1>6, <1>7 DEF ListsInv, TimewaitOrder
  <2> QED
    BY <1>2, <2>1 DEF ListsInv, TimewaitOrder
<1>12. OneTimerLink'
  BY <1>2, <1>3 DEF ListsInv, OneTimerLink
<1> QED
  BY <1>3, <1>9, <1>10, <1>11, <1>12 DEF ListsInv, SlotsInv

LEMMA ActiveStep ==
  ASSUME ListsInv, NEW s \in Streams, Active(s)
  PROVE  ListsInv' /\ (SlotsInv => SlotsInv')
<1> DEFINE t == ToTail(timeout_list, s)
<1>1. /\ cur_ts \in Nat /\ timewait_list \in Seq(Streams)
      /\ timeout_list \in Seq(Streams) /\ last_active_ts \in [Streams -> Nat]
  BY TypeFacts DEF ListsInv
<1>2. /\ state' = state
      /\ last_active_ts' = [last_active_ts EXCEPT ![s] = cur_ts]
      /\ timeout_list' = IF s \in ToSet(timeout_list) THEN t ELSE timeout_list
      /\ cur_ts' = cur_ts /\ on_control' = on_control
      /\ ts_tw_expire' = ts_tw_expire /\ timewait_list' = timewait_list
  BY DEF Active, UpdateTimeoutList, waits
<1>3. /\ Store' = Store /\ Store' \in StoreType /\ ts_rto' = ts_rto
      /\ on_rto_idx' = on_rto_idx
  BY SameStore DEF Active, ListsInv
<1>4. /\ t \in Seq(Streams) /\ ToSet(t) = ToSet(timeout_list) \cup {s}
      /\ IsInjective(timeout_list) => IsInjective(t)
      /\ \A ts, us :
            /\ Sorted(timeout_list, ts)
            /\ \A x \in ToSet(timeout_list) \ {s} : us[x] = ts[x]
            /\ \A x \in ToSet(t) : us[x] <= us[s]
            => Sorted(t, us)
  BY <1>1, ToTailFacts
<1> HIDE DEF t
<1>5. ToSet(timeout_list) \subseteq Streams
  BY <1>1, LenProperties DEF ToSet
<1>6. /\ last_active_ts' \in [Streams -> Nat]
      /\ \A x \in Streams \ {s} : last_active_ts'[x] = last_active_ts[x]
      /\ last_active_ts'[s] = cur_ts
  BY <1>1, <1>2
<1>7. \A x \in Streams : last_active_ts'[x] <= cur_ts
  <2>1. \A x \in Streams : last_active_ts[x] <= cur_ts
    BY DEF ListsInv, IdleOrder
  <2>2. cur_ts <= cur_ts
    BY <1>1
  <2> QED
    BY <1>6, <2>1, <2>2
<1>8. TypeOK'
  BY <1>1, <1>2, <1>3, <1>4, <1>6 DEF ListsInv, TypeOK
<1>9. IdleOrder'
  <2>1. /\ Sorted(timeout_list, last_active_ts) /\ IsInjective(timeout_list)
        /\ \A x \in ToSet(timeout_list) : state[x] = "open"
    BY DEF ListsInv, IdleOrder
  <2>2. CASE s \in ToSet(timeout_list)
    <3>1. \A x \in ToSet(timeout_list) \ {s} :
             last_active_ts'[x] = last_active_ts[x]
      BY <1>5, <1>6
    <3>2. \A x \in ToSet(t) : last_active_ts'[x] <= last_active_ts'[s]
      BY <1>4, <1>5, <1>6, <1>7
    <3>3. Sorted(t, last_active_ts')
      BY <1>4, <2>1, <3>1, <3>2
    <3>4. \A x \in ToSet(t) : state[x] = "open"
      BY <1>4, <2>1, <2>2
    <3> QED
      BY <1>2, <1>4, <1>7, <2>1, <2>2, <3>3, <3>4 DEF IdleOrder
  <2>3. CASE s \notin ToSet(timeout_list)
    <3>1. \A x \in ToSet(timeout_list) : last_active_ts'[x] = last_active_ts[x]
      BY <1>5, <1>6, <2>3
    <3>2. Sorted(timeout_list, last_active_ts')
      BY <1>1, <2>1, <3>1, SortedSame
    <3> QED
      BY <1>2, <1>7, <2>1, <2>3, <3>2 DEF IdleOrder
  <2> QED
    BY <2>2, <2>3
<1>10. TimewaitOrder' /\ OneTimerLink'
  BY <1>2, <1>3 DEF ListsInv, TimewaitOrder, OneTimerLink
<1> QED
  BY <1>3, <1>8, <1>9, <1>10 DEF ListsInv, SlotsInv

LEMMA CloseStep ==
  ASSUME ListsInv, NEW s \in Streams, Close(s)
  PROVE  ListsInv' /\ (SlotsInv => SlotsInv')
<1> DEFINE t == Without(timeout_list, {s})
<1>1. /\ timewait_list \in Seq(Streams) /\ timeout_list \in Seq(Streams)
      /\ state \in [Streams -> {"free", "open", "closed", "TIME_WAIT"}]
      /\ on_control \subseteq Streams
  BY TypeFacts DEF ListsInv
<1>2. /\ state[s] = "open" /\ state' = [state EXCEPT ![s] = "closed"]
      /\ last_active_ts' = last_active_ts /\ timeout_list' = t
      /\ cur_ts' = cur_ts /\ on_control' = on_control \cup {s}
      /\ ts_tw_expire' = ts_tw_expire /\ timewait_list' = timewait_list
  BY DEF Close, waits
<1>3. /\ Store' = Store /\ Store' \in StoreType /\ ts_rto' = ts_rto
      /\ on_rto_idx' = on_rto_idx
  BY SameStore DEF Close, ListsInv
<1>4. /\ t \in Seq(Streams) /\ ToSet(t) = ToSet(timeout_list) \ {s}
      /\ IsInjective(timeout_list) => IsInjective(t)
      /\ Sorted(timeout_list, last_active_ts) => Sorted(t, last_active_ts)
  BY <1>1, WithoutFacts
<1> HIDE DEF t
<1>5. ToSet(timeout_list) \subseteq Streams /\ ToSet(timewait_list) \subseteq Streams
  BY <1>1, LenProperties DEF ToSet
<1>6. /\ state' \in [Streams -> {"free", "open", "closed", "TIME_WAIT"}]
      /\ \A x \in Streams \ {s} : state'[x] = state[x]
  BY <1>1, <1>2
<1>7. TypeOK'
  BY <1>1, <1>2, <1>3, <1>4, <1>6 DEF ListsInv, TypeOK
<1>8. IdleOrder'
  <2>1. \A x \in ToSet(t) : state'[x] = "open"
    BY <1>4, <1>5, <1>6 DEF ListsInv, IdleOrder
  <2> QED
    BY <1>2, <1>4, <2>1 DEF ListsInv, IdleOrder
<1>9. TimewaitOrder'
  <2>1. \A x \in ToSet(timewait_list) : state'[x] = "TIME_WAIT"
    BY <1>2, <1>5, <1>6 DEF ListsInv, TimewaitOrder
  <2> QED
    BY <1>2, <2>1 DEF ListsInv, TimewaitOrder
<1>10. OneTimerLink'
  BY <1>2, <1>3 DEF ListsInv, OneTimerLink
<1> QED
  BY <1>3, <1>7, <1>8, <1>9, <1>10 DEF ListsInv, SlotsInv

\* The stream that enters TIME_WAIT leaves its slot: the field that linked it
\* there links it on the list now.
LEMMA TimewaitStep ==
  ASSUME ListsInv, NEW s \in Streams, EnterTimewait(s)
  PROVE  ListsInv' /\ (SlotsInv => SlotsInv')
<1> DEFINE w == ToTail(timewait_list, s)
           u == IF s \in ToSet(timewait_list) THEN Store
                ELSE RemoveFromRTOList(Store, s)
<1>1. /\ cur_ts \in Nat /\ Store \in StoreType /\ Store.idx = on_rto_idx
      /\ timewait_list \in Seq(Streams) /\ timeout_list \in Seq(Streams)
      /\ ts_tw_expire \in [Streams -> Nat] /\ on_control \subseteq Streams
      /\ state \in [Streams -> {"free", "open", "closed", "TIME_WAIT"}]
  BY TypeFacts DEF ListsInv
<1>2. /\ state[s] \in {"closed", "TIME_WAIT"}
      /\ state' = [state EXCEPT ![s] = "TIME_WAIT"]
      /\ ts_tw_expire' = [ts_tw_expire EXCEPT ![s] = cur_ts + Timewait]
      /\ timewait_list' = w /\ StoreIs(u) /\ ts_rto' = ts_rto
      /\ on_control' = on_control \cup {s} /\ cur_ts' = cur_ts
      /\ last_active_ts' = last_active_ts /\ timeout_list' = timeout_list
  BY DEF EnterTimewait, AddtoTimewaitList, idles
<1>3. /\ w \in Seq(Streams) /\ ToSet(w) = ToSet(timewait_list) \cup {s}
      /\ IsInjective(timewait_list) => IsInjective(w)
      /\ \A ts, us :
            /\ Sorted(timewait_list, ts)
            /\ \A x \in ToSet(timewait_list) \ {s} : us[x] = ts[x]
            /\ \A x \in ToSet(w) : us[x] <= us[s]
            => Sorted(w, us)
  BY <1>1, ToTailFacts
<1> HIDE DEF w
<1>4. /\ u \in StoreType /\ \A x \in ToSet(w) : u.idx[x] < 0
      /\ SlotInv(Store) => SlotInv(u)
  <2>1. \A x \in ToSet(timewait_list) : x \in Streams /\ Store.idx[x] < 0
    BY <1>1, WaitingIsOff
  <2>2. LET r == RemoveFromRTOList(Store, s)
        IN  /\ r \in StoreType /\ r.idx[s] < 0
            /\ \A x \in Streams \ {s} : r.idx[x] = Store.idx[x]
            /\ SlotInv(Store) => SlotInv(r)
    BY <1>1, RemoveEffect
  <2>3. CASE s \in ToSet(timewait_list)
    BY <1>1, <1>3, <2>1, <2>3
  <2>4. CASE s \notin ToSet(timewait_list)
    BY <1>3, <2>1, <2>2, <2>4
  <2> QED
    BY <2>3, <2>4
<1> HIDE DEF u
<1>5. Store' = u /\ on_rto_idx' = u.idx
  BY <1>2, <1>4, StoreNext DEF StoreIs
<1>6. ToSet(timeout_list) \subseteq Streams /\ ToSet(timewait_list) \subseteq Streams
  BY <1>1, LenProperties DEF ToSet
<1>7. /\ ts_tw_expire' \in [Streams -> Nat]
      /\ \A x \in Streams \ {s} : ts_tw_expire'[x] = ts_tw_expire[x]
      /\ ts_tw_expire'[s] = cur_ts + Timewait
  BY <1>1, <1>2, Sizes
<1>8. /\ state' \in [Streams -> {"free", "open", "closed", "TIME_WAIT"}]
      /\ \A x \in Streams \ {s} : state'[x] = state[x]
      /\ state'[s] = "TIME_WAIT"
  BY <1>1, <1>2
<1>9. \A x \in Streams : ts_tw_expire'[x] <= cur_ts + Timewait
  <2>1. \A x \in Streams : ts_tw_expire[x] <= cur_ts + Timewait
    BY DEF ListsInv, TimewaitOrder
  <2>2. cur_ts + Timewait <= cur_ts + Timewait
    BY <1>1, Sizes
  <2> QED
    BY <1>7, <2>1, <2>2
<1>10. TypeOK'
  BY <1>1, <1>2, <1>3, <1>4, <1>5, <1>7, <1>8 DEF ListsInv, TypeOK
<1>11. IdleOrder'
  <2>1. s \notin ToSet(timeout_list)
    BY <1>2 DEF ListsInv, IdleOrder
  <2>2. \A x \in ToSet(timeout_list) : state'[x] = "open"
    BY <1>6, <1>8, <2>1 DEF ListsInv, IdleOrder
  <2> QED
    BY <1>2, <2>2 DEF ListsInv, IdleOrder
<1>12. TimewaitOrder'
  <2>1. Sorted(timewait_list, ts_tw_expire) /\ IsInjective(timewait_list)
    BY DEF ListsInv, TimewaitOrder
  <2>2. \A x \in ToSet(timewait_list) \ {s} : ts_tw_expire'[x] = ts_tw_expire[x]
    BY <1>6, <1>7
  <2>3. \A x \in ToSet(w) : ts_tw_expire'[x] <= ts_tw_expire'[s]
    BY <1>3, <1>6, <1>7, <1>9
  <2>4. Sorted(w, ts_tw_expire')
    BY <1>3, <2>1, <2>2, <2>3
  <2>5. \A x \in ToSet(w) : state'[x] = "TIME_WAIT"
    BY <1>3, <1>6, <1>8 DEF ListsInv, TimewaitOrder
  <2> QED
    BY <1>2, <1>3, <1>9, <2>1, <2>4, <2>5 DEF TimewaitOrder
<1>13. OneTimerLink'
  BY <1>2, <1>4, <1>5 DEF OneTimerLink
<1> QED
  BY <1>4, <1>5, <1>10, <1>11, <1>12, <1>13 DEF ListsInv, SlotsInv

\* The steps that change no list.
LEMMA QuietStep ==
  ASSUME ListsInv, Tick \/ (\E s \in Streams : Written(s)) \/ UNCHANGED vars
  PROVE  ListsInv' /\ (SlotsInv => SlotsInv')
<1>1. /\ UNCHANGED <<store, state, waits, idles>>
      /\ cur_ts' = cur_ts \/ cur_ts' = cur_ts + 1
      /\ on_control' \subseteq on_control
  BY DEF Tick, Written, vars
<1>2. /\ state' = state
      /\ ts_tw_expire' = ts_tw_expire /\ timewait_list' = timewait_list
      /\ last_active_ts' = last_active_ts /\ timeout_list' = timeout_list
  BY <1>1 DEF waits, idles
<1>3. /\ Store' = Store /\ Store' \in StoreType /\ ts_rto' = ts_rto
      /\ on_rto_idx' = on_rto_idx
  BY <1>1, SameStore DEF ListsInv
<1>4. /\ cur_ts \in Nat /\ ts_tw_expire \in [Streams -> Nat]
      /\ last_active_ts \in [Streams -> Nat]
  BY TypeFacts DEF ListsInv
<1>5. TypeOK'
  <2>1. cur_ts' \in Nat
    BY <1>1, <1>4
  <2>2. on_control' \subseteq Streams
    BY <1>1, TypeFacts DEF ListsInv
  <2> QED
    BY <1>2, <1>3, <2>1, <2>2, Zenon DEF ListsInv, TypeOK
<1>6. \A x \in Streams : /\ last_active_ts[x] <= cur_ts'
                         /\ ts_tw_expire[x] <= cur_ts' + Timewait
  <2>1. \A x \in Streams : /\ last_active_ts[x] <= cur_ts
                           /\ ts_tw_expire[x] <= cur_ts + Timewait
    BY DEF ListsInv, IdleOrder, TimewaitOrder
  <2> QED
    BY <1>1, <1>4, <2>1, Sizes
<1>7. IdleOrder' /\ TimewaitOrder' /\ OneTimerLink'
  BY <1>2, <1>3, <1>6 DEF ListsInv, IdleOrder, TimewaitOrder, OneTimerLink
<1> QED
  BY <1>3, <1>5, <1>7 DEF ListsInv, SlotsInv

\* What a check handles is on the list.
LEMMA CheckedOnList ==
  ASSUME TypeOK
  PROVE  /\ Checked(timeout_list, IdleDue) \in SUBSET Streams
         /\ Checked(timewait_list, TimewaitDue) \in SUBSET Streams
<1>1. \A list \in Seq(Streams) : \A k \in 1 .. Len(list) : list[k] \in Streams
  BY LenProperties
<1>2. timeout_list \in Seq(Streams) /\ timewait_list \in Seq(Streams)
  BY TypeFacts
<1>3. \A x \in Checked(timeout_list, IdleDue) :
         \E k \in 1 .. Len(timeout_list) : x = timeout_list[k]
  BY DEF Checked
<1>4. \A x \in Checked(timewait_list, TimewaitDue) :
         \E k \in 1 .. Len(timewait_list) : x = timewait_list[k]
  BY DEF Checked
<1> QED
  BY <1>1, <1>2, <1>3, <1>4

\* Each step keeps the lists in order; where a check handles a whole slot, each
\* step keeps the slots too.
LEMMA TimersStep ==
  ASSUME ListsInv, [Next]_vars
  PROVE  /\ ListsInv'
         /\ Cardinality(Streams) <= Thresh /\ SlotsInv => SlotsInv'
<1>1. ASSUME NEW s \in Streams, NEW rto \in 1 .. MaxRto,
             UpdateRetransmissionTimer(s, rto)
      PROVE  ListsInv' /\ (SlotsInv => SlotsInv')
  BY <1>1, RtoStep
<1>2. ASSUME NEW s \in Streams, Disarm(s)
      PROVE  ListsInv' /\ (SlotsInv => SlotsInv')
  BY <1>2, DisarmStep
<1>3. ASSUME NEW s \in Streams, AddtoTimeoutList(s)
      PROVE  ListsInv' /\ (SlotsInv => SlotsInv')
  BY <1>3, ConnectStep
<1>4. ASSUME NEW s \in Streams, Active(s)
      PROVE  ListsInv' /\ (SlotsInv => SlotsInv')
  BY <1>4, ActiveStep
<1>5. ASSUME NEW s \in Streams, Close(s)
      PROVE  ListsInv' /\ (SlotsInv => SlotsInv')
  BY <1>5, CloseStep
<1>6. ASSUME NEW s \in Streams, Written(s)
      PROVE  ListsInv' /\ (SlotsInv => SlotsInv')
  BY <1>6, QuietStep
<1>7. ASSUME NEW s \in Streams, EnterTimewait(s)
      PROVE  ListsInv' /\ (SlotsInv => SlotsInv')
  BY <1>7, TimewaitStep
<1>8. ASSUME NEW s \in Streams, Gone(s)
      PROVE  ListsInv' /\ (SlotsInv => SlotsInv')
  <2>1. {s} \in SUBSET Streams /\ DestroyTcpStream({s})
    BY <1>8 DEF Gone
  <2> QED
    BY <2>1, DestroyStep
<1>9. CASE Tick \/ UNCHANGED vars
  BY <1>9, QuietStep
<1>10. CASE CheckRtmTimeout
  BY <1>10, CheckRtmStep
<1>11. ASSUME CheckTimewaitExpire
       PROVE  ListsInv' /\ (SlotsInv => SlotsInv')
  <2> DEFINE D == Checked(timewait_list, TimewaitDue) \ on_control
  <2>1. D \in SUBSET Streams
    BY CheckedOnList DEF ListsInv
  <2>2. DestroyTcpStream(D)
    BY <1>11 DEF CheckTimewaitExpire
  <2> HIDE DEF D
  <2> QED
    BY <2>1, <2>2, DestroyStep
<1>12. ASSUME CheckConnectionTimeout
       PROVE  ListsInv' /\ (SlotsInv => SlotsInv')
  <2> DEFINE D == Checked(timeout_list, IdleDue)
  <2>1. D \in SUBSET Streams
    BY CheckedOnList DEF ListsInv
  <2>2. DestroyTcpStream(D)
    BY <1>12 DEF CheckConnectionTimeout
  <2> HIDE DEF D
  <2> QED
    BY <2>1, <2>2, DestroyStep
<1> QED
  BY <1>1, <1>2, <1>3, <1>4, <1>5, <1>6, <1>7, <1>8, <1>9, <1>10, <1>11,
     <1>12 DEF Next

LEMMA TimersInit ==
  ASSUME Init
  PROVE  ListsInv /\ SlotsInv
<1>1. /\ Store.idx = [s \in Streams |-> -1]
      /\ Store.list = [k \in 0 .. Hash |-> << >>] /\ Store.cnt = 0
  BY DEF Init, Store
<1>2. Store \in StoreType
  <2>1. << >> \in Seq(Streams)
    OBVIOUS
  <2>2. 0 \in 0 .. Hash - 1
    BY Sizes
  <2> QED
    BY <2>1, <2>2 DEF Init, Store, StoreType
<1>3. IsInjective(<< >>) /\ ToSet(<< >>) = {}
  BY DEF IsInjective, ToSet
<1>4. TypeOK
  BY <1>2 DEF Init, TypeOK
<1>5. \A ts : Sorted(<< >>, ts)
  BY DEF Sorted
<1>6. IdleOrder /\ TimewaitOrder /\ OneTimerLink
  <2>1. 0 <= 0 + Timewait
    BY Sizes
  <2> QED
    BY <1>3, <1>5, <2>1 DEF Init, IdleOrder, TimewaitOrder, OneTimerLink
<1>7. SlotsInv
  <2>1. \A k \in 0 .. Hash : {s \in Streams : Store.idx[s] = k} = {}
    BY <1>1
  <2>2. \A k \in 0 .. Hash : Store.list[k] = << >>
    BY <1>1
  <2>3. {s \in Streams : Store.idx[s] >= 0} = {}
    BY <1>1
  <2>4. \A s \in Streams : Store.idx[s] \in -1 .. Hash
    BY <1>1, Sizes
  <2> QED
    BY <1>1, <1>3, <2>1, <2>2, <2>3, <2>4, FS_EmptySet DEF SlotsInv, SlotInv
<1> QED
  BY <1>4, <1>6, <1>7 DEF ListsInv
-----------------------------------------------------------------------------
(* The theorems.                                                            *)

\* The lists of nty_timer.c keep their order and no stream twice, for any
\* streams, slots, thresholds and timeouts, over every order of segments,
\* closing, acknowledgments and checks.
THEOREM ListsInductive == Spec => []ListsInv
<1>1. Init => ListsInv
  BY TimersInit
<1>2. ListsInv /\ [Next]_vars => ListsInv'
  BY TimersStep
<1> QED
  BY <1>1, <1>2, PTL DEF Spec

\* Type correctness of the timers; the slot is a slot, and the time in the
\* store does not go below 0.
THEOREM TimersTypeCorrect == Spec => []TypeOK
<1>1. ListsInv => TypeOK
  BY DEF ListsInv
<1> QED
  BY <1>1, ListsInductive, PTL

\* A stream is never linked through timer_link twice: one that AddtoTimewaitList
\* has put on the list of TIME_WAIT is on no slot of the store, whatever
\* CheckRtmTimeout, RearrangeRTOStore and UpdateRetransmissionTimer do before
\* and after.
THEOREM OneTimerLinkHolds == Spec => []OneTimerLink
<1>1. ListsInv => OneTimerLink
  BY DEF ListsInv
<1> QED
  BY <1>1, ListsInductive, PTL

\* Where a check may look at as many streams as there are, on_rto_idx is the
\* slot of every stream and rto_list_cnt their number: RemoveFromRTOList takes
\* a stream off the slot it is on.
THEOREM IdxIsSlotHolds ==
  ASSUME Cardinality(Streams) <= Thresh
  PROVE  Spec => []IdxIsSlot
<1>1. Init => ListsInv /\ SlotsInv
  BY TimersInit
<1>2. (ListsInv /\ SlotsInv) /\ [Next]_vars => (ListsInv /\ SlotsInv)'
  BY TimersStep
<1>3. SlotsInv => IdxIsSlot
  BY DEF SlotsInv, SlotInv, IdxIsSlot, Store
<1> QED
  BY <1>1, <1>2, <1>3, PTL DEF Spec

\* In a list that is in the order of times, every stream up to one that is due
\* is due.
LEMMA DueSeen ==
  ASSUME NEW list \in Seq(Streams), IsInjective(list),
         Cardinality(Streams) <= Thresh, NEW s \in ToSet(list)
  PROVE  \E i \in 1 .. Len(list) :
            /\ list[i] = s /\ i <= Thresh
            /\ \A j \in 1 .. i : j \in 1 .. Len(list) /\ j <= i
<1>1. Len(list) \in Nat /\ DOMAIN list = 1 .. Len(list)
  BY LenProperties
<1>2. Len(list) <= Cardinality(Streams)
  BY InjectiveLen
<1>3. PICK i \in 1 .. Len(list) : list[i] = s
  BY <1>1 DEF ToSet
<1>4. i <= Thresh /\ \A j \in 1 .. i : j \in 1 .. Len(list) /\ j <= i
  BY <1>1, <1>2, Sizes
<1> QED
  BY <1>3, <1>4

\* Where a check may look at as many streams as there are, it sees every stream
\* that is due although it ends at the first that is not: the order of the two
\* lists is what CheckTimewaitExpire and CheckConnectionTimeout rely on.
THEOREM NoneOverdueHolds ==
  ASSUME Cardinality(Streams) <= Thresh
  PROVE  Spec => []NoneOverdue
<1>1. ASSUME ListsInv PROVE NoneOverdue
  <2>1. /\ cur_ts \in Nat /\ timewait_list \in Seq(Streams)
        /\ timeout_list \in Seq(Streams) /\ last_active_ts \in [Streams -> Nat]
        /\ ts_tw_expire \in [Streams -> Nat]
    BY <1>1, TypeFacts DEF ListsInv
  <2>2. /\ IsInjective(timeout_list) /\ Sorted(timeout_list, last_active_ts)
        /\ IsInjective(timewait_list) /\ Sorted(timewait_list, ts_tw_expire)
    BY <1>1 DEF ListsInv, IdleOrder, TimewaitOrder
  <2>3. \A list \in Seq(Streams) : \A k \in 1 .. Len(list) : list[k] \in Streams
    BY LenProperties
  <2>4. ASSUME NEW s \in ToSet(timeout_list), IdleDue(s)
        PROVE  s \in Checked(timeout_list, IdleDue)
    <3>1. PICK i \in 1 .. Len(timeout_list) :
             /\ timeout_list[i] = s /\ i <= Thresh
             /\ \A j \in 1 .. i : j \in 1 .. Len(timeout_list) /\ j <= i
      BY <2>1, <2>2, DueSeen
    <3>2. \A j \in 1 .. i :
             /\ last_active_ts[timeout_list[j]] <= last_active_ts[s]
             /\ timeout_list[j] \in Streams
      BY <2>1, <2>2, <2>3, <3>1 DEF Sorted
    <3>3. s \in Streams /\ cur_ts - last_active_ts[s] >= Timeout
      BY <2>1, <2>3, <2>4, <3>1 DEF IdleDue
    <3>4. \A j \in 1 .. i : cur_ts - last_active_ts[timeout_list[j]] >= Timeout
      <4> TAKE j \in 1 .. i
      <4>1. /\ last_active_ts[timeout_list[j]] \in Nat
            /\ last_active_ts[s] \in Nat
        BY <2>1, <3>2, <3>3
      <4>2. last_active_ts[timeout_list[j]] <= last_active_ts[s]
        BY <3>2
      <4>3. cur_ts \in Nat /\ Timeout \in Nat
        BY <2>1, Sizes
      <4> QED
        BY <3>3, <4>1, <4>2, <4>3
    <3> QED
      BY <3>1, <3>4 DEF Checked, IdleDue
  <2>5. ASSUME NEW s \in ToSet(timewait_list), TimewaitDue(s)
        PROVE  s \in Checked(timewait_list, TimewaitDue)
    <3>1. PICK i \in 1 .. Len(timewait_list) :
             /\ timewait_list[i] = s /\ i <= Thresh
             /\ \A j \in 1 .. i : j \in 1 .. Len(timewait_list) /\ j <= i
      BY <2>1, <2>2, DueSeen
    <3>2. \A j \in 1 .. i :
             /\ ts_tw_expire[timewait_list[j]] <= ts_tw_expire[s]
             /\ timewait_list[j] \in Streams
      BY <2>1, <2>2, <2>3, <3>1 DEF Sorted
    <3>3. s \in Streams /\ cur_ts - ts_tw_expire[s] >= 0
      BY <2>1, <2>3, <2>5, <3>1 DEF TimewaitDue
    <3>4. \A j \in 1 .. i : cur_ts - ts_tw_expire[timewait_list[j]] >= 0
      <4> TAKE j \in 1 .. i
      <4>1. /\ ts_tw_expire[timewait_list[j]] \in Nat
            /\ ts_tw_expire[s] \in Nat
        BY <2>1, <3>2, <3>3
      <4>2. ts_tw_expire[timewait_list[j]] <= ts_tw_expire[s]
        BY <3>2
      <4>3. cur_ts \in Nat
        BY <2>1
      <4> QED
        BY <3>3, <4>1, <4>2, <4>3
    <3> QED
      BY <3>1, <3>4 DEF Checked, TimewaitDue
  <2> QED
    BY <2>4, <2>5 DEF NoneOverdue
<1> QED
  BY <1>1, ListsInductive, PTL

=============================================================================
