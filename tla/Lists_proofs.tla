------------------------------ MODULE Lists_proofs ------------------------------
(***************************************************************************)
(* Lemmas about sequences and recursive functions.  Every induction rests  *)
(* on LeastElement: a set of numbers that is not empty has a least one,    *)
(* since it would otherwise have finite subsets that shrink for ever.      *)
(***************************************************************************)
EXTENDS Lists, FiniteSets, SequencesExt, FiniteSetsExt, SequenceTheorems,
        FiniteSetTheorems, TLAPS

\* A set of numbers that is not empty has a least element.
LEMMA LeastElement ==
  ASSUME NEW S \in SUBSET Nat, S # {}
  PROVE  \E m \in S : \A k \in S : m <= k
<1> DEFINE Upto(k) == {j \in S : j <= k}
           R == StrictSubsetOrdering(S)
           F == {Upto(k) : k \in S}
<1>1. IsWellFoundedOn(R, FiniteSubsetsOf(S))
  BY FS_StrictSubsetOrderingWellFounded
<1>2. ASSUME NEW k \in S PROVE IsFiniteSet(Upto(k))
  <2>1. Upto(k) \in SUBSET Nat /\ k \in Nat /\ \A j \in Upto(k) : j <= k OBVIOUS
  <2> QED BY <2>1, FS_BoundedSetOfNaturals
<1>3. F \subseteq FiniteSubsetsOf(S) /\ F # {}
  BY <1>2 DEF FiniteSubsetsOf
<1>4. PICK T \in F : \A U \in F : ~(<<U, T>> \in R)
  <2> HIDE DEF R, F
  <2> QED BY <1>1, <1>3, WFMin
<1>5. PICK m \in S : T = Upto(m) OBVIOUS
<1>6. ASSUME NEW k \in S PROVE m <= k
  <2>1. m \in Nat /\ k \in Nat OBVIOUS
  <2>2. SUFFICES ASSUME k < m PROVE FALSE BY <2>1
  <2>3. Upto(k) \subseteq Upto(m)
    <3>1. ASSUME NEW j \in S, j <= k PROVE j <= m
      <4>1. j \in Nat OBVIOUS
      <4> QED BY <4>1, <3>1, <2>1, <2>2
    <3> QED BY <3>1
  <2>4. m \in Upto(m) /\ m \notin Upto(k) BY <2>1, <2>2
  <2>5. <<Upto(k), Upto(m)>> \in R
    BY <2>3, <2>4, Zenon DEF StrictSubsetOrdering
  <2> QED BY <1>4, <1>5, <2>5
<1> QED BY <1>6

\* Min is that element.
LEMMA MinOfSet ==
  ASSUME NEW S \in SUBSET Nat, S # {}
  PROVE  Min(S) \in S /\ \A k \in S : Min(S) <= k
BY LeastElement DEF Min

\* Max is the largest element of a set that has a bound.
LEMMA MaxOfSet ==
  ASSUME NEW S \in SUBSET Nat, S # {}, NEW n \in Nat, \A k \in S : k <= n
  PROVE  Max(S) \in S /\ \A k \in S : k <= Max(S)
<1> DEFINE Above == {m \in Nat : \A k \in S : k <= m}
<1>1. PICK m \in Above : \A k \in Above : m <= k
  <2>1. n \in Above OBVIOUS
  <2> QED BY <2>1, LeastElement
<1>2. m \in S
  <2> SUFFICES ASSUME m \notin S PROVE FALSE OBVIOUS
  <2>1. PICK k \in S : TRUE OBVIOUS
  <2>2. m > 0 BY <2>1
  <2>3. m - 1 \in Above BY <2>2
  <2> QED BY <1>1, <2>3
<1> QED BY <1>2 DEF Max

\* Induction over an interval, with a set in place of a predicate.
LEMMA IntervalInduction ==
  ASSUME NEW N \in Nat, NEW G, 0 \in G, \A n \in 1..N : n - 1 \in G => n \in G
  PROVE  \A n \in 0..N : n \in G
<1> DEFINE Bad == (0..N) \ G
<1> SUFFICES ASSUME Bad # {} PROVE FALSE OBVIOUS
<1>1. Bad \in SUBSET Nat OBVIOUS
<1>2. PICK m \in Bad : \A k \in Bad : m <= k
  <2> HIDE DEF Bad
  <2> QED BY <1>1, LeastElement
<1>3. m \in 1..N OBVIOUS
<1>4. m - 1 \in 0..N /\ m - 1 \notin Bad BY <1>2, <1>3
<1> QED BY <1>3, <1>4

\* A function on 1..n is a sequence of length n.
LEMMA FunctionIsSeq ==
  ASSUME NEW S, NEW n \in Nat, NEW f \in [1..n -> S]
  PROVE  f \in Seq(S) /\ Len(f) = n /\ DOMAIN f = 1..n
OBVIOUS

\* A sequence is a function on its places.
LEMMA SeqIsFunction ==
  ASSUME NEW S, NEW s \in Seq(S)
  PROVE  Len(s) \in Nat /\ s \in [1..Len(s) -> S] /\ DOMAIN s = 1..Len(s)
BY LenProperties

\* A function that is defined step by step exists.
LEMMA RecursiveFunction ==
  ASSUME NEW T, NEW start \in T, NEW N \in Nat, NEW step \in [1..N -> [T -> T]]
  PROVE  \E f \in [0..N -> T] :
            f[0] = start /\ \A n \in 1..N : f[n] = step[n][f[n - 1]]
<1> DEFINE Upto(m, f) == f[0] = start /\ \A n \in 1..m : f[n] = step[n][f[n - 1]]
           Good == {m \in 0..N : \E f \in [0..m -> T] : Upto(m, f)}
<1>1. 0 \in Good
  <2> DEFINE g == [n \in 0..0 |-> start]
  <2>1. g \in [0..0 -> T] /\ Upto(0, g) OBVIOUS
  <2> HIDE DEF g
  <2> QED BY <2>1
<1>2. ASSUME NEW m \in 1..N, m - 1 \in Good
      PROVE  m \in Good
  <2>1. PICK f \in [0..(m - 1) -> T] : Upto(m - 1, f) BY <1>2
  <2> DEFINE g == [n \in 0..m |-> IF n = m THEN step[m][f[m - 1]] ELSE f[n]]
  <2>2. step[m] \in [T -> T] /\ f[m - 1] \in T OBVIOUS
  <2>3. g \in [0..m -> T] BY <2>2
  <2>4. g[0] = start BY <2>1
  <2>5. ASSUME NEW n \in 1..m PROVE g[n] = step[n][g[n - 1]]
    <3>1. CASE n = m BY <3>1
    <3>2. CASE n # m
      <4>1. n \in 1..(m - 1) /\ n - 1 \in 0..(m - 1) BY <3>2
      <4>2. g[n] = f[n] /\ g[n - 1] = f[n - 1] BY <4>1, <3>2
      <4> QED BY <4>1, <4>2, <2>1
    <3> QED BY <3>1, <3>2
  <2> HIDE DEF g
  <2> QED BY <2>3, <2>4, <2>5
<1>3. N \in Good
  <2>1. N \in 0..N OBVIOUS
  <2> HIDE DEF Good
  <2> QED BY <1>1, <1>2, <2>1, IntervalInduction
<1>4. PICK f \in [0..N -> T] : Upto(N, f) BY <1>3
<1> QED BY <1>4

\* f[n] is what is kept of the first n elements.
KeptBy(f, S, list, keep) ==
  /\ f \in [0..Len(list) -> Seq(S)]
  /\ f[0] = <<>> /\ Kept(list, keep) = f[Len(list)]
  /\ \A n \in 1..Len(list) :
       f[n] = IF n \in keep THEN Append(f[n - 1], list[n]) ELSE f[n - 1]

\* The function that Kept computes exists, and has its equations.
LEMMA KeptFunction ==
  ASSUME NEW S, NEW list, list \in Seq(S), NEW keep
  PROVE  \E f : KeptBy(f, S, list, keep)
<1> DEFINE N == Len(list)
           step == [n \in 1..N |->
                      [s \in Seq(S) |-> IF n \in keep THEN Append(s, list[n]) ELSE s]]
           Is(f) == f = [n \in 0..N |-> IF n = 0 THEN <<>>
                                        ELSE IF n \in keep THEN Append(f[n - 1], list[n])
                                        ELSE f[n - 1]]
           from[n \in 0..N] == IF n = 0 THEN <<>>
                               ELSE IF n \in keep THEN Append(from[n - 1], list[n])
                               ELSE from[n - 1]
<1>1. N \in Nat /\ (\A n \in 1..N : list[n] \in S) /\ <<>> \in Seq(S)
  BY LenProperties
<1>2. step \in [1..N -> [Seq(S) -> Seq(S)]] BY <1>1
<1>3. PICK g \in [0..N -> Seq(S)] :
          g[0] = <<>> /\ \A n \in 1..N : g[n] = step[n][g[n - 1]]
  <2> DEFINE T == Seq(S)
             start == <<>>
  <2>1. /\ N \in Nat
        /\ start \in T
        /\ step \in [1..N -> [T -> T]]
    BY <1>1, <1>2
  <2> HIDE DEF step, N, T, start, from, Is
  <2>2. \E g \in [0..N -> T] :
          g[0] = start /\ \A n \in 1..N : g[n] = step[n][g[n - 1]]
    BY ONLY <2>1, RecursiveFunction
  <2> QED BY <2>2, Zenon DEF T, start
<1>4. Is(g)
  <2>1. ASSUME NEW n \in 0..N
        PROVE  g[n] = IF n = 0 THEN <<>>
                      ELSE IF n \in keep THEN Append(g[n - 1], list[n]) ELSE g[n - 1]
    <3>1. CASE n = 0 BY <1>3, <3>1
    <3>2. CASE n # 0
      <4>1. n \in 1..N /\ n - 1 \in 0..N /\ g[n - 1] \in Seq(S) BY <1>1, <3>2
      <4>2. g[n] = step[n][g[n - 1]]
        <5> HIDE DEF step
        <5> QED BY <1>3, <3>2
      <4>3. step[n][g[n - 1]] = IF n \in keep THEN Append(g[n - 1], list[n]) ELSE g[n - 1]
        BY <4>1
      <4> QED BY <3>2, <4>2, <4>3
    <3> QED BY <3>1, <3>2
  <2> QED BY <2>1
<1>5. Kept(list, keep) = from[N] BY DEF Kept
<1>6. from = CHOOSE f : Is(f) OBVIOUS
<1>7. Is(from)
  <2> HIDE DEF Is, from
  <2> QED BY <1>4, <1>6
<1>8. ASSUME NEW f, Is(f)
      PROVE  f = g
  <2> DEFINE Same == {m \in 0..N : f[m] = g[m]}
  <2>1. 0 \in Same BY <1>1, <1>4, <1>8
  <2>2. ASSUME NEW m \in 1..N, m - 1 \in Same PROVE m \in Same
    <3>1. m \in 0..N /\ m # 0 BY <1>1
    <3>2. f[m - 1] = g[m - 1] BY <2>2
    <3> QED BY <3>1, <3>2, <1>4, <1>8
  <2>3. \A m \in 0..N : m \in Same
    <3> HIDE DEF Same
    <3> QED BY <1>1, <2>1, <2>2, IntervalInduction
  <2> QED BY <2>3, <1>4, <1>8
<1>9. from = g
  <2> HIDE DEF from, Is
  <2> QED BY <1>7, <1>8
<1>10. Kept(list, keep) = g[N]
  <2> HIDE DEF from
  <2> QED BY <1>5, <1>9
<1>11. \A n \in 1..N : g[n] = IF n \in keep THEN Append(g[n - 1], list[n]) ELSE g[n - 1]
  <2> HIDE DEF from, step, N
  <2> TAKE n \in 1..N
  <2>1. n \in 0..N /\ n # 0 BY <1>1
  <2> QED BY <1>4, <2>1
<1>12. g[0] = <<>>
  <2> HIDE DEF from, step
  <2> QED BY <1>4, <1>1
<1>13. KeptBy(g, S, list, keep)
  <2> HIDE DEF from, step, Is
  <2> QED BY <1>10, <1>11, <1>12 DEF KeptBy
<1> QED BY <1>13, Zenon

\* Kept keeps the elements in their order: its places come from those of keep,
\* all of them, one after another.
LEMMA KeptPlaces ==
  ASSUME NEW S, NEW list, list \in Seq(S), NEW keep
  PROVE  /\ Kept(list, keep) \in Seq(S)
         /\ \E at \in [1..Len(Kept(list, keep)) -> keep \cap (1..Len(list))] :
              /\ \A j, k \in DOMAIN at : j < k => at[j] < at[k]
              /\ \A i \in keep \cap (1..Len(list)) : \E k \in DOMAIN at : at[k] = i
              /\ \A k \in DOMAIN at : Kept(list, keep)[k] = list[at[k]]
<1> DEFINE N == Len(list)
           To(n) == keep \cap (1..n)
<1>1. PICK f : KeptBy(f, S, list, keep) BY KeptFunction, Zenon
<1>2. /\ f \in [0..N -> Seq(S)] /\ f[0] = <<>> /\ Kept(list, keep) = f[N]
      /\ \A n \in 1..N : f[n] = IF n \in keep THEN Append(f[n - 1], list[n]) ELSE f[n - 1]
      /\ N \in Nat /\ \A i \in 1..N : list[i] \in S
  BY <1>1, LenProperties DEF KeptBy
<1> DEFINE Places(n, at) ==
             /\ at \in [1..Len(f[n]) -> To(n)]
             /\ \A j, k \in 1..Len(f[n]) : j < k => at[j] < at[k]
             /\ \A i \in To(n) : \E k \in 1..Len(f[n]) : at[k] = i
             /\ \A k \in 1..Len(f[n]) : f[n][k] = list[at[k]]
           Good == {n \in 0..N : \E at : Places(n, at)}
<1>3. 0 \in Good
  <2> DEFINE at == <<>>
  <2>1. Len(f[0]) = 0 /\ To(0) = {} BY <1>2
  <2>2. <<>> \in [1..0 -> To(0)] OBVIOUS
  <2>3. Places(0, at) BY <2>1, <2>2
  <2>4. 0 \in 0..N BY <1>2
  <2> HIDE DEF at, Places
  <2> QED BY <2>3, <2>4
<1>4. ASSUME NEW n \in 1..N, n - 1 \in Good PROVE n \in Good
  <2>1. PICK at : Places(n - 1, at) BY <1>4
  <2>2. /\ n \in Nat /\ n - 1 \in 0..N /\ n \in 0..N /\ list[n] \in S
        /\ f[n - 1] \in Seq(S)
    <3>1. /\ N \in Nat /\ f \in [0..N -> Seq(S)]
          /\ \A i \in 1..N : list[i] \in S
      BY <1>2
    <3> HIDE DEF N
    <3>2. n \in Nat /\ n - 1 \in 0..N /\ n \in 0..N BY <3>1
    <3> QED BY <3>1, <3>2
  <2>3. CASE n \in keep
    <3> DEFINE q == f[n - 1]
               up == [k \in 1..Len(q) + 1 |-> IF k = Len(q) + 1 THEN n ELSE at[k]]
    <3>1. f[n] = Append(q, list[n]) BY <1>2, <2>3
    <3>2. Len(q) \in Nat BY <2>2
    <3>3. /\ Len(f[n]) = Len(q) + 1 /\ f[n][Len(q) + 1] = list[n]
          /\ \A k \in 1..Len(q) : f[n][k] = q[k]
      BY <3>1, <2>2, AppendProperties
    <3>4. To(n) = To(n - 1) \cup {n} BY <2>2, <2>3
    <3>5. \A k \in 1..Len(q) : up[k] = at[k] /\ at[k] \in To(n - 1)
      <4>1. at \in [1..Len(q) -> To(n - 1)] BY <2>1
      <4> HIDE DEF q, To, Places
      <4> QED BY <4>1, <3>2
    <3>6. up[Len(q) + 1] = n BY <3>2
    <3>7. up \in [1..Len(f[n]) -> To(n)]
      <4>1. ASSUME NEW k \in 1..Len(q) + 1 PROVE up[k] \in To(n)
        <5>1. CASE k = Len(q) + 1
          <6> HIDE DEF up, To
          <6> QED BY <5>1, <3>4, <3>6
        <5>2. CASE k # Len(q) + 1
          <6> HIDE DEF up, To, q
          <6>1. k \in 1..Len(q) BY <5>2, <3>2
          <6> QED BY <6>1, <3>4, <3>5
        <5> QED BY <5>1, <5>2
      <4> HIDE DEF To
      <4> QED BY <4>1, <3>3
    <3>8. ASSUME NEW j \in 1..Len(f[n]), NEW k \in 1..Len(f[n]), j < k
          PROVE  up[j] < up[k]
      <4>1. j \in 1..Len(q) BY <3>2, <3>3, <3>8
      <4>2. CASE k = Len(q) + 1
        <5>1. at[j] \in 1..n - 1 /\ up[j] = at[j] BY <4>1, <3>5
        <5> QED BY <4>2, <5>1, <3>6, <2>2
      <4>3. CASE k # Len(q) + 1
        <5>1. k \in 1..Len(q) BY <4>3, <3>2, <3>3
        <5> QED BY <4>1, <5>1, <3>5, <3>8, <2>1
      <4> QED BY <4>2, <4>3
    <3>9. ASSUME NEW i \in To(n) PROVE \E k \in 1..Len(f[n]) : up[k] = i
      <4>1. CASE i = n
        <5>1. Len(q) + 1 \in 1..Len(f[n]) BY <3>2, <3>3
        <5> QED BY <4>1, <5>1, <3>6
      <4>2. CASE i # n
        <5>1. PICK k \in 1..Len(q) : at[k] = i BY <4>2, <3>4, <2>1
        <5>2. k \in 1..Len(f[n]) BY <3>2, <3>3
        <5> QED BY <5>1, <5>2, <3>5
      <4> QED BY <4>1, <4>2
    <3>10. ASSUME NEW k \in 1..Len(f[n]) PROVE f[n][k] = list[up[k]]
      <4>1. CASE k = Len(q) + 1 BY <4>1, <3>3, <3>6
      <4>2. CASE k # Len(q) + 1
        <5>1. k \in 1..Len(q) BY <4>2, <3>2, <3>3
        <5> QED BY <5>1, <3>3, <3>5, <2>1
      <4> QED BY <4>1, <4>2
    <3> HIDE DEF up
    <3>11. Places(n, up) BY <3>7, <3>8, <3>9, <3>10
    <3> HIDE DEF Places
    <3> QED BY <3>11, <2>2
  <2>4. CASE n \notin keep
    <3>1. f[n] = f[n - 1] BY <1>2, <2>4
    <3>2. To(n) = To(n - 1) BY <2>2, <2>4
    <3>3. Places(n, at)
      <4> HIDE DEF To
      <4> QED BY <3>1, <3>2, <2>1
    <3> HIDE DEF Places
    <3> QED BY <3>3, <2>2
  <2> QED BY <2>3, <2>4
<1>5. N \in Good
  <2>1. N \in 0..N BY <1>2
  <2> HIDE DEF Good
  <2> QED BY <1>2, <1>3, <1>4, <2>1, IntervalInduction
<1>6. PICK at : Places(N, at) BY <1>5
<1> DEFINE K == Kept(list, keep)
<1>7. DOMAIN at = 1..Len(f[N]) /\ f[N] \in Seq(S) /\ K = f[N] BY <1>2, <1>6
<1>8. /\ at \in [1..Len(K) -> keep \cap (1..Len(list))]
      /\ \A j, k \in DOMAIN at : j < k => at[j] < at[k]
      /\ \A i \in keep \cap (1..Len(list)) : \E k \in DOMAIN at : at[k] = i
      /\ \A k \in DOMAIN at : K[k] = list[at[k]]
  <2> HIDE DEF K
  <2> QED BY <1>6, <1>7
<1>9. K \in Seq(S) BY <1>7
<1> HIDE DEF N
<1> QED BY <1>8, <1>9

\* An increasing function between intervals never falls behind.
LEMMA Increasing ==
  ASSUME NEW n \in Nat, NEW m \in Nat, NEW at \in [1..n -> 1..m],
         \A j, k \in 1..n : j < k => at[j] < at[k]
  PROVE  n <= m /\ \A k \in 1..n : k <= at[k]
<1> DEFINE Good == {0} \cup {k \in 1..n : k <= at[k]}
<1>1. 0 \in Good OBVIOUS
<1>2. ASSUME NEW k \in 1..n, k - 1 \in Good PROVE k \in Good
  <2>1. at[k] \in 1..m OBVIOUS
  <2>2. CASE k = 1 BY <2>1, <2>2
  <2>3. CASE k # 1
    <3>1. k - 1 \in 1..n /\ k - 1 < k /\ k - 1 # 0 BY <2>3
    <3>2. k - 1 <= at[k - 1] /\ at[k - 1] < at[k] /\ at[k - 1] \in 1..m BY <3>1, <1>2
    <3> QED BY <3>2, <2>1
  <2> QED BY <2>2, <2>3
<1>3. \A k \in 0..n : k \in Good
  <2> HIDE DEF Good
  <2> QED BY <1>1, <1>2, IntervalInduction
<1>4. \A k \in 1..n : k <= at[k] BY <1>3
<1>5. CASE n = 0 BY <1>4, <1>5
<1>6. CASE n # 0
  <2>1. n \in 1..n /\ at[n] \in 1..m BY <1>6
  <2> QED BY <1>4, <2>1
<1> QED BY <1>5, <1>6

\* Kept has the elements at the places of keep, and no new duplicates.
LEMMA KeptElements ==
  ASSUME NEW S, NEW list, list \in Seq(S), NEW keep
  PROVE  /\ Kept(list, keep) \in Seq(S)
         /\ ToSet(Kept(list, keep)) = {list[i] : i \in keep \cap DOMAIN list}
         /\ IsInjective(list) => IsInjective(Kept(list, keep))
<1> DEFINE K == Kept(list, keep)
           N == Len(list)
<1>1. K \in Seq(S) /\ N \in Nat /\ DOMAIN list = 1..N
  BY KeptPlaces, LenProperties
<1>2. PICK at \in [1..Len(K) -> keep \cap (1..N)] :
          /\ \A j, k \in DOMAIN at : j < k => at[j] < at[k]
          /\ \A i \in keep \cap (1..N) : \E k \in DOMAIN at : at[k] = i
          /\ \A k \in DOMAIN at : K[k] = list[at[k]]
  BY KeptPlaces
<1> HIDE DEF K
<1>3. Len(K) \in Nat /\ DOMAIN K = 1..Len(K) /\ DOMAIN at = 1..Len(K)
  BY <1>1, LenProperties
<1> HIDE DEF N
<1>4. \A k \in DOMAIN K : at[k] \in keep \cap (1..N) /\ K[k] = list[at[k]]
  BY <1>2, <1>3
<1>5. ToSet(K) = {list[i] : i \in keep \cap (1..N)}
  <2>1. ASSUME NEW i \in keep \cap (1..N) PROVE list[i] \in ToSet(K)
    <3>1. PICK k \in DOMAIN at : at[k] = i BY <1>2
    <3> QED BY <3>1, <1>3, <1>4 DEF ToSet
  <2> QED BY <2>1, <1>4 DEF ToSet
<1>6. ASSUME IsInjective(list), NEW j \in DOMAIN K, NEW k \in DOMAIN K, K[j] = K[k]
      PROVE  j = k
  <2>1. at[j] = at[k] BY <1>1, <1>4, <1>6 DEF IsInjective
  <2>2. at[j] \in 1..N /\ ~(at[j] < at[j]) BY <1>1, <1>4
  <2>3. ~(j < k) /\ ~(k < j) BY <1>2, <1>3, <2>1, <2>2
  <2> QED BY <2>3, <1>3
<1>7. IsInjective(list) => IsInjective(K) BY <1>6 DEF IsInjective
<1>8. {list[i] : i \in keep \cap (1..N)} = {list[i] : i \in keep \cap DOMAIN list}
  BY <1>1
<1> QED BY <1>1, <1>5, <1>7, <1>8 DEF K

\* RemoveAt moves the elements behind i down by one.
LEMMA RemoveAtElements ==
  ASSUME NEW S, NEW list, list \in Seq(S), NEW i \in 1..Len(list)
  PROVE  /\ RemoveAt(list, i) \in Seq(S) /\ Len(RemoveAt(list, i)) = Len(list) - 1
         /\ \A k \in 1..Len(list) - 1 :
              RemoveAt(list, i)[k] = list[IF k < i THEN k ELSE k + 1]
<1> DEFINE a == SubSeq(list, 1, i - 1)
           b == SubSeq(list, i + 1, Len(list))
<1>1. Len(list) \in Nat /\ i \in Nat /\ \A j \in 1..Len(list) : list[j] \in S
  BY LenProperties
<1>2. /\ a \in Seq(S) /\ Len(a) = i - 1
      /\ \A k \in 1..i - 1 : a[k] = list[k]
  BY <1>1, SubSeqProperties
<1>3. /\ b \in Seq(S) /\ Len(b) = Len(list) - i
      /\ \A k \in 1..Len(list) - i : b[k] = list[i + k]
  BY <1>1, SubSeqProperties
<1>4. RemoveAt(list, i) = a \o b BY DEF RemoveAt
<1> HIDE DEF a, b
<1>5. /\ a \o b \in Seq(S) /\ Len(a \o b) = Len(list) - 1
      /\ \A k \in 1..Len(list) - 1 : (a \o b)[k] = IF k < i THEN a[k] ELSE b[k - (i - 1)]
  BY <1>1, <1>2, <1>3, ConcatProperties, SMTT(30)
<1>6. ASSUME NEW k \in 1..Len(list) - 1
      PROVE  (a \o b)[k] = list[IF k < i THEN k ELSE k + 1]
  <2>1. CASE k < i BY <2>1, <1>1, <1>2, <1>5
  <2>2. CASE ~(k < i)
    <3>1. k - (i - 1) \in 1..Len(list) - i /\ i + (k - (i - 1)) = k + 1 BY <2>2, <1>1
    <3> QED BY <2>2, <3>1, <1>3, <1>5
  <2> QED BY <2>1, <2>2
<1> QED BY <1>4, <1>5, <1>6

\* The elements of a concatenation, and when none of them is there twice.
LEMMA ConcatElements ==
  ASSUME NEW S, NEW s \in Seq(S), NEW t \in Seq(S)
  PROVE  /\ s \o t \in Seq(S)
         /\ ToSet(s \o t) = ToSet(s) \cup ToSet(t)
         /\ (IsInjective(s) /\ IsInjective(t) /\ ToSet(s) \cap ToSet(t) = {})
               => IsInjective(s \o t)
<1> DEFINE u == s \o t
           m == Len(s)
           n == Len(t)
<1>1. /\ m \in Nat /\ n \in Nat /\ DOMAIN s = 1..m /\ DOMAIN t = 1..n
      /\ u \in Seq(S) /\ DOMAIN u = 1..m + n
      /\ \A i \in 1..m + n : u[i] = IF i <= m THEN s[i] ELSE t[i - m]
  BY ConcatProperties, LenProperties
<1> HIDE DEF u, m, n
<1>2. \A i \in 1..m : i \in 1..m + n /\ u[i] = s[i] BY <1>1
<1>3. \A i \in 1..n : i + m \in 1..m + n /\ u[i + m] = t[i]
  <2> TAKE i \in 1..n
  <2>1. i + m \in 1..m + n /\ ~(i + m <= m) /\ (i + m) - m = i BY <1>1
  <2> QED BY <2>1, <1>1
<1>4. \A i \in 1..m + n : i \in 1..m \/ i - m \in 1..n BY <1>1
<1>0. /\ \A i \in 1..m : s[i] \in ToSet(s)
      /\ \A i \in 1..n : t[i] \in ToSet(t)
  BY <1>1 DEF ToSet
<1>5. \A i \in 1..m + n : u[i] \in ToSet(s) \cup ToSet(t)
  <2> TAKE i \in 1..m + n
  <2>1. CASE i <= m
    <3>1. i \in 1..m /\ u[i] = s[i] BY <2>1, <1>1
    <3> QED BY <3>1, <1>0, Zenon
  <2>2. CASE ~(i <= m)
    <3>1. i - m \in 1..n /\ u[i] = t[i - m] BY <2>2, <1>1
    <3> QED BY <3>1, <1>0, Zenon
  <2> QED BY <2>1, <2>2
<1>6. ToSet(u) = ToSet(s) \cup ToSet(t)
  <2>1. \A x \in ToSet(s) : x \in ToSet(u) BY <1>1, <1>2, Zenon DEF ToSet
  <2>2. \A x \in ToSet(t) : x \in ToSet(u)
    <3> TAKE x \in ToSet(t)
    <3>1. PICK i \in 1..n : x = t[i] BY <1>1 DEF ToSet
    <3>2. PICK j \in 1..m + n : x = u[j] BY <1>3, <3>1
    <3> QED BY <1>1, <3>2 DEF ToSet
  <2>3. \A x \in ToSet(u) : x \in ToSet(s) \cup ToSet(t) BY <1>1, <1>5 DEF ToSet
  <2> QED BY <2>1, <2>2, <2>3
<1>7. ASSUME IsInjective(s), IsInjective(t), ToSet(s) \cap ToSet(t) = {},
             NEW i \in 1..m + n, NEW j \in 1..m + n, u[i] = u[j]
      PROVE  i = j
  <2>1. CASE i <= m /\ j <= m
    <3>1. i \in 1..m /\ j \in 1..m /\ s[i] = s[j] BY <2>1, <1>1, <1>7
    <3> QED BY <3>1, <1>1, <1>7 DEF IsInjective
  <2>2. CASE ~(i <= m) /\ ~(j <= m)
    <3>1. i - m \in 1..n /\ j - m \in 1..n /\ t[i - m] = t[j - m] BY <2>2, <1>1, <1>7
    <3>2. i - m = j - m BY <3>1, <1>1, <1>7 DEF IsInjective
    <3> QED BY <3>2, <1>1
  <2>3. CASE i <= m /\ ~(j <= m)
    <3>1. s[i] \in ToSet(s) /\ t[j - m] \in ToSet(t) /\ s[i] = t[j - m]
      <4>1. i \in 1..m /\ j - m \in 1..n /\ u[i] = s[i] /\ u[j] = t[j - m]
        BY <2>3, <1>1
      <4> QED BY <4>1, <1>0, <1>7
    <3> QED BY <3>1, <1>7
  <2>4. CASE ~(i <= m) /\ j <= m
    <3>1. s[j] \in ToSet(s) /\ t[i - m] \in ToSet(t) /\ s[j] = t[i - m]
      <4>1. j \in 1..m /\ i - m \in 1..n /\ u[j] = s[j] /\ u[i] = t[i - m]
        BY <2>4, <1>1
      <4> QED BY <4>1, <1>0, <1>7
    <3> QED BY <3>1, <1>7
  <2> QED BY <2>1, <2>2, <2>3, <2>4
<1>8. (IsInjective(s) /\ IsInjective(t) /\ ToSet(s) \cap ToSet(t) = {}) => IsInjective(u)
  BY <1>1, <1>7 DEF IsInjective
<1> QED BY <1>1, <1>6, <1>8 DEF u

\* Reverse keeps the elements.
LEMMA ReverseElements ==
  ASSUME NEW S, NEW s \in Seq(S)
  PROVE  /\ Reverse(s) \in Seq(S)
         /\ ToSet(Reverse(s)) = ToSet(s)
         /\ IsInjective(s) => IsInjective(Reverse(s))
<1> DEFINE n == Len(s)
           r == [i \in 1..n |-> s[(n - i) + 1]]
<1>1. n \in Nat /\ DOMAIN s = 1..n /\ \A i \in 1..n : s[i] \in S BY LenProperties
<1>2. Reverse(s) = r BY DEF Reverse
<1> HIDE DEF n
<1>3. \A i \in 1..n : (n - i) + 1 \in 1..n /\ (n - ((n - i) + 1)) + 1 = i BY <1>1
<1>4. r \in [1..n -> S] BY <1>1, <1>3
<1>5. r \in Seq(S) /\ DOMAIN r = 1..n BY <1>1, <1>4, FunctionIsSeq
<1>6. \A i \in 1..n : r[i] = s[(n - i) + 1] /\ s[i] = r[(n - i) + 1] BY <1>3
<1> HIDE DEF r
<1>7. ToSet(r) = ToSet(s)
  <2>1. \A x \in ToSet(s) : x \in ToSet(r) BY <1>1, <1>3, <1>5, <1>6 DEF ToSet
  <2>2. \A x \in ToSet(r) : x \in ToSet(s) BY <1>1, <1>3, <1>5, <1>6 DEF ToSet
  <2> QED BY <2>1, <2>2
<1>8. ASSUME IsInjective(s), NEW i \in 1..n, NEW j \in 1..n, r[i] = r[j]
      PROVE  i = j
  <2>1. (n - i) + 1 = (n - j) + 1 BY <1>1, <1>3, <1>6, <1>8 DEF IsInjective
  <2> QED BY <2>1, <1>1
<1>9. IsInjective(s) => IsInjective(r) BY <1>5, <1>8 DEF IsInjective
<1> QED BY <1>2, <1>5, <1>7, <1>9

\* Append adds one.
LEMMA AppendElements ==
  ASSUME NEW S, NEW s, s \in Seq(S), NEW e \in S
  PROVE  /\ Append(s, e) \in Seq(S) /\ ToSet(Append(s, e)) = ToSet(s) \cup {e}
         /\ IsInjective(s) /\ e \notin ToSet(s) => IsInjective(Append(s, e))
<1> DEFINE t == <<e>>
<1>1. t \in Seq(S) /\ DOMAIN t = 1..1 /\ t[1] = e OBVIOUS
<1>2. Append(s, e) = s \o t BY AppendIsConcat
<1> HIDE DEF t
<1>3. ToSet(t) = {e} /\ IsInjective(t) BY <1>1 DEF ToSet, IsInjective
<1>4. e \notin ToSet(s) => ToSet(s) \cap ToSet(t) = {} BY <1>3
<1> QED BY <1>1, <1>2, <1>3, <1>4, ConcatElements

\* RemoveAt keeps the elements at all places but one.
LEMMA RemoveAtPlaces ==
  ASSUME NEW S, NEW list, list \in Seq(S), NEW i \in 1..Len(list)
  PROVE  /\ ToSet(RemoveAt(list, i)) = {list[k] : k \in (DOMAIN list) \ {i}}
         /\ IsInjective(list) => IsInjective(RemoveAt(list, i))
<1> DEFINE n == Len(list)
           r == RemoveAt(list, i)
           At(k) == IF k < i THEN k ELSE k + 1
<1>1. n \in Nat /\ DOMAIN list = 1..n BY LenProperties
<1>2. r \in Seq(S) /\ Len(r) = n - 1 /\ \A k \in 1..n - 1 : r[k] = list[At(k)]
  BY RemoveAtElements
<1> HIDE DEF r
<1>3. DOMAIN r = 1..n - 1 BY <1>2, LenProperties
<1> HIDE DEF n
<1>4. i \in 1..n BY DEF n
<1>5. \A k \in 1..n - 1 : At(k) \in (1..n) \ {i} BY <1>1, <1>4
<1>6. \A j, k \in 1..n - 1 : At(j) = At(k) => j = k BY <1>1, <1>4
<1>7. ASSUME NEW k \in (1..n) \ {i} PROVE \E j \in 1..n - 1 : At(j) = k
  <2>1. CASE k < i
    <3>1. k \in 1..n - 1 /\ At(k) = k BY <2>1, <1>1, <1>4
    <3> QED BY <3>1
  <2>2. CASE ~(k < i)
    <3>1. k - 1 \in 1..n - 1 /\ At(k - 1) = k BY <2>2, <1>1, <1>4
    <3> HIDE DEF At
    <3> QED BY <3>1
  <2> QED BY <2>1, <2>2
<1> HIDE DEF At
<1>8. ToSet(r) = {list[k] : k \in (1..n) \ {i}}
  <2>1. \A x \in ToSet(r) : x \in {list[k] : k \in (1..n) \ {i}}
    BY <1>2, <1>3, <1>5 DEF ToSet
  <2>2. ASSUME NEW k \in (1..n) \ {i} PROVE list[k] \in ToSet(r)
    <3>1. PICK j \in 1..n - 1 : At(j) = k BY <1>7
    <3>2. list[k] = r[j] BY <3>1, <1>2
    <3> QED BY <3>2, <1>3 DEF ToSet
  <2> QED BY <2>1, <2>2
<1>9. ASSUME IsInjective(list), NEW j \in DOMAIN r, NEW k \in DOMAIN r, r[j] = r[k]
      PROVE  j = k
  <2>1. At(j) \in 1..n /\ At(k) \in 1..n /\ list[At(j)] = list[At(k)]
    BY <1>2, <1>3, <1>5, <1>9
  <2>2. At(j) = At(k) BY <2>1, <1>1, <1>9 DEF IsInjective
  <2> QED BY <2>2, <1>3, <1>6
<1>10. IsInjective(list) => IsInjective(r) BY <1>9 DEF IsInjective
<1> QED BY <1>1, <1>8, <1>10 DEF r

\* RemoveFirst takes one element out, the only one in a list without duplicates.
LEMMA RemoveFirstElements ==
  ASSUME NEW S, NEW s, s \in Seq(S), NEW e, e \in ToSet(s)
  PROVE  /\ RemoveFirst(s, e) \in Seq(S) /\ ToSet(RemoveFirst(s, e)) \subseteq ToSet(s)
         /\ IsInjective(s) => /\ IsInjective(RemoveFirst(s, e))
                              /\ ToSet(RemoveFirst(s, e)) = ToSet(s) \ {e}
<1> DEFINE I == {k \in 1..Len(s) : s[k] = e}
<1>1. Len(s) \in Nat /\ DOMAIN s = 1..Len(s) BY LenProperties
<1>2. I # {} /\ I \in SUBSET Nat BY <1>1 DEF ToSet
<1>3. PICK i \in I : i = Min(I)
  <2> HIDE DEF I
  <2> QED BY <1>2, MinOfSet
<1>4. RemoveFirst(s, e) = RemoveAt(s, i)
  BY <1>2, <1>3 DEF RemoveFirst, SelectInSeq
<1>5. i \in 1..Len(s) /\ s[i] = e OBVIOUS
<1>6. RemoveAt(s, i) \in Seq(S) BY <1>5, RemoveAtElements
<1>7. /\ ToSet(RemoveAt(s, i)) = {s[k] : k \in (DOMAIN s) \ {i}}
      /\ IsInjective(s) => IsInjective(RemoveAt(s, i))
  BY <1>5, RemoveAtPlaces
<1>8. {s[k] : k \in (DOMAIN s) \ {i}} \subseteq ToSet(s) BY DEF ToSet
<1>9. IsInjective(s) => {s[k] : k \in (DOMAIN s) \ {i}} = ToSet(s) \ {e}
  BY <1>1, <1>5 DEF ToSet, IsInjective
<1> QED BY <1>4, <1>6, <1>7, <1>8, <1>9

\* The part of a list behind a place.
LEMMA RestElements ==
  ASSUME NEW S, NEW s, s \in Seq(S), NEW i \in 1..Len(s)
  PROVE  /\ SubSeq(s, i + 1, Len(s)) \in Seq(S)
         /\ ToSet(SubSeq(s, i + 1, Len(s))) = {s[k] : k \in i + 1..Len(s)}
         /\ IsInjective(s) => IsInjective(SubSeq(s, i + 1, Len(s)))
<1> DEFINE n == Len(s)
           r == SubSeq(s, i + 1, n)
<1>1. n \in Nat /\ DOMAIN s = 1..n BY LenProperties
<1>2. /\ r \in Seq(S) /\ Len(r) = n - i
      /\ \A k \in 1..n - i : r[k] = s[i + k]
  BY SubSeqProperties, LenProperties
<1> HIDE DEF r
<1>3. DOMAIN r = 1..n - i BY <1>2, LenProperties
<1> HIDE DEF n
<1>4. i \in 1..n BY DEF n
<1>5. \A k \in 1..n - i : i + k \in i + 1..n BY <1>1, <1>4
<1>6. \A k \in i + 1..n : k - i \in 1..n - i /\ i + (k - i) = k /\ k \in 1..n BY <1>1, <1>4
<1>7. ToSet(r) = {s[k] : k \in i + 1..n}
  <2>1. \A x \in ToSet(r) : x \in {s[k] : k \in i + 1..n}
    <3> TAKE x \in ToSet(r)
    <3>1. PICK k \in 1..n - i : x = r[k] BY <1>3 DEF ToSet
    <3> QED BY <3>1, <1>2, <1>5
  <2>2. ASSUME NEW k \in i + 1..n PROVE s[k] \in ToSet(r)
    <3>1. PICK j \in 1..n - i : i + j = k BY <1>6
    <3>2. r[j] = s[k] BY <3>1, <1>2
    <3> QED BY <3>2, <1>3 DEF ToSet
  <2> QED BY <2>1, <2>2
<1>8. ASSUME IsInjective(s), NEW j \in DOMAIN r, NEW k \in DOMAIN r, r[j] = r[k]
      PROVE  j = k
  <2>1. j \in 1..n - i /\ k \in 1..n - i BY <1>3
  <2>2. i + j \in 1..n /\ i + k \in 1..n BY <2>1, <1>5, <1>6
  <2>3. s[i + j] = s[i + k] BY <1>2, <1>8, <2>1
  <2>4. i + j = i + k BY <2>2, <2>3, <1>1, <1>8 DEF IsInjective
  <2> QED BY <2>1, <2>4, <1>1
<1>9. IsInjective(s) => IsInjective(r) BY <1>8 DEF IsInjective
<1> QED BY <1>2, <1>7, <1>9 DEF r, n

\* The first element and the others.
LEMMA HeadTailElements ==
  ASSUME NEW S, NEW s, s \in Seq(S), s # <<>>
  PROVE  /\ Head(s) \in S /\ Tail(s) \in Seq(S)
         /\ ToSet(s) = ToSet(Tail(s)) \cup {Head(s)}
         /\ IsInjective(s) => IsInjective(Tail(s)) /\ Head(s) \notin ToSet(Tail(s))
<1> DEFINE n == Len(s)
           r == Tail(s)
<1>1. n \in Nat /\ DOMAIN s = 1..n /\ n # 0 BY LenProperties, EmptySeq
<1>2. /\ Head(s) \in S /\ Head(s) = s[1] /\ r \in Seq(S)
      /\ Len(r) = n - 1 /\ \A k \in 1..n - 1 : r[k] = s[k + 1]
  BY HeadTailProperties, LenProperties
<1> HIDE DEF r
<1>3. DOMAIN r = 1..n - 1 BY <1>2, LenProperties
<1> HIDE DEF n
<1>4. 1 \in 1..n /\ \A k \in 1..n - 1 : k + 1 \in 1..n /\ k + 1 # 1 BY <1>1
<1>5. ToSet(s) = ToSet(r) \cup {s[1]}
  <2>1. \A x \in ToSet(r) : x \in ToSet(s) BY <1>1, <1>2, <1>3, <1>4 DEF ToSet
  <2>2. ASSUME NEW k \in 1..n, k # 1 PROVE s[k] \in ToSet(r)
    <3>1. PICK j \in 1..n - 1 : j + 1 = k
      <4>1. k - 1 \in 1..n - 1 /\ (k - 1) + 1 = k BY <2>2, <1>1
      <4> QED BY <4>1
    <3>2. r[j] = s[k] BY <3>1, <1>2
    <3> QED BY <3>2, <1>3 DEF ToSet
  <2>3. s[1] \in ToSet(s) BY <1>1, <1>4 DEF ToSet
  <2>4. \A x \in ToSet(s) : x \in ToSet(r) \cup {s[1]}
    BY <1>1, <2>2 DEF ToSet
  <2> QED BY <2>1, <2>3, <2>4
<1>6. ASSUME IsInjective(s) PROVE s[1] \notin ToSet(r)
  BY <1>1, <1>2, <1>3, <1>4, <1>6 DEF ToSet, IsInjective
<1>7. ASSUME IsInjective(s), NEW j \in DOMAIN r, NEW k \in DOMAIN r, r[j] = r[k]
      PROVE  j = k
  <2>1. j \in 1..n - 1 /\ k \in 1..n - 1 BY <1>3
  <2>2. j + 1 = k + 1 BY <2>1, <1>1, <1>2, <1>4, <1>7 DEF IsInjective
  <2> QED BY <2>1, <2>2, <1>1
<1>8. IsInjective(s) => IsInjective(r) BY <1>7 DEF IsInjective
<1> QED BY <1>2, <1>5, <1>6, <1>8 DEF r

\* at gives the place in list of each element that is kept.
PlacesKept(at, list, keep) ==
  LET n == Len(Kept(list, keep)) IN
  /\ at \in [1..n -> keep \cap (1..Len(list))]
  /\ \A j, k \in 1..n : j < k => at[j] < at[k]
  /\ \A i \in keep \cap (1..Len(list)) : \E k \in 1..n : at[k] = i
  /\ \A k \in 1..n : Kept(list, keep)[k] = list[at[k]]

LEMMA KeptHasPlaces ==
  ASSUME NEW S, NEW list, list \in Seq(S), NEW keep
  PROVE  \E at : PlacesKept(at, list, keep)
<1>1. PICK K : K = Kept(list, keep) OBVIOUS
<1>2. PICK at \in [1..Len(K) -> keep \cap (1..Len(list))] :
         /\ \A j, k \in DOMAIN at : j < k => at[j] < at[k]
         /\ \A i \in keep \cap (1..Len(list)) : \E k \in DOMAIN at : at[k] = i
         /\ \A k \in DOMAIN at : K[k] = list[at[k]]
  BY <1>1, KeptPlaces
<1>3. DOMAIN at = 1..Len(K) OBVIOUS
<1>4. PlacesKept(at, list, keep) BY <1>1, <1>2, <1>3 DEF PlacesKept
<1> QED BY <1>4

\* f is defined step by step from start.
Steps(f, T, start, n, step) ==
  /\ f \in [0..n -> T] /\ f[0] = start
  /\ \A k \in 1..n : f[k] = step[k][f[k - 1]]

LEMMA StepsExist ==
  ASSUME NEW T, NEW start \in T, NEW n \in Nat, NEW step \in [1..n -> [T -> T]]
  PROVE  \E f : Steps(f, T, start, n, step)
BY RecursiveFunction DEF Steps

\* t is list with e inserted at i.
Insertion(t, S, list, i, e) ==
  /\ t \in Seq(S) /\ Len(t) = Len(list) + 1 /\ t[i] = e
  /\ \A k \in 1..i - 1 : t[k] = list[k]
  /\ \A k \in i..Len(list) : t[k + 1] = list[k]

\* u is s followed by t.
Joined(u, s, t) ==
  /\ Len(u) = Len(s) + Len(t)
  /\ \A k \in 1..Len(s) : u[k] = s[k]
  /\ \A k \in 1..Len(t) : u[Len(s) + k] = t[k]

LEMMA ConcatJoins ==
  ASSUME NEW S, NEW s \in Seq(S), NEW t \in Seq(S)
  PROVE  s \o t \in Seq(S) /\ Joined(s \o t, s, t)
<1> DEFINE u == s \o t
<1>1. /\ u \in Seq(S) /\ Len(u) = Len(s) + Len(t)
      /\ \A k \in 1..Len(s) + Len(t) : u[k] = IF k <= Len(s) THEN s[k] ELSE t[k - Len(s)]
  BY ConcatProperties
<1>2. PICK m, n \in Nat : m = Len(s) /\ n = Len(t) BY LenProperties
<1> HIDE DEF u
<1>3. Len(u) = m + n /\ \A k \in 1..m + n : u[k] = IF k <= m THEN s[k] ELSE t[k - m]
  BY <1>1, <1>2
<1>4. ASSUME NEW k \in 1..m PROVE u[k] = s[k]
  <2>1. k \in 1..m + n /\ k <= m BY <1>2
  <2> QED BY <2>1, <1>3
<1>5. ASSUME NEW k \in 1..n PROVE u[m + k] = t[k]
  <2>1. m + k \in 1..m + n /\ ~(m + k <= m) /\ (m + k) - m = k BY <1>2
  <2>2. u[m + k] = t[(m + k) - m] BY <2>1, <1>3
  <2> QED BY <2>1, <2>2
<1>6. Joined(u, s, t) BY <1>2, <1>3, <1>4, <1>5 DEF Joined
<1> QED BY <1>1, <1>6 DEF u

\* InsertAt moves the elements from i on up by one.
LEMMA InsertAtElements ==
  ASSUME NEW S, NEW list, list \in Seq(S), NEW i \in 1..Len(list) + 1, NEW e \in S
  PROVE  Insertion(InsertAt(list, i, e), S, list, i, e)
<1> DEFINE n == Len(list)
           a == SubSeq(list, 1, i - 1)
           b == SubSeq(list, i, n)
           t == <<e>>
<1>1. n \in Nat /\ i \in Nat /\ \A j \in 1..n : list[j] \in S BY LenProperties
<1>2. a \in Seq(S) /\ Len(a) = i - 1 /\ \A k \in 1..i - 1 : a[k] = list[k]
  BY <1>1, SubSeqProperties
<1>3. /\ b \in Seq(S) /\ Len(b) = n - i + 1
      /\ \A k \in 1..n - i + 1 : b[k] = list[i + k - 1]
  <2>1. CASE i <= n BY <1>1, <2>1, SubSeqProperties
  <2>2. CASE i = n + 1
    <3>1. b = <<>> BY <1>1, <2>2
    <3> QED BY <1>1, <2>2, <3>1
  <2> QED BY <1>1, <2>1, <2>2
<1>4. t \in Seq(S) /\ Len(t) = 1 /\ t[1] = e OBVIOUS
<1>5. InsertAt(list, i, e) = (a \o t) \o b BY DEF InsertAt
<1> HIDE DEF a, b, t
<1>6. PICK u : u = a \o t /\ u \in Seq(S) /\ Joined(u, a, t)
  BY <1>2, <1>4, ConcatJoins
<1>7. Len(u) = i /\ u[i] = e /\ \A k \in 1..i - 1 : u[k] = list[k]
  <2>1. Len(u) = (i - 1) + 1 /\ u[(i - 1) + 1] = t[1] /\ \A k \in 1..i - 1 : u[k] = a[k]
    <3>1. 1 \in 1..Len(t) BY <1>4
    <3> QED BY <3>1, <1>2, <1>4, <1>6 DEF Joined
  <2>2. (i - 1) + 1 = i BY <1>1
  <2> QED BY <2>1, <2>2, <1>2, <1>4
<1>8. PICK w : w = u \o b /\ w \in Seq(S) /\ Joined(w, u, b)
  BY <1>3, <1>6, ConcatJoins
<1> HIDE DEF n
<1>9. /\ Len(w) = i + (n - i + 1)
      /\ \A k \in 1..i : w[k] = u[k]
      /\ \A k \in 1..n - i + 1 : w[i + k] = b[k]
  BY <1>3, <1>7, <1>8 DEF Joined
<1>10. Len(w) = n + 1 BY <1>1, <1>9
<1>11. w[i] = e
  <2>1. i \in 1..i BY <1>1
  <2> QED BY <2>1, <1>7, <1>9
<1>12. \A k \in 1..i - 1 : w[k] = list[k]
  <2>1. \A k \in 1..i - 1 : k \in 1..i BY <1>1
  <2> QED BY <2>1, <1>7, <1>9
<1>13. ASSUME NEW k \in i..n PROVE w[k + 1] = list[k]
  <2>1. PICK j \in 1..n - i + 1 : i + j = k + 1 /\ i + j - 1 = k
    <3>1. (k + 1) - i \in 1..n - i + 1 /\ i + ((k + 1) - i) = k + 1
          /\ i + ((k + 1) - i) - 1 = k
      BY <1>1
    <3> QED BY <3>1
  <2> QED BY <2>1, <1>3, <1>9
<1> QED BY <1>5, <1>6, <1>8, <1>10, <1>11, <1>12, <1>13 DEF n, Insertion
=============================================================================
