-------------------------- MODULE DropPreview_proofs --------------------------
(***************************************************************************)
(* What a drop keeps pinned, and that the grid after it is the one that    *)
(* was shown before: for every grid, all links and every order of drops.   *)
(* The pinned list is read by place (At), a place beyond its end being     *)
(* empty.  The invariant: no link is pinned at two places, and the grid is *)
(* the one getLinks gives for the list.                                    *)
(***************************************************************************)
EXTENDS DropPreview, Lists_proofs

Place == Nat \ {0}

\* No link is at two places.
NotTwice(p) ==
  \A i, j \in Place : At(p, i) = At(p, j) /\ At(p, i) # Empty => i = j

Pins == {p \in Seq(Nat) : NotTwice(p)}

\* q is p after l was unpinned; after it was pinned at i.
Unpinning(p, l, q) ==
  /\ q \in Seq(Nat)
  /\ \A j \in Place : At(q, j) = IF At(p, j) = l THEN Empty ELSE At(p, j)
Pinning(p, l, i, q) ==
  /\ q \in Seq(Nat)
  /\ \A j \in Place : At(q, j) = IF j = i THEN l ELSE IF At(p, j) = l THEN Empty ELSE At(p, j)

-----------------------------------------------------------------------------
\* The pinned list.

\* Without the nulls at the end every place holds what it held.
LEMMA TrimmedAt ==
  ASSUME NEW p \in Seq(Nat)
  PROVE  Trimmed(p) \in Seq(Nat) /\ \A j \in Place : At(Trimmed(p), j) = At(p, j)
<1> DEFINE n == Len(p)
           S == {i \in DOMAIN p : p[i] # Empty} \cup {0}
           m == Max(S)
           t == SubSeq(p, 1, m)
<1>1. n \in Nat /\ DOMAIN p = 1..n /\ \A i \in 1..n : p[i] \in Nat BY LenProperties
<1>2. S \in SUBSET Nat /\ S # {} /\ \A k \in S : k <= n BY <1>1
<1>3. m \in S /\ \A k \in S : k <= m
  <2> HIDE DEF S
  <2> QED BY <1>1, <1>2, MaxOfSet
<1>4. m \in Nat /\ m <= n BY <1>2, <1>3
<1>5. \A i \in 1..n : p[i] # Empty => i <= m
  <2>1. \A i \in 1..n : p[i] # Empty => i \in S BY <1>1
  <2> HIDE DEF S, m
  <2> QED BY <2>1, <1>3
<1>6. Trimmed(p) = t BY DEF Trimmed
<1> HIDE DEF m, S
<1>7. t \in Seq(Nat) /\ Len(t) = m /\ \A i \in 1..m : t[i] = p[i]
  BY <1>1, <1>4, SubSeqProperties
<1>8. DOMAIN t = 1..m BY <1>7, LenProperties
<1> HIDE DEF t, n
<1>9. ASSUME NEW j \in Place PROVE At(t, j) = At(p, j)
  <2>1. j \in Nat /\ j # 0 BY DEF Place
  <2>2. CASE j <= m
    <3>1. j \in 1..m /\ j \in 1..n BY <2>1, <2>2, <1>1, <1>4
    <3> QED BY <3>1, <1>1, <1>7, <1>8 DEF At
  <2>3. CASE ~(j <= m)
    <3>1. j \notin DOMAIN t BY <2>3, <1>8, <1>4, <2>1
    <3>2. j \in DOMAIN p => p[j] = Empty BY <2>3, <1>1, <1>5
    <3> QED BY <3>1, <3>2 DEF At
  <2> QED BY <2>2, <2>3
<1> QED BY <1>6, <1>7, <1>9

\* Unpinning a link empties its places and no other.
LEMMA UnpinnedAt ==
  ASSUME NEW p \in Seq(Nat), NEW l \in Nat
  PROVE  Unpinning(p, l, Unpinned(p, l))
<1> DEFINE q == [i \in DOMAIN p |-> IF p[i] = l THEN Empty ELSE p[i]]
<1>1. Len(p) \in Nat /\ DOMAIN p = 1..Len(p) /\ \A i \in DOMAIN p : p[i] \in Nat
  BY LenProperties
<1>2. q \in Seq(Nat) /\ DOMAIN q = DOMAIN p
  <2>1. q \in [1..Len(p) -> Nat] BY <1>1 DEF Empty
  <2> HIDE DEF q
  <2> QED BY <1>1, <2>1, FunctionIsSeq
<1>3. ASSUME NEW j \in Place
      PROVE  At(q, j) = IF At(p, j) = l THEN Empty ELSE At(p, j)
  BY <1>2 DEF At
<1>4. Unpinned(p, l) = Trimmed(q) BY DEF Unpinned
<1> HIDE DEF q
<1>5. Trimmed(q) \in Seq(Nat) /\ \A j \in Place : At(Trimmed(q), j) = At(q, j)
  BY <1>2, TrimmedAt
<1> QED BY <1>3, <1>4, <1>5 DEF Unpinning

\* Pinning a link at a place empties its other places and no other.
LEMMA PinnedAtAt ==
  ASSUME NEW p \in Seq(Nat), NEW l \in Nat, NEW i \in Place
  PROVE  Pinning(p, l, i, PinnedAt(p, l, i))
<1>1. PICK u : u = Unpinned(p, l) /\ Unpinning(p, l, u) BY UnpinnedAt
<1>2. /\ u \in Seq(Nat)
      /\ \A j \in Place : At(u, j) = IF At(p, j) = l THEN Empty ELSE At(p, j)
  BY <1>1 DEF Unpinning
<1> DEFINE S == {i, Len(u)}
           m == Max(S)
           q == [j \in 1..m |-> IF j = i THEN l ELSE At(u, j)]
<1>3. PinnedAt(p, l, i) = q BY <1>1 DEF PinnedAt
<1>4. Len(u) \in Nat /\ DOMAIN u = 1..Len(u) /\ \A j \in DOMAIN u : u[j] \in Nat
  BY <1>2, LenProperties
<1>5. i \in Nat BY DEF Place
<1>6. m \in S /\ \A k \in S : k <= m
  <2>1. S \in SUBSET Nat /\ S # {} BY <1>4, <1>5
  <2>2. i + Len(u) \in Nat /\ \A k \in S : k <= i + Len(u) BY <1>4, <1>5
  <2> HIDE DEF S
  <2> QED BY <2>1, <2>2, MaxOfSet
<1>7. m \in Nat /\ i <= m /\ Len(u) <= m BY <1>4, <1>5, <1>6
<1> HIDE DEF m
<1>8. \A j \in Place : At(u, j) \in Nat BY <1>4 DEF At, Empty
<1>9. q \in Seq(Nat) /\ DOMAIN q = 1..m
  <2>1. \A j \in 1..m : j \in Place BY <1>7 DEF Place
  <2>2. q \in [1..m -> Nat] BY <2>1, <1>8
  <2> HIDE DEF q
  <2> QED BY <1>7, <2>2, FunctionIsSeq
<1>10. ASSUME NEW j \in Place
       PROVE  At(q, j) = IF j = i THEN l ELSE At(u, j)
  <2>1. j \in Nat /\ j # 0 BY DEF Place
  <2>2. CASE j <= m
    <3>1. j \in 1..m BY <2>1, <2>2, <1>7
    <3> QED BY <3>1, <1>9 DEF At
  <2>3. CASE ~(j <= m)
    <3>1. j \notin 1..m /\ j # i /\ j \notin DOMAIN u BY <2>1, <2>3, <1>4, <1>5, <1>7
    <3> QED BY <3>1, <1>9 DEF At
  <2> QED BY <2>2, <2>3
<1> HIDE DEF q
<1> QED BY <1>2, <1>3, <1>9, <1>10 DEF Pinning

\* Pinning keeps a link from being at two places.
LEMMA PinnedAtPins ==
  ASSUME NEW p \in Pins, NEW l \in Nat, NEW i \in Place
  PROVE  PinnedAt(p, l, i) \in Pins
<1>1. PICK q : q = PinnedAt(p, l, i) /\ Pinning(p, l, i, q) BY PinnedAtAt DEF Pins
<1>2. /\ q \in Seq(Nat)
      /\ \A j \in Place : At(q, j) = IF j = i THEN l ELSE IF At(p, j) = l THEN Empty ELSE At(p, j)
  BY <1>1 DEF Pinning
<1>3. NotTwice(p) BY DEF Pins
<1>4. NotTwice(q)
  <2> SUFFICES ASSUME NEW j \in Place, NEW k \in Place, At(q, j) = At(q, k), At(q, j) # Empty
               PROVE  j = k
    BY DEF NotTwice
  <2>1. CASE j = i /\ k # i BY <2>1, <1>2
  <2>2. CASE j # i /\ k = i BY <2>2, <1>2
  <2>3. CASE j # i /\ k # i
    <3>1. At(q, j) = At(p, j) /\ At(q, k) = At(p, k) BY <1>2, <2>3
    <3> QED BY <3>1, <1>3 DEF NotTwice
  <2> QED BY <2>1, <2>2, <2>3
<1> QED BY <1>1, <1>2, <1>4 DEF Pins

\* A link is in the list when it is at a place.
LEMMA PinnedSomewhere ==
  ASSUME NEW p \in Seq(Nat), NEW l, l # Empty
  PROVE  l \in Range(p) <=> \E j \in Place : At(p, j) = l
<1>1. Len(p) \in Nat /\ DOMAIN p = 1..Len(p) BY LenProperties
<1>2. ASSUME l \in Range(p) PROVE \E j \in Place : At(p, j) = l
  <2>1. PICK j \in DOMAIN p : p[j] = l BY <1>2 DEF Range
  <2>2. j \in Place BY <1>1 DEF Place
  <2> QED BY <2>1, <2>2 DEF At
<1>3. ASSUME NEW j \in Place, At(p, j) = l PROVE l \in Range(p)
  <2>1. j \in DOMAIN p /\ p[j] = l BY <1>3 DEF At
  <2> QED BY <2>1 DEF Range
<1> QED BY <1>2, <1>3

-----------------------------------------------------------------------------
\* The grid.

\* Every cell shows the link that is pinned there; a cell where none is pinned
\* shows a link that is pinned nowhere, or nothing.
LEMMA GridAt ==
  ASSUME NEW prov, NEW p \in Seq(Nat), NEW i \in Cells
  PROVE  /\ Grid(prov, p)[i] \in Nat
         /\ At(p, i) # Empty => Grid(prov, p)[i] = At(p, i)
         /\ At(p, i) = Empty => Grid(prov, p)[i] = Empty \/ Grid(prov, p)[i] \notin Range(p)
<1> DEFINE all == [l \in Links |-> l]
           keep == prov \ Range(p)
           free == Kept(all, keep)
           Unused(k) == {j \in 1..k : At(p, j) = Empty}
           Rank(k) == Cardinality(Unused(k))
           g == [k \in Cells |-> IF At(p, k) # Empty THEN p[k]
                                 ELSE IF Rank(k) <= Len(free) THEN free[Rank(k)] ELSE Empty]
<1>1. Grid(prov, p) = g BY DEF Grid
<1>2. i \in Nat /\ i >= 1 BY ConstantsAssumption DEF Cells
<1>3. all \in Seq(Nat) /\ DOMAIN all = 1..MaxLink
  <2>1. all \in [1..MaxLink -> Nat] BY ConstantsAssumption DEF Links
  <2> HIDE DEF all
  <2> QED BY <2>1, ConstantsAssumption, FunctionIsSeq
<1>4. free \in Seq(Nat) /\ ToSet(free) \subseteq keep
  <2>1. /\ free \in Seq(Nat)
        /\ ToSet(free) = {all[j] : j \in keep \cap DOMAIN all}
    <3> HIDE DEF all, keep
    <3> QED BY <1>3, KeptElements
  <2>2. \A j \in keep \cap DOMAIN all : all[j] \in keep BY DEF Links
  <2> HIDE DEF all, keep
  <2> QED BY <2>1, <2>2
<1>5. DOMAIN free = 1..Len(free) /\ Len(free) \in Nat /\ \A k \in 1..Len(free) : free[k] \in Nat
  <2> HIDE DEF free
  <2> QED BY <1>4, LenProperties
<1>6. CASE At(p, i) # Empty
  <2>1. g[i] = p[i] BY <1>6
  <2>2. i \in DOMAIN p /\ p[i] = At(p, i) BY <1>6 DEF At
  <2>3. p[i] \in Nat BY <2>2, LenProperties
  <2> HIDE DEF g
  <2> QED BY <1>1, <1>6, <2>1, <2>2, <2>3
<1>7. CASE At(p, i) = Empty
  <2>1. g[i] = IF Rank(i) <= Len(free) THEN free[Rank(i)] ELSE Empty BY <1>7
  <2>2. IsFiniteSet(Unused(i)) /\ Unused(i) # {}
    <3>1. IsFiniteSet(1..i) BY <1>2, FS_Interval
    <3>2. Unused(i) \in SUBSET (1..i) OBVIOUS
    <3>3. i \in Unused(i) BY <1>2, <1>7
    <3> HIDE DEF Unused
    <3> QED BY <3>1, <3>2, <3>3, FS_Subset
  <2>3. Rank(i) \in Nat /\ Rank(i) # 0
    <3> HIDE DEF Unused
    <3> QED BY <2>2, FS_CardinalityType, FS_EmptySet
  <2> HIDE DEF g, free, keep, Rank
  <2>4. CASE Rank(i) <= Len(free)
    <3>1. Rank(i) \in 1..Len(free) BY <2>3, <2>4, <1>5
    <3>2. free[Rank(i)] \in ToSet(free) BY <3>1, <1>5 DEF ToSet
    <3>3. free[Rank(i)] \in keep /\ free[Rank(i)] \in Nat BY <3>1, <3>2, <1>4, <1>5
    <3> QED BY <1>1, <1>7, <2>1, <2>4, <3>3 DEF keep
  <2>5. CASE ~(Rank(i) <= Len(free)) BY <1>1, <1>7, <2>1, <2>5 DEF Empty
  <2> QED BY <2>4, <2>5
<1> QED BY <1>6, <1>7

\* An arrangement carries the links V of P: each is in it, once.
Carries(s, P, V) ==
  /\ \A i \in DOMAIN s : s[i] \in P => s[i] \in V
  /\ \A l \in V : \E i \in DOMAIN s : s[i] = l
  /\ \A i, j \in DOMAIN s : s[i] = s[j] /\ s[i] \in P => i = j

\* Place i of t holds what place q[i] of s does, when that is in P.
Moves(q, s, t, P) ==
  /\ \A i \in DOMAIN t : t[i] \in P => q[i] \in DOMAIN s /\ t[i] = s[q[i]]
  /\ \A i, j \in DOMAIN t : q[i] = q[j] /\ t[i] \in P => i = j
  /\ \A k \in DOMAIN s : s[k] \in P => \E i \in DOMAIN t : q[i] = k /\ t[i] = s[k]

\* An arrangement whose links are moved carries them still.
LEMMA MovedCarries ==
  ASSUME NEW s, NEW t, NEW P, NEW V, V \subseteq P, Carries(s, P, V),
         NEW q, Moves(q, s, t, P)
  PROVE  Carries(t, P, V)
<1>1. ASSUME NEW i \in DOMAIN t, t[i] \in P PROVE t[i] \in V
  BY <1>1 DEF Carries, Moves
<1>2. ASSUME NEW l \in V PROVE \E i \in DOMAIN t : t[i] = l
  <2>1. PICK k \in DOMAIN s : s[k] = l BY DEF Carries
  <2>2. \E i \in DOMAIN t : q[i] = k /\ t[i] = s[k] BY <2>1 DEF Moves
  <2> QED BY <2>1, <2>2
<1>3. ASSUME NEW i \in DOMAIN t, NEW j \in DOMAIN t, t[i] = t[j], t[i] \in P PROVE i = j
  <2>1. q[i] \in DOMAIN s /\ q[j] \in DOMAIN s /\ t[i] = s[q[i]] /\ t[j] = s[q[j]]
    BY <1>3 DEF Moves
  <2>2. q[i] = q[j] BY <1>3, <2>1 DEF Carries
  <2> QED BY <1>3, <2>2 DEF Moves
<1> QED BY <1>1, <1>2, <1>3 DEF Carries

PinnedSet == Range(pinned) \ {Empty}
Shown == Range(sites) \cap PinnedSet

\* What holds between two drops.
DropInv ==
  /\ pinned \in Pins
  /\ sites = Grid(provided, pinned)
  /\ drops \in Nat

\* IsPinned means to be in that set.
LEMMA PinnedIsPinned == \A l : IsPinned(l) <=> l \in PinnedSet
BY DEF IsPinned, PinnedSet

\* The pinned links the grid shows are at home, and there once.
LEMMA SitesCarry ==
  ASSUME DropInv
  PROVE  /\ sites \in Seq(Nat) /\ Len(sites) = N /\ DOMAIN sites = Cells
         /\ \A i \in Cells : sites[i] \in PinnedSet => At(pinned, i) = sites[i]
         /\ Carries(sites, PinnedSet, Shown)
         /\ PinnedSet \subseteq Nat /\ Shown \subseteq PinnedSet
<1>1. pinned \in Seq(Nat) /\ NotTwice(pinned) BY DEF DropInv, Pins
<1>2. DOMAIN sites = Cells BY DEF DropInv, Grid
<1>3. \A i \in Cells : sites[i] \in Nat BY <1>1, GridAt DEF DropInv
<1>4. sites \in Seq(Nat) /\ Len(sites) = N
  <2>1. sites = [i \in Cells |-> sites[i]] BY <1>2 DEF DropInv, Grid
  <2>2. sites \in [1..N -> Nat] BY <2>1, <1>3 DEF Cells
  <2>3. N \in Nat BY ConstantsAssumption
  <2> QED BY <2>2, <2>3, FunctionIsSeq
<1>5. ASSUME NEW i \in Cells, sites[i] \in PinnedSet PROVE At(pinned, i) = sites[i]
  <2>1. /\ At(pinned, i) # Empty => sites[i] = At(pinned, i)
        /\ At(pinned, i) = Empty => sites[i] = Empty \/ sites[i] \notin Range(pinned)
    BY <1>1, GridAt DEF DropInv
  <2> QED BY <1>5, <2>1 DEF PinnedSet
<1>6. PinnedSet \subseteq Nat
  <2>1. \A i \in DOMAIN pinned : pinned[i] \in Nat BY <1>1, LenProperties
  <2> QED BY <2>1 DEF PinnedSet, Range
<1>7. Shown \subseteq PinnedSet BY DEF Shown
<1>8. Carries(sites, PinnedSet, Shown)
  <2>1. ASSUME NEW i \in DOMAIN sites, sites[i] \in PinnedSet PROVE sites[i] \in Shown
    BY <2>1 DEF Shown, Range
  <2>2. ASSUME NEW l \in Shown PROVE \E i \in DOMAIN sites : sites[i] = l
    BY DEF Shown, Range
  <2>3. ASSUME NEW i \in DOMAIN sites, NEW j \in DOMAIN sites, sites[i] = sites[j],
               sites[i] \in PinnedSet
        PROVE  i = j
    <3>1. At(pinned, i) = At(pinned, j) /\ At(pinned, i) # Empty
      BY <2>3, <1>2, <1>5 DEF PinnedSet
    <3>2. i \in Place /\ j \in Place BY <1>2, ConstantsAssumption DEF Cells, Place
    <3> QED BY <3>1, <3>2, <1>1 DEF NotTwice
  <2> QED BY <2>1, <2>2, <2>3 DEF Carries
<1> QED BY <1>2, <1>4, <1>5, <1>6, <1>7, <1>8

\* A pinned link is in the grid when its place is.
LEMMA PinnedShown ==
  ASSUME DropInv, NEW j \in Cells, At(pinned, j) # Empty
  PROVE  At(pinned, j) \in Shown /\ sites[j] = At(pinned, j) /\ sites[j] \in PinnedSet
<1>1. pinned \in Seq(Nat) /\ sites = Grid(provided, pinned) BY DEF DropInv, Pins
<1>2. sites[j] = At(pinned, j) BY <1>1, GridAt
<1>3. At(pinned, j) \in PinnedSet BY DEF At, PinnedSet, Range
<1>4. j \in DOMAIN sites BY SitesCarry
<1> QED BY <1>2, <1>3, <1>4 DEF Shown, Range

-----------------------------------------------------------------------------
\* The arrangement while a site is over a cell.

\* The site that was picked up is at the cell, the pinned links are all there.
Arranged(s, d, c) ==
  /\ s \in Seq(Nat) /\ Len(s) \in {N, N + 1} /\ s[c] = d
  /\ Carries(s, PinnedSet, Shown)

\* Index finds a place.
LEMMA IndexFinds ==
  ASSUME NEW s, NEW l, l \in Range(s)
  PROVE  Index(s, l) \in DOMAIN s /\ s[Index(s, l)] = l
BY DEF Index, Range

\* t is w with place i removed.
Removal(t, w, i) ==
  /\ t \in Seq(Nat) /\ Len(t) = Len(w) - 1
  /\ \A k \in 1..Len(w) - 1 : t[k] = w[IF k < i THEN k ELSE k + 1]

\* RemoveAt does that.
LEMMA RemovalAt ==
  ASSUME NEW w \in Seq(Nat), NEW i \in 1..Len(w)
  PROVE  Removal(RemoveAt(w, i), w, i)
BY RemoveAtElements DEF Removal

\* t is w with d at c: every other place i holds what place q[i] of w does, which is
\* at most one away; d was at q[c], if it was there.
Slid(q, w, t, d, c) ==
  /\ t \in Seq(Nat) /\ Len(t) \in {N, N + 1} /\ c \in DOMAIN t /\ t[c] = d
  /\ \A i \in DOMAIN t \ {c} : /\ q[i] \in DOMAIN w /\ t[i] = w[q[i]]
                               /\ i - 1 <= q[i] /\ q[i] <= i + 1
  /\ \A i, j \in DOMAIN t \ {c} : i < j => q[i] < q[j]
  /\ \A i \in DOMAIN t \ {c} : q[i] # q[c]
  /\ IF d = Empty THEN q[c] = 0 ELSE q[c] \in DOMAIN w /\ w[q[c]] = d
  /\ \A k \in DOMAIN w : \E i \in DOMAIN t : q[i] = k

\* _insertDraggedSite moves the sites up from the cell on, down from where the
\* dragged site was.
LEMMA InsertedSlides ==
  ASSUME DropInv, NEW c \in Cells, NEW d \in Range(sites) \cup {Empty}
  PROVE  \E q : Slid(q, sites, Inserted(d, c), d, c)
<1>1. PICK w : w = sites /\ w \in Seq(Nat) /\ Len(w) = N /\ DOMAIN w = 1..N
  BY SitesCarry DEF Cells
<1>2. N \in Nat /\ c \in 1..N /\ \A k \in 1..N : w[k] \in Nat
  BY <1>1, ConstantsAssumption, LenProperties DEF Cells
<1>3. CASE d = Empty
  <2>1. PICK t : t = InsertAt(w, c, Empty) OBVIOUS
  <2>2. Inserted(d, c) = t BY <1>1, <1>3, <2>1 DEF Inserted
  <2>3. c \in 1..Len(w) + 1 /\ Empty \in Nat BY <1>1, <1>2 DEF Empty
  <2>4. /\ t \in Seq(Nat) /\ Len(t) = N + 1 /\ t[c] = Empty
        /\ \A k \in 1..c - 1 : t[k] = w[k]
        /\ \A k \in c..N : t[k + 1] = w[k]
    <3>1. Insertion(t, Nat, w, c, Empty) BY <1>1, <2>1, <2>3, InsertAtElements
    <3> QED BY <1>1, <3>1 DEF Insertion
  <2>5. DOMAIN t = 1..N + 1 BY <2>4, LenProperties
  <2> DEFINE q == [k \in 1..N + 1 |-> IF k < c THEN k ELSE IF k = c THEN 0 ELSE k - 1]
  <2>6. \A k \in 1..N + 1 : /\ k < c => q[k] = k
                            /\ k = c => q[k] = 0
                            /\ k > c => q[k] = k - 1
    BY <1>2
  <2> HIDE DEF q
  <2>7. ASSUME NEW k \in 1..N + 1, k # c PROVE q[k] \in 1..N /\ t[k] = w[q[k]]
    <3>1. CASE k < c
      <4>1. k \in 1..c - 1 /\ k \in 1..N BY <3>1, <1>2
      <4> QED BY <4>1, <3>1, <2>4, <2>6
    <3>2. CASE k > c
      <4>1. k - 1 \in c..N /\ (k - 1) + 1 = k /\ k - 1 \in 1..N BY <3>2, <1>2
      <4>2. t[k] = w[k - 1] BY <4>1, <2>4
      <4> QED BY <4>1, <4>2, <3>2, <2>6
    <3> QED BY <2>7, <3>1, <3>2, <1>2
  <2>8. ASSUME NEW k \in 1..N + 1, k # c PROVE k - 1 <= q[k] /\ q[k] <= k + 1
    BY <2>6, <2>8, <1>2
  <2>9. ASSUME NEW i \in 1..N + 1, NEW j \in 1..N + 1, i # c, j # c, i < j PROVE q[i] < q[j]
    BY <2>6, <2>9, <1>2
  <2>10. q[c] = 0 /\ c \in 1..N + 1 BY <2>6, <1>2
  <2>11. ASSUME NEW k \in 1..N PROVE \E i \in 1..N + 1 : q[i] = k
    <3>1. CASE k < c
      <4>1. k \in 1..N + 1 BY <1>2
      <4> QED BY <4>1, <3>1, <2>6
    <3>2. CASE k >= c
      <4>1. k + 1 \in 1..N + 1 /\ k + 1 > c /\ (k + 1) - 1 = k BY <3>2, <1>2
      <4>2. q[k + 1] = k BY <4>1, <2>6
      <4> QED BY <4>1, <4>2
    <3> QED BY <3>1, <3>2, <1>2
  <2>12. Slid(q, w, t, d, c)
    <3>1. \A i \in DOMAIN t \ {c} : /\ q[i] \in DOMAIN w /\ t[i] = w[q[i]]
                                    /\ i - 1 <= q[i] /\ q[i] <= i + 1
      BY <1>1, <2>5, <2>7, <2>8
    <3>2. \A i \in DOMAIN t \ {c} : q[i] # q[c] BY <2>5, <2>7, <2>10
    <3>3. \A k \in DOMAIN w : \E i \in DOMAIN t : q[i] = k BY <1>1, <2>5, <2>11
    <3>4. \A i, j \in DOMAIN t \ {c} : i < j => q[i] < q[j] BY <2>5, <2>9
    <3>5. t \in Seq(Nat) /\ Len(t) \in {N, N + 1} /\ c \in DOMAIN t /\ t[c] = d
      BY <1>3, <2>4, <2>5, <2>10
    <3> QED BY <1>3, <2>10, <3>1, <3>2, <3>3, <3>4, <3>5 DEF Slid
  <2> QED BY <1>1, <2>2, <2>12
<1>4. CASE d # Empty
  <2>1. PICK a : a = Index(w, d) OBVIOUS
  <2>2. a \in 1..N /\ w[a] = d BY <1>1, <1>4, <2>1, IndexFinds
  <2>3. PICK u : u = RemoveAt(w, a) OBVIOUS
  <2>4. /\ u \in Seq(Nat) /\ Len(u) = N - 1
        /\ \A k \in 1..N - 1 : u[k] = w[IF k < a THEN k ELSE k + 1]
    <3>1. a \in 1..Len(w) BY <1>1, <2>2
    <3>2. Removal(u, w, a) BY <1>1, <2>3, <3>1, RemovalAt
    <3> QED BY <1>1, <3>2 DEF Removal
  <2>5. PICK t : t = InsertAt(u, c, d) OBVIOUS
  <2>6. Inserted(d, c) = t BY <1>1, <1>4, <2>1, <2>3, <2>5 DEF Inserted
  <2>7. c \in 1..Len(u) + 1 /\ d \in Nat BY <1>2, <2>2, <2>4
  <2>8. /\ t \in Seq(Nat) /\ Len(t) = Len(u) + 1 /\ t[c] = d
        /\ \A k \in 1..c - 1 : t[k] = u[k]
        /\ \A k \in c..Len(u) : t[k + 1] = u[k]
    <3>1. Insertion(t, Nat, u, c, d) BY <2>4, <2>5, <2>7, InsertAtElements
    <3> QED BY <3>1 DEF Insertion
  <2>9. Len(t) = N /\ DOMAIN t = 1..N BY <2>4, <2>8, <1>2, LenProperties
  <2> DEFINE from(k) == IF k < a THEN k ELSE k + 1
             q == [k \in 1..N |-> IF k < c THEN from(k) ELSE IF k = c THEN a ELSE from(k - 1)]
  <2> HIDE DEF from
  <2>10. \A k \in 1..N : /\ k < c => q[k] = from(k)
                         /\ k = c => q[k] = a
                         /\ k > c => q[k] = from(k - 1)
    BY <1>2
  <2> HIDE DEF q
  <2> USE DEF from
  <2>11. ASSUME NEW k \in 1..N PROVE q[k] \in 1..N /\ t[k] = w[q[k]]
    <3>1. CASE k < c
      <4>1. k \in 1..c - 1 /\ k \in 1..N - 1 BY <3>1, <1>2
      <4>2. t[k] = w[from(k)] BY <4>1, <2>4, <2>8
      <4>3. from(k) \in 1..N BY <4>1, <2>2, <1>2
      <4> QED BY <4>2, <4>3, <3>1, <2>10
    <3>2. CASE k > c
      <4>1. k - 1 \in c..N - 1 /\ k - 1 \in 1..N - 1 /\ (k - 1) + 1 = k BY <3>2, <1>2
      <4>2. t[k] = u[k - 1] BY <4>1, <2>4, <2>8
      <4>3. u[k - 1] = w[from(k - 1)] BY <4>1, <2>4
      <4>4. from(k - 1) \in 1..N BY <4>1, <2>2, <1>2
      <4> QED BY <4>2, <4>3, <4>4, <3>2, <2>10
    <3>3. CASE k = c BY <3>3, <2>2, <2>8, <2>10
    <3> QED BY <3>1, <3>2, <3>3, <1>2
  <2>12. ASSUME NEW i \in 1..N, NEW j \in 1..N, i < j, i # c, j # c PROVE q[i] < q[j]
    <3>1. q[i] = IF i < c THEN from(i) ELSE from(i - 1) BY <2>10, <2>12, <1>2
    <3>2. q[j] = IF j < c THEN from(j) ELSE from(j - 1) BY <2>10, <2>12, <1>2
    <3> QED BY <3>1, <3>2, <2>2, <2>12, <1>2
  <2>13. ASSUME NEW k \in 1..N, k # c
         PROVE  k - 1 <= q[k] /\ q[k] <= k + 1 /\ q[k] # a
    <3>1. q[k] = IF k < c THEN from(k) ELSE from(k - 1) BY <2>10, <2>13, <1>2
    <3> QED BY <3>1, <2>2, <1>2
  <2>14. ASSUME NEW k \in 1..N PROVE \E i \in 1..N : q[i] = k
    <3>1. CASE k = a BY <3>1, <2>10, <1>2
    <3>2. CASE k # a
      <4>1. PICK m \in 1..N - 1 : from(m) = k
        <5>1. CASE k < a
          <6>1. k \in 1..N - 1 /\ from(k) = k BY <5>1, <2>2, <1>2
          <6> QED BY <6>1
        <5>2. CASE k > a
          <6>1. k - 1 \in 1..N - 1 /\ from(k - 1) = k BY <5>2, <2>2, <1>2
          <6> QED BY <6>1
        <5> QED BY <5>1, <5>2, <3>2, <2>2, <1>2
      <4>2. CASE m < c
        <5>1. m \in 1..N BY <1>2
        <5> HIDE DEF from
        <5> QED BY <5>1, <4>1, <4>2, <2>10
      <4>3. CASE m >= c
        <5>1. m + 1 \in 1..N /\ m + 1 > c /\ (m + 1) - 1 = m BY <4>3, <1>2
        <5> HIDE DEF from
        <5> QED BY <5>1, <4>1, <2>10
      <4> QED BY <4>2, <4>3, <1>2
    <3> QED BY <3>1, <3>2
  <2> HIDE DEF from
  <2>15. q[c] = a BY <2>10, <1>2
  <2>16. Slid(q, w, t, d, c)
    <3>1. \A i \in DOMAIN t \ {c} : /\ q[i] \in DOMAIN w /\ t[i] = w[q[i]]
                                    /\ i - 1 <= q[i] /\ q[i] <= i + 1
      BY <1>1, <2>9, <2>11, <2>13
    <3>2. \A i \in DOMAIN t \ {c} : q[i] # q[c] BY <2>9, <2>13, <2>15
    <3>3. \A k \in DOMAIN w : \E i \in DOMAIN t : q[i] = k BY <1>1, <2>9, <2>14
    <3>4. \A i, j \in DOMAIN t \ {c} : i < j => q[i] < q[j] BY <2>9, <2>12
    <3>5. t \in Seq(Nat) /\ Len(t) \in {N, N + 1} /\ c \in DOMAIN t /\ t[c] = d
      BY <1>2, <2>8, <2>9
    <3>6. q[c] \in DOMAIN w /\ w[q[c]] = d BY <1>1, <2>2, <2>15
    <3> QED BY <1>4, <3>1, <3>2, <3>3, <3>4, <3>5, <3>6 DEF Slid
  <2> QED BY <1>1, <2>6, <2>16
<1> QED BY <1>3, <1>4

\* No pinned link is lost thereby.
LEMMA InsertedArranged ==
  ASSUME DropInv, NEW c \in Cells, NEW d \in Range(sites) \cup {Empty}
  PROVE  Arranged(Inserted(d, c), d, c)
<1>1. PICK w : /\ w = sites /\ w \in Seq(Nat) /\ DOMAIN w = 1..N
               /\ Carries(w, PinnedSet, Shown)
  BY SitesCarry DEF Cells
<1>2. PICK t : t = Inserted(d, c) OBVIOUS
<1>3. PICK q : Slid(q, w, t, d, c) BY <1>1, <1>2, InsertedSlides
<1>4. /\ t \in Seq(Nat) /\ Len(t) \in {N, N + 1} /\ c \in DOMAIN t /\ t[c] = d
      /\ \A i \in DOMAIN t \ {c} : q[i] \in DOMAIN w /\ t[i] = w[q[i]]
      /\ \A i, j \in DOMAIN t \ {c} : i < j => q[i] < q[j]
      /\ \A i \in DOMAIN t \ {c} : q[i] # q[c]
      /\ IF d = Empty THEN q[c] = 0 ELSE q[c] \in DOMAIN w /\ w[q[c]] = d
      /\ \A k \in DOMAIN w : \E i \in DOMAIN t : q[i] = k
  BY <1>3 DEF Slid
<1>5. Empty \notin PinnedSet /\ Shown \subseteq PinnedSet BY DEF PinnedSet, Shown
<1>6. ASSUME NEW i \in DOMAIN t, t[i] \in PinnedSet PROVE q[i] \in DOMAIN w /\ t[i] = w[q[i]]
  BY <1>4, <1>5, <1>6
<1>7. ASSUME NEW i \in DOMAIN t, NEW j \in DOMAIN t, q[i] = q[j] PROVE i = j
  <2>1. CASE i = c \/ j = c BY <2>1, <1>4, <1>7
  <2>2. CASE i # c /\ j # c
    <3>1. ~(i < j) /\ ~(j < i)
      <4>1. q[i] \in 1..N /\ q[j] \in 1..N BY <2>2, <1>1, <1>4
      <4> QED BY <4>1, <2>2, <1>4, <1>7
    <3>2. i \in Nat /\ j \in Nat BY <1>4, LenProperties
    <3> QED BY <3>1, <3>2
  <2> QED BY <2>1, <2>2
<1>8. ASSUME NEW k \in DOMAIN w, w[k] \in PinnedSet
      PROVE  \E i \in DOMAIN t : q[i] = k /\ t[i] = w[k]
  <2>1. PICK i \in DOMAIN t : q[i] = k BY <1>4
  <2>2. CASE i # c BY <2>1, <2>2, <1>4
  <2>3. CASE i = c
    <3>1. d # Empty
      <4> SUFFICES ASSUME d = Empty PROVE FALSE OBVIOUS
      <4>1. q[c] = 0 BY <1>4
      <4> QED BY <4>1, <2>1, <2>3, <1>1
    <3> QED BY <3>1, <2>1, <2>3, <1>4
  <2> QED BY <2>2, <2>3
<1>9. Moves(q, w, t, PinnedSet) BY <1>6, <1>7, <1>8 DEF Moves
<1>10. Carries(t, PinnedSet, Shown) BY <1>1, <1>5, <1>9, MovedCarries
<1> QED BY <1>2, <1>4, <1>10 DEF Arranged

\* Swapping two sites neither of which is at the cell.
LEMMA SwappedArranged ==
  ASSUME NEW s, NEW d, NEW c, Arranged(s, d, c), Shown \subseteq PinnedSet,
         NEW i \in DOMAIN s, NEW j \in DOMAIN s, i # c, j # c, c \in DOMAIN s
  PROVE  Arranged(Swapped(s, i, j), d, c)
<1> DEFINE t == [s EXCEPT ![i] = s[j], ![j] = s[i]]
           q == [k \in DOMAIN s |-> IF k = i THEN j ELSE IF k = j THEN i ELSE k]
<1>1. /\ s \in Seq(Nat) /\ Len(s) \in {N, N + 1} /\ s[c] = d
      /\ Carries(s, PinnedSet, Shown)
  BY DEF Arranged
<1>2. Len(s) \in Nat /\ DOMAIN s = 1..Len(s) /\ \A k \in DOMAIN s : s[k] \in Nat
  BY <1>1, LenProperties
<1>3. Swapped(s, i, j) = t BY DEF Swapped
<1>4. DOMAIN t = DOMAIN s /\ \A k \in DOMAIN s : q[k] \in DOMAIN s /\ t[k] = s[q[k]]
  <2>1. s = [k \in DOMAIN s |-> s[k]] BY <1>1
  <2>2. ASSUME NEW k \in DOMAIN s PROVE t[k] = s[q[k]]
    <3>1. t[k] = IF k = j THEN s[i] ELSE IF k = i THEN s[j] ELSE s[k] BY <2>1
    <3> QED BY <3>1
  <2> QED BY <2>1, <2>2
<1>5. \A k \in DOMAIN s : q[q[k]] = k /\ q[k] \in DOMAIN s OBVIOUS
<1>6. q[c] = c BY <1>2
<1> HIDE DEF t, q
<1>7. t \in Seq(Nat) /\ Len(t) = Len(s)
  <2>1. DOMAIN t = 1..Len(s) /\ \A k \in 1..Len(s) : t[k] \in Nat BY <1>2, <1>4
  <2>2. t = [k \in 1..Len(s) |-> t[k]] BY <1>4, <1>2, <1>1 DEF t
  <2>3. t \in [1..Len(s) -> Nat] BY <2>1, <2>2
  <2> QED BY <2>3, <1>2, FunctionIsSeq
<1>8. t[c] = d BY <1>1, <1>4, <1>6
<1>9. Moves(q, s, t, PinnedSet)
  <2>1. ASSUME NEW k \in DOMAIN t, NEW l \in DOMAIN t, q[k] = q[l] PROVE k = l
    BY <2>1, <1>4, <1>5
  <2>2. ASSUME NEW k \in DOMAIN s PROVE \E l \in DOMAIN t : q[l] = k /\ t[l] = s[k]
    BY <1>4, <1>5
  <2> QED BY <2>1, <2>2, <1>4 DEF Moves
<1>10. Carries(t, PinnedSet, Shown) BY <1>1, <1>9, MovedCarries
<1> QED BY <1>1, <1>3, <1>7, <1>8, <1>10 DEF Arranged

\* The cell itself is in its range of pinned sites.
LEMMA CellInRange ==
  ASSUME DropInv, NEW c \in Cells
  PROVE  c \in PinnedRange(c)
<1>1. CASE IsPinned(sites[c])
  <2>1. At(pinned, c) = sites[c] /\ sites[c] # Empty
    BY <1>1, SitesCarry, PinnedIsPinned DEF PinnedSet
  <2>2. c \in DOMAIN pinned /\ pinned[c] # Empty BY <2>1 DEF At
  <2>3. pinned \in Seq(Nat) BY DEF DropInv, Pins
  <2>4. c \in 1..Len(pinned) /\ c \in Nat BY <2>2, <2>3, LenProperties
  <2>5. (c..c) \cup (c..c) = {c} BY <2>4
  <2> QED BY <1>1, <2>2, <2>4, <2>5 DEF PinnedRange
<1>2. CASE ~IsPinned(sites[c]) BY <1>2 DEF PinnedRange
<1> QED BY <1>1, <1>2

\* _repositionPinnedSites as a sequence of arrangements, each with one pinned site
\* more put back to where the grid shows it.
Repositioning(r, pins, s, d, c) ==
  /\ pins = Kept(s, {i \in DOMAIN s : s[i] # d /\ IsPinned(s[i])
                                        /\ Index(sites, s[i]) \notin PinnedRange(c)})
  /\ r[0] = s /\ Repositioned(s, d, c) = r[Len(pins)]
  /\ \A k \in 0..Len(pins) : Arranged(r[k], d, c)
  /\ \A k \in 1..Len(pins) :
       r[k] = Swapped(r[k - 1], Index(r[k - 1], pins[k]), Index(sites, pins[k]))

\* There is such a sequence.
LEMMA RepositionedSteps ==
  ASSUME DropInv, NEW c \in Cells, NEW d, NEW s, Arranged(s, d, c)
  PROVE  \E r, pins : Repositioning(r, pins, s, d, c)
<1> DEFINE home(l) == Index(sites, l)
           keep == {i \in DOMAIN s : s[i] # d /\ IsPinned(s[i]) /\ home(s[i]) \notin PinnedRange(c)}
           pins == Kept(s, keep)
           n == Len(pins)
           Is(f) == f = [k \in 0..n |-> IF k = 0 THEN s
                          ELSE Swapped(f[k - 1], Index(f[k - 1], pins[k]), home(pins[k]))]
           r[k \in 0..n] == IF k = 0 THEN s
                            ELSE Swapped(r[k - 1], Index(r[k - 1], pins[k]), home(pins[k]))
           T == {x \in Seq(Nat) : Arranged(x, d, c)}
           step == [k \in 1..n |-> [x \in T |-> Swapped(x, Index(x, pins[k]), home(pins[k]))]]
<1>1. s \in T BY DEF Arranged
<1>2. pins \in Seq(Nat) /\ ToSet(pins) = {s[i] : i \in keep \cap DOMAIN s}
  <2>1. s \in Seq(Nat) BY <1>1
  <2> HIDE DEF keep
  <2> QED BY <2>1, KeptElements
<1>3. n \in Nat /\ DOMAIN pins = 1..n
  <2> HIDE DEF pins
  <2> QED BY <1>2, LenProperties
<1>4. ASSUME NEW k \in 1..n
      PROVE  pins[k] # d /\ pins[k] \in Shown /\ home(pins[k]) # c /\ home(pins[k]) \in Cells
  <2>1. pins[k] \in ToSet(pins)
    <3> HIDE DEF pins
    <3> QED BY <1>3 DEF ToSet
  <2> HIDE DEF pins
  <2>2. PICK i \in keep : pins[k] = s[i] BY <2>1, <1>2
  <2>3. /\ i \in DOMAIN s /\ s[i] # d /\ s[i] \in PinnedSet
        /\ home(s[i]) \notin PinnedRange(c)
    BY <2>2, PinnedIsPinned
  <2>4. s[i] \in Shown BY <2>3 DEF Arranged, Carries
  <2>5. s[i] \in Range(sites) BY <2>4 DEF Shown
  <2>6. home(s[i]) \in Cells BY <2>5, IndexFinds, SitesCarry
  <2>7. home(s[i]) # c BY <2>3, CellInRange
  <2> QED BY <2>2, <2>3, <2>4, <2>6, <2>7
<1>5. ASSUME NEW k \in 1..n, NEW x \in T
      PROVE  Swapped(x, Index(x, pins[k]), home(pins[k])) \in T
  <2>1. PICK l, h : l = pins[k] /\ h = home(pins[k]) OBVIOUS
  <2>2. l # d /\ l \in Shown /\ h # c /\ h \in Cells BY <1>4, <2>1
  <2> HIDE DEF pins, n, step, r, Is, home
  <2>3. Arranged(x, d, c) OBVIOUS
  <2>4. /\ x \in Seq(Nat) /\ Len(x) \in {N, N + 1} /\ x[c] = d
        /\ Carries(x, PinnedSet, Shown)
    BY <2>3 DEF Arranged
  <2>5. DOMAIN x = 1..Len(x) BY <2>4, LenProperties
  <2>6. Cells \subseteq DOMAIN x
    <3>1. PICK m : m = Len(x) OBVIOUS
    <3>2. m \in {N, N + 1} /\ DOMAIN x = 1..m BY <2>4, <2>5, <3>1
    <3>3. 1..N \subseteq 1..m BY <3>2, ConstantsAssumption
    <3> QED BY <3>2, <3>3 DEF Cells
  <2>7. l \in Range(x) BY <2>2, <2>4 DEF Carries, Range
  <2>8. Index(x, l) \in DOMAIN x /\ x[Index(x, l)] = l BY <2>7, IndexFinds
  <2>9. Index(x, l) # c BY <2>2, <2>4, <2>8
  <2>10. PICK i : i = Index(x, l) OBVIOUS
  <2>11. i \in DOMAIN x /\ h \in DOMAIN x /\ i # c /\ h # c /\ c \in DOMAIN x
    BY <2>2, <2>6, <2>8, <2>9, <2>10
  <2> HIDE DEF T
  <2>12. Arranged(Swapped(x, i, h), d, c)
    <3>1. Shown \subseteq PinnedSet BY DEF Shown
    <3> QED BY <2>3, <2>11, <3>1, SwappedArranged
  <2>13. Swapped(x, i, h) \in T
    <3>1. PICK t : t = Swapped(x, i, h) OBVIOUS
    <3>2. Arranged(t, d, c) /\ t \in Seq(Nat) BY <2>12, <3>1 DEF Arranged
    <3> QED BY <3>1, <3>2 DEF T
  <2> QED BY <2>1, <2>10, <2>13
<1>6. step \in [1..n -> [T -> T]]
  <2> HIDE DEF T, pins, n, home
  <2> QED BY <1>5
<1>7. PICK g \in [0..n -> T] : g[0] = s /\ \A k \in 1..n : g[k] = step[k][g[k - 1]]
  <2>1. n \in Nat /\ s \in T /\ step \in [1..n -> [T -> T]] BY <1>1, <1>3, <1>6
  <2> HIDE DEF step, T, n, Is, r, pins, home
  <2>2. \E g : Steps(g, T, s, n, step) BY <2>1, StepsExist
  <2> QED BY <2>2 DEF Steps
<1>8. Is(g)
  <2> HIDE DEF T, pins, n, home
  <2>1. ASSUME NEW k \in 0..n
        PROVE  g[k] = IF k = 0 THEN s
                      ELSE Swapped(g[k - 1], Index(g[k - 1], pins[k]), home(pins[k]))
    <3>1. CASE k = 0 BY <1>7, <3>1
    <3>2. CASE k # 0
      <4>1. k \in 1..n /\ k - 1 \in 0..n /\ g[k - 1] \in T BY <1>3, <1>7, <3>2
      <4>2. g[k] = step[k][g[k - 1]]
        <5> HIDE DEF step
        <5> QED BY <4>1, <1>7
      <4> QED BY <3>2, <4>1, <4>2
    <3> QED BY <3>1, <3>2
  <2> HIDE DEF step
  <2> QED BY <2>1, <1>7
<1>9. Repositioned(s, d, c) = r[n] BY DEF Repositioned
<1>10. r = CHOOSE f : Is(f) OBVIOUS
<1>11. Is(r)
  <2> HIDE DEF Is, r
  <2> QED BY <1>8, <1>10
<1>12. r[0] = s /\ \A k \in 1..n :
         r[k] = Swapped(r[k - 1], Index(r[k - 1], pins[k]), home(pins[k]))
  <2> HIDE DEF T, pins, n, home, r
  <2> QED BY <1>3, <1>11
<1> DEFINE G == {k \in 0..n : r[k] \in T}
<1> HIDE DEF T, pins, n, home, r, Is, step, keep
<1>13. 0 \in G BY <1>1, <1>3, <1>12
<1>14. ASSUME NEW k \in 1..n, k - 1 \in G PROVE k \in G
  <2>1. r[k - 1] \in T /\ k \in 0..n BY <1>14, <1>3
  <2> QED BY <2>1, <1>5, <1>12
<1>15. \A k \in 0..n : k \in G
  <2> HIDE DEF G
  <2> QED BY <1>3, <1>13, <1>14, IntervalInduction
<1>16. Repositioning(r, pins, s, d, c)
  <2>1. \A k \in 0..n : Arranged(r[k], d, c) BY <1>15 DEF T
  <2>2. \A k \in 1..n : r[k] = Swapped(r[k - 1], Index(r[k - 1], pins[k]), Index(sites, pins[k]))
    BY <1>12 DEF home
  <2>3. pins = Kept(s, {i \in DOMAIN s : s[i] # d /\ IsPinned(s[i])
                                           /\ Index(sites, s[i]) \notin PinnedRange(c)})
    BY DEF pins, keep, home
  <2> HIDE DEF G
  <2> QED BY <1>9, <1>12, <2>1, <2>2, <2>3 DEF Repositioning, n
<1> QED BY <1>16

\* _repositionPinnedSites moves sites around the cell.
LEMMA RepositionedArranged ==
  ASSUME DropInv, NEW c \in Cells, NEW d, NEW s, Arranged(s, d, c)
  PROVE  Arranged(Repositioned(s, d, c), d, c)
<1>1. PICK r, pins : Repositioning(r, pins, s, d, c) BY RepositionedSteps
<1>2. PICK n : n = Len(pins) OBVIOUS
<1>3. n \in Nat
  <2>1. s \in Seq(Nat) BY DEF Arranged
  <2>2. PICK keep : pins = Kept(s, keep) BY <1>1 DEF Repositioning
  <2>3. pins \in Seq(Nat) BY <2>1, <2>2, KeptElements
  <2> QED BY <2>3, <1>2, LenProperties
<1>4. n \in 0..n BY <1>3
<1> QED BY <1>1, <1>2, <1>4 DEF Repositioning

\* The pinned links of an arrangement all fit into the grid.
AllFit(s) == \A l \in Shown : \E i \in Cells : i \in DOMAIN s /\ s[i] = l

\* The grid shows finitely many links.
LEMMA ShownFinite ==
  ASSUME DropInv
  PROVE  IsFiniteSet(Shown)
<1>1. IsFiniteSet(Cells) BY ConstantsAssumption, FS_Interval DEF Cells
<1>2. DOMAIN sites = Cells BY SitesCarry
<1>3. PICK h : h = sites /\ h = [i \in Cells |-> h[i]] BY DEF DropInv, Grid
<1>4. h \in Surjection(Cells, Range(sites))
  <2>1. h \in [Cells -> Range(sites)] BY <1>2, <1>3 DEF Range
  <2>2. \A e \in Range(sites) : \E i \in Cells : h[i] = e BY <1>2, <1>3 DEF Range
  <2> QED BY <2>1, <2>2 DEF Surjection
<1>5. IsFiniteSet(Range(sites)) BY <1>1, <1>4, FS_Surjection
<1>6. Shown \in SUBSET Range(sites) BY DEF Shown
<1> QED BY <1>5, <1>6, FS_Subset

\* When as many sites as the grid has cells are pinned and in other places than
\* the cell, the grid shows that many.
LEMMA CrowdedOut ==
  ASSUME DropInv, NEW c \in Cells, NEW d, NEW s, Arranged(s, d, c), Len(s) = N + 1,
         \A i \in (1..N + 1) \ {c} : s[i] \in PinnedSet
  PROVE  N <= Cardinality(Shown)
<1> DEFINE I == (1..N + 1) \ {c}
           f == [i \in I |-> s[i]]
<1>1. Carries(s, PinnedSet, Shown) /\ DOMAIN s = 1..N + 1
  <2>1. s \in Seq(Nat) /\ Carries(s, PinnedSet, Shown) BY DEF Arranged
  <2>2. DOMAIN s = 1..Len(s) BY <2>1, LenProperties
  <2> QED BY <2>1, <2>2
<1>2. N \in Nat /\ c \in 1..N + 1 BY ConstantsAssumption DEF Cells
<1>3. IsFiniteSet(I) /\ Cardinality(I) = N
  <2>1. IsFiniteSet(1..N + 1) /\ Cardinality(1..N + 1) = N + 1
    <3>1. N + 1 \in Int /\ 1 \in Int /\ ~(1 > N + 1) /\ (N + 1) - 1 + 1 = N + 1 BY <1>2
    <3> QED BY <3>1, FS_Interval
  <2>2. PICK S : S = 1..N + 1 OBVIOUS
  <2>3. IsFiniteSet(S) /\ Cardinality(S) = N + 1 /\ c \in S BY <1>2, <2>1, <2>2
  <2>4. IsFiniteSet(S \ {c}) /\ Cardinality(S \ {c}) = Cardinality(S) - 1
    BY <2>3, FS_RemoveElement
  <2> QED BY <2>2, <2>3, <2>4, <1>2
<1>4. IsFiniteSet(Shown) BY ShownFinite
<1>5. f \in Injection(I, Shown)
  <2>1. ASSUME NEW i \in I PROVE f[i] \in Shown
    <3>1. i \in DOMAIN s /\ s[i] \in PinnedSet BY <1>1
    <3> QED BY <3>1, <1>1 DEF Carries
  <2>2. ASSUME NEW i \in I, NEW j \in I, f[i] = f[j] PROVE i = j
    <3>1. i \in DOMAIN s /\ j \in DOMAIN s /\ s[i] \in PinnedSet /\ s[i] = s[j] BY <1>1, <2>2
    <3> QED BY <3>1, <1>1 DEF Carries
  <2>3. f \in [I -> Shown] BY <2>1
  <2> HIDE DEF f, I
  <2>4. \A i, j \in I : f[i] = f[j] => i = j BY <2>2
  <2> QED BY <2>3, <2>4 DEF Injection, IsInjective
<1> HIDE DEF f, I
<1>6. Cardinality(I) <= Cardinality(Shown) BY <1>4, <1>5, FS_Injection
<1> QED BY <1>3, <1>6

\* _repositionOverflowedPinnedSite takes out a site that is not pinned, when one
\* was pushed out of the grid that is; with fewer pinned sites than cells they fit.
LEMMA OverflowArranged ==
  ASSUME DropInv, NEW c \in Cells, NEW d, NEW s, Arranged(s, d, c)
  PROVE  /\ Arranged(OverflowRepositioned(s, c), d, c)
         /\ IsPinned(sites[c]) /\ Cardinality(Shown) < N => AllFit(OverflowRepositioned(s, c))
<1> DEFINE low == {i \in Cells \ {c} : ~IsPinned(s[i])}
           x == Max(low)
           next(i) == IF i + 1 = c THEN i + 2 ELSE i + 1
           q == [i \in 1..N |-> IF i < x \/ i = c THEN i ELSE next(i)]
           t == [i \in Cells |-> IF i < x \/ i = c THEN s[i] ELSE s[next(i)]]
           Over == IsPinned(sites[c]) /\ Len(s) > N /\ IsPinned(s[Len(s)]) /\ low # {}
<1>1. OverflowRepositioned(s, c) = IF Over THEN t ELSE s BY DEF OverflowRepositioned
<1>2. /\ s \in Seq(Nat) /\ Len(s) \in {N, N + 1} /\ s[c] = d
      /\ Carries(s, PinnedSet, Shown)
  BY DEF Arranged
<1>3. /\ N \in Nat /\ c \in 1..N /\ DOMAIN s = 1..Len(s)
      /\ \A k \in DOMAIN s : s[k] \in Nat
  BY <1>2, LenProperties, ConstantsAssumption DEF Cells
<1>4. Shown \subseteq PinnedSet BY DEF Shown
<1>5. CASE ~Over
  <2>1. OverflowRepositioned(s, c) = s BY <1>1, <1>5
  <2>2. ASSUME IsPinned(sites[c]), Cardinality(Shown) < N, NEW l \in Shown
        PROVE  \E i \in Cells : i \in DOMAIN s /\ s[i] = l
    <3>1. PICK i \in DOMAIN s : s[i] = l BY <1>2 DEF Carries
    <3>2. s[i] \in PinnedSet BY <3>1, <1>4
    <3>3. SUFFICES ASSUME i \notin Cells PROVE FALSE BY <3>1
    <3>4. i = N + 1 /\ Len(s) = N + 1
      <4>1. PICK m : m = Len(s) OBVIOUS
      <4>2. m \in {N, N + 1} /\ i \in 1..m /\ i \notin 1..N BY <4>1, <1>2, <1>3, <3>3 DEF Cells
      <4> QED BY <4>1, <4>2, <1>3
    <3>5. IsPinned(s[Len(s)]) BY <3>2, <3>4, PinnedIsPinned
    <3>6. Len(s) > N BY <3>4, <1>3
    <3>7. low = {} BY <1>5, <2>2, <3>5, <3>6
    <3>8. \A k \in (1..N + 1) \ {c} : s[k] \in PinnedSet
      <4>1. ASSUME NEW k \in (1..N + 1) \ {c} PROVE s[k] \in PinnedSet
        <5>1. CASE k = N + 1 BY <5>1, <3>2, <3>4
        <5>2. CASE k # N + 1
          <6>1. k \in Cells \ {c} BY <5>2, <1>3 DEF Cells
          <6> QED BY <6>1, <3>7, PinnedIsPinned
        <5> QED BY <5>1, <5>2
      <4> QED BY <4>1
    <3>9. N <= Cardinality(Shown) BY <3>4, <3>8, CrowdedOut
    <3>10. PICK k : k = Cardinality(Shown) OBVIOUS
    <3>11. k < N /\ N <= k BY <2>2, <3>9, <3>10
    <3>12. k \in Int
      <4>1. IsFiniteSet(Shown) BY ShownFinite
      <4> QED BY <4>1, <3>10, FS_CardinalityType
    <3> QED BY <3>11, <3>12, <1>3
  <2> QED BY <2>1, <2>2 DEF AllFit
<1>6. CASE Over
  <2>1. OverflowRepositioned(s, c) = t BY <1>1, <1>6
  <2>2. Len(s) = N + 1 /\ DOMAIN s = 1..N + 1 /\ low # {}
    <3>1. PICK m : m = Len(s) OBVIOUS
    <3>2. m \in {N, N + 1} /\ m > N BY <3>1, <1>2, <1>6
    <3>3. m = N + 1 BY <3>2, <1>3
    <3> QED BY <3>1, <3>3, <1>3, <1>6
  <2>3. x \in low
    <3>1. low \in SUBSET Nat /\ \A k \in low : k <= N BY <1>3 DEF Cells
    <3> HIDE DEF low
    <3> QED BY <3>1, <2>2, <1>3, MaxOfSet
  <2>4. x \in 1..N /\ x # c /\ s[x] \notin PinnedSet BY <2>3, PinnedIsPinned DEF Cells
  <2> HIDE DEF x, low
  <2>5. PICK y : y = x OBVIOUS
  <2>6. y \in 1..N /\ y # c /\ s[y] \notin PinnedSet BY <2>4, <2>5
  <2>7. ASSUME NEW i \in 1..N
        PROVE  q[i] = IF i < y \/ i = c THEN i ELSE IF i + 1 = c THEN i + 2 ELSE i + 1
    BY <2>5
  <2>8. ASSUME NEW i \in 1..N PROVE t[i] = s[q[i]] /\ q[i] \in 1..N + 1
    <3>1. t[i] = s[q[i]] BY DEF Cells
    <3>2. q[i] \in 1..N + 1
      <4> HIDE DEF q
      <4> QED BY <2>6, <2>7, <1>3
    <3> QED BY <3>1, <3>2
  <2>9. DOMAIN t = 1..N BY DEF Cells
  <2>10. t \in Seq(Nat) /\ Len(t) = N
    <3>1. \A i \in 1..N : t[i] \in Nat
      <4> HIDE DEF t, q
      <4> QED BY <2>2, <2>8, <1>3
    <3>2. t = [i \in 1..N |-> t[i]] BY DEF Cells
    <3>3. t \in [1..N -> Nat]
      <4> HIDE DEF t
      <4> QED BY <3>1, <3>2
    <3> HIDE DEF t
    <3> QED BY <3>3, <1>3, FunctionIsSeq
  <2> HIDE DEF q, t, Over
  <2>11. ASSUME NEW i \in 1..N, NEW j \in 1..N, q[i] = q[j] PROVE i = j
    BY <2>6, <2>7, <2>11, <1>3
  <2>12. ASSUME NEW k \in 1..N + 1, k # y PROVE \E i \in 1..N : q[i] = k
    <3>1. CASE k < y \/ k = c
      <4>1. k \in 1..N BY <3>1, <2>6, <1>3
      <4> QED BY <3>1, <4>1, <2>7
    <3>2. CASE k > y /\ k # c /\ k - 1 # c
      <4>1. k - 1 \in 1..N /\ ~(k - 1 < y) /\ (k - 1) + 1 = k BY <3>2, <2>6, <1>3
      <4> QED BY <3>2, <4>1, <2>7
    <3>3. CASE k > y /\ k - 1 = c
      <4>1. k - 2 \in 1..N /\ ~(k - 2 < y) /\ k - 2 # c /\ (k - 2) + 1 = c /\ (k - 2) + 2 = k
        BY <3>3, <2>6, <1>3
      <4>2. q[k - 2] = k BY <4>1, <2>7
      <4> QED BY <4>1, <4>2
    <3> QED BY <3>1, <3>2, <3>3, <2>6, <2>12, <1>3
  <2>13. Moves(q, s, t, PinnedSet)
    <3>1. ASSUME NEW k \in DOMAIN s, s[k] \in PinnedSet
          PROVE  \E i \in DOMAIN t : q[i] = k /\ t[i] = s[k]
      <4>1. k # y /\ k \in 1..N + 1 BY <2>2, <2>6, <3>1
      <4>2. PICK i \in 1..N : q[i] = k BY <4>1, <2>12
      <4> QED BY <4>2, <2>8, <2>9
    <3> QED BY <3>1, <2>2, <2>8, <2>9, <2>11 DEF Moves
  <2>14. Carries(t, PinnedSet, Shown) BY <2>13, <1>2, <1>4, MovedCarries
  <2>15. t[c] = d BY <2>7, <2>8, <1>2, <1>3
  <2>16. Arranged(t, d, c) BY <2>10, <2>14, <2>15 DEF Arranged
  <2>17. AllFit(t) BY <2>9, <2>14 DEF AllFit, Carries, Cells
  <2> QED BY <2>1, <2>16, <2>17
<1> QED BY <1>5, <1>6

-----------------------------------------------------------------------------
\* The drop.

\* rearrange keeps the dragged site at the cell and loses no pinned link.
LEMMA RearrangeArranged ==
  ASSUME DropInv, NEW c \in Cells, NEW d \in Range(sites) \cup {Empty}
  PROVE  /\ Arranged(Rearrange(d, c), d, c)
         /\ IsPinned(sites[c]) /\ Cardinality(Shown) < N => AllFit(Rearrange(d, c))
<1>1. PICK s : s = Inserted(d, c) /\ Arranged(s, d, c) BY InsertedArranged
<1>2. PICK t : t = Repositioned(s, d, c) /\ Arranged(t, d, c) BY <1>1, RepositionedArranged
<1>3. PICK u : u = OverflowRepositioned(t, c) OBVIOUS
<1>4. /\ Arranged(u, d, c)
      /\ IsPinned(sites[c]) /\ Cardinality(Shown) < N => AllFit(u)
  BY <1>2, <1>3, OverflowArranged
<1>5. Rearrange(d, c) = u BY <1>1, <1>2, <1>3 DEF Rearrange
<1> QED BY <1>4, <1>5

\* A pinned link is in an arrangement at one place, which Index finds.
LEMMA IndexOfPin ==
  ASSUME NEW s, Carries(s, PinnedSet, Shown), NEW i \in DOMAIN s, s[i] \in PinnedSet
  PROVE  Index(s, s[i]) = i
<1>1. s[i] \in Range(s) BY DEF Range
<1>2. Index(s, s[i]) \in DOMAIN s /\ s[Index(s, s[i])] = s[i] BY <1>1, IndexFinds
<1> QED BY <1>2 DEF Carries

\* The pinned list r after the sites of s were pinned where they are.
Repinning(r, s) ==
  \A m \in Place :
    At(r, m) = IF m \in DOMAIN s /\ s[m] \in PinnedSet THEN s[m]
               ELSE IF At(pinned, m) \in Shown THEN Empty ELSE At(pinned, m)

\* _repinSitesAfterDrop pins every pinned site where it is shown now.
LEMMA RepinnedKeeps ==
  ASSUME DropInv, NEW c \in Cells, NEW d, NEW s, s = Rearrange(d, c), Arranged(s, d, c)
  PROVE  /\ Repinned(d, c) \in Pins
         /\ IsPinned(sites[c]) =>
              /\ \A l \in Shown : At(Repinned(d, c), Index(s, l)) = l
              /\ Repinning(Repinned(d, c), s)
<1> DEFINE keep == {i \in DOMAIN s : IsPinned(s[i])}
           pins == Kept(s, keep)
           n == Len(pins)
           Is(f) == f = [k \in 0..n |-> IF k = 0 THEN pinned
                          ELSE PinnedAt(f[k - 1], pins[k], Index(s, pins[k]))]
           p[k \in 0..n] == IF k = 0 THEN pinned
                            ELSE PinnedAt(p[k - 1], pins[k], Index(s, pins[k]))
           step == [k \in 1..n |-> [x \in Pins |-> PinnedAt(x, pins[k], Index(s, pins[k]))]]
<1>1. /\ s \in Seq(Nat) /\ Carries(s, PinnedSet, Shown) /\ DOMAIN s = 1..Len(s)
      /\ pinned \in Pins
  <2>1. s \in Seq(Nat) /\ Carries(s, PinnedSet, Shown) BY DEF Arranged
  <2> QED BY <2>1, LenProperties DEF DropInv
<1>2. PICK at : PlacesKept(at, s, keep)
  <2> HIDE DEF keep
  <2> QED BY <1>1, KeptHasPlaces
<1>3. /\ at \in [1..n -> keep \cap (1..Len(s))]
      /\ \A j, k \in 1..n : j < k => at[j] < at[k]
      /\ \A i \in keep \cap (1..Len(s)) : \E k \in 1..n : at[k] = i
      /\ \A k \in 1..n : pins[k] = s[at[k]]
  BY <1>2 DEF PlacesKept
<1>4. n \in Nat
  <2>1. pins \in Seq(Nat)
    <3> HIDE DEF keep
    <3> QED BY <1>1, KeptElements
  <2> HIDE DEF pins
  <2> QED BY <2>1, LenProperties
<1>5. ASSUME NEW k \in 1..n
      PROVE  /\ at[k] \in DOMAIN s /\ pins[k] = s[at[k]] /\ pins[k] \in PinnedSet
             /\ Index(s, pins[k]) = at[k] /\ at[k] \in Place /\ pins[k] \in Nat
  <2> HIDE DEF pins, n
  <2>1. at[k] \in keep /\ at[k] \in 1..Len(s) /\ pins[k] = s[at[k]] BY <1>3
  <2>2. at[k] \in DOMAIN s /\ s[at[k]] \in PinnedSet BY <2>1, PinnedIsPinned
  <2>3. Index(s, s[at[k]]) = at[k] BY <1>1, <2>2, IndexOfPin
  <2>4. at[k] \in Place BY <2>1 DEF Place
  <2>5. PinnedSet \subseteq Nat BY SitesCarry
  <2> QED BY <2>1, <2>2, <2>3, <2>4, <2>5
<1>6. ASSUME NEW j \in 1..n, NEW k \in 1..n, j < k
      PROVE  at[j] # at[k] /\ pins[j] # pins[k]
  <2> HIDE DEF pins, n, keep
  <2>1. at[j] < at[k] BY <1>3, <1>6
  <2>2. at[j] \in Nat /\ at[k] \in Nat BY <1>5 DEF Place
  <2>3. at[j] # at[k] BY <2>1, <2>2
  <2> QED BY <2>3, <1>5
<1>7. step \in [1..n -> [Pins -> Pins]]
  <2> HIDE DEF pins, n
  <2>1. ASSUME NEW k \in 1..n, NEW x \in Pins
        PROVE  PinnedAt(x, pins[k], Index(s, pins[k])) \in Pins
    <3>1. pins[k] \in Nat /\ Index(s, pins[k]) \in Place BY <1>5
    <3> QED BY <3>1, PinnedAtPins
  <2> QED BY <2>1
<1>8. PICK g \in [0..n -> Pins] : g[0] = pinned /\ \A k \in 1..n : g[k] = step[k][g[k - 1]]
  <2> HIDE DEF step, n, Is, p, pins, keep
  <2>1. \E g : Steps(g, Pins, pinned, n, step) BY <1>1, <1>4, <1>7, StepsExist
  <2> QED BY <2>1 DEF Steps
<1>9. Is(g)
  <2> HIDE DEF pins, n
  <2>1. ASSUME NEW k \in 0..n
        PROVE  g[k] = IF k = 0 THEN pinned
                      ELSE PinnedAt(g[k - 1], pins[k], Index(s, pins[k]))
    <3>1. CASE k = 0 BY <1>8, <3>1
    <3>2. CASE k # 0
      <4>1. k \in 1..n /\ k - 1 \in 0..n /\ g[k - 1] \in Pins BY <1>4, <1>8, <3>2
      <4>2. g[k] = step[k][g[k - 1]]
        <5> HIDE DEF step
        <5> QED BY <4>1, <1>8
      <4> QED BY <3>2, <4>1, <4>2
    <3> QED BY <3>1, <3>2
  <2> HIDE DEF step
  <2> QED BY <2>1, <1>8
<1>10. p = CHOOSE f : Is(f) OBVIOUS
<1>11. Is(p)
  <2> HIDE DEF Is, p
  <2> QED BY <1>9, <1>10
<1>12. p[0] = pinned /\ \A k \in 1..n : p[k] = PinnedAt(p[k - 1], pins[k], Index(s, pins[k]))
  <2> HIDE DEF pins, n, p
  <2> QED BY <1>4, <1>11
<1>13. Repinned(d, c) = IF IsPinned(sites[c]) THEN p[n] ELSE pinned BY DEF Repinned
<1> DEFINE Home(k) == \A j \in 1..k : At(p[k], at[j]) = pins[j]
           Other(k) == \A m \in Place : (\A j \in 1..n : at[j] # m) =>
                         At(p[k], m) = IF \E j \in 1..k : pins[j] = At(pinned, m) THEN Empty
                                       ELSE At(pinned, m)
           G == {k \in 0..n : p[k] \in Pins /\ Home(k) /\ Other(k)}
<1> HIDE DEF pins, n, p, Is, step, keep
<1>14. 0 \in G BY <1>1, <1>4, <1>12
<1>15. ASSUME NEW k \in 1..n, k - 1 \in G PROVE k \in G
  <2>1. /\ k \in 0..n /\ k \in Nat /\ p[k - 1] \in Pins
        /\ \A j \in 1..k - 1 : At(p[k - 1], at[j]) = pins[j]
        /\ Other(k - 1)
    BY <1>4, <1>15
  <2>2. PICK x : x = p[k - 1] OBVIOUS
  <2>3. PICK y : y = p[k] OBVIOUS
  <2>4. pins[k] \in Nat /\ at[k] \in Place /\ Index(s, pins[k]) = at[k] BY <1>5
  <2>5. y = PinnedAt(x, pins[k], at[k]) BY <1>12, <2>2, <2>3, <2>4
  <2>6. y \in Pins BY <2>1, <2>2, <2>4, <2>5, PinnedAtPins
  <2>7. \A m \in Place : At(y, m) = IF m = at[k] THEN pins[k]
                                    ELSE IF At(x, m) = pins[k] THEN Empty ELSE At(x, m)
    <3>1. x \in Seq(Nat) BY <2>1, <2>2 DEF Pins
    <3>2. Pinning(x, pins[k], at[k], y) BY <2>4, <2>5, <3>1, PinnedAtAt
    <3> QED BY <3>2 DEF Pinning
  <2>8. ASSUME NEW j \in 1..k PROVE At(y, at[j]) = pins[j]
    <3>1. CASE j = k BY <3>1, <2>4, <2>7
    <3>2. CASE j # k
      <4>1. j \in 1..k - 1 /\ j \in 1..n /\ j < k BY <3>2, <2>1, <1>4
      <4>2. at[j] # at[k] /\ pins[j] # pins[k] /\ at[j] \in Place BY <4>1, <1>5, <1>6
      <4>3. At(x, at[j]) = pins[j] BY <4>1, <2>1, <2>2
      <4> QED BY <4>2, <4>3, <2>7
    <3> QED BY <3>1, <3>2
  <2>9. ASSUME NEW m \in Place, \A j \in 1..n : at[j] # m
        PROVE  At(y, m) = IF \E j \in 1..k : pins[j] = At(pinned, m) THEN Empty
                          ELSE At(pinned, m)
    <3>1. At(x, m) = IF \E j \in 1..k - 1 : pins[j] = At(pinned, m) THEN Empty ELSE At(pinned, m)
      BY <2>1, <2>2, <2>9
    <3>2. m # at[k] /\ pins[k] # Empty BY <2>9, <1>5 DEF PinnedSet
    <3>3. At(y, m) = IF At(x, m) = pins[k] THEN Empty ELSE At(x, m) BY <3>2, <2>7
    <3>4. \A j \in 1..k : j = k \/ j \in 1..k - 1 BY <2>1
    <3>5. \A j \in 1..k - 1 : j \in 1..k BY <2>1
    <3>6. k \in 1..k BY <2>1
    <3>7. CASE \E j \in 1..k - 1 : pins[j] = At(pinned, m) BY <3>1, <3>3, <3>5, <3>7
    <3>8. CASE ~(\E j \in 1..k - 1 : pins[j] = At(pinned, m)) BY <3>1, <3>3, <3>4, <3>6, <3>8
    <3> QED BY <3>7, <3>8
  <2> HIDE DEF Other
  <2>10. Other(k) BY <2>3, <2>9 DEF Other
  <2> QED BY <2>1, <2>3, <2>6, <2>8, <2>10
<1>16. n \in G
  <2> HIDE DEF G
  <2>1. n \in 0..n BY <1>4
  <2> QED BY <1>4, <1>14, <1>15, <2>1, IntervalInduction
<1>17. ASSUME NEW l \in Shown PROVE At(p[n], Index(s, l)) = l
  <2>1. PICK i \in DOMAIN s : s[i] = l BY <1>1 DEF Carries
  <2>2. s[i] \in PinnedSet BY <2>1 DEF Shown
  <2>3. i \in keep \cap (1..Len(s)) BY <1>1, <2>2, PinnedIsPinned DEF keep
  <2>4. PICK k \in 1..n : at[k] = i BY <2>3, <1>3
  <2>5. pins[k] = l /\ Index(s, l) = at[k] BY <1>5, <2>1, <2>4
  <2> QED BY <1>16, <2>5
<1>18. Repinning(p[n], s)
  <2> SUFFICES ASSUME NEW m \in Place
               PROVE  At(p[n], m) = IF m \in DOMAIN s /\ s[m] \in PinnedSet THEN s[m]
                                    ELSE IF At(pinned, m) \in Shown THEN Empty ELSE At(pinned, m)
    BY DEF Repinning
  <2>1. CASE m \in DOMAIN s /\ s[m] \in PinnedSet
    <3>1. m \in keep \cap (1..Len(s)) BY <1>1, <2>1, PinnedIsPinned DEF keep
    <3>2. PICK k \in 1..n : at[k] = m BY <3>1, <1>3
    <3>3. At(p[n], at[k]) = pins[k] BY <1>16
    <3> QED BY <3>2, <3>3, <2>1, <1>5
  <2>2. CASE ~(m \in DOMAIN s /\ s[m] \in PinnedSet)
    <3>1. \A j \in 1..n : at[j] # m BY <2>2, <1>5
    <3>2. Other(n) BY <1>16
    <3>3. At(p[n], m) = IF \E j \in 1..n : pins[j] = At(pinned, m) THEN Empty ELSE At(pinned, m)
      BY <3>1, <3>2
    <3>4. (\E j \in 1..n : pins[j] = At(pinned, m)) <=> At(pinned, m) \in Shown
      <4>1. ASSUME NEW j \in 1..n PROVE pins[j] \in Shown
        BY <1>1, <1>5 DEF Carries
      <4>2. ASSUME NEW l \in Shown PROVE \E j \in 1..n : pins[j] = l
        <5>1. PICK i \in DOMAIN s : s[i] = l BY <1>1 DEF Carries
        <5>2. s[i] \in PinnedSet BY <5>1 DEF Shown
        <5>3. i \in keep \cap (1..Len(s)) BY <1>1, <5>2, PinnedIsPinned DEF keep
        <5>4. PICK k \in 1..n : at[k] = i BY <5>3, <1>3
        <5> QED BY <5>1, <5>4, <1>5
      <4> QED BY <4>1, <4>2
    <3> QED BY <3>3, <3>4, <2>2
  <2> QED BY <2>1, <2>2
<1> QED BY <1>1, <1>13, <1>16, <1>17, <1>18

\* Links that are counted from 1 are at different places.
LEMMA InitPins ==
  ASSUME NEW where \in SUBSET (1..(N + 1))
  PROVE  Trimmed([i \in 1..(N + 1) |->
           IF i \in where THEN Cardinality({j \in where : j <= i}) ELSE Empty]) \in Pins
<1> DEFINE Upto(i) == {j \in where : j <= i}
           b == [i \in 1..(N + 1) |-> IF i \in where THEN Cardinality(Upto(i)) ELSE Empty]
<1>1. N \in Nat BY ConstantsAssumption
<1>2. ASSUME NEW i \in 1..(N + 1) PROVE IsFiniteSet(Upto(i)) /\ Cardinality(Upto(i)) \in Nat
  <2>1. IsFiniteSet(1..(N + 1)) BY <1>1, FS_Interval
  <2>2. Upto(i) \in SUBSET (1..(N + 1)) OBVIOUS
  <2> HIDE DEF Upto
  <2> QED BY <2>1, <2>2, FS_Subset, FS_CardinalityType
<1> HIDE DEF Upto
<1>3. b \in Seq(Nat) /\ DOMAIN b = 1..(N + 1)
  <2>1. b \in [1..(N + 1) -> Nat] BY <1>2 DEF Empty
  <2>2. N + 1 \in Nat BY <1>1
  <2>3. PICK m \in Nat : m = N + 1 BY <2>2
  <2> HIDE DEF b
  <2> QED BY <2>1, <2>3, FunctionIsSeq
<1>4. ASSUME NEW i \in where, NEW k \in where, i < k PROVE b[i] # b[k]
  <2>0. \A j \in where : j \in Nat BY <1>1
  <2>1. Upto(i) \in SUBSET Upto(k) /\ k \in Upto(k) \ Upto(i)
    <3>1. ASSUME NEW j \in Upto(i) PROVE j \in Upto(k)
      <4>1. j \in where /\ j <= i BY DEF Upto
      <4>2. j <= k BY <4>1, <2>0, <1>4
      <4> QED BY <4>1, <4>2 DEF Upto
    <3>2. k <= k /\ ~(k <= i) BY <2>0, <1>4
    <3> QED BY <3>1, <3>2 DEF Upto
  <2>2. IsFiniteSet(Upto(k)) BY <1>2
  <2>3. Cardinality(Upto(i)) # Cardinality(Upto(k)) BY <2>1, <2>2, FS_Subset
  <2> QED BY <2>3
<1>5. NotTwice(b)
  <2> SUFFICES ASSUME NEW i \in Place, NEW k \in Place, At(b, i) = At(b, k), At(b, i) # Empty
               PROVE  i = k
    BY DEF NotTwice
  <2>1. i \in where /\ k \in where /\ At(b, i) = b[i] /\ At(b, k) = b[k] BY <1>3 DEF At
  <2>2. ~(i < k) /\ ~(k < i) BY <1>4, <2>1
  <2> QED BY <2>2 DEF Place
<1> HIDE DEF b
<1>6. PICK t : t = Trimmed(b) OBVIOUS
<1>7. t \in Seq(Nat) /\ \A j \in Place : At(t, j) = At(b, j) BY <1>3, <1>6, TrimmedAt
<1>8. NotTwice(t) BY <1>5, <1>7 DEF NotTwice
<1>9. Trimmed(b) \in Pins BY <1>6, <1>7, <1>8 DEF Pins
<1> QED BY <1>9 DEF b, Upto

\* A pinned link the grid does not show keeps its place, while all pinned links of
\* the arrangement fit into the grid.
LEMMA BeyondKept ==
  ASSUME DropInv, NEW c \in Cells, NEW d, NEW s, Arranged(s, d, c), AllFit(s),
         NEW r, Repinning(r, s), NEW l \in PinnedSet \ Shown
  PROVE  \E m \in Place : At(r, m) = l /\ m \notin Cells
<1>1. pinned \in Seq(Nat) /\ l # Empty /\ l \in Range(pinned)
  BY DEF DropInv, Pins, PinnedSet
<1>2. PICK m \in Place : At(pinned, m) = l BY <1>1, PinnedSomewhere
<1>3. m \notin Cells BY <1>1, <1>2, PinnedShown
<1>4. ASSUME m \in DOMAIN s, s[m] \in PinnedSet PROVE FALSE
  <2>1. Carries(s, PinnedSet, Shown) BY DEF Arranged
  <2>2. s[m] \in Shown BY <1>4, <2>1 DEF Carries
  <2>3. PICK i \in Cells : i \in DOMAIN s /\ s[i] = s[m] BY <2>2 DEF AllFit
  <2>4. i = m BY <1>4, <2>1, <2>3 DEF Carries
  <2> QED BY <1>3, <2>3, <2>4
<1>5. At(r, m) = l BY <1>2, <1>4 DEF Repinning
<1> QED BY <1>3, <1>5

\* A drop: of a site, d and link then being the same, or of a link from elsewhere.
LEMMA DroppedKeeps ==
  ASSUME DropInv, NEW c \in Cells, NEW d \in Range(sites) \cup {Empty}, NEW link \in Nat,
         link # Empty, d = Empty \/ d = link, Dropped(d, link, c)
  PROVE  DropInv' /\ PinsKept'
<1>1. PICK s : s = Rearrange(d, c) OBVIOUS
<1>2. PICK r : r = Repinned(d, c) OBVIOUS
<1>3. PICK p : p = pinned' OBVIOUS
<1>4. Arranged(s, d, c) /\ (IsPinned(sites[c]) /\ Cardinality(Shown) < N => AllFit(s))
  BY <1>1, RearrangeArranged
<1>5. /\ r \in Pins /\ (IsPinned(sites[c]) => \A l \in Shown : At(r, Index(s, l)) = l)
      /\ IsPinned(sites[c]) => Repinning(r, s)
  BY <1>1, <1>2, <1>4, RepinnedKeeps
<1>6. c \in Place BY ConstantsAssumption DEF Cells, Place
<1>7. p = IF d = sites[c] /\ d # Empty THEN r ELSE PinnedAt(r, link, c)
  BY <1>2, <1>3 DEF Dropped
<1>8. p \in Pins BY <1>5, <1>6, <1>7, PinnedAtPins
<1>9. ASSUME NEW j \in Place, NEW l, l # Empty, At(r, j) = l, l = link \/ j # c
      PROVE  \E k \in {j, c} : At(p, k) = l
  <2>1. CASE p = r BY <1>9, <2>1
  <2>2. CASE p = PinnedAt(r, link, c)
    <3>1. r \in Seq(Nat) BY <1>5 DEF Pins
    <3>2. Pinning(r, link, c, p) BY <2>2, <3>1, <1>6, PinnedAtAt
    <3>3. \A k \in Place : At(p, k) = IF k = c THEN link
                                      ELSE IF At(r, k) = link THEN Empty ELSE At(r, k)
      BY <3>2 DEF Pinning
    <3>4. CASE l = link BY <3>3, <3>4, <1>6
    <3>5. CASE l # link BY <3>3, <3>5, <1>9
    <3> QED BY <3>4, <3>5
  <2> QED BY <1>7, <2>1, <2>2
<1>10. ASSUME NEW l \in Shown
       PROVE  \E j \in Place : /\ At(r, j) = l /\ (l = link \/ j # c)
                               /\ Cardinality(Shown) < N => j \in Cells
  <2>1. l \in PinnedSet /\ l # Empty BY DEF Shown, PinnedSet
  <2>2. CASE IsPinned(sites[c])
    <3>1. /\ s \in Seq(Nat) /\ s[c] = d /\ Carries(s, PinnedSet, Shown)
          /\ DOMAIN s = 1..Len(s)
      <4>1. s \in Seq(Nat) /\ s[c] = d /\ Carries(s, PinnedSet, Shown) BY <1>4 DEF Arranged
      <4> QED BY <4>1, LenProperties
    <3>2. PICK j \in DOMAIN s : s[j] = l BY <3>1 DEF Carries
    <3>3. Index(s, l) = j BY <2>1, <3>1, <3>2, IndexOfPin
    <3>4. At(r, j) = l BY <1>5, <2>2, <3>3
    <3>5. j \in Place BY <3>1 DEF Place
    <3>6. j = c => l = link BY <2>1, <3>1, <3>2
    <3>7. ASSUME Cardinality(Shown) < N PROVE j \in Cells
      <4>1. PICK i \in Cells : i \in DOMAIN s /\ s[i] = l BY <1>4, <2>2, <3>7 DEF AllFit
      <4>2. Index(s, l) = i BY <2>1, <3>1, <4>1, IndexOfPin
      <4> QED BY <3>3, <4>2
    <3> QED BY <3>4, <3>5, <3>6, <3>7
  <2>3. CASE ~IsPinned(sites[c])
    <3>1. r = pinned BY <1>2, <2>3 DEF Repinned
    <3>2. PICK j \in Cells : sites[j] = l BY SitesCarry DEF Shown, Range
    <3>3. At(pinned, j) = l BY <2>1, <3>2, SitesCarry
    <3>4. j # c BY <2>1, <2>3, <3>2, PinnedIsPinned
    <3>5. j \in Place BY ConstantsAssumption DEF Cells, Place
    <3> QED BY <3>1, <3>2, <3>3, <3>4, <3>5
  <2> QED BY <2>2, <2>3
<1>11. ASSUME NEW l \in Shown
       PROVE  \E j \in Place : At(p, j) = l /\ (Cardinality(Shown) < N => j \in Cells)
  <2>1. PICK j \in Place : /\ At(r, j) = l /\ (l = link \/ j # c)
                           /\ Cardinality(Shown) < N => j \in Cells
    BY <1>10
  <2>2. l # Empty BY DEF Shown, PinnedSet
  <2>3. PICK k \in {j, c} : At(p, k) = l BY <1>9, <2>1, <2>2
  <2> QED BY <2>1, <2>3, <1>6
<1>12. PICK g : g = Grid(provided, p) OBVIOUS
<1>13. sites' = g /\ provided' = provided /\ drops' \in Nat
  BY <1>3, <1>12 DEF Dropped, DropInv
<1>14. before'.shown = Shown /\ before'.pinned = PinnedSet
  <2>1. before'.shown = {l \in Range(sites) : IsPinned(l)} BY DEF Dropped
  <2>2. before'.pinned = PinnedSet BY DEF Dropped, PinnedSet
  <2> QED BY <2>1, <2>2, PinnedIsPinned DEF Shown
<1>15. DropInv' BY <1>3, <1>8, <1>12, <1>13 DEF DropInv
<1>16. Shown \subseteq Range(p)
  <2>1. ASSUME NEW l \in Shown PROVE l \in Range(p)
    <3>1. PICK j \in Place : At(p, j) = l BY <1>11
    <3>2. l # Empty /\ p \in Seq(Nat) BY <1>8 DEF Shown, PinnedSet, Pins
    <3> QED BY <3>1, <3>2, PinnedSomewhere
  <2> QED BY <2>1
<1>17. ASSUME Cardinality(Shown) < N, NEW l \in Shown PROVE l \in Range(g)
  <2>1. PICK j \in Cells : At(p, j) = l BY <1>11, <1>17
  <2>2. l # Empty /\ p \in Seq(Nat) BY <1>8 DEF Shown, PinnedSet, Pins
  <2>3. g[j] = l BY <1>12, <2>1, <2>2, GridAt
  <2>4. j \in DOMAIN g BY <1>12 DEF Grid
  <2> QED BY <2>3, <2>4 DEF Range
<1>18. ASSUME Cardinality(Shown) < N, NEW l \in PinnedSet PROVE l \in Range(p)
  <2>1. CASE l \in Shown BY <2>1, <1>16
  <2>2. CASE l \notin Shown
    <3>1. PICK m \in Place : At(r, m) = l /\ m \notin Cells
      <4>1. CASE IsPinned(sites[c])
        <5>1. AllFit(s) /\ Arranged(s, d, c) /\ Repinning(r, s) BY <4>1, <1>4, <1>5, <1>18
        <5> QED BY <5>1, <2>2, BeyondKept
      <4>2. CASE ~IsPinned(sites[c])
        <5>1. r = pinned BY <1>2, <4>2 DEF Repinned
        <5>2. pinned \in Seq(Nat) /\ l # Empty /\ l \in Range(pinned)
          BY DEF DropInv, Pins, PinnedSet
        <5>3. PICK m \in Place : At(pinned, m) = l BY <5>2, PinnedSomewhere
        <5>4. m \notin Cells BY <2>2, <5>2, <5>3, PinnedShown
        <5> QED BY <5>1, <5>3, <5>4
      <4> QED BY <4>1, <4>2
    <3>2. l # Empty /\ m # c /\ p \in Seq(Nat) BY <3>1, <1>8 DEF PinnedSet, Pins
    <3>3. PICK k \in {m, c} : At(p, k) = l BY <3>1, <3>2, <1>9
    <3> QED BY <3>2, <3>3, <1>6, PinnedSomewhere
  <2> QED BY <2>1, <2>2
<1>19. PICK V, W : V = Shown /\ W = PinnedSet OBVIOUS
<1>20. PinsKept'
  <2>1. /\ before'.shown = V /\ before'.pinned = W
        /\ pinned' = p /\ sites' = g
    BY <1>3, <1>13, <1>14, <1>19
  <2>2. /\ V \subseteq Range(p)
        /\ Cardinality(V) < N => V \subseteq Range(g) /\ W \subseteq Range(p)
    BY <1>16, <1>17, <1>18, <1>19
  <2> QED BY <2>1, <2>2 DEF PinsKept
<1> QED BY <1>15, <1>20

\* Every step is such a drop.
LEMMA StepIsDrop ==
  ASSUME DropInv, Next
  PROVE  \E c \in Cells, d \in Range(sites) \cup {Empty}, link \in Nat \ {Empty} :
           (d = Empty \/ d = link) /\ Dropped(d, link, c)
<1>1. ASSUME NEW c \in Cells, Drop(c)
      PROVE  \E d \in Range(sites) \cup {Empty}, link \in Nat \ {Empty} :
               (d = Empty \/ d = link) /\ Dropped(d, link, c)
  <2>1. PICK l \in Range(sites) \ {Empty} : Dropped(l, l, c) BY <1>1 DEF Drop
  <2>2. l \in Nat
    <3>1. PICK i \in DOMAIN sites : sites[i] = l BY DEF Range
    <3>2. sites \in Seq(Nat) BY SitesCarry
    <3> QED BY <3>1, <3>2, LenProperties
  <2> QED BY <2>1, <2>2
<1>2. ASSUME NEW c \in Cells, DropLink(c)
      PROVE  \E d \in Range(sites) \cup {Empty}, link \in Nat \ {Empty} :
               (d = Empty \/ d = link) /\ Dropped(d, link, c)
  <2>1. PICK l \in Links \cup {New + drops} : Dropped(Empty, l, c) BY <1>2 DEF DropLink
  <2>2. l \in Nat \ {Empty} BY ConstantsAssumption DEF Links, New, DropInv, Empty
  <2> QED BY <2>1, <2>2
<1> QED BY <1>1, <1>2 DEF Next

\* At the start the invariant holds.
LEMMA InitDrops ==
  ASSUME Init
  PROVE  DropInv
<1>1. pinned \in Pins BY InitPins DEF Init
<1> QED BY <1>1 DEF Init, DropInv

\* A drop unpins no link the grid showed as pinned, and while it had a cell without
\* a pinned site no other pinned link either, and shows all it showed: whatever the
\* size of the grid and however many drops there were (gDrop.drop,
\* gDropPreview.rearrange).
THEOREM PinsStay == Spec => []PinsKept
<1>1. Init => DropInv /\ PinsKept
  <2>1. Init => PinsKept BY DEF Init, PinsKept
  <2> QED BY <2>1, InitDrops
<1>2. DropInv /\ PinsKept /\ [Next]_vars => (DropInv /\ PinsKept)'
  <2> SUFFICES ASSUME DropInv, PinsKept, [Next]_vars PROVE (DropInv /\ PinsKept)'
    OBVIOUS
  <2>1. CASE Next
    <3>1. PICK c \in Cells, d \in Range(sites) \cup {Empty}, link \in Nat \ {Empty} :
            (d = Empty \/ d = link) /\ Dropped(d, link, c)
      BY <2>1, StepIsDrop
    <3> QED BY <3>1, DroppedKeeps
  <2>2. CASE UNCHANGED vars BY <2>2 DEF vars, DropInv, PinsKept
  <2> QED BY <2>1, <2>2
<1> QED BY <1>1, <1>2, PTL DEF Spec

-----------------------------------------------------------------------------
\* The links that are not pinned.  They are numbered in the order of the providers.

\* At the places U, g shows links of F in their order, all before the last one it
\* shows, and nothing after that.
Ordered(g, U, F) ==
  /\ \A i \in U : g[i] = Empty \/ g[i] \in F
  /\ \A i, j \in U : i < j /\ g[j] # Empty => g[i] # Empty /\ g[i] < g[j]
  /\ \A i \in U, l \in F : g[i] = Empty \/ l < g[i] => \E k \in U : g[k] = l

\* What is shown at a place leaves no other choice when the places before agree.
LEMMA NoneEarlier ==
  ASSUME NEW U \in SUBSET Nat, NEW F \in SUBSET Place, NEW g, NEW h,
         Ordered(g, U, F), Ordered(h, U, F), NEW m \in U,
         \A i \in U : i < m => g[i] = h[i]
  PROVE  ~(g[m] # Empty /\ (h[m] = Empty \/ g[m] < h[m]))
<1> SUFFICES ASSUME g[m] # Empty, h[m] = Empty \/ g[m] < h[m] PROVE FALSE OBVIOUS
<1>1. PICK l \in F : l = g[m] BY DEF Ordered
<1>2. PICK k \in U : h[k] = l BY <1>1 DEF Ordered
<1>3. l \in Nat /\ l # Empty /\ k \in Nat /\ m \in Nat BY <1>1 DEF Place, Empty
<1>4. h[m] = Empty \/ h[m] \in F BY DEF Ordered
<1>5. CASE k < m
  <2>1. g[k] = l BY <1>2, <1>5
  <2>2. g[k] < g[m] BY <1>5 DEF Ordered
  <2> QED BY <2>1, <2>2, <1>1, <1>3
<1>6. CASE k = m BY <1>1, <1>2, <1>3, <1>6
<1>7. CASE k > m
  <2>1. m < k /\ h[k] # Empty BY <1>2, <1>3, <1>7
  <2>2. h[m] # Empty /\ h[m] < h[k] BY <2>1 DEF Ordered
  <2>3. h[m] \in Nat BY <2>2, <1>4 DEF Place
  <2> QED BY <2>2, <2>3, <1>1, <1>2, <1>3
<1> QED BY <1>3, <1>5, <1>6, <1>7

\* The places and the links determine what is shown where.
LEMMA OrderedAgree ==
  ASSUME NEW U \in SUBSET Nat, NEW F \in SUBSET Place, NEW g, NEW h,
         Ordered(g, U, F), Ordered(h, U, F)
  PROVE  \A i \in U : g[i] = h[i]
<1> DEFINE Bad == {i \in U : g[i] # h[i]}
<1> SUFFICES ASSUME Bad # {} PROVE FALSE OBVIOUS
<1>1. Bad \in SUBSET Nat OBVIOUS
<1>2. PICK m \in Bad : \A k \in Bad : m <= k
  <2> HIDE DEF Bad
  <2> QED BY <1>1, LeastElement
<1>3. m \in U /\ m \in Nat /\ g[m] # h[m] OBVIOUS
<1>4. \A i \in U : i < m => g[i] = h[i]
  <2> SUFFICES ASSUME NEW i \in U, i < m, g[i] # h[i] PROVE FALSE OBVIOUS
  <2>1. i \in Bad /\ i \in Nat OBVIOUS
  <2> HIDE DEF Bad
  <2> QED BY <2>1, <1>2, <1>3
<1>5. \A i \in U : i < m => h[i] = g[i] BY <1>4
<1> HIDE DEF Bad
<1>6. ~(g[m] # Empty /\ (h[m] = Empty \/ g[m] < h[m])) BY <1>3, <1>4, NoneEarlier
<1>7. ~(h[m] # Empty /\ (g[m] = Empty \/ h[m] < g[m])) BY <1>3, <1>5, NoneEarlier
<1>8. g[m] # Empty /\ h[m] # Empty BY <1>3, <1>6, <1>7
<1>9. g[m] \in Place /\ h[m] \in Place BY <1>3, <1>8 DEF Ordered
<1> QED BY <1>3, <1>6, <1>7, <1>8, <1>9 DEF Place

\* Place i of t holds what place q[i] of s does, in the same order; a link of G that
\* is left behind was after all the others.
Follows(q, s, U, t, V, G) ==
  /\ \A i \in V : q[i] \in U /\ t[i] = s[q[i]] /\ (t[i] = Empty \/ t[i] \in G)
  /\ \A i, j \in V : i < j => q[i] < q[j]
  /\ \A k \in U : s[k] \in G => (\E i \in V : q[i] = k) \/ (\A i \in V : q[i] < k)

\* What follows something in order is in order.
LEMMA FollowsOrdered ==
  ASSUME NEW U \in SUBSET Nat, NEW F \in SUBSET Place, NEW s, Ordered(s, U, F),
         NEW q, NEW t, NEW V, NEW G \in SUBSET F, Follows(q, s, U, t, V, G)
  PROVE  Ordered(t, V, G)
<1>1. ASSUME NEW i \in V, NEW j \in V, i < j, t[j] # Empty PROVE t[i] # Empty /\ t[i] < t[j]
  <2>1. q[i] \in U /\ q[j] \in U /\ q[i] < q[j] /\ t[i] = s[q[i]] /\ t[j] = s[q[j]]
    BY <1>1 DEF Follows
  <2> QED BY <2>1, <1>1 DEF Ordered
<1>2. ASSUME NEW i \in V, NEW l \in G, t[i] = Empty \/ l < t[i]
      PROVE  \E k \in V : t[k] = l
  <2>1. q[i] \in U /\ t[i] = s[q[i]] /\ l \in F BY DEF Follows
  <2>2. PICK k \in U : s[k] = l BY <2>1, <1>2 DEF Ordered
  <2>3. CASE \E j \in V : q[j] = k
    <3>1. PICK j \in V : q[j] = k BY <2>3
    <3> QED BY <3>1, <2>2 DEF Follows
  <2>4. CASE \A j \in V : q[j] < k
    <3>1. q[i] < k /\ s[k] # Empty BY <2>2, <2>1, <2>4 DEF Place, Empty
    <3>2. s[q[i]] # Empty /\ s[q[i]] < s[k] BY <2>1, <3>1 DEF Ordered
    <3>3. s[q[i]] \in Place /\ l \in Place BY <2>1, <3>2 DEF Ordered
    <3> QED BY <3>2, <3>3, <2>1, <2>2, <1>2 DEF Place
  <2> QED BY <2>2, <2>3, <2>4 DEF Follows
<1>3. \A i \in V : t[i] = Empty \/ t[i] \in G BY DEF Follows
<1> QED BY <1>1, <1>2, <1>3 DEF Ordered

\* A link is at one place.
LEMMA OrderedOnce ==
  ASSUME NEW U \in SUBSET Nat, NEW F \in SUBSET Place, NEW g, Ordered(g, U, F),
         NEW i \in U, NEW j \in U, g[i] = g[j], g[i] # Empty
  PROVE  i = j
<1>1. g[i] \in Nat /\ i \in Nat /\ j \in Nat BY DEF Ordered, Place
<1>2. ~(i < j) /\ ~(j < i) BY <1>1 DEF Ordered
<1> QED BY <1>1, <1>2

\* The cells where no link is pinned, the links that the providers have and that
\* are not pinned.
Open(p) == {i \in Cells : At(p, i) = Empty}
FreeLinks(p) == (provided \cap Links) \ Range(p)

\* The number of open cells up to i.
OpenUpto(p, i) == {j \in 1..i : At(p, j) = Empty}

\* There are finitely many.
LEMMA OpenCount ==
  ASSUME NEW p, NEW i \in Nat
  PROVE  IsFiniteSet(OpenUpto(p, i)) /\ Cardinality(OpenUpto(p, i)) \in Nat
<1>1. IsFiniteSet(1..i) BY FS_Interval
<1>2. OpenUpto(p, i) \in SUBSET (1..i) BY DEF OpenUpto
<1> QED BY <1>1, <1>2, FS_Subset, FS_CardinalityType

\* An open cell counts one more than the cells before it.
LEMMA OpenGrows ==
  ASSUME NEW p, NEW i \in Nat, NEW j \in Nat, i < j, At(p, j) = Empty
  PROVE  Cardinality(OpenUpto(p, i)) < Cardinality(OpenUpto(p, j))
<1>1. OpenUpto(p, i) \in SUBSET OpenUpto(p, j) BY DEF OpenUpto
<1>2. j \in OpenUpto(p, j) /\ j \notin OpenUpto(p, i) BY DEF OpenUpto
<1>3. IsFiniteSet(OpenUpto(p, j)) BY OpenCount
<1>4. PICK a, b \in Nat : a = Cardinality(OpenUpto(p, i)) /\ b = Cardinality(OpenUpto(p, j))
  BY OpenCount
<1>5. a <= b /\ a # b BY <1>1, <1>2, <1>3, <1>4, FS_Subset
<1> QED BY <1>4, <1>5

\* A cell that is open counts one more than the cell before it, another as many.
LEMMA OpenStep ==
  ASSUME NEW p, NEW i \in Place
  PROVE  /\ At(p, i) = Empty =>
              Cardinality(OpenUpto(p, i)) = Cardinality(OpenUpto(p, i - 1)) + 1
         /\ At(p, i) # Empty => OpenUpto(p, i) = OpenUpto(p, i - 1)
<1>1. i \in Nat /\ i >= 1 /\ i - 1 \in Nat BY DEF Place
<1>2. 1..i = (1..(i - 1)) \cup {i} /\ i \notin 1..(i - 1) BY <1>1
<1>3. At(p, i) # Empty => OpenUpto(p, i) = OpenUpto(p, i - 1) BY <1>2 DEF OpenUpto
<1>4. ASSUME At(p, i) = Empty
      PROVE  Cardinality(OpenUpto(p, i)) = Cardinality(OpenUpto(p, i - 1)) + 1
  <2>1. PICK S : S = OpenUpto(p, i - 1) OBVIOUS
  <2>2. OpenUpto(p, i) = S \cup {i} /\ i \notin S BY <1>2, <1>4, <2>1 DEF OpenUpto
  <2>3. IsFiniteSet(S) BY <1>1, <2>1, OpenCount
  <2>4. Cardinality(S \cup {i}) = Cardinality(S) + 1 BY <2>2, <2>3, FS_AddElement
  <2> QED BY <2>1, <2>2, <2>4
<1> QED BY <1>3, <1>4

\* No number is left out.
LEMMA OpenReached ==
  ASSUME NEW p, NEW i \in Nat, NEW m \in Place, m <= Cardinality(OpenUpto(p, i))
  PROVE  \E k \in 1..i : At(p, k) = Empty /\ Cardinality(OpenUpto(p, k)) = m
<1> DEFINE C(k) == Cardinality(OpenUpto(p, k))
           S == {k \in 0..i : m <= C(k)}
<1>1. PICK k \in S : \A j \in S : k <= j
  <2>1. S \in SUBSET Nat /\ i \in S OBVIOUS
  <2> HIDE DEF S
  <2> QED BY <2>1, LeastElement
<1>2. k \in Nat /\ k <= i /\ m <= C(k) /\ m \in Nat /\ m # 0 BY DEF Place
<1>3. k # 0
  <2>1. OpenUpto(p, 0) = {} BY DEF OpenUpto
  <2>2. C(0) = 0 BY <2>1, FS_EmptySet
  <2> QED BY <1>2, <2>2
<1>4. k - 1 \in Nat /\ k \in Place /\ k \in 1..i /\ k - 1 \in 0..i BY <1>2, <1>3 DEF Place
<1>5. C(k) \in Nat /\ C(k - 1) \in Nat BY <1>2, <1>4, OpenCount
<1>6. k - 1 \notin S
  <2> HIDE DEF S
  <2> QED BY <1>1, <1>2, <1>4
<1>7. ~(m <= C(k - 1)) BY <1>4, <1>6
<1>8. /\ At(p, k) = Empty => C(k) = C(k - 1) + 1
      /\ At(p, k) # Empty => OpenUpto(p, k) = OpenUpto(p, k - 1)
  BY <1>4, OpenStep
<1>9. At(p, k) = Empty
  <2> SUFFICES ASSUME At(p, k) # Empty PROVE FALSE OBVIOUS
  <2>1. C(k) = C(k - 1) BY <1>8
  <2> HIDE DEF C
  <2> QED BY <2>1, <1>2, <1>7
<1>10. PICK x, y \in Nat : x = C(k) /\ y = C(k - 1) BY <1>5
<1> HIDE DEF C, S
<1>11. x = m BY <1>2, <1>7, <1>8, <1>9, <1>10
<1> QED BY <1>4, <1>9, <1>10, <1>11 DEF C

\* Every cell where no link is pinned shows the next free link of the providers.
LEMMA GridOrdered ==
  ASSUME NEW p \in Seq(Nat)
  PROVE  /\ Ordered(Grid(provided, p), Open(p), FreeLinks(p))
         /\ Open(p) \in SUBSET Nat /\ FreeLinks(p) \in SUBSET Place
<1> DEFINE all == [l \in Links |-> l]
           keep == provided \ Range(p)
           free == Kept(all, keep)
           Rank(i) == Cardinality({j \in 1..i : At(p, j) = Empty})
           C(i) == Cardinality(OpenUpto(p, i))
           g == [i \in Cells |-> IF At(p, i) # Empty THEN p[i]
                                 ELSE IF Rank(i) <= Len(free) THEN free[Rank(i)] ELSE Empty]
<1>1. Grid(provided, p) = g BY DEF Grid
<1>2. all \in Seq(Nat) /\ Len(all) = MaxLink
  <2>1. all \in [1..MaxLink -> Nat] BY ConstantsAssumption DEF Links
  <2> HIDE DEF all
  <2> QED BY <2>1, ConstantsAssumption, FunctionIsSeq
<1>3. PICK at : PlacesKept(at, all, keep)
  <2> HIDE DEF all, keep
  <2> QED BY <1>2, KeptHasPlaces
<1>4. PICK n \in Nat : n = Len(free)
  <2>1. free \in Seq(Nat)
    <3> HIDE DEF all, keep
    <3> QED BY <1>2, KeptElements
  <2> HIDE DEF free
  <2> QED BY <2>1, LenProperties
<1>5. /\ at \in [1..n -> keep \cap Links]
      /\ \A j, k \in 1..n : j < k => at[j] < at[k]
      /\ \A i \in keep \cap Links : \E k \in 1..n : at[k] = i
      /\ \A k \in 1..n : free[k] = all[at[k]]
  <2> HIDE DEF all, keep
  <2> QED BY <1>2, <1>3, <1>4 DEF PlacesKept, Links
<1>6. keep \cap Links = FreeLinks(p) BY DEF FreeLinks
<1> HIDE DEF keep
<1>7. \A k \in 1..n : free[k] = at[k] /\ at[k] \in FreeLinks(p)
  <2>1. ASSUME NEW k \in 1..n PROVE free[k] = at[k]
    <3>1. at[k] \in Links BY <1>5
    <3> HIDE DEF free
    <3> QED BY <3>1, <1>5
  <2> QED BY <2>1, <1>5, <1>6
<1>8. ASSUME NEW i \in Open(p)
      PROVE  i \in Place /\ i \in Cells /\ At(p, i) = Empty /\ C(i) \in Place
             /\ g[i] = IF C(i) <= n THEN at[C(i)] ELSE Empty
  <2>1. i \in Cells /\ At(p, i) = Empty BY DEF Open
  <2>2. i \in Nat /\ i >= 1 BY <2>1, ConstantsAssumption DEF Cells
  <2>3. C(i) \in Nat /\ C(i) # 0
    <3>1. i \in OpenUpto(p, i) BY <2>1, <2>2 DEF OpenUpto
    <3>2. IsFiniteSet(OpenUpto(p, i)) /\ C(i) \in Nat BY <2>2, OpenCount
    <3> QED BY <3>1, <3>2, FS_EmptySet
  <2>4. Rank(i) = C(i) BY DEF OpenUpto
  <2>5. g[i] = IF Rank(i) <= Len(free) THEN free[Rank(i)] ELSE Empty BY <2>1
  <2> HIDE DEF Rank, C, free, g
  <2>6. C(i) <= n => C(i) \in 1..n BY <2>3
  <2> QED BY <2>1, <2>2, <2>3, <2>4, <2>5, <2>6, <1>4, <1>7 DEF Place
<1>9. FreeLinks(p) \in SUBSET Place BY ConstantsAssumption DEF FreeLinks, Links, Place
<1>10. Open(p) \in SUBSET Nat BY <1>8 DEF Place
<1> HIDE DEF g, free, all, Rank, C
<1>11. ASSUME NEW i \in Open(p) PROVE g[i] = Empty \/ g[i] \in FreeLinks(p)
  <2>1. C(i) \in Place /\ g[i] = IF C(i) <= n THEN at[C(i)] ELSE Empty BY <1>8
  <2>2. C(i) <= n => C(i) \in 1..n BY <2>1 DEF Place
  <2> QED BY <2>1, <2>2, <1>7
<1>12. ASSUME NEW i \in Open(p), NEW j \in Open(p), i < j, g[j] # Empty
       PROVE  g[i] # Empty /\ g[i] < g[j]
  <2>1. /\ C(i) \in Place /\ g[i] = IF C(i) <= n THEN at[C(i)] ELSE Empty
        /\ i \in Place /\ At(p, i) = Empty
    BY <1>8
  <2>2. /\ C(j) \in Place /\ g[j] = IF C(j) <= n THEN at[C(j)] ELSE Empty
        /\ j \in Place /\ At(p, j) = Empty
    BY <1>8
  <2>3. C(i) < C(j) BY <2>1, <2>2, <1>12, OpenGrows DEF C, Place
  <2>4. C(j) <= n BY <2>2, <1>12
  <2>5. C(i) \in 1..n /\ C(j) \in 1..n /\ C(i) <= n BY <2>1, <2>2, <2>3, <2>4 DEF Place
  <2>6. g[i] = at[C(i)] /\ g[j] = at[C(j)] BY <2>1, <2>2, <2>4, <2>5
  <2>7. at[C(i)] < at[C(j)] BY <2>3, <2>5, <1>5
  <2>8. at[C(i)] # Empty BY <2>5, <1>7, <1>9 DEF Place, Empty
  <2> QED BY <2>6, <2>7, <2>8
<1>13. ASSUME NEW i \in Open(p), NEW l \in FreeLinks(p), g[i] = Empty \/ l < g[i]
       PROVE  \E k \in Open(p) : g[k] = l
  <2>1. /\ C(i) \in Place /\ g[i] = IF C(i) <= n THEN at[C(i)] ELSE Empty
        /\ i \in Place /\ i \in Cells
    BY <1>8
  <2>2. PICK m \in 1..n : at[m] = l BY <1>5, <1>6
  <2>3. m \in Place /\ l \in Place BY <2>2, <1>9 DEF Place
  <2>4. m <= C(i)
    <3> SUFFICES ASSUME C(i) < m PROVE FALSE BY <2>1, <2>3 DEF Place
    <3>1. C(i) \in 1..n /\ C(i) <= n BY <2>1, <2>2 DEF Place
    <3>2. g[i] = at[C(i)] BY <3>1, <2>1
    <3>3. at[C(i)] < l /\ at[C(i)] \in Place BY <3>1, <2>2, <1>5, <1>7, <1>9
    <3> QED BY <3>2, <3>3, <2>3, <1>13 DEF Place, Empty
  <2>5. i \in Nat BY <2>1 DEF Place
  <2>6. PICK k \in 1..i : At(p, k) = Empty /\ C(k) = m
    BY <2>3, <2>4, <2>5, OpenReached DEF C
  <2>7. k \in Open(p)
    <3>1. k \in Cells BY <2>1, <2>5, <2>6, ConstantsAssumption DEF Cells
    <3> QED BY <3>1, <2>6 DEF Open
  <2>8. g[k] = IF C(k) <= n THEN at[C(k)] ELSE Empty BY <2>7, <1>8
  <2>9. m <= n BY <2>2
  <2>10. g[k] = l BY <2>2, <2>6, <2>8, <2>9
  <2> QED BY <2>7, <2>10
<1>14. Ordered(g, Open(p), FreeLinks(p)) BY <1>11, <1>12, <1>13 DEF Ordered
<1> QED BY <1>1, <1>9, <1>10, <1>14

\* The places, but for the cell, that hold no pinned link.
FreePlaces(s, c) == {i \in DOMAIN s \ {c} : s[i] \notin PinnedSet}

\* The link that is dropped is the site that was picked up, or nowhere in the grid.
Fetched(d, link) == d = link \/ (d = Empty /\ link \notin Range(sites) \cup Range(pinned))

\* Between two drops the open cells are the ones that show no pinned link, and show
\* the free links in their order.
LEMMA SitesOrdered ==
  ASSUME DropInv
  PROVE  /\ Ordered(sites, Open(pinned), FreeLinks(pinned))
         /\ Open(pinned) \in SUBSET Nat /\ FreeLinks(pinned) \in SUBSET Place
         /\ FreeLinks(pinned) \cap PinnedSet = {}
         /\ \A k \in Cells : k \in Open(pinned) <=> sites[k] \notin PinnedSet
<1>1. pinned \in Seq(Nat) /\ sites = Grid(provided, pinned) BY DEF DropInv, Pins
<1>2. /\ Ordered(sites, Open(pinned), FreeLinks(pinned))
      /\ Open(pinned) \in SUBSET Nat /\ FreeLinks(pinned) \in SUBSET Place
  BY <1>1, GridOrdered
<1>3. ASSUME NEW k \in Cells PROVE k \in Open(pinned) <=> sites[k] \notin PinnedSet
  <2>1. CASE At(pinned, k) = Empty
    <3>1. k \in Open(pinned) BY <2>1 DEF Open
    <3>2. sites[k] \in PinnedSet => At(pinned, k) = sites[k] BY SitesCarry
    <3> QED BY <3>1, <3>2, <2>1 DEF PinnedSet
  <2>2. CASE At(pinned, k) # Empty
    <3>1. k \notin Open(pinned) BY <2>2 DEF Open
    <3>2. sites[k] = At(pinned, k) BY <1>1, <2>2, GridAt
    <3>3. k \in DOMAIN pinned /\ At(pinned, k) = pinned[k] BY <2>2 DEF At
    <3>4. sites[k] \in PinnedSet BY <2>2, <3>2, <3>3 DEF PinnedSet, Range
    <3> QED BY <3>1, <3>4
  <2> QED BY <2>1, <2>2
<1> QED BY <1>2, <1>3 DEF FreeLinks, PinnedSet

\* _insertDraggedSite keeps the order, the link that is dropped taken out of it.
LEMMA InsertedOrdered ==
  ASSUME DropInv, NEW c \in Cells, NEW d, NEW link, Fetched(d, link), NEW t,
         NEW q, Slid(q, sites, t, d, c)
  PROVE  Ordered(t, FreePlaces(t, c), FreeLinks(pinned) \ {link})
<1>1. PICK w : w = sites /\ DOMAIN w = 1..N BY SitesCarry DEF Cells
<1>2. /\ t \in Seq(Nat) /\ Len(t) \in {N, N + 1} /\ c \in DOMAIN t /\ t[c] = d
      /\ \A i \in DOMAIN t \ {c} : q[i] \in DOMAIN w /\ t[i] = w[q[i]]
      /\ \A i, j \in DOMAIN t \ {c} : i < j => q[i] < q[j]
      /\ \A i \in DOMAIN t \ {c} : q[i] # q[c]
      /\ IF d = Empty THEN q[c] = 0 ELSE q[c] \in DOMAIN w /\ w[q[c]] = d
      /\ \A k \in DOMAIN w : \E i \in DOMAIN t : q[i] = k
  BY <1>1 DEF Slid
<1>3. PICK U, F, G, V : /\ U = Open(pinned) /\ F = FreeLinks(pinned) /\ G = F \ {link}
                        /\ V = FreePlaces(t, c)
  OBVIOUS
<1>4. /\ Ordered(w, U, F) /\ U \in SUBSET Nat /\ F \in SUBSET Place /\ F \cap PinnedSet = {}
      /\ \A k \in DOMAIN w : k \in U <=> w[k] \notin PinnedSet
  BY <1>1, <1>3, SitesOrdered DEF Cells
<1>5. \A i \in V : i \in DOMAIN t \ {c} /\ t[i] \notin PinnedSet BY <1>3 DEF FreePlaces
<1>6. ASSUME NEW i \in V PROVE q[i] \in U /\ t[i] = w[q[i]] /\ (t[i] = Empty \/ t[i] \in G)
  <2>1. q[i] \in DOMAIN w /\ t[i] = w[q[i]] /\ q[i] \in U BY <1>2, <1>4, <1>5
  <2>2. t[i] = Empty \/ t[i] \in F BY <2>1, <1>4 DEF Ordered
  <2>3. t[i] # Empty => t[i] # link
    <3> SUFFICES ASSUME t[i] # Empty, t[i] = link PROVE FALSE OBVIOUS
    <3>1. w[q[i]] \in Range(sites) BY <2>1, <1>1 DEF Range
    <3>2. d = link /\ d # Empty BY <2>1, <3>1 DEF Fetched
    <3>3. q[c] \in DOMAIN w /\ w[q[c]] = w[q[i]] BY <2>1, <3>2, <1>2
    <3>4. q[c] \in U BY <2>1, <3>3, <1>4
    <3>5. q[c] = q[i]
      <4>1. PICK a \in U, b \in U : a = q[c] /\ b = q[i] BY <2>1, <3>4
      <4>2. w[a] = w[b] /\ w[a] # Empty BY <4>1, <2>1, <3>3
      <4> QED BY <4>1, <4>2, <1>4, OrderedOnce
    <3> QED BY <3>5, <1>2, <1>5
  <2> QED BY <2>1, <2>2, <2>3, <1>3
<1>7. ASSUME NEW k \in U, w[k] \in G PROVE \E i \in V : q[i] = k
  <2>1. k \in DOMAIN w BY <1>1, <1>3 DEF Open, Cells
  <2>2. PICK i \in DOMAIN t : q[i] = k BY <2>1, <1>2
  <2>3. i # c
    <3> SUFFICES ASSUME i = c PROVE FALSE OBVIOUS
    <3>1. d # Empty
      <4> SUFFICES ASSUME d = Empty PROVE FALSE OBVIOUS
      <4>1. q[c] = 0 BY <1>2
      <4> QED BY <4>1, <2>1, <2>2, <1>1
    <3>2. w[k] = d /\ d = link BY <3>1, <2>2, <1>2 DEF Fetched
    <3> QED BY <3>2, <1>3, <1>7
  <2>4. t[i] = w[k] /\ t[i] \in F BY <2>2, <2>3, <1>2, <1>3, <1>7
  <2>5. i \in V BY <2>3, <2>4, <1>3, <1>4 DEF FreePlaces
  <2> QED BY <2>2, <2>5
<1>8. \A i, j \in V : i < j => q[i] < q[j] BY <1>2, <1>5
<1>9. Follows(q, w, U, t, V, G) BY <1>6, <1>7, <1>8 DEF Follows
<1>10. G \in SUBSET F BY <1>3
<1>11. Ordered(t, V, G) BY <1>4, <1>9, <1>10, FollowsOrdered
<1> QED BY <1>3, <1>11

\* A pinned link in the arrangement came from its own cell.
LEMMA SlidHome ==
  ASSUME DropInv, NEW c \in Cells, NEW d, NEW t, NEW q, Slid(q, sites, t, d, c),
         NEW i \in DOMAIN t \ {c}, t[i] \in PinnedSet
  PROVE  Index(sites, t[i]) = q[i]
<1>1. Carries(sites, PinnedSet, Shown) BY SitesCarry
<1>2. q[i] \in DOMAIN sites /\ t[i] = sites[q[i]] BY DEF Slid
<1> QED BY <1>1, <1>2, IndexOfPin

\* An arrangement has all the cells.
LEMMA ArrangedCells ==
  ASSUME NEW s, NEW d, NEW c, Arranged(s, d, c)
  PROVE  /\ s \in Seq(Nat) /\ DOMAIN s = 1..Len(s)
         /\ Cells \subseteq DOMAIN s /\ DOMAIN s \subseteq Nat
<1>1. s \in Seq(Nat) /\ Len(s) \in {N, N + 1} BY DEF Arranged
<1>2. PICK m : m = Len(s) OBVIOUS
<1>3. 1..N \subseteq 1..m BY <1>1, <1>2, ConstantsAssumption
<1>4. DOMAIN s = 1..m BY <1>1, <1>2, LenProperties
<1> QED BY <1>1, <1>2, <1>3, <1>4 DEF Cells

\* The n pinned sites that are put back: where they are in s and where they belong.
\* Every other pinned site belongs to the range around the cell.
Waiting(pins, at, h, n, s, d, c) ==
  /\ n \in Nat
  /\ \A k \in 1..n : /\ at[k] \in DOMAIN s \ {c} /\ s[at[k]] = pins[k]
                     /\ pins[k] \in Shown /\ pins[k] # d
                     /\ h[k] = Index(sites, pins[k]) /\ h[k] \in Cells \ PinnedRange(c)
                     /\ at[k] - 1 <= h[k] /\ h[k] <= at[k] + 1
  /\ \A j, k \in 1..n : j < k => at[j] < at[k] /\ h[j] < h[k]
  /\ \A i \in DOMAIN s \ {c} : s[i] \in PinnedSet =>
       /\ i - 1 <= Index(sites, s[i]) /\ Index(sites, s[i]) <= i + 1
       /\ Index(sites, s[i]) \in PinnedRange(c) \/ \E k \in 1..n : at[k] = i

\* The sites that _repositionPinnedSites looks for are such sites.
LEMMA WaitingExists ==
  ASSUME DropInv, NEW c \in Cells, NEW d, NEW s, Arranged(s, d, c),
         NEW q, Slid(q, sites, s, d, c), NEW r, NEW pins, Repositioning(r, pins, s, d, c)
  PROVE  \E at, h : Waiting(pins, at, h, Len(pins), s, d, c)
<1> DEFINE keep == {i \in DOMAIN s : s[i] # d /\ IsPinned(s[i])
                                        /\ Index(sites, s[i]) \notin PinnedRange(c)}
<1>1. pins = Kept(s, keep) BY DEF Repositioning
<1>2. s \in Seq(Nat) /\ s[c] = d /\ Carries(s, PinnedSet, Shown) BY DEF Arranged
<1>3. PICK at : PlacesKept(at, s, keep)
  <2> HIDE DEF keep
  <2> QED BY <1>2, KeptHasPlaces
<1>4. PICK n \in Nat : n = Len(pins)
  <2>1. pins \in Seq(Nat)
    <3> HIDE DEF keep
    <3> QED BY <1>1, <1>2, KeptElements
  <2> QED BY <2>1, LenProperties
<1>5. DOMAIN s = 1..Len(s) BY <1>2, LenProperties
<1>6. /\ at \in [1..n -> keep \cap (1..Len(s))]
      /\ \A j, k \in 1..n : j < k => at[j] < at[k]
      /\ \A i \in keep \cap (1..Len(s)) : \E k \in 1..n : at[k] = i
      /\ \A k \in 1..n : pins[k] = s[at[k]]
  <2> HIDE DEF keep
  <2> QED BY <1>1, <1>3, <1>4 DEF PlacesKept
<1> DEFINE h == [k \in 1..n |-> Index(sites, pins[k])]
<1>7. \A k \in 1..n : h[k] = Index(sites, pins[k]) OBVIOUS
<1> HIDE DEF h
<1>8. ASSUME NEW i \in DOMAIN s \ {c}, s[i] \in PinnedSet
      PROVE  /\ Index(sites, s[i]) = q[i] /\ q[i] \in Cells
             /\ i - 1 <= q[i] /\ q[i] <= i + 1 /\ s[i] # d /\ s[i] \in Shown
  <2>1. Index(sites, s[i]) = q[i] BY <1>8, SlidHome
  <2>2. q[i] \in DOMAIN sites /\ i - 1 <= q[i] /\ q[i] <= i + 1 BY DEF Slid
  <2>3. c \in DOMAIN s BY DEF Slid
  <2>4. s[i] # d BY <2>3, <1>2, <1>8 DEF Carries
  <2>5. s[i] \in Shown BY <1>2, <1>8 DEF Carries
  <2> QED BY <2>1, <2>2, <2>4, <2>5, SitesCarry
<1>9. ASSUME NEW k \in 1..n
      PROVE  /\ at[k] \in DOMAIN s \ {c} /\ s[at[k]] = pins[k] /\ pins[k] \in PinnedSet
             /\ h[k] = q[at[k]] /\ h[k] \notin PinnedRange(c)
  <2>1. at[k] \in keep /\ pins[k] = s[at[k]] BY <1>6
  <2>2. /\ at[k] \in DOMAIN s /\ s[at[k]] # d /\ s[at[k]] \in PinnedSet
        /\ Index(sites, s[at[k]]) \notin PinnedRange(c)
    BY <2>1, PinnedIsPinned
  <2>3. at[k] # c BY <2>2, <1>2
  <2>4. Index(sites, s[at[k]]) = q[at[k]] BY <2>2, <2>3, <1>8
  <2> QED BY <2>1, <2>2, <2>3, <2>4, <1>7
<1>10. ASSUME NEW k \in 1..n
       PROVE  /\ at[k] \in DOMAIN s \ {c} /\ s[at[k]] = pins[k]
              /\ pins[k] \in Shown /\ pins[k] # d
              /\ h[k] = Index(sites, pins[k]) /\ h[k] \in Cells \ PinnedRange(c)
              /\ at[k] - 1 <= h[k] /\ h[k] <= at[k] + 1
  <2>1. PICK i : i = at[k] OBVIOUS
  <2>2. /\ i \in DOMAIN s \ {c} /\ s[i] = pins[k] /\ s[i] \in PinnedSet
        /\ h[k] = q[i] /\ h[k] \notin PinnedRange(c)
    BY <2>1, <1>9
  <2>3. /\ Index(sites, s[i]) = q[i] /\ q[i] \in Cells
        /\ i - 1 <= q[i] /\ q[i] <= i + 1 /\ s[i] # d /\ s[i] \in Shown
    BY <2>2, <1>8
  <2> QED BY <2>1, <2>2, <2>3
<1>11. ASSUME NEW j \in 1..n, NEW k \in 1..n, j < k PROVE at[j] < at[k] /\ h[j] < h[k]
  <2>1. at[j] < at[k] BY <1>6, <1>11
  <2>2. at[j] \in DOMAIN s \ {c} /\ at[k] \in DOMAIN s \ {c} /\ h[j] = q[at[j]] /\ h[k] = q[at[k]]
    BY <1>9
  <2>3. q[at[j]] < q[at[k]] BY <2>1, <2>2 DEF Slid
  <2> QED BY <2>1, <2>2, <2>3
<1>12. ASSUME NEW i \in DOMAIN s \ {c}, s[i] \in PinnedSet
       PROVE  /\ i - 1 <= Index(sites, s[i]) /\ Index(sites, s[i]) <= i + 1
              /\ Index(sites, s[i]) \in PinnedRange(c) \/ \E k \in 1..n : at[k] = i
  <2>1. /\ Index(sites, s[i]) = q[i] /\ i - 1 <= q[i] /\ q[i] <= i + 1 /\ s[i] # d
    BY <1>12, <1>8
  <2>2. ASSUME Index(sites, s[i]) \notin PinnedRange(c) PROVE \E k \in 1..n : at[k] = i
    <3>1. i \in keep \cap (1..Len(s)) BY <2>1, <2>2, <1>5, <1>12, PinnedIsPinned
    <3> QED BY <3>1, <1>6
  <2> QED BY <2>1, <2>2
<1> HIDE DEF keep
<1>13. Waiting(pins, at, h, n, s, d, c) BY <1>10, <1>11, <1>12 DEF Waiting
<1> QED BY <1>4, <1>13

\* Link l is at e, not behind a, and no place between there and h is without a
\* pinned link.
Reached(x, e, l, a, h, c) ==
  /\ e \in DOMAIN x /\ x[e] = l /\ e <= a
  /\ \A i \in FreePlaces(x, c) : ~(e < i /\ i < h) /\ ~(h < i /\ i < e)

\* After k of the pinned sites were put back the links that are not pinned are in
\* order; the next pinned site is where it was, or where one that took its place was.
Stage(x, k, pins, at, h, n, s, d, c, F) ==
  /\ Arranged(x, d, c) /\ DOMAIN x = DOMAIN s
  /\ Ordered(x, FreePlaces(x, c), F)
  /\ \A j \in 1..k : x[h[j]] = pins[j]
  /\ \A j \in 1..n : k + 1 < j => x[at[j]] = pins[j]
  /\ k < n => \E e : Reached(x, e, pins[k + 1], at[k + 1], h[k + 1], c)
  /\ \A i \in DOMAIN s \ {c} :
       s[i] \in PinnedSet /\ Index(sites, s[i]) \in PinnedRange(c) => x[i] = s[i]

\* At the start each of them is where it was put.
LEMMA StageStarts ==
  ASSUME NEW c, NEW d, NEW s, Arranged(s, d, c), NEW F, Ordered(s, FreePlaces(s, c), F),
         NEW pins, NEW at, NEW h, NEW n, Waiting(pins, at, h, n, s, d, c)
  PROVE  Stage(s, 0, pins, at, h, n, s, d, c, F)
<1>1. n \in Nat /\ \A j \in 1..n : s[at[j]] = pins[j] BY DEF Waiting
<1>2. ASSUME 0 < n PROVE \E e : Reached(s, e, pins[0 + 1], at[0 + 1], h[0 + 1], c)
  <2>1. 1 \in 1..n /\ 0 + 1 = 1 BY <1>1, <1>2
  <2>2. PICK a : a = at[1] OBVIOUS
  <2>3. PICK b : b = h[1] OBVIOUS
  <2>4. a \in DOMAIN s /\ s[a] = pins[1] /\ a - 1 <= b /\ b <= a + 1 /\ b \in Cells
    BY <2>1, <2>2, <2>3 DEF Waiting
  <2>5. DOMAIN s = 1..Len(s) /\ Len(s) \in Nat
    <3>1. s \in Seq(Nat) BY DEF Arranged
    <3> QED BY <3>1, LenProperties
  <2>6. a \in Nat /\ b \in Nat /\ \A i \in FreePlaces(s, c) : i \in Nat
    BY <2>4, <2>5, ConstantsAssumption DEF Cells, FreePlaces
  <2>7. \A i \in FreePlaces(s, c) : ~(a < i /\ i < b) /\ ~(b < i /\ i < a)
    BY <2>4, <2>6
  <2>8. Reached(s, a, pins[1], a, b, c) BY <2>4, <2>6, <2>7 DEF Reached
  <2> QED BY <2>1, <2>2, <2>3, <2>8
<1> QED BY <1>1, <1>2 DEF Stage

\* A pinned cell next to a cell of the range is in the range.
LEMMA RangeClosed ==
  ASSUME DropInv, NEW c \in Cells, NEW z \in Cells, NEW h \in Cells,
         sites[z] \in PinnedSet, sites[h] \in PinnedSet,
         z \in PinnedRange(c), h - 1 <= z, z <= h + 1
  PROVE  h \in PinnedRange(c)
<1>1. c \in Nat /\ z \in Nat /\ h \in Nat BY ConstantsAssumption DEF Cells
<1>2. At(pinned, h) = sites[h] /\ sites[h] # Empty BY SitesCarry DEF PinnedSet
<1>3. h \in DOMAIN pinned /\ pinned[h] # Empty BY <1>2 DEF At
<1>4. DOMAIN pinned = 1..Len(pinned)
  <2>1. pinned \in Seq(Nat) BY DEF DropInv, Pins
  <2> QED BY <2>1, LenProperties
<1>5. CASE IsPinned(sites[c])
  <2>1. \A j \in (z..c) \cup (c..z) : pinned[j] # Empty BY <1>5 DEF PinnedRange
  <2>2. \A j \in (h..c) \cup (c..h) : j = h \/ j \in (z..c) \cup (c..z) BY <1>1
  <2>3. \A j \in (h..c) \cup (c..h) : pinned[j] # Empty BY <2>1, <2>2, <1>3
  <2> QED BY <2>3, <1>3, <1>4, <1>5 DEF PinnedRange
<1>6. CASE ~IsPinned(sites[c])
  <2>1. z = c BY <1>6 DEF PinnedRange
  <2> QED BY <2>1, <1>6, PinnedIsPinned
<1> QED BY <1>5, <1>6

\* What the places hold after a swap.
LEMMA SwappedAt ==
  ASSUME NEW x \in Seq(Nat), NEW i \in DOMAIN x, NEW j \in DOMAIN x
  PROVE  /\ DOMAIN Swapped(x, i, j) = DOMAIN x
         /\ \A p \in DOMAIN x :
              Swapped(x, i, j)[p] = IF p = i THEN x[j] ELSE IF p = j THEN x[i] ELSE x[p]
<1>1. x = [p \in DOMAIN x |-> x[p]] OBVIOUS
<1>2. ASSUME NEW p \in DOMAIN x
      PROVE  Swapped(x, i, j)[p] = IF p = j THEN x[i] ELSE IF p = i THEN x[j] ELSE x[p]
  BY <1>1 DEF Swapped
<1>3. DOMAIN Swapped(x, i, j) = DOMAIN x BY <1>1 DEF Swapped
<1> QED BY <1>2, <1>3

\* A waiting site finds at its home a site that is not pinned, itself, or the one that
\* waits next.
LEMMA HomeOccupied ==
  ASSUME DropInv, NEW c \in Cells, NEW d, NEW s, Arranged(s, d, c), NEW F,
         NEW pins, NEW at, NEW h, NEW n, Waiting(pins, at, h, n, s, d, c),
         NEW k \in 1..n, NEW x, Stage(x, k - 1, pins, at, h, n, s, d, c, F),
         x[h[k]] \in PinnedSet, x[h[k]] # pins[k]
  PROVE  k < n /\ at[k + 1] = h[k]
<1>1. PICK b : b = h[k] OBVIOUS
<1>2. PICK v : v = x[b] OBVIOUS
<1>3. v \in PinnedSet /\ v # pins[k] /\ k \in Nat /\ n \in Nat BY <1>1, <1>2 DEF Waiting
<1>4. /\ b \in Cells /\ b \notin PinnedRange(c) /\ b = Index(sites, pins[k])
      /\ pins[k] \in Shown /\ at[k] - 1 <= b /\ b <= at[k] + 1 /\ at[k] \in DOMAIN s
  BY <1>1 DEF Waiting
<1>5. /\ s \in Seq(Nat) /\ s[c] = d /\ Carries(s, PinnedSet, Shown) /\ DOMAIN s = 1..Len(s)
  <2>1. s \in Seq(Nat) /\ s[c] = d /\ Carries(s, PinnedSet, Shown) BY DEF Arranged
  <2> QED BY <2>1, LenProperties
<1>6. /\ DOMAIN x = DOMAIN s /\ x[c] = d /\ Carries(x, PinnedSet, Shown) /\ b \in DOMAIN x
      /\ c \in DOMAIN x
  <2>1. DOMAIN x = DOMAIN s /\ Arranged(x, d, c) BY DEF Stage
  <2>2. x[c] = d /\ Carries(x, PinnedSet, Shown) BY <2>1 DEF Arranged
  <2>3. Cells \subseteq DOMAIN s BY ArrangedCells
  <2> QED BY <2>1, <2>2, <2>3, <1>4, <1>5
<1>7. b # c BY <1>4, CellInRange
<1>8. PICK i \in DOMAIN s : s[i] = v
  <2>1. v \in Shown BY <1>2, <1>3, <1>6 DEF Carries
  <2> QED BY <2>1, <1>5 DEF Carries
<1>9. i # c
  <2> SUFFICES ASSUME i = c PROVE FALSE OBVIOUS
  <2>1. x[b] = x[c] BY <1>2, <1>5, <1>6, <1>8
  <2> QED BY <2>1, <1>2, <1>3, <1>6, <1>7 DEF Carries
<1>10. i \in DOMAIN s \ {c} /\ s[i] \in PinnedSet BY <1>3, <1>8, <1>9
<1>11. /\ i - 1 <= Index(sites, v) /\ Index(sites, v) <= i + 1
       /\ Index(sites, v) \in PinnedRange(c) \/ \E j \in 1..n : at[j] = i
  BY <1>8, <1>10 DEF Waiting
<1>12. \A l \in Shown : Index(sites, l) \in Cells /\ sites[Index(sites, l)] = l
  <2>1. \A l \in Shown : l \in Range(sites) BY DEF Shown
  <2> QED BY <2>1, IndexFinds, SitesCarry
<1>13. CASE Index(sites, v) \in PinnedRange(c)
  <2>1. x[i] = v BY <1>8, <1>10, <1>13 DEF Stage
  <2>2. i = b BY <2>1, <1>2, <1>3, <1>6, <1>8 DEF Carries
  <2>3. PICK z : z = Index(sites, v) OBVIOUS
  <2>4. v \in Shown BY <1>2, <1>3, <1>6 DEF Carries
  <2>5. z \in Cells /\ sites[z] \in PinnedSet BY <2>3, <2>4, <1>3, <1>12
  <2>6. sites[b] = pins[k] /\ pins[k] \in PinnedSet BY <1>4, <1>12 DEF Shown
  <2>7. b - 1 <= z /\ z <= b + 1 BY <2>2, <2>3, <1>11
  <2>8. b \in PinnedRange(c) BY <2>3, <2>5, <2>6, <2>7, <1>4, <1>13, RangeClosed
  <2> QED BY <2>8, <1>4
<1>14. ASSUME NEW j \in 1..n, at[j] = i PROVE k < n /\ at[k + 1] = b
  <2>1. pins[j] = v /\ h[j] = Index(sites, v) /\ j \in Nat BY <1>8, <1>14 DEF Waiting
  <2>2. ~(j < k)
    <3> SUFFICES ASSUME j < k PROVE FALSE OBVIOUS
    <3>1. j \in 1..k - 1 BY <1>3
    <3>2. x[h[j]] = v BY <2>1, <3>1 DEF Stage
    <3>3. h[j] < b /\ h[j] \in Cells BY <1>1 DEF Waiting
    <3>4. h[j] \in DOMAIN x BY <3>3, <1>6, ArrangedCells
    <3>5. h[j] = b BY <3>2, <3>4, <1>2, <1>3, <1>6 DEF Carries
    <3>6. b \in Nat BY <1>4, ConstantsAssumption DEF Cells
    <3> QED BY <3>3, <3>5, <3>6
  <2>3. j # k BY <2>1, <1>3
  <2>4. k < j BY <2>1, <2>2, <2>3, <1>3
  <2>5. x[i] = v
    <3>1. (k - 1) + 1 < j BY <2>4, <1>3
    <3> QED BY <3>1, <2>1, <1>14 DEF Stage
  <2>6. i = b BY <2>5, <1>2, <1>3, <1>6, <1>8 DEF Carries
  <2>7. k < n /\ k + 1 \in 1..n BY <2>4, <1>3
  <2>8. ~(k + 1 < j)
    <3> SUFFICES ASSUME k + 1 < j PROVE FALSE OBVIOUS
    <3>1. at[k] < at[k + 1] /\ at[k + 1] < at[j] BY <2>7, <1>3 DEF Waiting
    <3>2. PICK a0 \in Nat : a0 = at[k] BY <1>4, <1>5
    <3>3. PICK a1 \in Nat : a1 = at[k + 1]
      <4>1. at[k + 1] \in DOMAIN s BY <2>7 DEF Waiting
      <4> QED BY <4>1, <1>5
    <3>4. b \in Nat BY <1>4, ConstantsAssumption DEF Cells
    <3> QED BY <3>1, <3>2, <3>3, <3>4, <2>6, <1>4, <1>14
  <2>9. j = k + 1 BY <2>4, <2>8, <1>3
  <2> QED BY <2>6, <2>7, <2>9, <1>14
<1> QED BY <1>1, <1>11, <1>13, <1>14

\* Order is a matter of what is shown at the places.
LEMMA OrderedSame ==
  ASSUME NEW U, NEW F, NEW g, NEW h, Ordered(g, U, F), \A i \in U : g[i] = h[i]
  PROVE  Ordered(h, U, F)
BY DEF Ordered

\* Swapping a pinned site with one no free place away, or with another pinned site,
\* keeps the order.
LEMMA SwappedOrdered ==
  ASSUME NEW x \in Seq(Nat), NEW c, NEW F \in SUBSET Place, Ordered(x, FreePlaces(x, c), F),
         NEW e \in DOMAIN x, NEW b \in DOMAIN x, e # c, b # c, x[e] \in PinnedSet,
         \A i \in FreePlaces(x, c) : ~(e < i /\ i < b) /\ ~(b < i /\ i < e),
         NEW y, DOMAIN y = DOMAIN x,
         \A p \in DOMAIN x : y[p] = IF p = e THEN x[b] ELSE IF p = b THEN x[e] ELSE x[p]
  PROVE  Ordered(y, FreePlaces(y, c), F)
<1> DEFINE U == FreePlaces(x, c)
           V == FreePlaces(y, c)
<1>1. U \in SUBSET Nat /\ e \in Nat /\ b \in Nat /\ DOMAIN x \subseteq Nat
  <2>1. DOMAIN x = 1..Len(x) BY LenProperties
  <2> QED BY <2>1 DEF FreePlaces
<1>2. CASE x[b] \in PinnedSet
  <2>1. \A p \in DOMAIN x : y[p] \in PinnedSet <=> x[p] \in PinnedSet BY <1>2
  <2>2. V = U BY <2>1 DEF FreePlaces
  <2>3. \A i \in U : x[i] = y[i] BY <1>2 DEF FreePlaces
  <2> QED BY <2>2, <2>3, OrderedSame
<1>3. CASE x[b] \notin PinnedSet
  <2> DEFINE q == [p \in DOMAIN x |-> IF p = e THEN b ELSE p]
  <2>1. b \in U /\ e \notin U /\ e # b BY <1>3 DEF FreePlaces
  <2>2. ASSUME NEW p \in V PROVE (p \in U \/ p = e) /\ p # b /\ p \in DOMAIN x
    BY <1>3 DEF FreePlaces
  <2>3. ASSUME NEW p \in U, p # b PROVE p \in V /\ p # e /\ p \in DOMAIN x
    BY <1>3, <2>1, <2>3 DEF FreePlaces
  <2>4. e \in V BY <1>3, <2>1 DEF FreePlaces
  <2>5. \A p \in DOMAIN x : (p = e => q[p] = b) /\ (p # e => q[p] = p) OBVIOUS
  <2>6. \A p \in U : p \in DOMAIN x BY DEF FreePlaces
  <2> HIDE DEF U, V, q
  <2>7. ASSUME NEW i \in V PROVE q[i] \in U /\ y[i] = x[q[i]] /\ (y[i] = Empty \/ y[i] \in F)
    <3>1. CASE i = e
      <4>1. q[i] = b /\ y[i] = x[b] BY <3>1, <2>5
      <4> QED BY <4>1, <2>1 DEF Ordered, U
    <3>2. CASE i # e
      <4>1. i \in U /\ q[i] = i /\ y[i] = x[i] BY <3>2, <2>2, <2>5
      <4> QED BY <4>1 DEF Ordered, U
    <3> QED BY <3>1, <3>2
  <2>8. ASSUME NEW i \in V, NEW j \in V, i < j PROVE q[i] < q[j]
    <3>1. i \in DOMAIN x /\ j \in DOMAIN x /\ i # b /\ j # b BY <2>2
    <3>2. i \in Nat /\ j \in Nat BY <3>1, <1>1
    <3>3. CASE i = e
      <4>1. j \in U /\ j # e BY <3>2, <3>3, <2>2, <2>8
      <4>2. ~(j < b) BY <4>1, <3>3, <2>8 DEF U
      <4> QED BY <4>1, <4>2, <3>1, <3>2, <3>3, <2>5, <1>1
    <3>4. CASE j = e
      <4>1. i \in U /\ i # e BY <3>2, <3>4, <2>2, <2>8
      <4>2. ~(b < i) BY <4>1, <3>4, <2>8 DEF U
      <4> QED BY <4>1, <4>2, <3>1, <3>2, <3>4, <2>5, <1>1
    <3>5. CASE i # e /\ j # e BY <3>1, <3>5, <2>5, <2>8
    <3> QED BY <3>3, <3>4, <3>5
  <2>9. ASSUME NEW k \in U PROVE \E i \in V : q[i] = k
    <3>1. CASE k = b
      <4>1. e \in DOMAIN x OBVIOUS
      <4> QED BY <4>1, <3>1, <2>4, <2>5
    <3>2. CASE k # b BY <3>2, <2>3, <2>5
    <3> QED BY <3>1, <3>2
  <2>10. Follows(q, x, U, y, V, F) BY <2>7, <2>8, <2>9 DEF Follows
  <2>11. Ordered(x, U, F) BY DEF U
  <2>12. Ordered(y, V, F) BY <1>1, <2>10, <2>11, FollowsOrdered
  <2> QED BY <2>12 DEF V
<1> QED BY <1>2, <1>3

\* Putting the next pinned site back.
LEMMA StageStep ==
  ASSUME DropInv, NEW c \in Cells, NEW d, NEW s, Arranged(s, d, c), NEW F \in SUBSET Place,
         NEW pins, NEW at, NEW h, NEW n, Waiting(pins, at, h, n, s, d, c),
         NEW k \in 1..n, NEW x, Stage(x, k - 1, pins, at, h, n, s, d, c, F),
         NEW y, y = Swapped(x, Index(x, pins[k]), Index(sites, pins[k])), Arranged(y, d, c)
  PROVE  Stage(y, k, pins, at, h, n, s, d, c, F)
<1>1. PICK b : b = h[k] OBVIOUS
<1>2. k \in Nat /\ n \in Nat BY DEF Waiting
<1>3. /\ b \in Cells /\ b \notin PinnedRange(c) /\ b = Index(sites, pins[k])
      /\ pins[k] \in Shown /\ pins[k] # d /\ at[k] - 1 <= b /\ b <= at[k] + 1
      /\ at[k] \in DOMAIN s
  BY <1>1 DEF Waiting
<1>4. s \in Seq(Nat) /\ DOMAIN s = 1..Len(s) /\ Cells \subseteq DOMAIN s /\ DOMAIN s \subseteq Nat
  BY ArrangedCells
<1>5. /\ DOMAIN x = DOMAIN s /\ x \in Seq(Nat) /\ x[c] = d /\ Carries(x, PinnedSet, Shown)
      /\ Ordered(x, FreePlaces(x, c), F)
  <2>1. DOMAIN x = DOMAIN s /\ Arranged(x, d, c) /\ Ordered(x, FreePlaces(x, c), F)
    BY DEF Stage
  <2> QED BY <2>1 DEF Arranged
<1>6. b # c /\ b \in DOMAIN x /\ c \in DOMAIN x BY <1>3, <1>4, <1>5, CellInRange
<1>7. PICK e : Reached(x, e, pins[k], at[k], b, c)
  <2>1. k - 1 < n /\ (k - 1) + 1 = k BY <1>2
  <2>2. \E e : Reached(x, e, pins[(k - 1) + 1], at[(k - 1) + 1], h[(k - 1) + 1], c)
    BY <2>1 DEF Stage
  <2> QED BY <2>1, <2>2, <1>1
<1>8. /\ e \in DOMAIN x /\ x[e] = pins[k] /\ e <= at[k]
      /\ \A i \in FreePlaces(x, c) : ~(e < i /\ i < b) /\ ~(b < i /\ i < e)
  BY <1>7 DEF Reached
<1>9. x[e] \in PinnedSet /\ e # c BY <1>3, <1>5, <1>8 DEF Shown
<1>10. Index(x, pins[k]) = e BY <1>5, <1>8, <1>9, IndexOfPin
<1>11. y = Swapped(x, e, b) BY <1>3, <1>10
<1>12. /\ DOMAIN y = DOMAIN x
       /\ \A p \in DOMAIN x : y[p] = IF p = e THEN x[b] ELSE IF p = b THEN x[e] ELSE x[p]
  BY <1>5, <1>6, <1>8, <1>11, SwappedAt
<1>13. Ordered(y, FreePlaces(y, c), F)
  BY <1>5, <1>6, <1>8, <1>9, <1>12, SwappedOrdered
<1>14. e \in Nat /\ b \in Nat /\ at[k] \in Nat BY <1>3, <1>4, <1>5, <1>6, <1>8
<1>15. \A j \in 1..n : j # k => pins[j] # pins[k] /\ h[j] # b
  <2> SUFFICES ASSUME NEW j \in 1..n, j # k PROVE pins[j] # pins[k] /\ h[j] # b OBVIOUS
  <2>1. h[j] = Index(sites, pins[j]) /\ h[j] \in Cells BY DEF Waiting
  <2>2. j < k \/ k < j BY <2>1, <1>2
  <2>3. h[j] < b \/ b < h[j] BY <2>2, <1>1 DEF Waiting
  <2>4. h[j] # b BY <2>1, <2>3, <1>14, ConstantsAssumption DEF Cells
  <2> QED BY <2>1, <2>4, <1>3
<1>16. ASSUME NEW j \in 1..k PROVE y[h[j]] = pins[j]
  <2>1. CASE j = k BY <2>1, <1>1, <1>6, <1>8, <1>12
  <2>2. CASE j # k
    <3>1. j \in 1..k - 1 /\ j \in 1..n BY <2>2, <1>2
    <3>2. x[h[j]] = pins[j] BY <3>1 DEF Stage
    <3>3. h[j] \in DOMAIN x
      <4>1. h[j] \in Cells BY <3>1 DEF Waiting
      <4> QED BY <4>1, <1>4, <1>5
    <3>4. h[j] # b /\ h[j] # e BY <2>2, <3>1, <3>2, <1>8, <1>15
    <3> QED BY <3>2, <3>3, <3>4, <1>12
  <2> QED BY <2>1, <2>2
<1>17. ASSUME NEW j \in 1..n, k < j PROVE x[at[j]] = pins[j] /\ at[j] \in DOMAIN x /\ at[j] # e
  <2>1. (k - 1) + 1 < j BY <1>2, <1>17
  <2>2. x[at[j]] = pins[j] BY <2>1 DEF Stage
  <2>3. at[j] \in DOMAIN x BY <1>5 DEF Waiting
  <2>4. pins[j] # pins[k] BY <1>2, <1>15, <1>17
  <2> QED BY <2>2, <2>3, <2>4, <1>8
<1>18. ASSUME NEW j \in 1..n, k + 1 < j PROVE y[at[j]] = pins[j]
  <2>1. k < j /\ k + 1 \in 1..n /\ k < k + 1 BY <1>2, <1>18
  <2>2. x[at[j]] = pins[j] /\ at[j] \in DOMAIN x /\ at[j] # e BY <2>1, <1>17
  <2>3. at[k] < at[k + 1] /\ at[k + 1] < at[j] /\ at[k + 1] \in DOMAIN s
    BY <2>1, <1>18 DEF Waiting
  <2>4. PICK a1, a2 \in Nat : a1 = at[k + 1] /\ a2 = at[j] BY <2>2, <2>3, <1>4, <1>5
  <2>5. at[j] # b BY <2>3, <2>4, <1>3, <1>14
  <2> QED BY <2>2, <2>5, <1>12
<1>19. ASSUME k < n PROVE \E f : Reached(y, f, pins[k + 1], at[k + 1], h[k + 1], c)
  <2>1. k + 1 \in 1..n /\ k < k + 1 BY <1>2, <1>19
  <2>2. x[at[k + 1]] = pins[k + 1] /\ at[k + 1] \in DOMAIN x /\ at[k + 1] # e BY <2>1, <1>17
  <2>3. PICK a : a = at[k + 1] OBVIOUS
  <2>4. PICK g : g = h[k + 1] OBVIOUS
  <2>5. /\ a - 1 <= g /\ g <= a + 1 /\ g \in Cells /\ at[k] < a /\ b < g
    BY <2>1, <2>3, <2>4, <1>1 DEF Waiting
  <2>6. a \in Nat /\ g \in Nat /\ \A i \in FreePlaces(y, c) : i \in Nat
    <3>1. a \in Nat /\ g \in Nat BY <2>2, <2>3, <2>5, <1>4, <1>5
    <3>2. \A i \in FreePlaces(y, c) : i \in DOMAIN x BY <1>12 DEF FreePlaces
    <3> QED BY <3>1, <3>2, <1>4, <1>5
  <2>7. CASE a = b
    <3>1. x[b] = pins[k + 1] /\ x[b] \in PinnedSet
      <4>1. pins[k + 1] \in Shown BY <2>1 DEF Waiting
      <4> QED BY <4>1, <2>2, <2>3, <2>7 DEF Shown
    <3>2. y[e] = pins[k + 1] /\ e <= a /\ e < b BY <3>1, <2>5, <2>6, <2>7, <1>8, <1>12, <1>14
    <3>3. ASSUME NEW i \in FreePlaces(y, c) PROVE ~(e < i /\ i < g) /\ ~(g < i /\ i < e)
      <4>1. i \in DOMAIN x /\ i # c /\ y[i] \notin PinnedSet /\ i \in Nat
        BY <2>6, <1>12 DEF FreePlaces
      <4>2. i # e /\ i # b
        <5>1. y[e] \in PinnedSet /\ y[b] \in PinnedSet
          BY <3>1, <3>2, <1>6, <1>8, <1>9, <1>12
        <5> QED BY <5>1, <4>1
      <4>3. i \in FreePlaces(x, c) BY <4>1, <4>2, <1>12 DEF FreePlaces
      <4>4. ~(e < i /\ i < b) BY <4>3, <1>8
      <4> QED BY <4>1, <4>2, <4>4, <3>2, <2>5, <2>6, <2>7, <1>14
    <3>4. Reached(y, e, pins[k + 1], a, g, c) BY <3>2, <3>3, <1>8, <1>12 DEF Reached
    <3> QED BY <3>4, <2>3, <2>4
  <2>8. CASE a # b
    <3>1. y[a] = pins[k + 1] /\ a \in DOMAIN y BY <2>2, <2>3, <2>8, <1>12
    <3>2. \A i \in FreePlaces(y, c) : ~(a < i /\ i < g) /\ ~(g < i /\ i < a) BY <2>5, <2>6
    <3>3. Reached(y, a, pins[k + 1], a, g, c) BY <3>1, <3>2, <2>6 DEF Reached
    <3> QED BY <3>3, <2>3, <2>4
  <2> QED BY <2>7, <2>8
<1>20. ASSUME NEW i \in DOMAIN s \ {c}, s[i] \in PinnedSet, Index(sites, s[i]) \in PinnedRange(c)
       PROVE  y[i] = s[i]
  <2>1. x[i] = s[i] BY <1>20 DEF Stage
  <2>2. i # e BY <2>1, <1>3, <1>8, <1>20
  <2>3. i # b
    <3> SUFFICES ASSUME i = b PROVE FALSE OBVIOUS
    <3>1. PICK z : z = Index(sites, s[i]) OBVIOUS
    <3>2. i - 1 <= z /\ z <= i + 1 BY <3>1, <1>20 DEF Waiting
    <3>3. s[i] \in Shown BY <1>20 DEF Arranged, Carries
    <3>4. s[i] \in Range(sites) /\ pins[k] \in Range(sites) /\ pins[k] \in PinnedSet
      BY <3>3, <1>3 DEF Shown
    <3>5. z \in Cells /\ sites[z] = s[i] /\ sites[b] = pins[k]
      BY <3>1, <3>4, <1>3, IndexFinds, SitesCarry
    <3>6. b \in PinnedRange(c) BY <3>1, <3>2, <3>4, <3>5, <1>3, <1>20, RangeClosed
    <3> QED BY <3>6, <1>3
  <2>4. i \in DOMAIN x BY <1>5
  <2> QED BY <2>1, <2>2, <2>3, <2>4, <1>12
<1>21. DOMAIN y = DOMAIN s BY <1>5, <1>12
<1> QED BY <1>13, <1>16, <1>18, <1>19, <1>20, <1>21 DEF Stage

\* _repositionPinnedSites keeps the order of the links that are not pinned; the
\* pinned ones are where the grid shows them, but for those around the cell.
LEMMA RepositionedOrdered ==
  ASSUME DropInv, NEW c \in Cells, NEW d, NEW s, Arranged(s, d, c),
         NEW q, Slid(q, sites, s, d, c),
         NEW F \in SUBSET Place, Ordered(s, FreePlaces(s, c), F),
         NEW t, t = Repositioned(s, d, c)
  PROVE  /\ Ordered(t, FreePlaces(t, c), F)
         /\ \A i \in DOMAIN t \ {c} : t[i] \in PinnedSet =>
              Index(sites, t[i]) = i \/ Index(sites, t[i]) \in PinnedRange(c)
<1>1. PICK r, pins : Repositioning(r, pins, s, d, c) BY RepositionedSteps
<1>2. PICK n : n = Len(pins) OBVIOUS
<1>3. PICK at, h : Waiting(pins, at, h, n, s, d, c) BY <1>1, <1>2, WaitingExists
<1>4. n \in Nat BY <1>3 DEF Waiting
<1>5. /\ r[0] = s /\ t = r[n] /\ \A k \in 0..n : Arranged(r[k], d, c)
      /\ \A k \in 1..n : r[k] = Swapped(r[k - 1], Index(r[k - 1], pins[k]), Index(sites, pins[k]))
  BY <1>1, <1>2 DEF Repositioning
<1> DEFINE G == {k \in 0..n : Stage(r[k], k, pins, at, h, n, s, d, c, F)}
<1>6. 0 \in G
  <2>1. Stage(s, 0, pins, at, h, n, s, d, c, F) BY <1>3, StageStarts
  <2> QED BY <2>1, <1>4, <1>5
<1>7. ASSUME NEW k \in 1..n, k - 1 \in G PROVE k \in G
  <2>1. PICK x, y : x = r[k - 1] /\ y = r[k] OBVIOUS
  <2>2. Stage(x, k - 1, pins, at, h, n, s, d, c, F) BY <2>1, <1>7
  <2>3. k \in 0..n /\ Arranged(y, d, c) BY <2>1, <1>4, <1>5
  <2>4. y = Swapped(x, Index(x, pins[k]), Index(sites, pins[k])) BY <2>1, <1>5
  <2>5. Stage(y, k, pins, at, h, n, s, d, c, F) BY <2>2, <2>3, <2>4, <1>3, StageStep
  <2> QED BY <2>1, <2>3, <2>5
<1>8. n \in G
  <2> HIDE DEF G
  <2>1. n \in 0..n BY <1>4
  <2> QED BY <1>4, <1>6, <1>7, <2>1, IntervalInduction
<1>9. Stage(t, n, pins, at, h, n, s, d, c, F) BY <1>5, <1>8
<1>10. /\ Arranged(t, d, c) /\ DOMAIN t = DOMAIN s /\ Ordered(t, FreePlaces(t, c), F)
       /\ \A j \in 1..n : t[h[j]] = pins[j]
  BY <1>9 DEF Stage
<1>11. ASSUME NEW i \in DOMAIN t \ {c}, t[i] \in PinnedSet, Index(sites, t[i]) \notin PinnedRange(c)
       PROVE  Index(sites, t[i]) = i
  <2>1. /\ t[c] = d /\ Carries(t, PinnedSet, Shown) /\ s[c] = d /\ Carries(s, PinnedSet, Shown)
        /\ c \in DOMAIN t
    BY <1>10 DEF Arranged, Slid
  <2>2. PICK a \in DOMAIN s : s[a] = t[i]
    <3>1. t[i] \in Shown BY <2>1, <1>11 DEF Carries
    <3> QED BY <3>1, <2>1 DEF Carries
  <2>3. a # c
    <3> SUFFICES ASSUME a = c PROVE FALSE OBVIOUS
    <3>1. t[i] = t[c] BY <2>1, <2>2
    <3> QED BY <3>1, <2>1, <1>11 DEF Carries
  <2>4. PICK j \in 1..n : at[j] = a BY <2>2, <2>3, <1>3, <1>11 DEF Waiting
  <2>5. pins[j] = t[i] /\ h[j] = Index(sites, t[i]) /\ h[j] \in Cells
    BY <2>2, <2>4, <1>3 DEF Waiting
  <2>6. h[j] \in DOMAIN t BY <2>5, <1>10, ArrangedCells
  <2>7. t[h[j]] = t[i] BY <2>5, <1>10
  <2>8. h[j] = i BY <2>1, <2>6, <2>7, <1>11 DEF Carries
  <2> QED BY <2>5, <2>8
<1> QED BY <1>10, <1>11

\* Places that only others follow can be left out.
LEMMA RestrictedOrdered ==
  ASSUME NEW U \in SUBSET Nat, NEW F \in SUBSET Place, NEW g, Ordered(g, U, F),
         NEW V \in SUBSET U, \A k \in U \ V : \A i \in V : i < k
  PROVE  Ordered(g, V, F)
<1> DEFINE q == [i \in U |-> i]
<1>1. \A i \in U : q[i] = i OBVIOUS
<1> HIDE DEF q
<1>2. Follows(q, g, U, g, V, F) BY <1>1 DEF Follows, Ordered
<1>3. F \in SUBSET F OBVIOUS
<1> QED BY <1>2, <1>3, FollowsOrdered

\* _repositionOverflowedPinnedSite keeps the order: of the sites that are not pinned
\* it takes out the last one.
LEMMA OverflowOrdered ==
  ASSUME DropInv, NEW c \in Cells, NEW d, NEW s, Arranged(s, d, c),
         NEW F \in SUBSET Place, Ordered(s, FreePlaces(s, c), F),
         NEW u, u = OverflowRepositioned(s, c)
  PROVE  /\ Ordered(u, FreePlaces(u, c), F)
         /\ IsPinned(sites[c]) => \A i \in Cells \ {c}, j \in DOMAIN u :
              u[i] \notin PinnedSet /\ u[j] \in PinnedSet => j \in Cells
<1> DEFINE low == {i \in Cells \ {c} : ~IsPinned(s[i])}
           x == Max(low)
           next(i) == IF i + 1 = c THEN i + 2 ELSE i + 1
           q == [i \in 1..N |-> IF i < x \/ i = c THEN i ELSE next(i)]
           t == [i \in Cells |-> IF i < x \/ i = c THEN s[i] ELSE s[next(i)]]
           Over == IsPinned(sites[c]) /\ Len(s) > N /\ IsPinned(s[Len(s)]) /\ low # {}
<1>1. OverflowRepositioned(s, c) = IF Over THEN t ELSE s BY DEF OverflowRepositioned
<1>2. s \in Seq(Nat) /\ Len(s) \in {N, N + 1} BY DEF Arranged
<1>3. N \in Nat /\ c \in 1..N /\ DOMAIN s = 1..Len(s)
  BY <1>2, LenProperties, ConstantsAssumption DEF Cells
<1>4. CASE ~Over
  <2>1. u = s BY <1>1, <1>4
  <2>2. ASSUME IsPinned(sites[c]), NEW i \in Cells \ {c}, NEW j \in DOMAIN u,
               u[i] \notin PinnedSet, u[j] \in PinnedSet
        PROVE  j \in Cells
    <3>1. i \in low BY <2>1, <2>2, PinnedIsPinned
    <3>2. ~(Len(s) > N /\ IsPinned(s[Len(s)]))
      <4>1. low # {} BY <3>1
      <4> QED BY <4>1, <2>2, <1>4
    <3>3. PICK m : m = Len(s) OBVIOUS
    <3>4. m \in {N, N + 1} /\ j \in 1..m BY <2>1, <3>3, <1>2, <1>3
    <3>5. j # N + 1
      <4> SUFFICES ASSUME j = N + 1 PROVE FALSE OBVIOUS
      <4>1. m = N + 1 /\ m > N BY <3>4, <1>3
      <4>2. IsPinned(s[m]) BY <4>1, <2>1, <2>2, PinnedIsPinned
      <4> QED BY <4>1, <4>2, <3>2, <3>3
    <3> QED BY <3>4, <3>5, <1>3 DEF Cells
  <2> QED BY <2>1, <2>2
<1>5. CASE Over
  <2>1. u = t BY <1>1, <1>5
  <2>2. Len(s) = N + 1 /\ DOMAIN s = 1..N + 1 /\ low # {} /\ s[N + 1] \in PinnedSet
    <3>1. PICK m : m = Len(s) OBVIOUS
    <3>2. m \in {N, N + 1} /\ m > N BY <3>1, <1>2, <1>5
    <3>3. m = N + 1 BY <3>2, <1>3
    <3>4. IsPinned(s[m]) BY <3>1, <1>5
    <3> QED BY <3>1, <3>3, <3>4, <1>3, <1>5, PinnedIsPinned
  <2>3. x \in low /\ \A k \in low : k <= x
    <3>1. low \in SUBSET Nat /\ \A k \in low : k <= N BY <1>3 DEF Cells
    <3> HIDE DEF low
    <3> QED BY <3>1, <2>2, <1>3, MaxOfSet
  <2>4. /\ x \in 1..N /\ x # c /\ s[x] \notin PinnedSet
        /\ \A k \in 1..N : k # c /\ s[k] \notin PinnedSet => k <= x
    <3>1. \A k \in 1..N : k # c /\ s[k] \notin PinnedSet => k \in low
      BY PinnedIsPinned DEF Cells
    <3>2. \A k \in low : k \in 1..N /\ k # c /\ s[k] \notin PinnedSet
      BY PinnedIsPinned DEF Cells
    <3> HIDE DEF low, x
    <3> QED BY <3>1, <3>2, <2>3
  <2> HIDE DEF x, low
  <2>5. PICK y : y = x OBVIOUS
  <2>6. /\ y \in 1..N /\ y # c
        /\ \A k \in 1..N : k # c /\ s[k] \notin PinnedSet => k <= y
    BY <2>4, <2>5
  <2>7. ASSUME NEW i \in 1..N
        PROVE  q[i] = IF i < y \/ i = c THEN i ELSE IF i + 1 = c THEN i + 2 ELSE i + 1
    BY <2>5
  <2>8. ASSUME NEW i \in 1..N PROVE u[i] = s[q[i]]
    BY <2>1 DEF Cells
  <2>9. DOMAIN u = 1..N BY <2>1 DEF Cells
  <2> HIDE DEF q, t, Over
  <2>10. PICK U, V : U = FreePlaces(s, c) /\ V = FreePlaces(u, c) OBVIOUS
  <2>11. \A k \in U : k \in 1..N /\ k # c /\ s[k] \notin PinnedSet
    <3>1. \A k \in U : k \in 1..N + 1 /\ k # c /\ s[k] \notin PinnedSet
      BY <2>2, <2>10 DEF FreePlaces
    <3>2. \A k \in U : k # N + 1 BY <3>1, <2>2
    <3> QED BY <3>1, <3>2, <1>3
  <2>12. \A i \in V : i \in 1..N /\ i # c /\ s[q[i]] \notin PinnedSet
    BY <2>8, <2>9, <2>10 DEF FreePlaces
  <2>13. ASSUME NEW i \in V
         PROVE  q[i] \in U /\ u[i] = s[q[i]] /\ (u[i] = Empty \/ u[i] \in F) /\ q[i] # y
    <3>1. i \in 1..N /\ i # c /\ s[q[i]] \notin PinnedSet /\ u[i] = s[q[i]] BY <2>8, <2>12
    <3>2. q[i] = IF i < y THEN i ELSE IF i + 1 = c THEN i + 2 ELSE i + 1 BY <2>7, <3>1
    <3>3. q[i] \in 1..N + 1 /\ q[i] # c /\ q[i] # y BY <3>1, <3>2, <2>6, <1>3
    <3>4. q[i] \in U BY <3>1, <3>3, <2>2, <2>10 DEF FreePlaces
    <3> QED BY <3>1, <3>3, <3>4, <2>10 DEF Ordered
  <2>14. ASSUME NEW i \in V, NEW j \in V, i < j PROVE q[i] < q[j]
    <3>1. i \in 1..N /\ i # c /\ j \in 1..N /\ j # c BY <2>12
    <3>2. q[i] = IF i < y THEN i ELSE IF i + 1 = c THEN i + 2 ELSE i + 1 BY <2>7, <3>1
    <3>3. q[j] = IF j < y THEN j ELSE IF j + 1 = c THEN j + 2 ELSE j + 1 BY <2>7, <3>1
    <3> QED BY <3>1, <3>2, <3>3, <2>6, <2>14, <1>3
  <2>15. ASSUME NEW k \in U, k # y PROVE \E i \in V : q[i] = k
    <3>1. k \in 1..N /\ k # c /\ s[k] \notin PinnedSet /\ k < y
      <4>1. k \in 1..N /\ k # c /\ s[k] \notin PinnedSet BY <2>11
      <4>2. k <= y BY <4>1, <2>6
      <4> QED BY <4>1, <4>2, <2>6, <2>15, <1>3
    <3>2. q[k] = k /\ u[k] = s[k] BY <3>1, <2>7, <2>8
    <3>3. k \in V BY <3>1, <3>2, <2>9, <2>10 DEF FreePlaces
    <3> QED BY <3>2, <3>3
  <2>16. ASSUME NEW i \in V PROVE q[i] < y
    <3>1. q[i] \in U /\ q[i] # y BY <2>13
    <3>2. q[i] \in 1..N /\ q[i] <= y BY <3>1, <2>6, <2>11
    <3> QED BY <3>1, <3>2, <2>6
  <2>17. Follows(q, s, U, u, V, F) BY <2>13, <2>14, <2>15, <2>16 DEF Follows
  <2>18. U \in SUBSET Nat /\ Ordered(s, U, F) /\ F \in SUBSET F BY <2>10, <2>11
  <2>19. Ordered(u, V, F) BY <2>17, <2>18, FollowsOrdered
  <2>20. \A j \in DOMAIN u : j \in Cells BY <2>9 DEF Cells
  <2> QED BY <2>10, <2>19, <2>20
<1> QED BY <1>4, <1>5

-----------------------------------------------------------------------------
\* What the drop pins, and the grid after it.

\* The drop pins p when t is shown: what is pinned in the grid is where t has it, but
\* for the cell, and the links that are left are the free ones without the dropped one,
\* which is now pinned unless the drop changed nothing.
PinnedAsShown(p, t, c, d, link) ==
  /\ \A j \in Cells \ {c} : At(p, j) = IF t[j] \in PinnedSet THEN t[j] ELSE Empty
  /\ (\E i \in Cells \ {c} : t[i] \notin PinnedSet) =>
       \/ At(p, c) = link /\ \A l \in Links : l \in Range(p) <=> l = link \/ l \in Range(pinned)
       \/ p = pinned /\ d = sites[c] /\ d = link

\* The pinned sites of an arrangement do not hold the link, but for the cell.
LEMMA NotElsewhere ==
  ASSUME DropInv, NEW c, NEW d, NEW link, Fetched(d, link), NEW t, Arranged(t, d, c),
         c \in DOMAIN t, NEW j \in DOMAIN t \ {c}, t[j] \in PinnedSet
  PROVE  t[j] # link
<1> SUFFICES ASSUME t[j] = link PROVE FALSE OBVIOUS
<1>1. t[c] = d /\ Carries(t, PinnedSet, Shown) BY DEF Arranged
<1>2. link \in Range(pinned) BY DEF PinnedSet
<1>3. t[c] = t[j] BY <1>1, <1>2 DEF Fetched
<1> QED BY <1>1, <1>3 DEF Carries

\* Where no site is pinned at the cell the pinned list stays, with the link at the cell.
LEMMA DroppedOnFree ==
  ASSUME DropInv, NEW c \in Cells, NEW d, NEW link \in Nat, link # Empty, Fetched(d, link),
         ~IsPinned(sites[c]), NEW t, Arranged(t, d, c),
         \A i \in DOMAIN t \ {c} : t[i] \in PinnedSet =>
           Index(sites, t[i]) = i \/ Index(sites, t[i]) \in PinnedRange(c),
         NEW p, p = IF d = sites[c] /\ d # Empty THEN pinned ELSE PinnedAt(pinned, link, c)
  PROVE  PinnedAsShown(p, t, c, d, link)
<1>1. c \in Place /\ pinned \in Seq(Nat) BY ConstantsAssumption DEF Cells, Place, DropInv, Pins
<1>2. t[c] = d /\ Carries(t, PinnedSet, Shown) BY DEF Arranged
<1>3. Cells \subseteq DOMAIN t BY ArrangedCells
<1>4. \A l \in Shown : Index(sites, l) \in Cells /\ sites[Index(sites, l)] = l
  <2>1. \A l \in Shown : l \in Range(sites) BY DEF Shown
  <2> QED BY <2>1, IndexFinds, SitesCarry
<1>5. ASSUME NEW i \in DOMAIN t \ {c}, t[i] \in PinnedSet
      PROVE  Index(sites, t[i]) = i /\ i \in Cells /\ sites[i] = t[i]
  <2>1. t[i] \in Shown BY <1>2, <1>5 DEF Carries
  <2>2. sites[Index(sites, t[i])] \in PinnedSet /\ Index(sites, t[i]) \in Cells
    BY <2>1, <1>4, <1>5
  <2>3. Index(sites, t[i]) # c BY <2>2, PinnedIsPinned
  <2>4. PinnedRange(c) = {c} BY DEF PinnedRange
  <2>5. Index(sites, t[i]) = i BY <2>3, <2>4, <1>5
  <2> QED BY <2>1, <2>2, <2>5, <1>4
<1>6. ASSUME NEW j \in Cells \ {c}, t[j] \in PinnedSet PROVE At(pinned, j) = t[j]
  <2>1. sites[j] = t[j] BY <1>3, <1>5, <1>6
  <2> QED BY <2>1, <1>6, SitesCarry
<1>7. ASSUME NEW j \in Cells \ {c}, t[j] \notin PinnedSet, At(pinned, j) # Empty
      PROVE  At(pinned, j) = link /\ d # sites[c]
  <2>1. /\ At(pinned, j) \in Shown /\ sites[j] = At(pinned, j) /\ sites[j] \in PinnedSet
    BY <1>7, PinnedShown
  <2>2. PICK i \in DOMAIN t : t[i] = sites[j] BY <2>1, <1>2 DEF Carries
  <2>3. i = c
    <3> SUFFICES ASSUME i # c PROVE FALSE OBVIOUS
    <3>1. sites[i] = sites[j] /\ i \in Cells BY <2>1, <2>2, <1>5
    <3>2. Carries(sites, PinnedSet, Shown) /\ DOMAIN sites = Cells BY SitesCarry
    <3>3. i = j BY <3>1, <3>2, <2>1 DEF Carries
    <3> QED BY <3>3, <2>1, <2>2, <1>7
  <2>4. d = sites[j] BY <2>2, <2>3, <1>2
  <2>5. d # Empty BY <2>1, <2>4 DEF PinnedSet
  <2>6. sites[c] \notin PinnedSet BY PinnedIsPinned
  <2> QED BY <2>1, <2>4, <2>5, <2>6 DEF Fetched
<1>8. CASE d = sites[c] /\ d # Empty
  <2>1. p = pinned BY <1>8
  <2>2. d = link BY <1>8 DEF Fetched
  <2>3. \A j \in Cells \ {c} : At(p, j) = IF t[j] \in PinnedSet THEN t[j] ELSE Empty
    BY <2>1, <1>6, <1>7, <1>8
  <2> QED BY <2>1, <2>2, <2>3, <1>8 DEF PinnedAsShown
<1>9. CASE ~(d = sites[c] /\ d # Empty)
  <2>1. p = PinnedAt(pinned, link, c) BY <1>9
  <2>2. Pinning(pinned, link, c, p) BY <2>1, <1>1, PinnedAtAt
  <2>3. /\ p \in Seq(Nat)
        /\ \A m \in Place : At(p, m) = IF m = c THEN link
                                       ELSE IF At(pinned, m) = link THEN Empty ELSE At(pinned, m)
    BY <2>2 DEF Pinning
  <2>4. ASSUME NEW j \in Cells \ {c} PROVE At(p, j) = IF t[j] \in PinnedSet THEN t[j] ELSE Empty
    <3>1. j \in Place BY ConstantsAssumption DEF Cells, Place
    <3>2. At(p, j) = IF At(pinned, j) = link THEN Empty ELSE At(pinned, j) BY <2>3, <3>1
    <3>3. CASE t[j] \in PinnedSet
      <4>1. At(pinned, j) = t[j] BY <3>3, <1>6
      <4>2. t[j] # link BY <3>3, <1>3, NotElsewhere
      <4> QED BY <3>2, <3>3, <4>1, <4>2
    <3>4. CASE t[j] \notin PinnedSet BY <3>2, <3>4, <1>7
    <3> QED BY <3>3, <3>4
  <2>5. At(pinned, c) = Empty
    <3> SUFFICES ASSUME At(pinned, c) # Empty PROVE FALSE OBVIOUS
    <3>1. sites[c] \in PinnedSet BY PinnedShown
    <3> QED BY <3>1, PinnedIsPinned
  <2>6. ASSUME NEW l \in Links PROVE l \in Range(p) <=> l = link \/ l \in Range(pinned)
    <3>1. l # Empty BY ConstantsAssumption DEF Links, Empty
    <3>2. l \in Range(p) <=> \E m \in Place : At(p, m) = l BY <2>3, <3>1, PinnedSomewhere
    <3>3. l \in Range(pinned) <=> \E m \in Place : At(pinned, m) = l
      BY <1>1, <3>1, PinnedSomewhere
    <3>4. At(p, c) = link BY <2>3, <1>1
    <3>5. \A m \in Place : At(p, m) = l => l = link \/ At(pinned, m) = l BY <2>3, <3>1
    <3>6. \A m \in Place : At(pinned, m) = l /\ l # link => At(p, m) = l BY <2>3, <2>5, <3>1
    <3> QED BY <3>2, <3>3, <3>4, <3>5, <3>6, <1>1
  <2>7. At(p, c) = link BY <2>3, <1>1
  <2> QED BY <2>4, <2>6, <2>7 DEF PinnedAsShown
<1> QED BY <1>8, <1>9

\* Where a site is pinned at the cell all pinned sites are pinned where they are shown,
\* and the link at the cell.
LEMMA DroppedOnPinned ==
  ASSUME DropInv, NEW c \in Cells, NEW d, NEW link \in Nat, link # Empty, Fetched(d, link),
         IsPinned(sites[c]), NEW t, Arranged(t, d, c),
         \A i \in Cells \ {c}, j \in DOMAIN t :
           t[i] \notin PinnedSet /\ t[j] \in PinnedSet => j \in Cells,
         NEW r \in Pins, Repinning(r, t),
         NEW p, p = IF d = sites[c] /\ d # Empty THEN r ELSE PinnedAt(r, link, c)
  PROVE  PinnedAsShown(p, t, c, d, link)
<1>1. c \in Place /\ pinned \in Seq(Nat) /\ r \in Seq(Nat)
  BY ConstantsAssumption DEF Cells, Place, DropInv, Pins
<1>2. t[c] = d /\ Carries(t, PinnedSet, Shown) BY DEF Arranged
<1>3. Cells \subseteq DOMAIN t /\ DOMAIN t \subseteq Place
  <2>1. t \in Seq(Nat) /\ DOMAIN t = 1..Len(t) /\ Cells \subseteq DOMAIN t BY ArrangedCells
  <2> QED BY <2>1 DEF Place
<1>4. \A m \in Place : At(r, m) = IF m \in DOMAIN t /\ t[m] \in PinnedSet THEN t[m]
                                  ELSE IF At(pinned, m) \in Shown THEN Empty ELSE At(pinned, m)
  BY DEF Repinning
<1>5. ASSUME NEW j \in Cells PROVE At(r, j) = IF t[j] \in PinnedSet THEN t[j] ELSE Empty
  <2>1. j \in Place /\ j \in DOMAIN t BY <1>3
  <2>2. At(pinned, j) # Empty => At(pinned, j) \in Shown BY PinnedShown
  <2> QED BY <2>1, <2>2, <1>4
<1>6. /\ At(p, c) = link /\ p \in Seq(Nat)
      /\ \A m \in Place : m # c => At(p, m) = IF At(r, m) = link THEN Empty ELSE At(r, m)
  <2>1. CASE d = sites[c] /\ d # Empty
    <3>1. p = r /\ d = link BY <2>1 DEF Fetched
    <3>2. d \in PinnedSet BY <2>1, PinnedIsPinned
    <3>3. At(r, c) = link BY <3>1, <3>2, <1>2, <1>5
    <3>4. ASSUME NEW m \in Place, m # c PROVE At(r, m) # link
      <4>1. NotTwice(r) BY DEF Pins
      <4> QED BY <4>1, <3>3, <3>4, <1>1 DEF NotTwice
    <3> QED BY <3>1, <3>3, <3>4, <1>1
  <2>2. CASE ~(d = sites[c] /\ d # Empty)
    <3>1. p = PinnedAt(r, link, c) BY <2>2
    <3>2. Pinning(r, link, c, p) BY <3>1, <1>1, PinnedAtAt
    <3> QED BY <3>2, <1>1 DEF Pinning
  <2> QED BY <2>1, <2>2
<1>7. ASSUME NEW j \in Cells \ {c} PROVE At(p, j) = IF t[j] \in PinnedSet THEN t[j] ELSE Empty
  <2>1. j \in Place /\ j \in DOMAIN t BY <1>3
  <2>2. At(p, j) = IF At(r, j) = link THEN Empty ELSE At(r, j) BY <1>6, <2>1
  <2>3. At(r, j) = IF t[j] \in PinnedSet THEN t[j] ELSE Empty BY <1>5
  <2>4. t[j] \in PinnedSet => t[j] # link BY <2>1, <1>3, NotElsewhere
  <2> QED BY <2>2, <2>3, <2>4
<1>8. ASSUME NEW i \in Cells \ {c}, t[i] \notin PinnedSet, NEW l \in Links
      PROVE  l \in Range(p) <=> l = link \/ l \in Range(pinned)
  <2>1. l # Empty BY ConstantsAssumption DEF Links, Empty
  <2>2. l \in Range(p) <=> \E m \in Place : At(p, m) = l BY <1>6, <2>1, PinnedSomewhere
  <2>3. l \in Range(pinned) <=> \E m \in Place : At(pinned, m) = l
    BY <1>1, <2>1, PinnedSomewhere
  <2>4. ASSUME NEW m \in Place, At(p, m) = l PROVE l = link \/ l \in Range(pinned)
    <3>1. CASE m = c BY <3>1, <2>4, <1>6
    <3>2. CASE m # c
      <4>1. At(r, m) = l BY <3>2, <2>1, <2>4, <1>6
      <4>2. l \in PinnedSet \/ At(pinned, m) = l BY <4>1, <2>1, <1>4
      <4> QED BY <4>2, <2>3 DEF PinnedSet
    <3> QED BY <3>1, <3>2
  <2>5. ASSUME l \in Range(pinned), l # link PROVE \E m \in Place : At(p, m) = l
    <3>1. PICK m \in Place : At(r, m) = l /\ m # c
      <4>1. CASE l \in Shown
        <5>1. PICK m \in DOMAIN t : t[m] = l BY <4>1, <1>2 DEF Carries
        <5>2. m # c BY <5>1, <2>1, <2>5, <1>2 DEF Fetched
        <5>3. m \in Place /\ t[m] \in PinnedSet BY <5>1, <4>1, <1>3 DEF Shown
        <5> QED BY <5>1, <5>2, <5>3, <1>4
      <4>2. CASE l \notin Shown
        <5>1. PICK m \in Place : At(pinned, m) = l BY <2>3, <2>5
        <5>2. m \notin Cells BY <5>1, <4>2, <2>1, PinnedShown
        <5>3. ~(m \in DOMAIN t /\ t[m] \in PinnedSet) BY <5>2, <1>8
        <5>4. At(r, m) = l BY <5>1, <5>3, <4>2, <1>4
        <5> QED BY <5>2, <5>4
      <4> QED BY <4>1, <4>2
    <3> QED BY <3>1, <2>5, <1>6
  <2> QED BY <2>2, <2>4, <2>5, <1>1, <1>6
<1> QED BY <1>6, <1>7, <1>8 DEF PinnedAsShown

\* The grid for the new pinned list shows the free links without the dropped one in
\* their order where nothing is pinned, but for the cell.
LEMMA GridAfter ==
  ASSUME DropInv, NEW c \in Cells, NEW d, NEW link, link # Empty, NEW t,
         NEW p \in Pins, PinnedAsShown(p, t, c, d, link),
         NEW V, V = {i \in Cells \ {c} : t[i] \notin PinnedSet}, V # {}
  PROVE  Ordered(Grid(provided, p), V, FreeLinks(pinned) \ {link})
<1>1. p \in Seq(Nat) BY DEF Pins
<1>2. \A j \in Cells \ {c} : At(p, j) = IF t[j] \in PinnedSet THEN t[j] ELSE Empty
  BY DEF PinnedAsShown
<1>3. \A j \in Cells \ {c} : At(p, j) = Empty <=> t[j] \notin PinnedSet
  BY <1>2 DEF PinnedSet
<1>4. \/ At(p, c) = link /\ \A l \in Links : l \in Range(p) <=> l = link \/ l \in Range(pinned)
      \/ p = pinned /\ d = sites[c] /\ d = link
  BY DEF PinnedAsShown
<1>5. CASE At(p, c) = link /\ \A l \in Links : l \in Range(p) <=> l = link \/ l \in Range(pinned)
  <2>1. Open(p) = V BY <1>3, <1>5 DEF Open
  <2>2. FreeLinks(p) = FreeLinks(pinned) \ {link} BY <1>5 DEF FreeLinks
  <2>3. Ordered(Grid(provided, p), Open(p), FreeLinks(p)) BY <1>1, GridOrdered
  <2> QED BY <2>1, <2>2, <2>3
<1>6. CASE p = pinned /\ sites[c] = link
  <2>1. PICK g : g = sites /\ g = Grid(provided, p) BY <1>6 DEF DropInv
  <2>2. PICK U, F, G : U = Open(pinned) /\ F = FreeLinks(pinned) /\ G = F \ {link} OBVIOUS
  <2>3. /\ Ordered(g, U, F) /\ U \in SUBSET Nat /\ F \in SUBSET Place /\ F \cap PinnedSet = {}
        /\ \A k \in Cells : k \in U <=> g[k] \notin PinnedSet
    BY <2>1, <2>2, SitesOrdered
  <2>4. V = U \ {c} BY <1>3, <1>6, <2>2 DEF Open
  <2> DEFINE q == [i \in U |-> i]
  <2>5. \A i \in U : q[i] = i OBVIOUS
  <2> HIDE DEF q
  <2>6. ASSUME NEW i \in V PROVE q[i] \in U /\ g[i] = g[q[i]] /\ (g[i] = Empty \/ g[i] \in G)
    <3>1. i \in U /\ q[i] = i /\ i # c BY <2>4, <2>5
    <3>2. g[i] = Empty \/ g[i] \in F BY <3>1, <2>3 DEF Ordered
    <3>3. g[i] # Empty => g[i] # link
      <4> SUFFICES ASSUME g[i] # Empty, g[i] = link PROVE FALSE OBVIOUS
      <4>1. g[c] = g[i] /\ g[c] \notin PinnedSet BY <3>2, <1>6, <2>1, <2>3
      <4>2. c \in U BY <4>1, <2>3
      <4>3. c = i BY <4>1, <4>2, <3>1, <2>3, OrderedOnce
      <4> QED BY <4>3, <3>1
    <3> QED BY <3>1, <3>2, <3>3, <2>2
  <2>7. ASSUME NEW k \in U, g[k] \in G PROVE \E i \in V : q[i] = k
    <3>1. k # c BY <2>1, <2>2, <2>7, <1>6
    <3> QED BY <3>1, <2>4, <2>5
  <2>8. \A i, j \in V : i < j => q[i] < q[j] BY <2>4, <2>5
  <2>9. Follows(q, g, U, g, V, G) BY <2>6, <2>7, <2>8 DEF Follows
  <2>10. G \in SUBSET F BY <2>2
  <2>11. Ordered(g, V, G) BY <2>3, <2>9, <2>10, FollowsOrdered
  <2> QED BY <2>1, <2>2, <2>11
<1> QED BY <1>4, <1>5, <1>6

\* A drop of what was picked up, or of a link that was nowhere in the grid.
LEMMA DroppedAsPreviewed ==
  ASSUME DropInv, NEW c \in Cells, NEW d \in Range(sites) \cup {Empty}, NEW link \in Nat,
         link # Empty, Fetched(d, link), Dropped(d, link, c)
  PROVE  \A j \in Cells \ {c} : sites'[j] = previewed'[j]
<1>1. PICK s : s = Inserted(d, c) /\ Arranged(s, d, c) BY InsertedArranged
<1>2. PICK q : Slid(q, sites, s, d, c) BY <1>1, InsertedSlides
<1>3. PICK F : F = FreeLinks(pinned) \ {link} OBVIOUS
<1>4. F \in SUBSET Place BY <1>3, SitesOrdered
<1>5. Ordered(s, FreePlaces(s, c), F) BY <1>2, <1>3, InsertedOrdered
<1>6. PICK t : t = Repositioned(s, d, c) /\ Arranged(t, d, c) BY <1>1, RepositionedArranged
<1>7. /\ Ordered(t, FreePlaces(t, c), F)
      /\ \A i \in DOMAIN t \ {c} : t[i] \in PinnedSet =>
           Index(sites, t[i]) = i \/ Index(sites, t[i]) \in PinnedRange(c)
  BY <1>1, <1>2, <1>4, <1>5, <1>6, RepositionedOrdered
<1>8. PICK u : u = OverflowRepositioned(t, c) OBVIOUS
<1>9. Arranged(u, d, c) BY <1>6, <1>8, OverflowArranged
<1>10. /\ Ordered(u, FreePlaces(u, c), F)
       /\ IsPinned(sites[c]) => \A i \in Cells \ {c}, j \in DOMAIN u :
            u[i] \notin PinnedSet /\ u[j] \in PinnedSet => j \in Cells
  BY <1>4, <1>6, <1>7, <1>8, OverflowOrdered
<1>11. Rearrange(d, c) = u BY <1>1, <1>6, <1>8 DEF Rearrange
<1>12. PICK r : r = Repinned(d, c) OBVIOUS
<1>13. r \in Pins /\ (IsPinned(sites[c]) => Repinning(r, u))
  BY <1>9, <1>11, <1>12, RepinnedKeeps
<1>14. PICK p : p = pinned' OBVIOUS
<1>15. p = IF d = sites[c] /\ d # Empty THEN r ELSE PinnedAt(r, link, c)
  BY <1>12, <1>14 DEF Dropped
<1>16. p \in Pins
  <2>1. c \in Place BY ConstantsAssumption DEF Cells, Place
  <2> QED BY <2>1, <1>13, <1>15, PinnedAtPins
<1>17. PinnedAsShown(p, u, c, d, link)
  <2>1. CASE IsPinned(sites[c]) BY <2>1, <1>9, <1>10, <1>13, <1>15, DroppedOnPinned
  <2>2. CASE ~IsPinned(sites[c])
    <3>1. r = pinned BY <2>2, <1>12 DEF Repinned
    <3>2. u = t BY <2>2, <1>8 DEF OverflowRepositioned
    <3> QED BY <2>2, <3>1, <3>2, <1>7, <1>9, <1>15, DroppedOnFree
  <2> QED BY <2>1, <2>2
<1>18. PICK g : g = Grid(provided, p) OBVIOUS
<1>19. sites' = g /\ previewed' = u BY <1>11, <1>14, <1>18 DEF Dropped
<1>20. PICK V : V = {i \in Cells \ {c} : u[i] \notin PinnedSet} OBVIOUS
<1>21. ASSUME V # {} PROVE Ordered(g, V, F)
  BY <1>3, <1>16, <1>17, <1>18, <1>20, <1>21, GridAfter
<1>22. V \in SUBSET Nat /\ Ordered(u, V, F)
  <2>1. PICK U : U = FreePlaces(u, c) OBVIOUS
  <2>2. /\ DOMAIN u = 1..Len(u) /\ Cells \subseteq DOMAIN u /\ DOMAIN u \subseteq Nat
    BY <1>9, ArrangedCells
  <2>3. U \in SUBSET Nat /\ V \in SUBSET U BY <2>1, <2>2, <1>20 DEF FreePlaces
  <2>4. ASSUME NEW k \in U \ V, NEW i \in V PROVE i < k
    <3>1. k \in 1..Len(u) /\ k \notin Cells /\ i \in Cells
      BY <2>1, <2>2, <1>20 DEF FreePlaces
    <3> QED BY <3>1, <2>2, <2>3, ConstantsAssumption DEF Cells
  <2>5. Ordered(u, V, F) BY <2>1, <2>3, <2>4, <1>4, <1>10, RestrictedOrdered
  <2> QED BY <2>3, <2>5
<1>23. ASSUME NEW j \in Cells \ {c} PROVE g[j] = u[j]
  <2>1. CASE u[j] \in PinnedSet
    <3>1. At(p, j) = u[j] BY <2>1, <1>17 DEF PinnedAsShown
    <3>2. u[j] # Empty /\ p \in Seq(Nat) BY <2>1, <1>16 DEF PinnedSet, Pins
    <3> QED BY <3>1, <3>2, <1>18, GridAt
  <2>2. CASE u[j] \notin PinnedSet
    <3>1. j \in V BY <2>2, <1>20
    <3>2. Ordered(g, V, F) BY <3>1, <1>21
    <3> QED BY <3>1, <3>2, <1>4, <1>22, OrderedAgree
  <2> QED BY <2>1, <2>2
<1> QED BY <1>19, <1>23

\* The cell itself was shown empty, or with the site that is dropped there.
LEMMA DroppedAtCell ==
  ASSUME DropInv, NEW c \in Cells, NEW d \in Range(sites) \cup {Empty}, NEW link \in Nat,
         link # Empty, d = Empty \/ d = link, Dropped(d, link, c)
  PROVE  sites'[c] = previewed'[c] \/ previewed'[c] = Empty
<1>1. PICK u : u = Rearrange(d, c) OBVIOUS
<1>2. Arranged(u, d, c)
  BY <1>1, InsertedArranged, RepositionedArranged, OverflowArranged DEF Rearrange
<1>3. u[c] = d /\ c \in DOMAIN u /\ c \in Place
  <2>1. c \in DOMAIN u BY <1>2, ArrangedCells
  <2> QED BY <2>1, <1>2, ConstantsAssumption DEF Arranged, Cells, Place
<1>4. PICK r : r = Repinned(d, c) OBVIOUS
<1>5. r \in Pins /\ (IsPinned(sites[c]) => Repinning(r, u)) BY <1>1, <1>2, <1>4, RepinnedKeeps
<1>6. PICK p : p = pinned' OBVIOUS
<1>7. /\ p = IF d = sites[c] /\ d # Empty THEN r ELSE PinnedAt(r, link, c)
      /\ previewed' = u /\ sites' = Grid(provided, p)
  BY <1>1, <1>4, <1>6 DEF Dropped
<1>8. CASE d = Empty BY <1>3, <1>7, <1>8
<1>9. CASE d = link /\ d # sites[c]
  <2>1. p = PinnedAt(r, link, c) BY <1>7, <1>9
  <2>2. p \in Pins /\ Pinning(r, link, c, p)
    BY <2>1, <1>3, <1>5, PinnedAtAt, PinnedAtPins DEF Pins
  <2>3. At(p, c) = link BY <2>2, <1>3 DEF Pinning
  <2>4. p \in Seq(Nat) BY <2>2 DEF Pins
  <2>5. Grid(provided, p)[c] = link BY <2>3, <2>4, GridAt
  <2> QED BY <2>5, <1>3, <1>7, <1>9
<1>10. CASE d = link /\ d = sites[c] /\ IsPinned(sites[c])
  <2>1. p = r /\ d \in PinnedSet BY <1>7, <1>10, PinnedIsPinned
  <2>2. At(p, c) = d BY <2>1, <1>3, <1>5, <1>10 DEF Repinning
  <2>3. p \in Seq(Nat) BY <2>1, <1>5 DEF Pins
  <2>4. Grid(provided, p)[c] = d BY <2>2, <2>3, <1>10, GridAt
  <2> QED BY <2>4, <1>3, <1>7
<1>11. CASE d = link /\ d = sites[c] /\ ~IsPinned(sites[c])
  <2>1. p = pinned BY <1>4, <1>7, <1>11 DEF Repinned
  <2>2. sites' = sites BY <2>1, <1>7 DEF DropInv
  <2> QED BY <2>2, <1>3, <1>7, <1>11
<1> QED BY <1>8, <1>9, <1>10, <1>11

\* What is shown while a site is over a cell is what the drop leads to, whatever the
\* size of the grid, the pinned links and the drops before (gDropPreview.rearrange,
\* gDrop.drop).
THEOREM ShownIsDropped == Spec => []ResultAsPreviewed
<1>1. Init => DropInv /\ ResultAsPreviewed
  <2>1. Init => ResultAsPreviewed BY DEF Init, ResultAsPreviewed
  <2> QED BY <2>1, InitDrops
<1>2. DropInv /\ ResultAsPreviewed /\ [Next]_vars => (DropInv /\ ResultAsPreviewed)'
  <2> SUFFICES ASSUME DropInv, ResultAsPreviewed, [Next]_vars
               PROVE  (DropInv /\ ResultAsPreviewed)'
    OBVIOUS
  <2>1. CASE Next
    <3>1. PICK c \in Cells, d \in Range(sites) \cup {Empty}, link \in Nat \ {Empty} :
            (d = Empty \/ d = link) /\ Dropped(d, link, c)
      BY <2>1, StepIsDrop
    <3>2. DropInv' BY <3>1, DroppedKeeps
    <3>3. /\ before'.again = (d = Empty /\ link \in Range(sites) \cup Range(pinned))
          /\ before'.drop = c
      BY <3>1 DEF Dropped
    <3>4. ASSUME ~before'.again PROVE \A j \in Cells \ {c} : sites'[j] = previewed'[j]
      <4>1. Fetched(d, link) BY <3>1, <3>3, <3>4 DEF Fetched
      <4> QED BY <4>1, <3>1, DroppedAsPreviewed
    <3>5. sites'[c] = previewed'[c] \/ previewed'[c] = Empty BY <3>1, DroppedAtCell
    <3>6. ResultAsPreviewed' BY <3>3, <3>4, <3>5 DEF ResultAsPreviewed
    <3> QED BY <3>2, <3>6
  <2>2. CASE UNCHANGED vars BY <2>2 DEF vars, DropInv, ResultAsPreviewed
  <2> QED BY <2>1, <2>2
<1> QED BY <1>1, <1>2, PTL DEF Spec
=============================================================================
