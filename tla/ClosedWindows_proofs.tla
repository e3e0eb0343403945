-------------------------- MODULE ClosedWindows_proofs --------------------------
(***************************************************************************)
(* Proofs about ClosedWindows, for every value of its constants.  The      *)
(* inductive invariant says what TypeOK leaves open: every window is in    *)
(* the list once, with tabs and a selection within them, the windows with  *)
(* _shouldRestore belong to the series, and the file is what the latest    *)
(* save made of such a list.                                               *)
(***************************************************************************)
EXTENDS ClosedWindows, Lists_proofs

\* An entry of the list: not private, with a tab left, the selection within them.
Sound == {e \in Entries : /\ e.win \notin Private /\ e.tabs # <<>>
                          /\ e.selected \in 0..Len(e.tabs)}

\* Every window is in the list once.
Distinct(list) == \A i, j \in DOMAIN list : list[i].win = list[j].win => i = j

CapHolds(list, max) ==
  Len(list) > max => \A i \in 1..Len(list) - 1 : list[i].win \in Popups

\* The windows with _shouldRestore are among set.
FlagsIn(list, set) == \A i \in DOMAIN list : list[i].flag => list[i].win \in set

ListInv ==
  /\ closed \in Seq(Sound) /\ Distinct(closed)
  /\ CapHolds(closed, maxUndo) /\ FlagsIn(closed, series)
  /\ ToSet(open) \cap WinsOf(closed) = {}

FileInv ==
  file # NoFile =>
    /\ file.windows \in Seq(Windows) /\ file.closed \in Seq(Windows)
    /\ (ToSet(file.windows) \cup ToSet(file.closed)) \cap Private = {}
    /\ ToSet(file.windows) \cap ToSet(file.closed) = {}
    /\ IsInjective(file.windows) /\ IsInjective(file.closed)

IInv ==
  /\ loadState \in {"running", "quitting", "over"} /\ maxUndo \in MaxUndos
  /\ open \in Seq(Windows) /\ IsInjective(open) /\ series \subseteq Windows
  /\ ListInv /\ FileInv /\ NormalWindowRestored /\ EarlierNotRestored
-----------------------------------------------------------------------------
\* new is old without some of its entries, in their order; flags only go.
ThinsBy(new, old, at) ==
  /\ at \in [DOMAIN new -> DOMAIN old]
  /\ \A j, k \in DOMAIN new : j < k => at[j] < at[k]
  /\ \A k \in DOMAIN new : /\ new[k].win = old[at[k]].win
                           /\ new[k].flag => old[at[k]].flag

Thins(new, old) == new \in Seq(Sound) /\ \E at : ThinsBy(new, old, at)

\* What is known of an entry.
LEMMA SoundEntry ==
  ASSUME NEW e \in Sound
  PROVE  /\ e \in Entries /\ e.win \in Windows \ Private
         /\ e.tabs \in Seq(BOOLEAN) /\ e.tabs # <<>>
         /\ e.selected \in 0..Len(e.tabs) /\ e.flag \in BOOLEAN
         /\ e = [win |-> e.win, tabs |-> e.tabs, selected |-> e.selected, flag |-> e.flag]
BY DEF Sound, Entries

\* What is known of a list of them.
LEMMA SoundSeq ==
  ASSUME NEW list \in Seq(Sound)
  PROVE  /\ Len(list) \in Nat /\ DOMAIN list = 1..Len(list)
         /\ \A i \in DOMAIN list : list[i] \in Sound
BY LenProperties

\* A thinned list keeps what the invariant says of the old one.
LEMMA ThinnedList ==
  ASSUME NEW new, NEW old \in Seq(Sound), Thins(new, old)
  PROVE  /\ new \in Seq(Sound) /\ Len(new) <= Len(old)
         /\ WinsOf(new) \subseteq WinsOf(old)
         /\ Distinct(old) => Distinct(new)
         /\ \A max \in Nat : CapHolds(old, max) => CapHolds(new, max)
         /\ \A set : FlagsIn(old, set) => FlagsIn(new, set \cap WinsOf(new))
<1> DEFINE n == Len(new)
           m == Len(old)
<1>1. new \in Seq(Sound) BY DEF Thins
<1>2. PICK at : ThinsBy(new, old, at) BY DEF Thins
<1>3. /\ n \in Nat /\ DOMAIN new = 1..n /\ m \in Nat /\ DOMAIN old = 1..m
  BY <1>1, SoundSeq
<1> HIDE DEF n, m
<1>4. /\ at \in [1..n -> 1..m]
      /\ \A j, k \in 1..n : j < k => at[j] < at[k]
      /\ \A k \in 1..n : new[k].win = old[at[k]].win /\ (new[k].flag => old[at[k]].flag)
  BY <1>2, <1>3 DEF ThinsBy
<1>5. n <= m BY <1>3, <1>4, Increasing
<1>6. \A k \in 1..n : at[k] \in 1..m BY <1>4
<1>7. WinsOf(new) \subseteq WinsOf(old)
  BY <1>3, <1>4, <1>6 DEF WinsOf
<1>8. ASSUME Distinct(old), NEW j \in 1..n, NEW k \in 1..n, new[j].win = new[k].win
      PROVE  j = k
  <2>1. at[j] = at[k] BY <1>3, <1>4, <1>6, <1>8 DEF Distinct
  <2>2. ~(at[j] < at[k]) /\ ~(at[k] < at[j]) BY <2>1, <1>6
  <2>3. ~(j < k) /\ ~(k < j) BY <1>4, <2>2
  <2> QED BY <2>3
<1>9. Distinct(old) => Distinct(new) BY <1>3, <1>8 DEF Distinct
<1>10. ASSUME NEW max \in Nat, CapHolds(old, max), n > max, NEW k \in 1..n - 1
       PROVE  new[k].win \in Popups
  <2>1. k \in 1..n /\ n \in 1..n /\ k < n BY <1>3
  <2>2. at[k] < at[n] /\ at[k] \in 1..m /\ at[n] \in 1..m BY <2>1, <1>4, <1>6
  <2>3. at[k] \in 1..m - 1 BY <2>2, <1>3
  <2>4. m > max BY <1>3, <1>5, <1>10
  <2> QED BY <2>1, <2>3, <2>4, <1>4, <1>10 DEF CapHolds, m
<1>11. \A max \in Nat : CapHolds(old, max) => CapHolds(new, max)
  BY <1>10 DEF CapHolds, n
<1>12. ASSUME NEW set, FlagsIn(old, set), NEW k \in 1..n, new[k].flag
       PROVE  new[k].win \in set \cap WinsOf(new)
  BY <1>3, <1>4, <1>6, <1>12 DEF FlagsIn, WinsOf
<1>13. \A set : FlagsIn(old, set) => FlagsIn(new, set \cap WinsOf(new))
  BY <1>3, <1>12 DEF FlagsIn
<1> QED BY <1>1, <1>5, <1>7, <1>9, <1>11, <1>13 DEF n, m

\* The entries stay where they are.
LEMMA ThinsInPlace ==
  ASSUME NEW new \in Seq(Sound), NEW old \in Seq(Sound), Len(new) <= Len(old),
         \A k \in DOMAIN new : new[k].win = old[k].win /\ (new[k].flag => old[k].flag)
  PROVE  Thins(new, old)
<1> DEFINE at == [k \in DOMAIN new |-> k]
<1>1. /\ Len(new) \in Nat /\ DOMAIN new = 1..Len(new)
      /\ Len(old) \in Nat /\ DOMAIN old = 1..Len(old)
  BY SoundSeq
<1>2. \A k \in DOMAIN new : k \in DOMAIN old /\ at[k] = k BY <1>1
<1>3. at \in [DOMAIN new -> DOMAIN old] BY <1>2
<1> HIDE DEF at
<1>4. ThinsBy(new, old, at) BY <1>2, <1>3 DEF ThinsBy
<1> QED BY <1>4 DEF Thins

\* An entry is taken out.
LEMMA ThinsRemoveAt ==
  ASSUME NEW list \in Seq(Sound), NEW i \in DOMAIN list
  PROVE  /\ Thins(RemoveAt(list, i), list)
         /\ Distinct(list) => list[i].win \notin WinsOf(RemoveAt(list, i))
<1> DEFINE r == RemoveAt(list, i)
           n == Len(list)
           at == [k \in 1..n - 1 |-> IF k < i THEN k ELSE k + 1]
<1>1. n \in Nat /\ DOMAIN list = 1..n /\ i \in 1..n BY SoundSeq
<1>2. list \in Seq(Sound) OBVIOUS
<1>3. /\ r \in Seq(Sound) /\ Len(r) = n - 1
      /\ \A k \in 1..n - 1 : r[k] = list[IF k < i THEN k ELSE k + 1]
  BY <1>1, <1>2, RemoveAtElements
<1>4. DOMAIN r = 1..n - 1 BY <1>3, SoundSeq
<1> HIDE DEF r, n
<1>5. \A k \in 1..n - 1 : at[k] \in 1..n /\ at[k] # i /\ r[k] = list[at[k]] BY <1>1, <1>3
<1>6. \A j, k \in 1..n - 1 : j < k => at[j] < at[k] BY <1>1
<1>7. at \in [1..n - 1 -> 1..n] BY <1>5
<1> HIDE DEF at
<1>8. ThinsBy(r, list, at) BY <1>1, <1>4, <1>5, <1>6, <1>7 DEF ThinsBy
<1>9. Thins(r, list) BY <1>3, <1>8 DEF Thins
<1>10. ASSUME Distinct(list), NEW k \in DOMAIN r PROVE r[k].win # list[i].win
  BY <1>1, <1>4, <1>5, <1>10 DEF Distinct
<1>11. Distinct(list) => list[i].win \notin WinsOf(r) BY <1>10 DEF WinsOf
<1> QED BY <1>9, <1>11 DEF r

\* _clearRestoringWindows
LEMMA ThinsUnflagged ==
  ASSUME NEW list \in Seq(Sound)
  PROVE  /\ Thins(Unflagged(list), list)
         /\ \A set : FlagsIn(Unflagged(list), set)
<1> DEFINE u == Unflagged(list)
<1>1. Len(list) \in Nat /\ DOMAIN list = 1..Len(list) BY SoundSeq
<1>2. DOMAIN u = 1..Len(list) BY <1>1 DEF Unflagged
<1>3. ASSUME NEW k \in 1..Len(list)
      PROVE  u[k] \in Sound /\ u[k].win = list[k].win /\ ~u[k].flag
  <2>1. u[k] = [list[k] EXCEPT !.flag = FALSE] /\ list[k] \in Sound
    BY <1>1, SoundSeq DEF Unflagged
  <2> QED BY <2>1 DEF Sound, Entries
<1>4. u \in [1..Len(list) -> Sound] BY <1>1, <1>3 DEF Unflagged
<1>5. u \in Seq(Sound) /\ Len(u) = Len(list) BY <1>1, <1>4, FunctionIsSeq
<1> HIDE DEF u
<1>6. Thins(u, list) BY <1>1, <1>2, <1>3, <1>5, ThinsInPlace
<1>7. \A set : FlagsIn(u, set) BY <1>2, <1>3 DEF FlagsIn
<1> QED BY <1>6, <1>7 DEF u

\* The flags that saveState takes away.
LEMMA ThinsAfterSave ==
  ASSUME NEW list \in Seq(Sound), NEW n \in Nat
  PROVE  /\ Thins(AfterSave(list, n), list)
         /\ DOMAIN AfterSave(list, n) = DOMAIN list
         /\ \A i \in DOMAIN list : AfterSave(list, n)[i].win = list[i].win
<1> DEFINE u == AfterSave(list, n)
<1>1. Len(list) \in Nat /\ DOMAIN list = 1..Len(list) BY SoundSeq
<1>2. DOMAIN u = 1..Len(list) BY <1>1 DEF AfterSave
<1>3. ASSUME NEW k \in 1..Len(list)
      PROVE  u[k] \in Sound /\ u[k].win = list[k].win /\ (u[k].flag => list[k].flag)
  <2>1. /\ u[k] = list[k] \/ u[k] = [list[k] EXCEPT !.flag = FALSE]
        /\ list[k] \in Sound
    BY <1>1, SoundSeq DEF AfterSave
  <2> HIDE DEF u
  <2> QED BY <2>1 DEF Sound, Entries
<1>4. u \in [1..Len(list) -> Sound] BY <1>1, <1>3 DEF AfterSave
<1>5. u \in Seq(Sound) /\ Len(u) = Len(list) BY <1>1, <1>4, FunctionIsSeq
<1> HIDE DEF u
<1>6. Thins(u, list) BY <1>1, <1>2, <1>3, <1>5, ThinsInPlace
<1> QED BY <1>1, <1>2, <1>3, <1>6 DEF u

\* _capClosedWindows: the list is a prefix, short enough or popups up to its
\* last window, and still has a window that is no popup if it had one.
LEMMA ThinsCapped ==
  ASSUME NEW list \in Seq(Sound), NEW max \in Nat
  PROVE  /\ Thins(Capped(list, max), list)
         /\ CapHolds(Capped(list, max), max)
         /\ NotPopup(list) # {} => NotPopup(Capped(list, max)) # {}
<1> DEFINE n == Len(list)
           normal == NotPopup(list)
           first == IF normal = {} THEN n + 1 ELSE Min(normal)
           to == IF first > max THEN first ELSE max
           last == IF to < n THEN to ELSE n
           c == Capped(list, max)
<1>1. n \in Nat /\ DOMAIN list = 1..n /\ \A i \in 1..n : list[i] \in Sound
  BY SoundSeq
<1>2. CASE n <= max
  <2>1. c = list BY <1>2 DEF Capped
  <2>2. Thins(list, list) BY <1>1, ThinsInPlace
  <2>3. CapHolds(list, max) BY <1>1, <1>2 DEF CapHolds
  <2> QED BY <2>1, <2>2, <2>3
<1>3. CASE ~(n <= max)
  <2>1. c = SubSeq(list, 1, last) BY <1>3 DEF Capped
  <2> HIDE DEF c
  <2>2. normal \subseteq 1..n /\ normal \in SUBSET Nat BY <1>1 DEF NotPopup
  <2>3. /\ normal # {} => first \in normal
        /\ \A i \in normal : first <= i
        /\ first \in 1..n + 1
    <3> HIDE DEF normal
    <3>1. CASE normal = {} BY <3>1, <1>1
    <3>2. CASE normal # {}
      <4>1. Min(normal) \in normal /\ \A i \in normal : Min(normal) <= i
        BY <2>2, <3>2, MinOfSet
      <4>2. Min(normal) \in 1..n BY <2>2, <4>1
      <4> QED BY <3>2, <4>1, <4>2, <1>1
    <3> QED BY <3>1, <3>2
  <2> HIDE DEF first
  <2>4. last \in 0..n /\ (first <= n => first <= last) /\ (last > max => last <= first)
    BY <1>1, <1>3, <2>3
  <2> HIDE DEF last, normal, n
  <2>5. /\ c \in Seq(Sound) /\ Len(c) = last
        /\ \A i \in 1..last : c[i] = list[i]
    <3>1. \A i \in 1..last : list[i] \in Sound BY <1>1, <2>4
    <3> QED BY <2>1, <2>4, <3>1, SubSeqProperties
  <2>6. DOMAIN c = 1..last BY <2>5, SoundSeq
  <2>7. Thins(c, list)
    <3>1. Len(c) <= Len(list) BY <1>1, <2>4, <2>5 DEF n
    <3> QED BY <3>1, <2>5, <2>6, ThinsInPlace
  <2>8. CapHolds(c, max)
    <3>1. ASSUME last > max, NEW i \in 1..last - 1 PROVE c[i].win \in Popups
      <4>1. i \in 1..n /\ i \in 1..last /\ i < first BY <3>1, <1>1, <2>3, <2>4
      <4>2. i \notin normal BY <4>1, <2>2, <2>3
      <4> QED BY <4>1, <4>2, <1>1, <2>5 DEF normal, NotPopup
    <3> QED BY <3>1, <2>5 DEF CapHolds
  <2>9. ASSUME normal # {} PROVE NotPopup(c) # {}
    <3>1. first \in normal /\ first \in 1..n BY <2>2, <2>3, <2>9
    <3>2. first \in 1..last BY <3>1, <2>4, <1>1
    <3>3. list[first].win \notin Popups BY <3>1 DEF normal, NotPopup
    <3> QED BY <3>2, <3>3, <2>5, <2>6 DEF NotPopup
  <2> QED BY <2>7, <2>8, <2>9 DEF c, normal
<1> QED BY <1>2, <1>3
-----------------------------------------------------------------------------
\* h[n] is the selection after the last n tabs of e were looked at.
SelectsBy(h, e) ==
  /\ h \in [0..Len(e.tabs) -> Nat]
  /\ h[0] = e.selected /\ SelectedAfter(e) = h[Len(e.tabs)]
  /\ \A n \in 1..Len(e.tabs) :
       h[n] = IF e.tabs[Len(e.tabs) - n + 1] /\ h[n - 1] > Len(e.tabs) - n
              THEN h[n - 1] - 1 ELSE h[n - 1]

\* SelectedAfter is computed by such a function.
LEMMA SelectedFunction ==
  ASSUME NEW e, e \in Sound
  PROVE  \E h : SelectsBy(h, e)
<1> DEFINE N == Len(e.tabs)
           step == [n \in 1..N |-> [x \in Nat |->
                      IF e.tabs[N - n + 1] /\ x > N - n THEN x - 1 ELSE x]]
           Is(f) == f = [j \in 0..N |-> IF j = N THEN e.selected
                                        ELSE IF e.tabs[j + 1] /\ f[j + 1] > j
                                             THEN f[j + 1] - 1 ELSE f[j + 1]]
           after[j \in 0..N] == IF j = N THEN e.selected
                                ELSE IF e.tabs[j + 1] /\ after[j + 1] > j
                                     THEN after[j + 1] - 1 ELSE after[j + 1]
<1>1. N \in Nat /\ e.selected \in Nat
  BY SoundEntry, LenProperties
<1>2. step \in [1..N -> [Nat -> Nat]]
  <2> HIDE DEF N
  <2>1. ASSUME NEW n \in 1..N, NEW x \in Nat
        PROVE  (IF e.tabs[N - n + 1] /\ x > N - n THEN x - 1 ELSE x) \in Nat
    <3>1. x > N - n => x - 1 \in Nat BY <1>1
    <3> QED BY <3>1
  <2> QED BY <2>1
<1>3. PICK h \in [0..N -> Nat] :
          h[0] = e.selected /\ \A n \in 1..N : h[n] = step[n][h[n - 1]]
  <2> DEFINE T == Nat
             start == e.selected
  <2>1. N \in Nat /\ start \in T /\ step \in [1..N -> [T -> T]] BY <1>1, <1>2
  <2> HIDE DEF N, T, start, step
  <2>2. \E h \in [0..N -> T] :
          h[0] = start /\ \A n \in 1..N : h[n] = step[n][h[n - 1]]
    BY ONLY <2>1, RecursiveFunction
  <2> QED BY <2>2 DEF T, start
<1>4. ASSUME NEW n \in 1..N
      PROVE  h[n] = IF e.tabs[N - n + 1] /\ h[n - 1] > N - n
                    THEN h[n - 1] - 1 ELSE h[n - 1]
  <2>1. n - 1 \in 0..N /\ h[n - 1] \in Nat
    <3> HIDE DEF N
    <3>1. n - 1 \in 0..N BY <1>1
    <3> QED BY <3>1
  <2>2. h[n] = step[n][h[n - 1]] BY <1>3
  <2> HIDE DEF N
  <2> QED BY <2>1, <2>2
<1> DEFINE g == [j \in 0..N |-> h[N - j]]
<1> HIDE DEF step
<1>5. Is(g)
  <2>1. ASSUME NEW j \in 0..N
        PROVE  g[j] = IF j = N THEN e.selected
                      ELSE IF e.tabs[j + 1] /\ g[j + 1] > j
                           THEN g[j + 1] - 1 ELSE g[j + 1]
    <3> HIDE DEF N
    <3>1. CASE j = N
      <4>1. N - j = 0 /\ g[j] = h[N - j] BY <3>1, <1>1
      <4> QED BY <3>1, <4>1, <1>3
    <3>2. CASE j # N
      <4>1. /\ N - j \in 1..N /\ j + 1 \in 0..N /\ (N - j) - 1 = N - (j + 1)
            /\ N - (N - j) = j /\ N - (N - j) + 1 = j + 1
        BY <3>2, <1>1
      <4>2. g[j] = h[N - j] /\ g[j + 1] = h[(N - j) - 1] BY <4>1
      <4>3. h[N - j] = IF e.tabs[j + 1] /\ h[(N - j) - 1] > j
                       THEN h[(N - j) - 1] - 1 ELSE h[(N - j) - 1]
        BY <1>4, <4>1
      <4> HIDE DEF g
      <4> QED BY <3>2, <4>2, <4>3
    <3> QED BY <3>1, <3>2
  <2> HIDE DEF N
  <2>2. g = [j \in 0..N |-> g[j]] OBVIOUS
  <2> HIDE DEF g
  <2> QED BY <2>1, <2>2
<1>6. SelectedAfter(e) = after[0] BY DEF SelectedAfter
<1>7. after = CHOOSE f : Is(f) OBVIOUS
<1>8. Is(after)
  <2> HIDE DEF Is, after, g
  <2> QED BY <1>5, <1>7
<1>9. ASSUME NEW f, Is(f)
      PROVE  f[0] = h[N]
  <2> HIDE DEF N, after, g
  <2> DEFINE Same == {n \in 0..N : f[N - n] = h[n]}
  <2>1. 0 \in Same
    <3>1. 0 \in 0..N /\ N - 0 = N /\ N \in 0..N BY <1>1
    <3>2. f[N] = e.selected BY <1>9, <3>1
    <3> QED BY <3>1, <3>2, <1>3
  <2>2. ASSUME NEW n \in 1..N, n - 1 \in Same PROVE n \in Same
    <3>1. /\ n \in 0..N /\ N - n \in 0..N /\ N - n # N
          /\ N - (n - 1) = (N - n) + 1 /\ N - n + 1 = (N - n) + 1
      BY <1>1
    <3>2. f[(N - n) + 1] = h[n - 1] BY <2>2, <3>1
    <3>3. f[N - n] = IF e.tabs[(N - n) + 1] /\ f[(N - n) + 1] > N - n
                     THEN f[(N - n) + 1] - 1 ELSE f[(N - n) + 1]
      BY <1>9, <3>1
    <3>4. h[n] = IF e.tabs[N - n + 1] /\ h[n - 1] > N - n
                 THEN h[n - 1] - 1 ELSE h[n - 1]
      BY <1>4
    <3>5. f[N - n] = h[n] BY <3>1, <3>2, <3>3, <3>4
    <3> QED BY <3>1, <3>5
  <2>3. N \in Same
    <3>1. N \in 0..N BY <1>1
    <3> HIDE DEF Same
    <3> QED BY <1>1, <2>1, <2>2, <3>1, IntervalInduction
  <2>4. f[N - N] = h[N] /\ N - N = 0 BY <2>3, <1>1
  <2> QED BY <2>4
<1>10. SelectedAfter(e) = h[N]
  <2> HIDE DEF after, Is
  <2> QED BY <1>6, <1>8, <1>9
<1>11. SelectsBy(h, e)
  <2> HIDE DEF after, Is, g
  <2> QED BY <1>3, <1>4, <1>10 DEF SelectsBy
<1> QED BY <1>11, Zenon

\* What the loop of onPurgeDomainData does to one window.
LEMMA WithoutDomainSound ==
  ASSUME NEW e, e \in Sound
  PROVE  /\ WithoutDomain(e) \in Entries
         /\ WithoutDomain(e).win = e.win /\ WithoutDomain(e).flag = e.flag
         /\ WithoutDomain(e).selected \in 0..Len(WithoutDomain(e).tabs)
<1> DEFINE N == Len(e.tabs)
           keep == {j \in DOMAIN e.tabs : ~e.tabs[j]}
           K == Kept(e.tabs, keep)
<1>1. /\ e.tabs \in Seq(BOOLEAN) /\ N \in Nat /\ DOMAIN e.tabs = 1..N
      /\ e.selected \in 0..N /\ e.win \in Windows /\ e.flag \in BOOLEAN
  BY SoundEntry, LenProperties
<1>2. PICK f : KeptBy(f, BOOLEAN, e.tabs, keep)
  <2>1. e.tabs \in Seq(BOOLEAN) BY <1>1
  <2> QED BY <2>1, KeptFunction, Zenon
<1>3. PICK h : SelectsBy(h, e) BY SelectedFunction
<1>4. /\ f \in [0..N -> Seq(BOOLEAN)] /\ f[0] = <<>> /\ K = f[N]
      /\ \A n \in 1..N : f[n] = IF n \in keep THEN Append(f[n - 1], e.tabs[n]) ELSE f[n - 1]
  BY <1>2 DEF KeptBy
<1>5. /\ h \in [0..N -> Nat] /\ h[0] = e.selected /\ SelectedAfter(e) = h[N]
      /\ \A n \in 1..N : h[n] = IF e.tabs[N - n + 1] /\ h[n - 1] > N - n
                                THEN h[n - 1] - 1 ELSE h[n - 1]
  BY <1>3 DEF SelectsBy
<1> HIDE DEF N, K
<1> DEFINE len == [n \in 0..N |-> Len(f[n])]
<1>6. /\ len \in [0..N -> Nat] /\ len[0] = 0 /\ Len(K) = len[N]
      /\ \A n \in 1..N : len[n] = IF e.tabs[n] THEN len[n - 1] ELSE len[n - 1] + 1
  <2>1. \A n \in 0..N : f[n] \in Seq(BOOLEAN) /\ Len(f[n]) \in Nat BY <1>4, LenProperties
  <2>2. len \in [0..N -> Nat] BY <2>1
  <2>3. 0 \in 0..N /\ N \in 0..N BY <1>1
  <2>4. Len(f[0]) = 0 BY <1>4
  <2>5. ASSUME NEW n \in 1..N
        PROVE  len[n] = IF e.tabs[n] THEN len[n - 1] ELSE len[n - 1] + 1
    <3>1. n \in 0..N /\ n - 1 \in 0..N BY <1>1
    <3>2. n \in keep <=> ~e.tabs[n] BY <1>1
    <3>3. e.tabs[n] \in BOOLEAN BY <1>1, ElementOfSeq
    <3>4. CASE e.tabs[n]
      <4>1. f[n] = f[n - 1] BY <1>4, <3>2, <3>4
      <4> QED BY <3>1, <3>4, <4>1
    <3>5. CASE ~e.tabs[n]
      <4>1. f[n] = Append(f[n - 1], e.tabs[n]) BY <1>4, <3>2, <3>5
      <4>2. Len(f[n]) = Len(f[n - 1]) + 1 BY <4>1, <2>1, <3>1, <3>3, AppendProperties
      <4> QED BY <3>1, <3>5, <4>2
    <3> QED BY <3>4, <3>5
  <2> QED BY <1>4, <2>2, <2>3, <2>4, <2>5
<1> HIDE DEF len, keep
<1>7. Len(K) \in Nat BY <1>1, <1>6
<1> DEFINE Good == {n \in 0..N : /\ len[N - n] <= Len(K)
                                 /\ h[n] <= (N - n) + (Len(K) - len[N - n])}
<1>8. 0 \in Good
  <2>1. N - 0 = N /\ 0 \in 0..N BY <1>1
  <2> QED BY <2>1, <1>1, <1>5, <1>6, <1>7
<1>9. ASSUME NEW n \in 1..N, n - 1 \in Good PROVE n \in Good
  <2> DEFINE j == N - n
  <2>1. /\ n \in 0..N /\ n - 1 \in 0..N /\ j \in 0..N /\ j + 1 \in 1..N
        /\ N - (n - 1) = j + 1 /\ N - n + 1 = j + 1 /\ (j + 1) - 1 = j
    BY <1>1
  <2>2. /\ len[j + 1] <= Len(K)
        /\ h[n - 1] <= (j + 1) + (Len(K) - len[j + 1])
    BY <1>9, <2>1
  <2>3. h[n] = IF e.tabs[j + 1] /\ h[n - 1] > j THEN h[n - 1] - 1 ELSE h[n - 1]
    BY <1>5, <2>1
  <2>4. len[j + 1] = IF e.tabs[j + 1] THEN len[j] ELSE len[j] + 1
    BY <1>6, <2>1
  <2>5. len[j] \in Nat /\ len[j + 1] \in Nat /\ h[n] \in Nat /\ h[n - 1] \in Nat
    BY <1>5, <1>6, <2>1
  <2>6. e.tabs[j + 1] \in BOOLEAN BY <1>1, <2>1, ElementOfSeq
  <2> HIDE DEF j
  <2>7. len[j] <= Len(K) /\ h[n] <= j + (Len(K) - len[j])
    <3>1. CASE e.tabs[j + 1]
      BY <3>1, <1>7, <2>1, <2>2, <2>3, <2>4, <2>5, SMTT(30)
    <3>2. CASE ~e.tabs[j + 1]
      BY <3>2, <1>7, <2>1, <2>2, <2>3, <2>4, <2>5, SMTT(30)
    <3> QED BY <3>1, <3>2
  <2> QED BY <2>1, <2>7 DEF j
<1>10. N \in Good
  <2>1. N \in 0..N BY <1>1
  <2> HIDE DEF Good
  <2> QED BY <1>1, <1>8, <1>9, <2>1, IntervalInduction
<1>11. SelectedAfter(e) \in 0..Len(K)
  <2>1. N - N = 0 /\ N \in 0..N BY <1>1
  <2> QED BY <2>1, <1>5, <1>6, <1>7, <1>10
<1>12. K \in Seq(BOOLEAN)
  <2>1. N \in 0..N BY <1>1
  <2> QED BY <2>1, <1>4
<1>13. WithoutDomain(e) = [e EXCEPT !.tabs = K, !.selected = SelectedAfter(e)]
  BY DEF WithoutDomain, K, keep
<1>14. e \in Entries BY DEF Sound
<1>15. SelectedAfter(e) \in Nat BY <1>7, <1>11
<1> QED BY <1>11, <1>12, <1>13, <1>14, <1>15 DEF Entries

\* The selection that is left counts the tabs left up to the old one.
LEMMA SelectedIsLeft ==
  ASSUME NEW e, e \in Sound
  PROVE  SelectedAfter(e) = Cardinality(LeftUpTo(e))
<1> DEFINE N == Len(e.tabs)
           sel == e.selected
           C(j) == {m \in j + 1..sel : ~e.tabs[m]}
<1>1. N \in Nat /\ sel \in 0..N BY SoundEntry, LenProperties
<1>2. PICK h : SelectsBy(h, e) BY SelectedFunction
<1>3. /\ h \in [0..N -> Nat] /\ h[0] = sel /\ SelectedAfter(e) = h[N]
      /\ \A n \in 1..N : h[n] = IF e.tabs[N - n + 1] /\ h[n - 1] > N - n
                                THEN h[n - 1] - 1 ELSE h[n - 1]
  BY <1>2 DEF SelectsBy
<1> HIDE DEF N, sel
<1>4. ASSUME NEW j \in 0..N
      PROVE  IsFiniteSet(C(j)) /\ Cardinality(C(j)) \in Nat
  <2>1. IsFiniteSet(j + 1..sel) BY <1>1, FS_Interval
  <2>2. IsFiniteSet(C(j)) BY <2>1, FS_Subset
  <2> QED BY <2>2, FS_CardinalityType
<1>5. ASSUME NEW j \in 0..N, j < sel
      PROVE  Cardinality(C(j)) = IF e.tabs[j + 1] THEN Cardinality(C(j + 1))
                                 ELSE Cardinality(C(j + 1)) + 1
  <2>1. j + 1 \in 0..N /\ j + 1 \in j + 1..sel /\ j + 1 \notin C(j + 1)
    BY <1>1, <1>5
  <2>2. C(j) = IF e.tabs[j + 1] THEN C(j + 1) ELSE C(j + 1) \cup {j + 1}
    <3>1. j + 1..sel = {j + 1} \cup ((j + 1) + 1..sel) BY <1>1, <1>5
    <3> QED BY <3>1
  <2>3. IsFiniteSet(C(j + 1)) BY <1>4, <2>1
  <2> HIDE DEF C
  <2>4. Cardinality(C(j + 1) \cup {j + 1}) = Cardinality(C(j + 1)) + 1
    BY <2>1, <2>3, FS_AddElement
  <2> QED BY <2>2, <2>4
<1>6. \A j \in 0..N : ~(j < sel) => Cardinality(C(j)) = 0
  <2> SUFFICES ASSUME NEW j \in 0..N, ~(j < sel) PROVE Cardinality(C(j)) = 0 OBVIOUS
  <2>1. C(j) = {} BY <1>1
  <2> QED BY <2>1, FS_EmptySet
<1>7. LeftUpTo(e) = C(0) BY DEF LeftUpTo, sel
<1> DEFINE card == [j \in 0..N |-> Cardinality(C(j))]
<1>8. /\ \A j \in 0..N : card[j] \in Nat /\ (~(j < sel) => card[j] = 0)
      /\ \A j \in 0..N : j < sel =>
           card[j] = IF e.tabs[j + 1] THEN card[j + 1] ELSE card[j + 1] + 1
  <2>1. \A j \in 0..N : j < sel => j + 1 \in 0..N BY <1>1
  <2> HIDE DEF C
  <2> QED BY <1>4, <1>5, <1>6, <2>1
<1>9. card[0] = Cardinality(LeftUpTo(e)) BY <1>1, <1>7
<1> HIDE DEF card, C
<1> DEFINE Good == {n \in 0..N :
                      h[n] = IF N - n < sel THEN (N - n) + card[N - n] ELSE sel}
<1>10. 0 \in Good
  <2>1. 0 \in 0..N /\ ~(N - 0 < sel) BY <1>1
  <2> QED BY <2>1, <1>3
<1>11. ASSUME NEW n \in 1..N, n - 1 \in Good PROVE n \in Good
  <2> DEFINE j == N - n
  <2>1. /\ n \in 0..N /\ n - 1 \in 0..N /\ j \in 0..N /\ j + 1 \in 0..N
        /\ N - (n - 1) = j + 1 /\ N - n + 1 = j + 1
    BY <1>1
  <2>2. h[n - 1] = IF j + 1 < sel THEN (j + 1) + card[j + 1] ELSE sel
    BY <1>11, <2>1
  <2>3. h[n] = IF e.tabs[j + 1] /\ h[n - 1] > j THEN h[n - 1] - 1 ELSE h[n - 1]
    BY <1>3, <2>1
  <2>4. /\ card[j] \in Nat /\ card[j + 1] \in Nat /\ sel \in Nat /\ j \in Nat
        /\ (~(j + 1 < sel) => card[j + 1] = 0)
        /\ (j < sel => card[j] = IF e.tabs[j + 1] THEN card[j + 1] ELSE card[j + 1] + 1)
    BY <1>1, <1>8, <2>1
  <2> HIDE DEF j
  <2>5. h[n] = IF j < sel THEN j + card[j] ELSE sel
    <3>1. CASE e.tabs[j + 1] BY <3>1, <2>2, <2>3, <2>4, SMTT(30)
    <3>2. CASE ~e.tabs[j + 1] BY <3>2, <2>2, <2>3, <2>4, SMTT(30)
    <3> QED BY <3>1, <3>2
  <2> QED BY <2>1, <2>5 DEF j
<1>12. N \in Good
  <2>1. N \in 0..N BY <1>1
  <2> HIDE DEF Good
  <2> QED BY <1>1, <1>10, <1>11, <2>1, IntervalInduction
<1>13. N - N = 0 /\ N \in Nat /\ card[0] \in Nat /\ (~(0 < sel) => card[0] = 0)
  <2>1. 0 \in 0..N BY <1>1
  <2> QED BY <1>1, <1>8, <2>1
<1>14. h[N] = card[0]
  <2>1. h[N] = IF 0 < sel THEN 0 + card[0] ELSE sel BY <1>12, <1>13
  <2> QED BY <2>1, <1>1, <1>13
<1> QED BY <1>3, <1>9, <1>14

\* Nothing is taken out of a list of which every place is kept.
LEMMA KeptAll ==
  ASSUME NEW S, NEW list, list \in Seq(S), NEW keep, DOMAIN list \subseteq keep
  PROVE  Kept(list, keep) = list
<1> DEFINE N == Len(list)
           K == Kept(list, keep)
<1>1. N \in Nat /\ DOMAIN list = 1..N /\ list \in [1..N -> S] BY SeqIsFunction
<1>2. PICK f : KeptBy(f, S, list, keep) BY KeptFunction, Zenon
<1>3. /\ f \in [0..N -> Seq(S)] /\ f[0] = <<>> /\ K = f[N]
      /\ \A n \in 1..N : f[n] = Append(f[n - 1], list[n])
  BY <1>1, <1>2 DEF KeptBy
<1> HIDE DEF K, N
<1> DEFINE Good == {n \in 0..N : Len(f[n]) = n /\ \A i \in 1..n : f[n][i] = list[i]}
<1>4. 0 \in Good
  <2>1. 0 \in 0..N /\ 1..0 = {} BY <1>1
  <2> QED BY <2>1, <1>3
<1>5. ASSUME NEW n \in 1..N, n - 1 \in Good PROVE n \in Good
  <2>1. n \in 0..N /\ n - 1 \in 0..N /\ list[n] \in S BY <1>1
  <2>2. /\ f[n - 1] \in Seq(S) /\ Len(f[n - 1]) = n - 1
        /\ \A i \in 1..n - 1 : f[n - 1][i] = list[i]
    BY <1>3, <1>5, <2>1
  <2>3. f[n] = Append(f[n - 1], list[n]) BY <1>3
  <2>4. /\ Len(f[n]) = (n - 1) + 1 /\ f[n][(n - 1) + 1] = list[n]
        /\ \A i \in 1..n - 1 : f[n][i] = f[n - 1][i]
    BY <2>1, <2>2, <2>3, AppendProperties
  <2>5. (n - 1) + 1 = n /\ \A i \in 1..n : i = n \/ i \in 1..n - 1 BY <1>1
  <2> QED BY <2>1, <2>2, <2>4, <2>5
<1>6. N \in Good
  <2>1. N \in 0..N BY <1>1
  <2> HIDE DEF Good
  <2> QED BY <1>1, <1>4, <1>5, <2>1, IntervalInduction
<1>7. K \in Seq(S) /\ Len(K) = N /\ \A i \in 1..N : K[i] = list[i]
  <2>1. N \in 0..N BY <1>1
  <2> QED BY <1>3, <1>6, <2>1
<1>8. K \in [1..N -> S] BY <1>7, SeqIsFunction
<1> QED BY <1>1, <1>7, <1>8 DEF K

\* What is left of a window: no tab of the domain, and the right selection.
LEMMA WithoutDomainExact ==
  ASSUME NEW e, e \in Sound
  PROVE  /\ TRUE \notin ToSet(WithoutDomain(e).tabs)
         /\ WithoutDomain(e).selected = Cardinality(LeftUpTo(e))
         /\ FALSE \in ToSet(e.tabs) <=> WithoutDomain(e).tabs # <<>>
         /\ TRUE \notin ToSet(e.tabs) => WithoutDomain(e).tabs = e.tabs
<1> DEFINE keep == {j \in DOMAIN e.tabs : ~e.tabs[j]}
           K == Kept(e.tabs, keep)
<1>1. e.tabs \in Seq(BOOLEAN) /\ e \in Entries BY SoundEntry
<1>2. \A j \in DOMAIN e.tabs : e.tabs[j] \in BOOLEAN BY <1>1, SeqIsFunction
<1>3. WithoutDomain(e).tabs = K /\ WithoutDomain(e).selected = SelectedAfter(e)
  BY <1>1 DEF WithoutDomain, Entries
<1>4. K \in Seq(BOOLEAN) /\ ToSet(K) = {e.tabs[i] : i \in keep \cap DOMAIN e.tabs}
  <2> HIDE DEF keep
  <2> QED BY <1>1, KeptElements
<1>5. keep \cap DOMAIN e.tabs = keep OBVIOUS
<1>6. TRUE \notin ToSet(K)
  <2>1. \A i \in keep : ~e.tabs[i] OBVIOUS
  <2> HIDE DEF keep, K
  <2> QED BY <1>4, <1>5, <2>1, Zenon
<1>7. FALSE \in ToSet(e.tabs) <=> keep # {}
  <2>1. ToSet(e.tabs) = {e.tabs[i] : i \in DOMAIN e.tabs} BY DEF ToSet
  <2>2. ASSUME FALSE \in ToSet(e.tabs) PROVE keep # {}
    <3>1. PICK i \in DOMAIN e.tabs : e.tabs[i] = FALSE BY <2>1, <2>2
    <3>2. i \in keep BY <3>1, Zenon
    <3> QED BY <3>2
  <2>3. ASSUME NEW i \in keep PROVE FALSE \in ToSet(e.tabs)
    <3>1. i \in DOMAIN e.tabs /\ ~e.tabs[i] OBVIOUS
    <3>2. e.tabs[i] = FALSE BY <3>1, <1>2
    <3> QED BY <2>1, <3>1, <3>2
  <2> QED BY <2>2, <2>3
<1>8. keep # {} <=> K # <<>>
  <2>1. ToSet(K) = {} <=> keep = {}
    <3> HIDE DEF keep, K
    <3> QED BY <1>4, <1>5
  <2>2. ToSet(K) = {} <=> K = <<>>
    <3> HIDE DEF keep, K
    <3>1. ToSet(K) = {K[i] : i \in DOMAIN K} BY DEF ToSet
    <3>2. DOMAIN K = 1..Len(K) /\ Len(K) \in Nat BY <1>4, LenProperties
    <3>3. K = <<>> => DOMAIN K = {} BY <3>2
    <3>4. K # <<>> => 1 \in DOMAIN K BY <1>4, <3>2, EmptySeq
    <3> QED BY <3>1, <3>3, <3>4
  <2> QED BY <2>1, <2>2
<1>9. TRUE \notin ToSet(e.tabs) => K = e.tabs
  <2> SUFFICES ASSUME TRUE \notin ToSet(e.tabs) PROVE K = e.tabs OBVIOUS
  <2>1. ToSet(e.tabs) = {e.tabs[i] : i \in DOMAIN e.tabs} BY DEF ToSet
  <2>2. ASSUME NEW i \in DOMAIN e.tabs PROVE i \in keep
    <3>1. e.tabs[i] \in ToSet(e.tabs) BY <2>1
    <3>2. e.tabs[i] = TRUE \/ e.tabs[i] = FALSE BY <1>2
    <3>3. e.tabs[i] = FALSE BY <3>1, <3>2
    <3> QED BY <3>3, Zenon
  <2>3. DOMAIN e.tabs \subseteq keep BY <2>2
  <2> HIDE DEF keep
  <2> QED BY <1>1, <2>3, KeptAll
<1> HIDE DEF keep, K
<1> QED BY <1>3, <1>6, <1>7, <1>8, <1>9, SelectedIsLeft

\* From which window on the loop of onPurgeDomainData reached the list.
ThrownAt(list) == Max({0} \cup Unselected(list))

\* The windows of a purged list, and which ones stay in it.
LEMMA PurgedEntries ==
  ASSUME NEW list, list \in Seq(Sound)
  PROVE  /\ \A k \in DOMAIN PurgedList(list) : \E i \in DOMAIN list :
              PurgedList(list)[k] = IF i >= ThrownAt(list) THEN WithoutDomain(list[i])
                                    ELSE list[i]
         /\ \A i \in DOMAIN list :
              FALSE \in ToSet(list[i].tabs) => list[i].win \in WinsOf(PurgedList(list))
         /\ ThrownAt(list) \in 0..Len(list)
         /\ ThrownAt(list) # 0 => ThrownAt(list) \in Unselected(list)
<1> DEFINE n == Len(list)
           from == ThrownAt(list)
           seen == [i \in DOMAIN list |-> IF i >= from THEN WithoutDomain(list[i]) ELSE list[i]]
           keep == {i \in DOMAIN seen : seen[i].tabs # <<>>}
           P == Kept(seen, keep)
<1>1. n \in Nat /\ DOMAIN list = 1..n /\ \A i \in 1..n : list[i] \in Sound
  BY SoundSeq
<1>2. PurgedList(list) = P BY DEF PurgedList, ThrownAt
<1>3. from \in 0..n /\ (from # 0 => from \in Unselected(list))
  <2> DEFINE U == Unselected(list)
  <2>1. U \subseteq 1..n BY <1>1 DEF Unselected
  <2> HIDE DEF U
  <2>2. {0} \cup U \in SUBSET Nat /\ {0} \cup U # {} /\ \A k \in {0} \cup U : k <= n
    BY <1>1, <2>1
  <2>3. Max({0} \cup U) \in {0} \cup U BY <1>1, <2>2, MaxOfSet
  <2> QED BY <1>1, <2>1, <2>3 DEF ThrownAt, U
<1> HIDE DEF n, from
<1>4. ASSUME NEW i \in 1..n
      PROVE  /\ seen[i] \in Entries /\ seen[i].win = list[i].win
             /\ FALSE \in ToSet(list[i].tabs) => seen[i].tabs # <<>>
  <2>1. seen[i] = WithoutDomain(list[i]) \/ seen[i] = list[i] BY <1>1
  <2>2. list[i] \in Sound BY <1>1
  <2> HIDE DEF seen
  <2>3. CASE seen[i] = list[i] BY <2>2, <2>3, SoundEntry
  <2>4. CASE seen[i] = WithoutDomain(list[i])
    BY <2>2, <2>4, WithoutDomainSound, WithoutDomainExact
  <2> QED BY <2>1, <2>3, <2>4
<1>5. seen \in Seq(Entries) /\ Len(seen) = n /\ DOMAIN seen = 1..n
  <2>1. seen = [i \in 1..n |-> seen[i]] BY <1>1
  <2> HIDE DEF seen
  <2>2. seen \in [1..n -> Entries] BY <1>4, <2>1
  <2> QED BY <1>1, <2>2, FunctionIsSeq
<1>6. /\ P \in Seq(Entries)
      /\ \E at \in [1..Len(P) -> keep \cap (1..n)] :
           /\ \A j, k \in DOMAIN at : j < k => at[j] < at[k]
           /\ \A i \in keep \cap (1..n) : \E k \in DOMAIN at : at[k] = i
           /\ \A k \in DOMAIN at : P[k] = seen[at[k]]
  <2> HIDE DEF seen, keep
  <2>1. seen \in Seq(Entries) /\ Len(seen) = n BY <1>5
  <2>2. P \in Seq(Entries) BY ONLY <2>1, KeptPlaces DEF P
  <2>3. PICK up \in [1..Len(P) -> keep \cap (1..Len(seen))] :
            /\ \A j, k \in DOMAIN up : j < k => up[j] < up[k]
            /\ \A i \in keep \cap (1..Len(seen)) : \E k \in DOMAIN up : up[k] = i
            /\ \A k \in DOMAIN up : P[k] = seen[up[k]]
    BY ONLY <2>1, KeptPlaces DEF P
  <2> HIDE DEF P
  <2> QED BY <2>1, <2>2, <2>3
<1>7. \A i \in 1..n : i \in keep <=> seen[i].tabs # <<>> BY <1>5
<1>8. \A i \in 1..n : seen[i] = IF i >= from THEN WithoutDomain(list[i]) ELSE list[i]
  BY <1>1
<1> HIDE DEF seen, keep, P
<1>9. PICK at \in [1..Len(P) -> keep \cap (1..n)] :
           /\ \A i \in keep \cap (1..n) : \E k \in DOMAIN at : at[k] = i
           /\ \A k \in DOMAIN at : P[k] = seen[at[k]]
  BY <1>6
<1>10. DOMAIN P = 1..Len(P) /\ DOMAIN at = 1..Len(P) BY <1>6, <1>9, LenProperties
<1>11. ASSUME NEW k \in DOMAIN P
       PROVE  \E i \in 1..n : P[k] = IF i >= from THEN WithoutDomain(list[i]) ELSE list[i]
  <2>1. at[k] \in 1..n /\ P[k] = seen[at[k]] BY <1>9, <1>10
  <2> QED BY <1>8, <2>1
<1>12. ASSUME NEW i \in 1..n, FALSE \in ToSet(list[i].tabs)
       PROVE  list[i].win \in WinsOf(P)
  <2>1. i \in keep BY <1>4, <1>7, <1>12
  <2>2. PICK k \in DOMAIN at : at[k] = i BY <1>9, <2>1
  <2>3. P[k] = seen[i] /\ k \in DOMAIN P BY <1>9, <1>10, <2>2
  <2>4. P[k].win = list[i].win BY <1>4, <2>3
  <2> QED BY <2>3, <2>4 DEF WinsOf
<1> QED BY <1>1, <1>2, <1>3, <1>11, <1>12 DEF n, from

\* onPurgeDomainData thins the list, whether it comes to its end or not.
LEMMA ThinsPurged ==
  ASSUME NEW list, list \in Seq(Sound)
  PROVE  Thins(PurgedList(list), list)
<1> DEFINE n == Len(list)
           from == Max({0} \cup Unselected(list))
           seen == [i \in DOMAIN list |-> IF i >= from THEN WithoutDomain(list[i]) ELSE list[i]]
           keep == {i \in DOMAIN seen : seen[i].tabs # <<>>}
           P == Kept(seen, keep)
           Within == {e \in Entries : e.win \notin Private /\ e.selected \in 0..Len(e.tabs)}
<1>1. n \in Nat /\ DOMAIN list = 1..n /\ \A i \in 1..n : list[i] \in Sound
  BY SoundSeq
<1>2. PurgedList(list) = P BY DEF PurgedList
<1> HIDE DEF n, from
<1>3. ASSUME NEW i \in 1..n
      PROVE  /\ seen[i] \in Within /\ seen[i].win = list[i].win
             /\ seen[i].flag = list[i].flag
  <2>1. seen[i] = WithoutDomain(list[i]) \/ seen[i] = list[i] BY <1>1
  <2>2. list[i] \in Sound BY <1>1
  <2> HIDE DEF seen
  <2>3. CASE seen[i] = list[i] BY <2>2, <2>3 DEF Sound
  <2>4. CASE seen[i] = WithoutDomain(list[i])
    <3> DEFINE e == list[i]
    <3>1. e \in Sound /\ e.win \notin Private BY <2>2 DEF Sound
    <3> HIDE DEF e
    <3>2. /\ WithoutDomain(e) \in Entries
          /\ WithoutDomain(e).win = e.win /\ WithoutDomain(e).flag = e.flag
          /\ WithoutDomain(e).selected \in 0..Len(WithoutDomain(e).tabs)
      BY <3>1, WithoutDomainSound
    <3> QED BY <2>4, <3>1, <3>2 DEF e
  <2> QED BY <2>1, <2>3, <2>4
<1>4. seen \in [1..n -> Within]
  <2>1. seen = [i \in 1..n |-> seen[i]] BY <1>1
  <2> HIDE DEF seen, Within
  <2> QED BY <1>3, <2>1
<1>5. seen \in Seq(Within) /\ Len(seen) = n /\ DOMAIN seen = 1..n
  <2> HIDE DEF seen, Within
  <2> QED BY <1>1, <1>4, FunctionIsSeq
<1>6. \A i \in keep : seen[i].tabs # <<>> OBVIOUS
<1> HIDE DEF seen, keep, P
<1>7. PICK at \in [1..Len(P) -> keep \cap (1..n)] :
          /\ \A j, k \in DOMAIN at : j < k => at[j] < at[k]
          /\ \A k \in DOMAIN at : P[k] = seen[at[k]]
  <2> HIDE DEF Within
  <2>1. seen \in Seq(Within) /\ Len(seen) = n BY <1>5
  <2>2. PICK up \in [1..Len(P) -> keep \cap (1..Len(seen))] :
            /\ \A j, k \in DOMAIN up : j < k => up[j] < up[k]
            /\ \A i \in keep \cap (1..Len(seen)) : \E k \in DOMAIN up : up[k] = i
            /\ \A k \in DOMAIN up : P[k] = seen[up[k]]
    BY ONLY <2>1, KeptPlaces DEF P
  <2> HIDE DEF P
  <2> QED BY <2>1, <2>2
<1>8. P \in Seq(Within)
  <2> HIDE DEF Within
  <2> QED BY <1>5, KeptPlaces DEF P
<1>9. Len(P) \in Nat /\ DOMAIN P = 1..Len(P) /\ DOMAIN at = 1..Len(P)
  BY <1>7, <1>8, LenProperties
<1>10. ASSUME NEW k \in 1..Len(P)
       PROVE  /\ P[k] \in Sound /\ at[k] \in 1..n
              /\ P[k].win = list[at[k]].win /\ P[k].flag = list[at[k]].flag
  <2>1. at[k] \in keep /\ at[k] \in 1..n BY <1>7
  <2>2. P[k] = seen[at[k]] BY <1>7, <1>9
  <2> QED BY <1>3, <1>6, <2>1, <2>2 DEF Sound
<1>11. P \in Seq(Sound)
  <2>1. P \in [1..Len(P) -> Within] BY <1>8, LenProperties
  <2>2. P \in [1..Len(P) -> Sound] BY <1>10, <2>1
  <2> QED BY <1>9, <2>2, FunctionIsSeq
<1>12. at \in [DOMAIN P -> DOMAIN list] BY <1>1, <1>7, <1>9
<1>13. ThinsBy(P, list, at) BY <1>7, <1>9, <1>10, <1>12 DEF ThinsBy
<1> QED BY <1>2, <1>11, <1>13 DEF Thins
-----------------------------------------------------------------------------
\* The names of b entries after the first a.
LEMMA Segment ==
  ASSUME NEW list, list \in Seq(Sound), Distinct(list),
         NEW a \in Nat, NEW b \in Nat, a + b <= Len(list),
         NEW q, q = [i \in 1..b |-> list[a + i].win]
  PROVE  /\ q \in Seq(Windows) /\ IsInjective(q)
         /\ ToSet(q) = {list[i].win : i \in a + 1..a + b}
         /\ ToSet(q) \cap Private = {} /\ ToSet(q) \subseteq WinsOf(list)
<1> DEFINE n == Len(list)
<1>1. n \in Nat /\ DOMAIN list = 1..n /\ \A i \in 1..n : list[i] \in Sound
  BY SoundSeq
<1>2. a + b <= n OBVIOUS
<1> HIDE DEF n
<1>3. \A i \in 1..b : a + i \in 1..n /\ a + i \in a + 1..a + b /\ q[i] = list[a + i].win
  BY <1>1, <1>2
<1>4. \A i \in 1..n : list[i].win \in Windows \ Private BY <1>1, SoundEntry
<1>5. q \in [1..b -> Windows] BY <1>3, <1>4
<1>6. q \in Seq(Windows) /\ DOMAIN q = 1..b BY <1>5, FunctionIsSeq
<1>7. ASSUME NEW i \in 1..b, NEW j \in 1..b, q[i] = q[j] PROVE i = j
  <2>1. a + i = a + j BY <1>1, <1>3, <1>7 DEF Distinct
  <2> QED BY <2>1
<1>8. IsInjective(q) BY <1>6, <1>7 DEF IsInjective
<1>9. ToSet(q) = {list[i].win : i \in a + 1..a + b}
  <2>1. ASSUME NEW i \in a + 1..a + b PROVE list[i].win \in ToSet(q)
    <3>1. i - a \in 1..b /\ a + (i - a) = i OBVIOUS
    <3> QED BY <3>1, <1>3, <1>6 DEF ToSet
  <2>2. \A x \in ToSet(q) : x \in {list[i].win : i \in a + 1..a + b}
    BY <1>3, <1>6 DEF ToSet
  <2> QED BY <2>1, <2>2
<1>10. \A i \in a + 1..a + b : i \in 1..n BY <1>1, <1>2
<1>11. ToSet(q) \cap Private = {} /\ ToSet(q) \subseteq WinsOf(list)
  BY <1>1, <1>4, <1>9, <1>10 DEF WinsOf
<1> QED BY <1>6, <1>8, <1>9, <1>11

\* What is saved of the lists: no private window, every window once, on a quit
\* the latest closed windows down to one that is no popup if none is open, and
\* besides them only flagged ones.
SavesWell(s, list, quit) ==
  /\ s.windows \in Seq(Windows) /\ s.closed \in Seq(Windows) /\ s.unflagged \in Nat
  /\ (ToSet(s.windows) \cup ToSet(s.closed)) \cap Private = {}
  /\ ToSet(s.windows) \cap ToSet(s.closed) = {}
  /\ IsInjective(s.windows) /\ IsInjective(s.closed)
  /\ ~(ToSet(open) \subseteq Popups) =>
        \A w \in ToSet(s.windows) :
           w \in ToSet(open) \/ \E i \in DOMAIN list : list[i].win = w /\ list[i].flag
  /\ (quit /\ ToSet(open) \cap Private = {} /\ NotPopup(list) # {})
        => ToSet(s.windows) \ Popups # {}

\* saveState does so for any list that has every window once.
LEMMA SavedStateWell ==
  ASSUME NEW list, list \in Seq(Sound), Distinct(list), NEW quit,
         open \in Seq(Windows), IsInjective(open), ToSet(open) \cap WinsOf(list) = {}
  PROVE  SavesWell(SavedState(list, quit), list, quit)
<1> DEFINE n == Len(list)
           normal == NotPopup(list)
           taken == IF quit /\ ToSet(open) \subseteq Popups
                    THEN IF normal = {} THEN Len(list) ELSE Min(normal)
                    ELSE 0
           left == SubSeq(list, taken + 1, Len(list))
           first == [i \in 1..taken |-> list[i].win]
           wins == Reverse(first) \o PublicOf(open)
           stop == Max({0} \cup {i \in DOMAIN left : ~left[i].flag})
           back == SubSeq(left, stop + 1, Len(left))
           backs == [i \in DOMAIN back |-> back[i].win]
           rest == [i \in 1..stop |-> left[i].win]
           s == SavedState(list, quit)
<1>1. n \in Nat /\ DOMAIN list = 1..n /\ \A i \in 1..n : list[i] \in Sound
  BY SoundSeq
<1>2. s = [windows |-> backs \o wins, closed |-> rest, unflagged |-> Len(back)]
  BY DEF SavedState
<1>3. normal \subseteq 1..n /\ normal \in SUBSET Nat BY <1>1 DEF NotPopup
<1>4. /\ taken \in 0..n
      /\ (quit /\ ToSet(open) \subseteq Popups /\ normal # {}) => taken \in normal
      /\ ~(ToSet(open) \subseteq Popups) => taken = 0
  <2> HIDE DEF normal
  <2>1. normal # {} => Min(normal) \in normal BY <1>3, MinOfSet
  <2>2. normal # {} => Min(normal) \in 1..n BY <1>3, <2>1
  <2> QED BY <1>1, <2>1, <2>2
<1> HIDE DEF s, taken
<1>5. /\ left \in Seq(Sound) /\ Len(left) = n - taken
      /\ \A i \in 1..n - taken : left[i] = list[taken + i]
  <2>1. /\ taken + 1 \in Int /\ n \in Int /\ (n - (taken + 1)) + 1 = n - taken
        /\ \A i \in taken + 1..n : list[i] \in Sound
        /\ ~(taken + 1 <= n) => n - taken = 0
    <3>1. taken \in 0..n /\ n \in Nat BY <1>1, <1>4
    <3> HIDE DEF n, left
    <3>2. \A i \in taken + 1..n : i \in 1..n BY <3>1
    <3>3. \A i \in taken + 1..n : list[i] \in Sound BY <1>1, <3>2
    <3> QED BY <3>1, <3>3
  <2>2. left = SubSeq(list, taken + 1, n) OBVIOUS
  <2> HIDE DEF left, n
  <2>3. /\ left \in Seq(Sound)
        /\ Len(left) = IF taken + 1 <= n THEN (n - (taken + 1)) + 1 ELSE 0
        /\ \A i \in 1..(n - (taken + 1)) + 1 : left[i] = list[((taken + 1) + i) - 1]
    BY <2>1, <2>2, SubSeqProperties
  <2>4. \A i \in 1..n - taken : ((taken + 1) + i) - 1 = taken + i BY <1>4
  <2> QED BY <2>1, <2>3, <2>4
<1> DEFINE m == n - taken
<1>6. m \in Nat /\ DOMAIN left = 1..m BY <1>1, <1>4, <1>5, SoundSeq
<1> HIDE DEF left
<1>7. stop \in 0..m /\ \A i \in stop + 1..m : left[i].flag
  <2> DEFINE S == {0} \cup {i \in DOMAIN left : ~left[i].flag}
  <2>1. S \in SUBSET Nat /\ S # {} /\ \A k \in S : k <= m BY <1>6
  <2>2. Max(S) \in S /\ \A k \in S : k <= Max(S) BY <1>6, <2>1, MaxOfSet
  <2>3. stop = Max(S) OBVIOUS
  <2>4. stop \in 0..m BY <1>6, <2>2
  <2> HIDE DEF stop
  <2>5. ASSUME NEW i \in stop + 1..m PROVE left[i].flag
    <3>1. i \in 1..m /\ ~(i <= stop) BY <2>4
    <3> QED BY <3>1, <1>6, <2>2, <2>3
  <2> QED BY <2>4, <2>5
<1> HIDE DEF stop
<1>8. /\ back \in Seq(Sound) /\ Len(back) = m - stop
      /\ \A i \in 1..m - stop : back[i] = left[stop + i]
  <2>1. \A i \in stop + 1..m : left[i] \in Sound BY <1>5, <1>6, <1>7, SoundSeq
  <2>2. Len(left) = m BY <1>5
  <2> QED BY <1>6, <1>7, <2>1, <2>2, SubSeqProperties
<1>9. DOMAIN back = 1..m - stop BY <1>8, SoundSeq
<1> HIDE DEF back
<1>10. /\ first \in Seq(Windows) /\ IsInjective(first)
       /\ ToSet(first) = {list[i].win : i \in 1..taken}
       /\ ToSet(first) \cap Private = {} /\ ToSet(first) \subseteq WinsOf(list)
  <2>1. taken \in Nat /\ 0 \in Nat /\ 0 + taken <= Len(list) BY <1>1, <1>4
  <2>2. first = [i \in 1..taken |-> list[0 + i].win] OBVIOUS
  <2>3. 0 + 1 = 1 /\ 0 + taken = taken BY <2>1
  <2> HIDE DEF first
  <2> QED BY <2>1, <2>2, <2>3, Segment
<1>11. /\ rest \in Seq(Windows) /\ IsInjective(rest)
       /\ ToSet(rest) = {list[i].win : i \in taken + 1..taken + stop}
       /\ ToSet(rest) \cap Private = {} /\ ToSet(rest) \subseteq WinsOf(list)
  <2>1. taken \in Nat /\ stop \in Nat /\ taken + stop <= Len(list) BY <1>1, <1>4, <1>7
  <2>2. rest = [i \in 1..stop |-> list[taken + i].win]
    <3>1. \A i \in 1..stop : i \in 1..m BY <1>6, <1>7
    <3> QED BY <3>1, <1>5
  <2> HIDE DEF rest
  <2> QED BY <2>1, <2>2, Segment
<1>12. /\ backs \in Seq(Windows) /\ IsInjective(backs)
       /\ ToSet(backs) = {list[i].win : i \in taken + stop + 1..n}
       /\ ToSet(backs) \cap Private = {} /\ ToSet(backs) \subseteq WinsOf(list)
  <2>1. /\ taken + stop \in Nat /\ m - stop \in Nat
        /\ (taken + stop) + (m - stop) = n /\ n <= Len(list)
    BY <1>1, <1>4, <1>6, <1>7
  <2>2. \A i \in 1..m - stop : back[i] = list[(taken + stop) + i]
    <3> TAKE i \in 1..m - stop
    <3>1. stop + i \in 1..m /\ taken + (stop + i) = (taken + stop) + i
      BY <1>4, <1>6, <1>7
    <3> QED BY <3>1, <1>5, <1>8
  <2>3. backs = [i \in 1..m - stop |-> list[(taken + stop) + i].win] BY <1>9, <2>2
  <2> DEFINE a == taken + stop
             b == m - stop
  <2>4. /\ a \in Nat /\ b \in Nat /\ a + b <= Len(list) /\ a + b = n
        /\ backs = [i \in 1..b |-> list[a + i].win] /\ a + 1 = taken + stop + 1
    BY <2>1, <2>3
  <2> HIDE DEF backs, m, a, b, n
  <2>5. /\ backs \in Seq(Windows) /\ IsInjective(backs)
        /\ ToSet(backs) = {list[i].win : i \in a + 1..a + b}
        /\ ToSet(backs) \cap Private = {} /\ ToSet(backs) \subseteq WinsOf(list)
    BY <2>4, Segment
  <2> QED BY <2>4, <2>5
<1> HIDE DEF first, rest, backs
<1>13. /\ PublicOf(open) \in Seq(Windows) /\ IsInjective(PublicOf(open))
       /\ ToSet(PublicOf(open)) = {w \in ToSet(open) : w \notin Private}
  <2> DEFINE keep == {i \in DOMAIN open : open[i] \notin Private}
  <2>1. open \in Seq(Windows) OBVIOUS
  <2>2. /\ Kept(open, keep) \in Seq(Windows) /\ IsInjective(Kept(open, keep))
        /\ ToSet(Kept(open, keep)) = {open[i] : i \in keep \cap DOMAIN open}
    <3> HIDE DEF keep
    <3> QED BY <2>1, KeptElements
  <2>3. {open[i] : i \in keep \cap DOMAIN open} = {w \in ToSet(open) : w \notin Private}
    BY DEF ToSet
  <2>4. PublicOf(open) = Kept(open, keep) BY DEF PublicOf
  <2> QED BY <2>2, <2>3, <2>4
<1> DEFINE pub == PublicOf(open)
<1> HIDE DEF pub
<1>14. /\ wins \in Seq(Windows) /\ IsInjective(wins)
       /\ ToSet(wins) = ToSet(first) \cup ToSet(pub)
  <2>1. /\ Reverse(first) \in Seq(Windows) /\ IsInjective(Reverse(first))
        /\ ToSet(Reverse(first)) = ToSet(first)
    BY <1>10, ReverseElements
  <2>2. ToSet(first) \cap ToSet(pub) = {} BY <1>10, <1>13 DEF pub
  <2>3. wins = Reverse(first) \o pub BY DEF pub
  <2> HIDE DEF wins
  <2> QED BY <2>1, <2>2, <2>3, <1>13, ConcatElements DEF pub
<1>15. ASSUME NEW i \in 1..n, NEW j \in 1..n, list[i].win = list[j].win PROVE i = j
  BY <1>1, <1>15 DEF Distinct
<1>16. /\ \A i \in 1..taken : i \in 1..n
       /\ \A i \in taken + 1..taken + stop : i \in 1..n /\ ~(i <= taken)
       /\ \A i \in taken + stop + 1..n : i \in 1..n /\ ~(i <= taken) /\ ~(i <= taken + stop)
  BY <1>1, <1>4, <1>6, <1>7
<1>17. /\ ToSet(first) \cap ToSet(rest) = {} /\ ToSet(first) \cap ToSet(backs) = {}
       /\ ToSet(rest) \cap ToSet(backs) = {}
  <2>1. ASSUME NEW i \in 1..taken, NEW j \in taken + 1..taken + stop
        PROVE  list[i].win # list[j].win
    <3>1. i # j BY <1>16
    <3> QED BY <3>1, <1>15, <1>16
  <2>2. ASSUME NEW i \in 1..taken, NEW j \in taken + stop + 1..n
        PROVE  list[i].win # list[j].win
    <3>1. i # j BY <1>16
    <3> QED BY <3>1, <1>15, <1>16
  <2>3. ASSUME NEW i \in taken + 1..taken + stop, NEW j \in taken + stop + 1..n
        PROVE  list[i].win # list[j].win
    <3>1. i # j BY <1>16
    <3> QED BY <3>1, <1>15, <1>16
  <2> QED BY <2>1, <2>2, <2>3, <1>10, <1>11, <1>12
<1>18. /\ backs \o wins \in Seq(Windows) /\ IsInjective(backs \o wins)
       /\ ToSet(backs \o wins) = ToSet(backs) \cup (ToSet(first) \cup ToSet(pub))
  <2> HIDE DEF wins
  <2>1. ToSet(backs) \cap ToSet(wins) = {}
    BY <1>12, <1>13, <1>14, <1>17 DEF pub
  <2> QED BY <2>1, <1>12, <1>14, ConcatElements, SMTT(30)
<1>19. /\ s.windows = backs \o wins /\ s.closed = rest /\ s.unflagged = m - stop
  BY <1>2, <1>8
<1> HIDE DEF wins
<1>20. (ToSet(s.windows) \cup ToSet(s.closed)) \cap Private = {}
  BY <1>10, <1>11, <1>12, <1>13, <1>18, <1>19 DEF pub
<1>21. ToSet(s.windows) \cap ToSet(s.closed) = {}
  BY <1>11, <1>13, <1>17, <1>18, <1>19 DEF pub
<1>22. ASSUME ~(ToSet(open) \subseteq Popups), NEW w \in ToSet(s.windows)
       PROVE  w \in ToSet(open) \/ \E i \in DOMAIN list : list[i].win = w /\ list[i].flag
  <2>1. taken = 0 BY <1>4, <1>22
  <2>2. ToSet(first) = {} BY <1>10, <2>1
  <2>3. CASE w \in ToSet(backs)
    <3>1. PICK i \in taken + stop + 1..n : list[i].win = w BY <2>3, <1>12
    <3>2. i \in 1..n /\ i \in stop + 1..m BY <2>1, <1>1, <1>6, <1>7, <3>1
    <3>3. left[i].flag /\ left[i] = list[taken + i] /\ taken + i = i
      BY <2>1, <3>2, <1>5, <1>6, <1>7
    <3> QED BY <3>1, <3>2, <3>3, <1>1
  <2>4. CASE w \in ToSet(pub) BY <2>4, <1>13 DEF pub
  <2> QED BY <2>2, <2>3, <2>4, <1>18, <1>19, <1>22
<1>23. ASSUME quit, ToSet(open) \cap Private = {}, normal # {}
       PROVE  ToSet(s.windows) \ Popups # {}
  <2>1. CASE ToSet(open) \subseteq Popups
    <3>1. taken \in normal BY <1>4, <1>23, <2>1
    <3>2. taken \in 1..taken /\ list[taken].win \notin Popups BY <3>1, <1>3 DEF normal, NotPopup
    <3>3. list[taken].win \in ToSet(first) BY <3>2, <1>10
    <3> QED BY <3>2, <3>3, <1>18, <1>19
  <2>2. CASE ~(ToSet(open) \subseteq Popups)
    <3>1. PICK w \in ToSet(open) : w \notin Popups BY <2>2
    <3>2. w \in ToSet(pub) BY <3>1, <1>13, <1>23 DEF pub
    <3> QED BY <3>1, <3>2, <1>18, <1>19
  <2> QED BY <2>1, <2>2
<1>24. s.unflagged \in Nat BY <1>6, <1>7, <1>19
<1> HIDE DEF m, normal, n
<1>25. SavesWell(s, list, quit)
  BY <1>11, <1>18, <1>19, <1>20, <1>21, <1>22, <1>23, <1>24 DEF SavesWell, normal
<1> QED BY <1>25 DEF s
-----------------------------------------------------------------------------
\* The invariant holds at the start.
LEMMA Initial == Init => IInv
<1> SUFFICES ASSUME Init PROVE IInv OBVIOUS
<1>1. PICK w \in Windows \ Popups : open = <<w>> BY DEF Init
<1>2. open \in Seq(Windows) /\ IsInjective(open)
  <2>1. open \in [1..1 -> Windows] BY <1>1
  <2>2. open \in Seq(Windows) /\ DOMAIN open = 1..1 BY <2>1, FunctionIsSeq
  <2> QED BY <2>2 DEF IsInjective
<1>3. closed = <<>> /\ DOMAIN closed = {} BY DEF Init
<1>4. ListInv
  <2>1. closed \in Seq(Sound) BY <1>3
  <2>2. Len(closed) = 0 BY <1>3
  <2>3. maxUndo \in Nat BY ConstantsAssumption DEF Init
  <2>4. CapHolds(closed, maxUndo) BY <2>2, <2>3 DEF CapHolds
  <2> QED BY <1>3, <2>1, <2>4 DEF ListInv, Distinct, FlagsIn, WinsOf
<1>5. FileInv BY DEF Init, FileInv
<1> QED BY <1>2, <1>4, <1>5 DEF Init, IInv, NormalWindowRestored, EarlierNotRestored

\* A list thins itself.
LEMMA SameList ==
  ASSUME NEW list \in Seq(Sound)
  PROVE  Thins(list, list)
BY SoundSeq, ThinsInPlace

\* A thinner list of closed windows is still a good one.
LEMMA ThinnedStep ==
  ASSUME ListInv, NEW new, Thins(new, closed), maxUndo \in Nat
  PROVE  /\ new \in Seq(Sound) /\ Distinct(new) /\ CapHolds(new, maxUndo)
         /\ FlagsIn(new, series \cap WinsOf(new)) /\ FlagsIn(new, series)
         /\ WinsOf(new) \subseteq WinsOf(closed)
<1>1. closed \in Seq(Sound) BY DEF ListInv
<1>2. /\ new \in Seq(Sound) /\ Distinct(new) /\ CapHolds(new, maxUndo)
      /\ FlagsIn(new, series \cap WinsOf(new)) /\ WinsOf(new) \subseteq WinsOf(closed)
  BY <1>1, ThinnedList DEF ListInv
<1>3. FlagsIn(new, series) BY <1>2 DEF FlagsIn
<1> QED BY <1>2, <1>3

\* A save writes what FileInv says.
LEMMA FileStep ==
  ASSUME NEW s, NEW list, NEW quit, SavesWell(s, list, quit),
         file' = [windows |-> s.windows, closed |-> s.closed]
  PROVE  FileInv'
<1>1. file'.windows = s.windows /\ file'.closed = s.closed OBVIOUS
<1> QED BY <1>1 DEF FileInv, SavesWell

\* onLoad: a window is opened that was not known.
LEMMA OpenStep ==
  ASSUME IInv, NEW w \in Windows, OpenWindow(w)
  PROVE  IInv'
<1>1. /\ open' = Append(open, w) /\ w \notin ToSet(open) /\ w \notin WinsOf(closed)
      /\ open \in Seq(Windows) /\ IsInjective(open) /\ loadState' = "running"
  BY DEF OpenWindow, IInv
<1>2. open' \in Seq(Windows) /\ IsInjective(open') /\ ToSet(open') = ToSet(open) \cup {w}
  BY <1>1, AppendElements
<1>3. UNCHANGED <<closed, maxUndo, file, series>> BY DEF OpenWindow
<1>4. ListInv' BY <1>1, <1>2, <1>3 DEF IInv, ListInv, Distinct, CapHolds, FlagsIn, WinsOf
<1>5. FileInv' BY <1>3 DEF IInv, FileInv
<1> QED BY <1>1, <1>2, <1>3, <1>4, <1>5 DEF IInv, NormalWindowRestored, EarlierNotRestored

\* onClose: the closed window becomes the first entry, and the list is capped.
LEMMA CloseStep ==
  ASSUME IInv, NEW w \in Windows, NEW s \in Sessions, Close(w, s)
  PROVE  IInv'
<1> DEFINE e == [win |-> w, tabs |-> s.tabs, selected |-> s.selected, flag |-> TRUE]
           new == <<e>> \o closed
           set == series \cup {w}
<1>1. /\ w \in ToSet(open) /\ open \in Seq(Windows) /\ IsInjective(open)
      /\ loadState' = "running" /\ closed \in Seq(Sound) /\ Distinct(closed)
      /\ FlagsIn(closed, series) /\ CapHolds(closed, maxUndo)
      /\ ToSet(open) \cap WinsOf(closed) = {} /\ series \subseteq Windows
      /\ UNCHANGED <<maxUndo, file>>
      /\ series' = set \cap WinsOf(closed')
      /\ open' = Kept(open, {i \in DOMAIN open : open[i] # w})
  BY DEF Close, IInv, ListInv
<1>2. maxUndo \in Nat /\ maxUndo \in MaxUndos BY ConstantsAssumption DEF IInv
<1>3. /\ open' \in Seq(Windows) /\ IsInjective(open')
      /\ ToSet(open') = ToSet(open) \ {w}
  <2> DEFINE keep == {i \in DOMAIN open : open[i] # w}
  <2>1. open \in Seq(Windows) BY <1>1
  <2>2. /\ Kept(open, keep) \in Seq(Windows) /\ IsInjective(Kept(open, keep))
        /\ ToSet(Kept(open, keep)) = {open[i] : i \in keep \cap DOMAIN open}
    <3> HIDE DEF keep
    <3> QED BY <1>1, <2>1, KeptElements
  <2>3. {open[i] : i \in keep \cap DOMAIN open} = ToSet(open) \ {w} BY DEF ToSet
  <2> QED BY <1>1, <2>2, <2>3
<1>4. /\ closed' \in Seq(Sound) /\ Distinct(closed') /\ CapHolds(closed', maxUndo)
      /\ FlagsIn(closed', set \cap WinsOf(closed'))
      /\ WinsOf(closed') \subseteq WinsOf(closed) \cup {w}
  <2>1. CASE w \notin Private /\ s.worth
    <3>1. e \in Sound
      <4>1. s.tabs \in Seq(BOOLEAN) /\ s.selected \in DOMAIN s.tabs BY ConstantsAssumption
      <4>2. Len(s.tabs) \in Nat /\ DOMAIN s.tabs = 1..Len(s.tabs) BY <4>1, LenProperties
      <4>3. s.selected \in 0..Len(s.tabs) /\ s.selected \in Nat BY <4>1, <4>2
      <4>4. s.tabs # <<>>
        <5>1. Len(<<>>) = 0 OBVIOUS
        <5>2. Len(s.tabs) # 0 BY <4>1, <4>2
        <5> QED BY <5>1, <5>2, Zenon
      <4> QED BY <4>1, <4>3, <4>4, <2>1 DEF Sound, Entries
    <3> HIDE DEF e
    <3>2. /\ new \in Seq(Sound) /\ Len(new) = Len(closed) + 1 /\ new[1] = e
          /\ \A i \in 1..Len(closed) : new[i + 1] = closed[i]
      <4>1. Len(closed) \in Nat BY <1>1, SoundSeq
      <4>2. <<e>> \in Seq(Sound) /\ Len(<<e>>) = 1 /\ <<e>>[1] = e BY <3>1
      <4>3. /\ new \in Seq(Sound) /\ Len(new) = 1 + Len(closed)
            /\ \A i \in 1..1 + Len(closed) :
                 new[i] = IF i <= 1 THEN <<e>>[i] ELSE closed[i - 1]
        BY <1>1, <4>2, ConcatProperties
      <4> HIDE DEF new
      <4>4. \A i \in 1..Len(closed) :
              i + 1 \in 1..1 + Len(closed) /\ ~(i + 1 <= 1) /\ (i + 1) - 1 = i
        BY <4>1
      <4> QED BY <4>1, <4>2, <4>3, <4>4
    <3> HIDE DEF new
    <3> DEFINE n == Len(closed)
    <3>3. /\ n \in Nat /\ DOMAIN closed = 1..n /\ DOMAIN new = 1..n + 1
      BY <1>1, <3>2, SoundSeq
    <3> HIDE DEF n
    <3>4. \A i \in 1..n + 1 : i = 1 \/ (i - 1 \in 1..n /\ new[i] = closed[i - 1])
      <4> TAKE i \in 1..n + 1
      <4>1. i = 1 \/ (i - 1 \in 1..n /\ (i - 1) + 1 = i) BY <3>3
      <4> QED BY <4>1, <3>2 DEF n
    <3>5. e.win = w BY DEF e
    <3>6. \A i \in 1..n : closed[i].win # w BY <1>1, <3>3 DEF WinsOf
    <3>7. Distinct(new)
      <4>1. ASSUME NEW i \in 1..n + 1, NEW j \in 1..n + 1, new[i].win = new[j].win
            PROVE  i = j
        <5>1. CASE i = 1 /\ j = 1 BY <5>1
        <5>2. CASE i # 1 /\ j # 1
          <6>1. i - 1 = j - 1 BY <1>1, <3>3, <3>4, <4>1, <5>2 DEF Distinct
          <6> QED BY <6>1
        <5>3. CASE i = 1 /\ j # 1 BY <5>3, <4>1, <3>2, <3>4, <3>5, <3>6
        <5>4. CASE i # 1 /\ j = 1 BY <5>4, <4>1, <3>2, <3>4, <3>5, <3>6
        <5> QED BY <5>1, <5>2, <5>3, <5>4
      <4> QED BY <4>1, <3>3 DEF Distinct
    <3>8. FlagsIn(new, set)
      <4>1. ASSUME NEW i \in 1..n + 1, new[i].flag PROVE new[i].win \in set
        <5>1. CASE i = 1 BY <5>1, <3>2, <3>5
        <5>2. CASE i # 1 BY <5>2, <4>1, <1>1, <3>3, <3>4 DEF FlagsIn
        <5> QED BY <5>1, <5>2
      <4> QED BY <4>1, <3>3 DEF FlagsIn
    <3>9. WinsOf(new) \subseteq WinsOf(closed) \cup {w}
      <4>1. ASSUME NEW i \in 1..n + 1 PROVE new[i].win \in WinsOf(closed) \cup {w}
        <5>1. CASE i = 1 BY <5>1, <3>2, <3>5
        <5>2. CASE i # 1 BY <5>2, <3>3, <3>4 DEF WinsOf
        <5> QED BY <5>1, <5>2
      <4> QED BY <4>1, <3>3 DEF WinsOf
    <3>10. closed' = Capped(new, maxUndo) BY <2>1 DEF Close, new, e
    <3>11. Thins(closed', new) /\ CapHolds(closed', maxUndo)
      BY <1>2, <3>2, <3>10, ThinsCapped
    <3> HIDE DEF set
    <3> QED BY <3>2, <3>7, <3>8, <3>9, <3>11, ThinnedList
  <2>2. CASE ~(w \notin Private /\ s.worth)
    <3>1. closed' = closed BY <2>2 DEF Close
    <3>2. FlagsIn(closed, set \cap WinsOf(closed)) BY <1>1 DEF FlagsIn, WinsOf
    <3> QED BY <1>1, <3>1, <3>2
  <2> QED BY <2>1, <2>2
<1>5. ListInv' BY <1>1, <1>3, <1>4 DEF ListInv
<1>6. FileInv' BY <1>1 DEF IInv, FileInv
<1>7. series' \subseteq Windows BY <1>1
<1> QED BY <1>1, <1>2, <1>3, <1>5, <1>6, <1>7 DEF IInv, NormalWindowRestored, EarlierNotRestored

\* The steps that only thin the list, while the browser runs.
LEMMA ThinStep ==
  ASSUME IInv, Thins(closed', closed), maxUndo' = maxUndo,
         loadState' \in {"running", "quitting"},
         FlagsIn(closed', series'), series' \subseteq Windows,
         open' \in Seq(Windows), IsInjective(open'),
         ToSet(open') \cap WinsOf(closed') = {}, FileInv'
  PROVE  IInv'
<1>1. maxUndo \in Nat BY ConstantsAssumption DEF IInv
<1>2. closed' \in Seq(Sound) /\ Distinct(closed') /\ CapHolds(closed', maxUndo)
  BY <1>1, ThinnedStep DEF IInv
<1>3. ListInv' BY <1>2 DEF ListInv
<1> QED BY <1>3 DEF IInv, NormalWindowRestored, EarlierNotRestored

\* What those of them need that leave the open windows alone.
LEMMA ThinSameOpen ==
  ASSUME IInv, Thins(closed', closed), UNCHANGED <<maxUndo, open>>,
         loadState' \in {"running", "quitting"},
         FlagsIn(closed', series'), series' \subseteq Windows, FileInv'
  PROVE  IInv'
<1>1. maxUndo \in Nat BY ConstantsAssumption DEF IInv
<1>2. WinsOf(closed') \subseteq WinsOf(closed) BY <1>1, ThinnedStep DEF IInv
<1>3. ToSet(open') \cap WinsOf(closed') = {} BY <1>2 DEF IInv, ListInv
<1>4. open' \in Seq(Windows) /\ IsInjective(open') BY DEF IInv
<1> QED BY <1>3, <1>4, ThinStep

\* Nothing is written.
LEMMA SameFile ==
  ASSUME IInv, UNCHANGED file
  PROVE  FileInv'
BY DEF IInv, FileInv

\* _clearRestoringWindows after an event.
LEMMA HandleEventStep ==
  ASSUME IInv, HandleEvent
  PROVE  IInv'
<1>1. /\ closed' = Unflagged(closed) /\ series' = {} /\ loadState' = "running"
      /\ UNCHANGED <<open, maxUndo, file>> /\ closed \in Seq(Sound)
  BY DEF HandleEvent, IInv, ListInv
<1>2. Thins(closed', closed) /\ FlagsIn(closed', series') BY <1>1, ThinsUnflagged
<1> QED BY <1>1, <1>2, SameFile, ThinSameOpen

\* The preference changes, and the list is capped.
LEMMA SetMaxUndoStep ==
  ASSUME IInv, NEW n \in MaxUndos, SetMaxUndo(n)
  PROVE  IInv'
<1>1. /\ closed' = Capped(closed, n) /\ series' = series \cap WinsOf(closed')
      /\ loadState' = "running" /\ maxUndo' = n /\ UNCHANGED <<open, file>>
      /\ closed \in Seq(Sound) /\ n \in Nat /\ maxUndo \in Nat
  BY ConstantsAssumption DEF SetMaxUndo, IInv, ListInv
<1>2. Thins(closed', closed) /\ CapHolds(closed', n) BY <1>1, ThinsCapped
<1>3. /\ closed' \in Seq(Sound) /\ Distinct(closed') /\ FlagsIn(closed', series')
      /\ WinsOf(closed') \subseteq WinsOf(closed)
  BY <1>1, <1>2, ThinnedStep DEF IInv
<1>4. ListInv' BY <1>1, <1>2, <1>3 DEF IInv, ListInv
<1>5. FileInv' BY <1>1, SameFile
<1> QED BY <1>1, <1>4, <1>5 DEF IInv, NormalWindowRestored, EarlierNotRestored

\* The list without its entry i, and the series without the window of it.
LEMMA RemovedEntry ==
  ASSUME IInv, NEW i \in DOMAIN closed, closed' = RemoveAt(closed, i),
         series' = series \ {closed[i].win}
  PROVE  /\ Thins(closed', closed) /\ FlagsIn(closed', series')
         /\ series' \subseteq Windows
         /\ closed[i].win \in Windows /\ closed[i].win \notin ToSet(open)
         /\ closed[i].win \notin WinsOf(closed')
         /\ WinsOf(closed') \subseteq WinsOf(closed)
<1>1. closed \in Seq(Sound) /\ Distinct(closed) BY DEF IInv, ListInv
<1>2. Thins(closed', closed) /\ closed[i].win \notin WinsOf(closed')
  BY <1>1, ThinsRemoveAt
<1>3. maxUndo \in Nat BY ConstantsAssumption DEF IInv
<1>4. FlagsIn(closed', series) /\ WinsOf(closed') \subseteq WinsOf(closed)
  BY <1>2, <1>3, ThinnedStep DEF IInv
<1>5. FlagsIn(closed', series') BY <1>2, <1>4 DEF FlagsIn, WinsOf
<1>6. closed[i].win \in Windows BY <1>1, SoundSeq, SoundEntry
<1>7. closed[i].win \notin ToSet(open) BY DEF IInv, ListInv, WinsOf
<1> QED BY <1>2, <1>4, <1>5, <1>6, <1>7 DEF IInv

\* The entry becomes an open window.
LEMMA UndoCloseWindowStep ==
  ASSUME IInv, NEW i \in DOMAIN closed, UndoCloseWindow(i)
  PROVE  IInv'
<1> DEFINE w == closed[i].win
<1>1. /\ open' = Append(open, w) /\ closed' = RemoveAt(closed, i)
      /\ series' = series \ {w} /\ loadState' = "running"
      /\ UNCHANGED <<maxUndo, file>>
  BY DEF UndoCloseWindow
<1>2. /\ Thins(closed', closed) /\ FlagsIn(closed', series') /\ series' \subseteq Windows
      /\ w \in Windows /\ w \notin ToSet(open) /\ w \notin WinsOf(closed')
      /\ WinsOf(closed') \subseteq WinsOf(closed)
  BY <1>1, RemovedEntry
<1> HIDE DEF w
<1>3. /\ open' \in Seq(Windows) /\ IsInjective(open')
      /\ ToSet(open') = ToSet(open) \cup {w}
  BY <1>1, <1>2, AppendElements DEF IInv
<1>4. ToSet(open') \cap WinsOf(closed') = {} BY <1>2, <1>3 DEF IInv, ListInv
<1>5. FileInv' BY <1>1, SameFile
<1> QED BY <1>1, <1>2, <1>3, <1>4, <1>5, ThinStep

\* The entry goes.
LEMMA ForgetClosedWindowStep ==
  ASSUME IInv, NEW i \in DOMAIN closed, ForgetClosedWindow(i)
  PROVE  IInv'
<1>1. /\ closed' = RemoveAt(closed, i) /\ series' = series \ {closed[i].win}
      /\ loadState' = "running" /\ UNCHANGED <<open, maxUndo, file>>
  BY DEF ForgetClosedWindow
<1>2. Thins(closed', closed) /\ FlagsIn(closed', series') /\ series' \subseteq Windows
  BY <1>1, RemovedEntry
<1> QED BY <1>1, <1>2, SameFile, ThinSameOpen

\* A save while the browser runs.
LEMMA TimerSaveStep ==
  ASSUME IInv, TimerSave
  PROVE  IInv'
<1> DEFINE s == SavedState(closed, FALSE)
<1>1. /\ loadState' = "running" /\ UNCHANGED <<open, maxUndo, series>>
      /\ file' = [windows |-> s.windows, closed |-> s.closed]
      /\ closed' = AfterSave(closed, s.unflagged)
  BY DEF TimerSave, Save
<1>2. /\ closed \in Seq(Sound) /\ Distinct(closed) /\ open \in Seq(Windows)
      /\ IsInjective(open) /\ ToSet(open) \cap WinsOf(closed) = {}
  BY DEF IInv, ListInv
<1>3. SavesWell(s, closed, FALSE) BY ONLY <1>2, SavedStateWell
<1> HIDE DEF s
<1>4. Thins(closed', closed)
  <2>1. s.unflagged \in Nat BY <1>3 DEF SavesWell
  <2> QED BY <1>1, <1>2, <2>1, ThinsAfterSave
<1>5. maxUndo \in Nat BY ConstantsAssumption DEF IInv
<1>6. FlagsIn(closed', series') BY <1>1, <1>4, <1>5, ThinnedStep DEF IInv
<1>7. FileInv' BY <1>1, <1>3, FileStep
<1>8. series' \subseteq Windows BY <1>1 DEF IInv
<1> QED BY <1>1, <1>4, <1>6, <1>7, <1>8, ThinSameOpen

\* Thinning a thinned list.
LEMMA ThinsTwice ==
  ASSUME NEW a, NEW b, NEW c \in Seq(Sound), Thins(a, b), Thins(b, c)
  PROVE  Thins(a, c)
<1>1. a \in Seq(Sound) /\ b \in Seq(Sound) BY DEF Thins
<1>2. PICK f : ThinsBy(a, b, f) BY DEF Thins
<1>3. PICK g : ThinsBy(b, c, g) BY DEF Thins
<1> DEFINE h == [k \in DOMAIN a |-> g[f[k]]]
<1>4. /\ f \in [DOMAIN a -> DOMAIN b]
      /\ \A j, k \in DOMAIN a : j < k => f[j] < f[k]
      /\ \A k \in DOMAIN a : a[k].win = b[f[k]].win /\ (a[k].flag => b[f[k]].flag)
  BY <1>2 DEF ThinsBy
<1>5. /\ g \in [DOMAIN b -> DOMAIN c]
      /\ \A j, k \in DOMAIN b : j < k => g[j] < g[k]
      /\ \A k \in DOMAIN b : b[k].win = c[g[k]].win /\ (b[k].flag => c[g[k]].flag)
  BY <1>3 DEF ThinsBy
<1>6. h \in [DOMAIN a -> DOMAIN c] BY <1>4, <1>5
<1>7. ASSUME NEW k \in DOMAIN a
      PROVE  a[k].win = c[h[k]].win /\ (a[k].flag => c[h[k]].flag)
  <2>1. h[k] = g[f[k]] /\ f[k] \in DOMAIN b BY <1>4
  <2> QED BY <1>4, <1>5, <2>1, Zenon
<1>8. ASSUME NEW j \in DOMAIN a, NEW k \in DOMAIN a, j < k
      PROVE  h[j] < h[k]
  <2>1. h[k] = g[f[k]] /\ f[k] \in DOMAIN b /\ h[j] = g[f[j]] /\ f[j] \in DOMAIN b
    BY <1>4
  <2> QED BY <1>4, <1>5, <1>8, <2>1
<1> HIDE DEF h
<1>9. ThinsBy(a, c, h) BY <1>6, <1>7, <1>8 DEF ThinsBy
<1> QED BY <1>1, <1>9 DEF Thins

\* Both ends of onPurgeDomainData: it threw, or it saved and cleared the flags.
LEMMA PurgeDomainStep ==
  ASSUME IInv, PurgeDomain
  PROVE  IInv'
<1> DEFINE p == PurgedList(closed)
<1>1. /\ loadState' = "running" /\ UNCHANGED <<open, maxUndo>>
      /\ closed \in Seq(Sound) /\ open \in Seq(Windows) /\ IsInjective(open)
  BY DEF PurgeDomain, IInv, ListInv
<1>2. Thins(p, closed) BY ONLY <1>1, ThinsPurged
<1>3. maxUndo \in Nat BY ConstantsAssumption DEF IInv
<1>4. CASE Unselected(closed) # {}
  <2>1. closed' = p /\ series' = series \cap WinsOf(p) /\ UNCHANGED file
    BY <1>4 DEF PurgeDomain
  <2> HIDE DEF p
  <2>2. FlagsIn(closed', series') BY <1>2, <1>3, <2>1, ThinnedStep DEF IInv
  <2>3. Thins(closed', closed) /\ series' \subseteq Windows BY <1>2, <2>1 DEF IInv
  <2> QED BY <1>1, <2>1, <2>2, <2>3, SameFile, ThinSameOpen
<1>5. CASE ~(Unselected(closed) # {})
  <2> DEFINE s == SavedState(p, FALSE)
  <2>1. /\ file' = [windows |-> s.windows, closed |-> s.closed]
        /\ closed' = Unflagged(p) /\ series' = {}
    BY <1>5 DEF PurgeDomain
  <2> HIDE DEF p
  <2>2. p \in Seq(Sound) /\ Distinct(p) /\ WinsOf(p) \subseteq WinsOf(closed)
    BY <1>2, <1>3, ThinnedStep DEF IInv
  <2>3. ToSet(open) \cap WinsOf(p) = {} BY <2>2 DEF IInv, ListInv
  <2>4. SavesWell(s, p, FALSE) BY ONLY <1>1, <2>2, <2>3, SavedStateWell
  <2> HIDE DEF s
  <2>5. FileInv' BY <2>1, <2>4, FileStep
  <2>6. Thins(closed', p) /\ FlagsIn(closed', series') BY <2>1, <2>2, ThinsUnflagged
  <2>7. Thins(closed', closed) BY <1>1, <1>2, <2>6, ThinsTwice
  <2> QED BY <1>1, <2>1, <2>5, <2>6, <2>7, ThinSameOpen
<1> QED BY <1>4, <1>5

\* The list is emptied.
LEMMA PurgeHistoryStep ==
  ASSUME IInv, PurgeHistory
  PROVE  IInv'
<1>1. /\ closed' = <<>> /\ series' = {} /\ loadState' = "running"
      /\ UNCHANGED <<open, maxUndo, file>> /\ closed \in Seq(Sound)
  BY DEF PurgeHistory, IInv, ListInv
<1>2. /\ closed' \in Seq(Sound) /\ Len(closed') = 0 /\ DOMAIN closed' = {}
      /\ Len(closed) \in Nat
  BY <1>1, SoundSeq
<1>3. Thins(closed', closed)
  <2>1. Len(closed') <= Len(closed) BY <1>2
  <2> HIDE DEF PurgeHistory
  <2> QED BY ONLY <1>1, <1>2, <2>1, ThinsInPlace
<1>4. FlagsIn(closed', series') BY <1>2 DEF FlagsIn
<1> QED BY <1>1, <1>3, <1>4, SameFile, ThinSameOpen

\* The quit begins.
LEMMA QuitGrantedStep ==
  ASSUME IInv, QuitGranted
  PROVE  IInv'
<1>1. loadState' = "quitting" /\ UNCHANGED <<open, closed, maxUndo, file, series>>
  BY DEF QuitGranted
<1>2. ListInv' BY <1>1 DEF IInv, ListInv, Distinct, CapHolds, FlagsIn, WinsOf
<1>3. FileInv' BY <1>1, SameFile
<1> QED BY <1>1, <1>2, <1>3 DEF IInv, NormalWindowRestored, EarlierNotRestored

\* The save of the quit: what it restores is what SavesWell says.
LEMMA QuitSaveStep ==
  ASSUME IInv, QuitSave
  PROVE  IInv'
<1> DEFINE s == SavedState(closed, TRUE)
<1>1. /\ loadState' = "over" /\ UNCHANGED <<open, maxUndo, series>>
      /\ file' = [windows |-> s.windows, closed |-> s.closed]
      /\ closed' = AfterSave(closed, s.unflagged)
  BY DEF QuitSave, Save
<1>2. /\ closed \in Seq(Sound) /\ Distinct(closed) /\ open \in Seq(Windows)
      /\ IsInjective(open) /\ ToSet(open) \cap WinsOf(closed) = {}
      /\ FlagsIn(closed, series)
  BY DEF IInv, ListInv
<1>3. SavesWell(s, closed, TRUE) BY ONLY <1>2, SavedStateWell
<1> HIDE DEF s
<1>4. /\ Thins(closed', closed) /\ DOMAIN closed' = DOMAIN closed
      /\ \A i \in DOMAIN closed : closed'[i].win = closed[i].win
  <2>1. s.unflagged \in Nat BY <1>3 DEF SavesWell
  <2> QED BY <1>1, <1>2, <2>1, ThinsAfterSave
<1>5. maxUndo \in Nat BY ConstantsAssumption DEF IInv
<1>6. /\ closed' \in Seq(Sound) /\ Distinct(closed') /\ CapHolds(closed', maxUndo)
      /\ FlagsIn(closed', series) /\ WinsOf(closed') \subseteq WinsOf(closed)
  BY <1>4, <1>5, ThinnedStep DEF IInv
<1>7. ListInv' BY <1>1, <1>2, <1>6 DEF ListInv
<1>8. FileInv' BY <1>1, <1>3, FileStep
<1>9. file'.windows = s.windows BY <1>1
<1>10. NormalWindowRestored'
  <2>1. NotPopup(closed)' = NotPopup(closed) BY <1>4 DEF NotPopup
  <2> QED BY <1>1, <1>3, <1>9, <2>1 DEF NormalWindowRestored, SavesWell
<1>11. EarlierNotRestored'
  <2>1. ASSUME ~(ToSet(open) \subseteq Popups), NEW w \in ToSet(s.windows)
        PROVE  w \in ToSet(open) \cup series
    BY <1>2, <1>3, <2>1 DEF SavesWell, FlagsIn
  <2> QED BY <1>1, <1>9, <2>1 DEF EarlierNotRestored
<1> QED BY <1>1, <1>7, <1>8, <1>10, <1>11 DEF IInv

\* A purged list has the domain taken out.
LEMMA PurgedTaken ==
  ASSUME NEW c, c \in Seq(Sound)
  PROVE  TakenOut(c, PurgedList(c))
<1> DEFINE P == PurgedList(c)
           from == ThrownAt(c)
<1>1. /\ \A k \in DOMAIN P : \E i \in DOMAIN c :
            P[k] = IF i >= from THEN WithoutDomain(c[i]) ELSE c[i]
      /\ \A i \in DOMAIN c : FALSE \in ToSet(c[i].tabs) => c[i].win \in WinsOf(P)
      /\ from \in 0..Len(c) /\ (from # 0 => from \in Unselected(c))
  BY PurgedEntries
<1>2. Len(c) \in Nat /\ DOMAIN c = 1..Len(c) /\ \A i \in DOMAIN c : c[i] \in Sound
  BY SoundSeq
<1> HIDE DEF P, from
<1>3. ASSUME from # 0 PROVE from \in DOMAIN c /\ Throws(c[from])
  <2> DEFINE e == c[from]
  <2>1. /\ from \in DOMAIN c /\ WithoutDomain(e).tabs # <<>>
        /\ WithoutDomain(e).tabs # e.tabs /\ WithoutDomain(e).selected = 0
    BY <1>1, <1>3 DEF Unselected
  <2>2. e \in Sound BY <1>2, <2>1
  <2> HIDE DEF e
  <2>3. FALSE \in ToSet(e.tabs) /\ TRUE \in ToSet(e.tabs)
    BY <2>1, <2>2, WithoutDomainExact
  <2>4. e.tabs \in Seq(BOOLEAN) /\ e.selected \in Nat
    BY <2>2, SoundEntry, LenProperties
  <2>5. ToSet(e.tabs) \subseteq BOOLEAN
    <3>1. e.tabs \in [1..Len(e.tabs) -> BOOLEAN] BY <2>4, SeqIsFunction
    <3>2. ToSet(e.tabs) = {e.tabs[i] : i \in DOMAIN e.tabs} BY DEF ToSet
    <3> QED BY <3>1, <3>2
  <2>6. ToSet(e.tabs) = BOOLEAN BY <2>3, <2>5
  <2>7. Cardinality(LeftUpTo(e)) = 0 BY <2>1, <2>2, WithoutDomainExact
  <2>8. IsFiniteSet(LeftUpTo(e))
    <3>1. IsFiniteSet(1..e.selected) BY <2>4, FS_Interval
    <3> QED BY <3>1, FS_Subset DEF LeftUpTo
  <2>9. LeftUpTo(e) = {} BY <2>7, <2>8, FS_EmptySet
  <2> QED BY <2>1, <2>6, <2>9 DEF e, Throws
<1>4. ASSUME NEW k \in DOMAIN P
      PROVE  \E i \in DOMAIN c :
               /\ P[k].win = c[i].win
               /\ \/ Emptied(c[i], P[k])
                  \/ /\ P[k].tabs = c[i].tabs /\ P[k].selected = c[i].selected
                     /\ \E l \in i + 1..Len(c) : Throws(c[l])
  <2>1. PICK i \in DOMAIN c : P[k] = IF i >= from THEN WithoutDomain(c[i]) ELSE c[i]
    BY <1>1
  <2>2. CASE i >= from
    <3>1. P[k] = WithoutDomain(c[i]) /\ c[i] \in Sound BY <1>2, <2>1, <2>2
    <3>2. P[k].win = c[i].win /\ Emptied(c[i], P[k])
      BY <3>1, WithoutDomainSound, WithoutDomainExact DEF Emptied
    <3> QED BY <3>2
  <2>3. CASE ~(i >= from)
    <3>1. P[k] = c[i] /\ from \in i + 1..Len(c) /\ from # 0
      BY <1>1, <1>2, <2>1, <2>3
    <3> QED BY <1>3, <3>1
  <2> QED BY <2>2, <2>3
<1> QED BY <1>1, <1>4 DEF P, TakenOut

\* It stays so when the flags go.
LEMMA UnflaggedTaken ==
  ASSUME NEW c, NEW p, p \in Seq(Sound), TakenOut(c, p)
  PROVE  TakenOut(c, Unflagged(p))
<1> DEFINE u == Unflagged(p)
<1>1. DOMAIN u = DOMAIN p BY DEF Unflagged
<1>2. ASSUME NEW k \in DOMAIN p
      PROVE  u[k].win = p[k].win /\ u[k].tabs = p[k].tabs /\ u[k].selected = p[k].selected
  <2>1. u[k] = [p[k] EXCEPT !.flag = FALSE] BY DEF Unflagged
  <2>2. p[k] \in Entries BY SoundSeq, SoundEntry
  <2> QED BY <2>1, <2>2 DEF Entries
<1> HIDE DEF u
<1>3. WinsOf(u) = WinsOf(p) BY <1>1, <1>2 DEF WinsOf
<1>4. ASSUME NEW k \in DOMAIN u
      PROVE  \E i \in DOMAIN c :
               /\ u[k].win = c[i].win
               /\ \/ Emptied(c[i], u[k])
                  \/ /\ u[k].tabs = c[i].tabs /\ u[k].selected = c[i].selected
                     /\ \E l \in i + 1..Len(c) : Throws(c[l])
  <2>1. PICK i \in DOMAIN c :
           /\ p[k].win = c[i].win
           /\ \/ Emptied(c[i], p[k])
              \/ /\ p[k].tabs = c[i].tabs /\ p[k].selected = c[i].selected
                 /\ \E l \in i + 1..Len(c) : Throws(c[l])
    BY <1>1 DEF TakenOut
  <2>2. Emptied(c[i], p[k]) => Emptied(c[i], u[k]) BY <1>1, <1>2 DEF Emptied
  <2> QED BY <1>1, <1>2, <2>1, <2>2
<1> QED BY <1>3, <1>4 DEF u, TakenOut

\* Nothing changes.
LEMMA StutterStep ==
  ASSUME IInv, UNCHANGED vars
  PROVE  IInv'
<1>1. UNCHANGED <<loadState, open, closed, maxUndo, file, series>> BY DEF vars
<1>2. ListInv' BY <1>1 DEF IInv, ListInv, Distinct, CapHolds, FlagsIn, WinsOf
<1>3. FileInv' BY <1>1, SameFile
<1> QED BY <1>1, <1>2, <1>3
     DEF IInv, NormalWindowRestored, EarlierNotRestored, WinsOf, NotPopup

\* Every step keeps the invariant.
LEMMA NextStep == IInv /\ [Next]_vars => IInv'
<1> SUFFICES ASSUME IInv, [Next]_vars PROVE IInv' OBVIOUS
<1>1. ASSUME NEW w \in Windows, OpenWindow(w) PROVE IInv' BY <1>1, OpenStep
<1>2. ASSUME NEW w \in Windows, NEW s \in Sessions, Close(w, s) PROVE IInv'
  BY <1>2, CloseStep
<1>3. CASE HandleEvent BY <1>3, HandleEventStep
<1>4. ASSUME NEW n \in MaxUndos, SetMaxUndo(n) PROVE IInv' BY <1>4, SetMaxUndoStep
<1>5. ASSUME NEW i \in DOMAIN closed, UndoCloseWindow(i) PROVE IInv'
  BY <1>5, UndoCloseWindowStep
<1>6. ASSUME NEW i \in DOMAIN closed, ForgetClosedWindow(i) PROVE IInv'
  BY <1>6, ForgetClosedWindowStep
<1>7. CASE TimerSave BY <1>7, TimerSaveStep
<1>8. CASE PurgeDomain BY <1>8, PurgeDomainStep
<1>9. CASE PurgeHistory BY <1>9, PurgeHistoryStep
<1>10. CASE QuitGranted BY <1>10, QuitGrantedStep
<1>11. CASE QuitSave BY <1>11, QuitSaveStep
<1>12. CASE UNCHANGED vars BY <1>12, StutterStep
<1> QED BY <1>1, <1>2, <1>3, <1>4, <1>5, <1>6, <1>7, <1>8, <1>9, <1>10, <1>11, <1>12
     DEF Next

\* It holds in every reachable state.
LEMMA Invariance == Spec => []IInv
BY Initial, NextStep, PTL DEF Spec
-----------------------------------------------------------------------------
\* Every variable keeps its type, no window is open and closed at once, and no
\* closed window is without tabs (onClose, undoCloseWindow, onPurgeDomainData).
THEOREM ListTyped == Spec => []TypeOK
<1>1. ASSUME IInv PROVE TypeOK
  <2>1. closed \in Seq(Sound) BY <1>1 DEF IInv, ListInv
  <2>2. closed \in Seq(Entries)
    <3>1. \A i \in DOMAIN closed : closed[i] \in Entries BY <2>1, SoundSeq, SoundEntry
    <3>2. closed \in [1..Len(closed) -> Entries]
      BY <2>1, <3>1, SeqIsFunction, SoundSeq
    <3> QED BY <2>1, <3>2, SoundSeq, FunctionIsSeq
  <2>3. \A i \in DOMAIN closed : closed[i].tabs # <<>> BY <2>1, SoundSeq, SoundEntry
  <2> QED BY <1>1, <2>2, <2>3 DEF TypeOK, IInv, ListInv, FileInv
<1> QED BY <1>1, Invariance, PTL

\* Whatever tabs the closed windows have, a purge takes the domain out of all of
\* them, and each selection is the last tab left up to the old one: but for the
\* windows that were closed after one at which the loop throws.
THEOREM DomainTakenOut == Spec => DomainPurged
<1>1. ASSUME NEW c, c \in Seq(Sound) PROVE TakenOut(c, PurgedList(c))
  BY <1>1, PurgedTaken
<1>2. ASSUME NEW c, NEW p, p \in Seq(Sound), TakenOut(c, p)
      PROVE  TakenOut(c, Unflagged(p))
  BY <1>2, UnflaggedTaken
<1>3. ASSUME IInv, PurgeDomain PROVE TakenOut(closed, closed')
  <2>1. closed \in Seq(Sound) BY <1>3 DEF IInv, ListInv
  <2>2. closed' = PurgedList(closed) \/ closed' = Unflagged(PurgedList(closed))
    BY <1>3 DEF PurgeDomain
  <2>3. PurgedList(closed) \in Seq(Sound) BY <2>1, ThinsPurged DEF Thins
  <2> QED BY <1>1, <1>2, <2>1, <2>2, <2>3
<1>4. [Next]_vars /\ IInv => [PurgeDomain => TakenOut(closed, closed')]_vars BY <1>3
<1>5. Spec => [][PurgeDomain => TakenOut(closed, closed')]_vars
  BY <1>4, Invariance, PTL DEF Spec
<1> QED BY <1>5 DEF DomainPurged

\* No private window is remembered or saved (onClose, saveState).
THEOREM PrivateKeptOut == Spec => []PrivateNotSaved
<1>1. ASSUME IInv PROVE PrivateNotSaved
  <2>1. WinsOf(closed) \cap Private = {}
    BY <1>1, SoundSeq, SoundEntry DEF IInv, ListInv, WinsOf
  <2> QED BY <1>1, <2>1 DEF IInv, FileInv, PrivateNotSaved
<1> QED BY <1>1, Invariance, PTL

\* The list is as short as the preference says, but for popups before its last
\* window (_capClosedWindows).
THEOREM ListCapped == Spec => []CapRespected
<1>1. ASSUME IInv PROVE CapRespected
  BY <1>1 DEF IInv, ListInv, CapHolds, CapRespected
<1> QED BY <1>1, Invariance, PTL

\* A window is saved once, to be restored or as a closed one
\* (_getCurrentState, saveState).
THEOREM WindowSavedOnce == Spec => []SavedOnce
<1>1. ASSUME IInv PROVE SavedOnce BY <1>1 DEF IInv, FileInv, SavedOnce
<1> QED BY <1>1, Invariance, PTL

\* After a quit there is a window to restore that is no popup, if the session
\* had one (_getCurrentState).
THEOREM QuitKeepsNormalWindow == Spec => []NormalWindowRestored
<1>1. ASSUME IInv PROVE NormalWindowRestored BY <1>1 DEF IInv
<1> QED BY <1>1, Invariance, PTL

\* A quit restores only windows that were open, or closed in one go with it
\* (_clearRestoringWindows, saveState).
THEOREM QuitRestoresNoEarlier == Spec => []EarlierNotRestored
<1>1. ASSUME IInv PROVE EarlierNotRestored BY <1>1 DEF IInv
<1> QED BY <1>1, Invariance, PTL

\* A smaller preference leaves a window that is no popup, if there was one
\* (_capClosedWindows).
THEOREM CapSparesNormal == Spec => CapKeepsNormal
<1> DEFINE A == \A n \in MaxUndos :
                  SetMaxUndo(n) /\ NotPopup(closed) # {} => NotPopup(closed') # {}
<1>1. ASSUME IInv PROVE A
  <2> SUFFICES ASSUME NEW n \in MaxUndos, SetMaxUndo(n), NotPopup(closed) # {}
               PROVE  NotPopup(closed') # {}
    OBVIOUS
  <2>1. closed \in Seq(Sound) /\ n \in Nat /\ closed' = Capped(closed, n)
    BY <1>1, ConstantsAssumption DEF IInv, ListInv, SetMaxUndo
  <2> QED BY <2>1, ThinsCapped
<1>2. [Next]_vars /\ IInv => [A]_vars BY <1>1
<1> HIDE DEF A
<1>3. Spec => [][A]_vars BY <1>2, Invariance, PTL DEF Spec
<1> QED BY <1>3 DEF CapKeepsNormal, A
=============================================================================
