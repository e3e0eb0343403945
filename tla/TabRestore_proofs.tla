--------------------------- MODULE TabRestore_proofs ---------------------------
(***************************************************************************)
(* What TabRestore promises, for every number of tabs and windows.         *)
(*                                                                         *)
(* Typed is inductive and holds of all that may be called.  The other      *)
(* invariants need patience (Patient): no tab is selected or overwritten   *)
(* before the chain of timeouts has come to it, and of the API only        *)
(* setBrowserState is called.  Then Calm is inductive: the restoring state *)
(* is Sound (the counters count, the queue holds what waits, every load is *)
(* heard) and Fed (what is to be restored has its data), the calls that    *)
(* wait are about different tabs, all of them marked as waiting, and only  *)
(* open tabs are waiting or loading.  The limit of concurrent loads needs  *)
(* less: where no setBrowserState is called, Limited is inductive alone.   *)
(*                                                                         *)
(* An operation is first shown to do what it should to a restoring state;  *)
(* the loops of the code are recursive functions (Lists_proofs), followed  *)
(* by a set of states that their body does not leave.                      *)
(***************************************************************************)
EXTENDS TabRestore, Lists_proofs

-----------------------------------------------------------------------------
\* The queue and the operations of TabRestoreQueue.

Buckets == {"priority", "visible", "hidden"}
Queues == [priority : Seq(Tabs), visible : Seq(Tabs), hidden : Seq(Tabs)]

\* The restoring states.
Recs ==
  [st : [Tabs -> {"none", "needs", "restoring"}], data : SUBSET Tabs,
   history : SUBSET Tabs, queue : Queues, count : Nat,
   left : [Windows -> Int \cup {Unset}], on : SUBSET Windows,
   loads : SUBSET Tabs, asked : SUBSET Tabs]

\* The queue as a function of its buckets.
LEMMA QueueFields ==
  ASSUME NEW q, q \in Queues
  PROVE  /\ DOMAIN q = Buckets
         /\ \A b \in Buckets : q[b] \in Seq(Tabs)
         /\ \A b \in Buckets, s \in Seq(Tabs) :
              /\ [q EXCEPT ![b] = s] \in Queues
              /\ \A c \in Buckets : [q EXCEPT ![b] = s][c] = IF c = b THEN s ELSE q[c]
BY DEF Queues, Buckets

\* Tabs is a finite set of numbers, and every tab has a window.
LEMMA TabsFinite ==
  /\ IsFiniteSet(Tabs) /\ Tabs \in SUBSET Nat /\ TabCount \in Nat
  /\ \A t \in Tabs : Home[t] \in Windows /\ t \in TabsOf(Home[t])
  /\ \A S \in SUBSET Tabs : IsFiniteSet(S) /\ Cardinality(S) \in Nat
<1>1. TabCount \in Nat /\ Home \in [Tabs -> Windows] BY ConstantsAssumption
<1>2. IsFiniteSet(Tabs) BY <1>1, FS_Interval DEF Tabs
<1>3. \A S \in SUBSET Tabs : IsFiniteSet(S) /\ Cardinality(S) \in Nat
  BY <1>2, FS_Subset, FS_CardinalityType
<1>4. Tabs \in SUBSET Nat BY <1>1 DEF Tabs
<1> QED BY <1>1, <1>2, <1>3, <1>4 DEF TabsOf

\* A counter of restoreWindow stays one.
LEMMA OneLessTyped ==
  ASSUME NEW n \in Int \cup {Unset}
  PROVE  OneLess(n) \in Int \cup {Unset}
BY ConstantsAssumption DEF OneLess

\* Enqueue appends the tab to its bucket.
LEMMA EnqueueEffect ==
  ASSUME NEW x \in Recs, NEW t \in Tabs, NEW hid
  PROVE  \E q \in Queues :
           /\ Enqueue(x, t, hid) = [x EXCEPT !.queue = q]
           /\ Bucket(t, hid) \in Buckets
           /\ \A b \in Buckets :
                q[b] = IF b = Bucket(t, hid) THEN Append(x.queue[b], t) ELSE x.queue[b]
<1>1. PICK b \in Buckets : b = Bucket(t, hid)
  BY DEF Bucket, Buckets
<1>2. x.queue \in Queues BY DEF Recs
<1>3. x.queue[b] \in Seq(Tabs) BY <1>2, QueueFields
<1>4. PICK s \in Seq(Tabs) : s = Append(x.queue[b], t)
  <2>1. Append(x.queue[b], t) \in Seq(Tabs) BY <1>3, AppendElements
  <2> QED BY <2>1, Zenon
<1>5. PICK q : q = [x.queue EXCEPT ![b] = s] OBVIOUS
<1>6. q \in Queues /\ \A c \in Buckets : q[c] = IF c = b THEN s ELSE x.queue[c]
  BY <1>2, <1>5, QueueFields
<1>7. Enqueue(x, t, hid) = [x EXCEPT !.queue = q]
  BY <1>1, <1>4, <1>5 DEF Enqueue, Recs
<1> QED BY <1>1, <1>4, <1>6, <1>7

\* The bucket a tab belongs to.
InBucket(b, hid) ==
  IF b = "priority" THEN Pinned
  ELSE IF b = "hidden" THEN hid \ Pinned ELSE Tabs \ (hid \cup Pinned)

\* Every bucket has only tabs that belong to it, each once.
InOrder(q, hid) ==
  \A b \in Buckets : IsInjective(q[b]) /\ ToSet(q[b]) \subseteq InBucket(b, hid)

Entries(q) == UNION {ToSet(q[b]) : b \in Buckets}

\* An entry is in one of the buckets.
LEMMA EntriesOf ==
  ASSUME NEW q, NEW e
  PROVE  e \in Entries(q) <=> \E b \in Buckets : e \in ToSet(q[b])
BY DEF Entries

\* q is p without t, wholly so if p is in order.
WithoutTab(q, p, t, hid) ==
  /\ \A b \in Buckets : ToSet(q[b]) \subseteq ToSet(p[b])
  /\ InOrder(p, hid) => InOrder(q, hid) /\ Entries(q) = Entries(p) \ {t}

\* Dequeue takes a tab out of the queue, wholly out of one that is in order.
LEMMA DequeueEffect ==
  ASSUME NEW x \in Recs, NEW t \in Tabs, NEW hid
  PROVE  \E q \in Queues :
           /\ Dequeue(x, t, hid) = [x EXCEPT !.queue = q]
           /\ WithoutTab(q, x.queue, t, hid)
<1>1. PICK b \in Buckets :
        b = IF t \in ToSet(x.queue.priority) THEN "priority"
            ELSE IF t \in hid THEN "hidden" ELSE "visible"
  BY DEF Buckets
<1>2. x.queue \in Queues /\ [x EXCEPT !.queue = x.queue] = x BY DEF Recs
<1>3. x.queue[b] \in Seq(Tabs) BY <1>2, QueueFields
<1>4. ASSUME InOrder(x.queue, hid), NEW c \in Buckets, t \in ToSet(x.queue[c])
      PROVE  c = b
  BY <1>1, <1>4 DEF InOrder, InBucket, Buckets
<1>5. CASE t \in ToSet(x.queue[b])
  <2>1. PICK s \in Seq(Tabs) : s = RemoveFirst(x.queue[b], t)
    BY <1>3, <1>5, RemoveFirstElements
  <2>2. /\ ToSet(s) \subseteq ToSet(x.queue[b])
        /\ IsInjective(x.queue[b]) => IsInjective(s) /\ ToSet(s) = ToSet(x.queue[b]) \ {t}
    BY <2>1, <1>3, <1>5, RemoveFirstElements
  <2>3. PICK q : q = [x.queue EXCEPT ![b] = s] OBVIOUS
  <2>4. q \in Queues /\ \A c \in Buckets : q[c] = IF c = b THEN s ELSE x.queue[c]
    BY <1>2, <2>3, QueueFields
  <2>5. Dequeue(x, t, hid) = [x EXCEPT !.queue = q]
    <3>1. Dequeue(x, t, hid) = [x EXCEPT !.queue[b] = RemoveFirst(@, t)]
      BY <1>1, <1>5, Zenon DEF Dequeue
    <3> QED BY <3>1, <2>1, <2>3 DEF Recs
  <2>6. ASSUME InOrder(x.queue, hid)
        PROVE  \A c \in Buckets : IsInjective(q[c]) /\ ToSet(q[c]) = ToSet(x.queue[c]) \ {t}
    <3> TAKE c \in Buckets
    <3>1. IsInjective(x.queue[c]) BY <2>6 DEF InOrder
    <3>2. CASE c = b BY <3>1, <3>2, <2>2, <2>4
    <3>3. CASE c # b
      <4>1. t \notin ToSet(x.queue[c]) BY <3>3, <1>4, <2>6
      <4> QED BY <4>1, <3>1, <3>3, <2>4
    <3> QED BY <3>2, <3>3
  <2>7. ASSUME InOrder(x.queue, hid)
        PROVE  InOrder(q, hid) /\ Entries(q) = Entries(x.queue) \ {t}
    <3>1. \A c \in Buckets : IsInjective(q[c]) /\ ToSet(q[c]) = ToSet(x.queue[c]) \ {t}
      BY <2>6, <2>7
    <3>2. InOrder(q, hid) BY <3>1, <2>7 DEF InOrder
    <3>3. ASSUME NEW e
          PROVE  e \in Entries(q) <=> e \in Entries(x.queue) \ {t}
      <4>1. \A c \in Buckets : e \in ToSet(q[c]) <=> e \in ToSet(x.queue[c]) /\ e # t
        BY <3>1
      <4>2. e \in Entries(q) <=> \E c \in Buckets : e \in ToSet(q[c]) BY EntriesOf
      <4>3. e \in Entries(x.queue) <=> \E c \in Buckets : e \in ToSet(x.queue[c])
        BY EntriesOf
      <4> QED BY <4>1, <4>2, <4>3
    <3>4. Entries(q) = Entries(x.queue) \ {t} BY <3>3
    <3> QED BY <3>2, <3>4
  <2> QED BY <2>2, <2>4, <2>5, <2>7 DEF WithoutTab
<1>6. CASE t \notin ToSet(x.queue[b])
  <2>1. Dequeue(x, t, hid) = x BY <1>1, <1>6 DEF Dequeue
  <2>2. InOrder(x.queue, hid) => Entries(x.queue) = Entries(x.queue) \ {t}
    BY <1>4, <1>6 DEF Entries
  <2> QED BY <1>2, <2>1, <2>2 DEF WithoutTab
<1> QED BY <1>5, <1>6

\* The effect of Shifted.
LEMMA ShiftedEffect ==
  ASSUME NEW x \in Recs, MayRestoreNext(x)
  PROVE  \E b \in Buckets, q \in Queues :
           /\ b \in ShiftFrom(x) /\ x.queue[b] # <<>> /\ x.queue[b] \in Seq(Tabs)
           /\ NextTab(x) = Head(x.queue[b]) /\ NextTab(x) \in Tabs
           /\ NextTab(x) \in ToSet(x.queue[b])
           /\ Shifted(x) = [x EXCEPT !.queue = q]
           /\ \A c \in Buckets : q[c] = IF c = b THEN Tail(x.queue[b]) ELSE x.queue[c]
<1>1. PICK b \in ShiftFrom(x) : b = NextBucket(x)
  BY DEF MayRestoreNext, NextBucket
<1>2. b \in Buckets /\ x.queue[b] # <<>>
  <2>1. ShiftFrom(x) \subseteq {c \in Buckets : x.queue[c] # <<>>}
    BY DEF ShiftFrom, Buckets
  <2> QED BY <1>1, <2>1
<1>3. x.queue \in Queues BY DEF Recs
<1>4. x.queue[b] \in Seq(Tabs) BY <1>2, <1>3, QueueFields
<1>5. /\ Head(x.queue[b]) \in Tabs /\ Head(x.queue[b]) \in ToSet(x.queue[b])
  BY <1>2, <1>4, HeadTailElements
<1>6. PICK s \in Seq(Tabs) : s = Tail(x.queue[b])
  BY <1>2, <1>4, HeadTailElements
<1>7. PICK q : q = [x.queue EXCEPT ![b] = s] OBVIOUS
<1>8. q \in Queues /\ \A c \in Buckets : q[c] = IF c = b THEN s ELSE x.queue[c]
  BY <1>2, <1>3, <1>7, QueueFields
<1>9. Shifted(x) = [x EXCEPT !.queue = q] BY <1>1, <1>6, <1>7 DEF Shifted, Recs
<1>10. NextTab(x) = Head(x.queue[b]) BY <1>1 DEF NextTab
<1>11. /\ b \in ShiftFrom(x) /\ x.queue[b] # <<>> /\ x.queue[b] \in Seq(Tabs)
       /\ NextTab(x) = Head(x.queue[b]) /\ NextTab(x) \in Tabs
       /\ NextTab(x) \in ToSet(x.queue[b])
       /\ Shifted(x) = [x EXCEPT !.queue = q]
       /\ \A c \in Buckets : q[c] = IF c = b THEN Tail(x.queue[b]) ELSE x.queue[c]
  BY <1>1, <1>2, <1>4, <1>5, <1>6, <1>8, <1>9, <1>10
<1> QED BY <1>2, <1>8, <1>11, Zenon

-----------------------------------------------------------------------------
\* The fields restoreTab and _resetTabRestoringState change.

\* What Reset does to the fields of a restoring state.
ResetFields(y, x, t, hid) ==
  LET w == Home[t] IN
  /\ y.st = [x.st EXCEPT ![t] = "none"]
  /\ y.left = [x.left EXCEPT ![w] = OneLess(x.left[w])]
  /\ y.on = Unlistened(x.on, w, OneLess(x.left[w]))
  /\ y.count = IF x.st[t] = "restoring" THEN Released(x.count) ELSE x.count
  /\ y.data = x.data /\ y.loads = x.loads /\ y.asked = x.asked \ {t}
  /\ y.history = IF x.st[t] = "needs" THEN x.history \ {t} ELSE x.history
  /\ IF x.st[t] = "needs" THEN WithoutTab(y.queue, x.queue, t, hid)
                          ELSE y.queue = x.queue

\* _resetTabRestoringState: the fields it changes, and the others.
LEMMA ResetEffect ==
  ASSUME NEW x \in Recs, NEW t \in Tabs, NEW hid
  PROVE  Reset(x, t, hid) \in Recs /\ ResetFields(Reset(x, t, hid), x, t, hid)
<1>1. PICK w \in Windows : w = Home[t] BY TabsFinite
<1>2. PICK left \in Int \cup {Unset} : left = OneLess(x.left[w])
  <2>1. x.left[w] \in Int \cup {Unset} BY DEF Recs
  <2> QED BY <2>1, OneLessTyped
<1>3. PICK on \in SUBSET Windows : on = Unlistened(x.on, w, left)
  <2>1. x.on \in SUBSET Windows BY DEF Recs
  <2>2. Unlistened(x.on, w, left) \in SUBSET Windows BY <2>1 DEF Unlistened
  <2> QED BY <2>2, Zenon
<1>4. PICK y \in Recs : y = [x EXCEPT !.st[t] = "none", !.left[w] = left,
                                      !.on = on, !.asked = @ \ {t}]
  BY DEF Recs
<1>5. /\ y.st = [x.st EXCEPT ![t] = "none"] /\ y.left = [x.left EXCEPT ![w] = left]
      /\ y.on = on /\ y.asked = x.asked \ {t}
      /\ y.data = x.data /\ y.history = x.history /\ y.queue = x.queue
      /\ y.count = x.count /\ y.loads = x.loads
  BY <1>4 DEF Recs
<1>6. Reset(x, t, hid) =
        CASE x.st[t] = "restoring" -> [y EXCEPT !.count = Released(@)]
          [] x.st[t] = "needs" -> Dequeue([y EXCEPT !.history = @ \ {t}], t, hid)
          [] OTHER -> y
  BY <1>1, <1>2, <1>3, <1>4 DEF Reset
<1>7. CASE x.st[t] = "restoring"
  <2>1. Reset(x, t, hid) = [y EXCEPT !.count = Released(y.count)] BY <1>6, <1>7
  <2>2. Released(y.count) \in Nat BY DEF Released, Recs
  <2>3. [y EXCEPT !.count = Released(y.count)] \in Recs BY <2>2 DEF Recs
  <2>4. PICK z : z = Reset(x, t, hid) OBVIOUS
  <2>5. /\ z.st = y.st /\ z.left = y.left /\ z.on = y.on /\ z.asked = y.asked
        /\ z.data = y.data /\ z.history = y.history /\ z.queue = y.queue
        /\ z.loads = y.loads /\ z.count = Released(y.count)
    BY <2>1, <2>4 DEF Recs
  <2>6. ResetFields(z, x, t, hid) BY <1>1, <1>2, <1>3, <1>5, <1>7, <2>5 DEF ResetFields
  <2> QED BY <2>1, <2>3, <2>4, <2>6
<1>8. CASE x.st[t] = "needs"
  <2>1. PICK u \in Recs : u = [y EXCEPT !.history = y.history \ {t}] BY DEF Recs
  <2>2. PICK q \in Queues : /\ Dequeue(u, t, hid) = [u EXCEPT !.queue = q]
                            /\ WithoutTab(q, u.queue, t, hid)
    BY DequeueEffect
  <2>3. PICK z : z = Reset(x, t, hid) OBVIOUS
  <2>4. z = [u EXCEPT !.queue = q] BY <1>6, <1>8, <2>1, <2>2, <2>3
  <2>5. z \in Recs BY <2>4 DEF Recs
  <2>6. /\ z.st = y.st /\ z.left = y.left /\ z.on = y.on /\ z.asked = y.asked
        /\ z.data = y.data /\ z.history = y.history \ {t} /\ z.queue = q
        /\ z.loads = y.loads /\ z.count = y.count /\ u.queue = y.queue
    BY <2>1, <2>4 DEF Recs
  <2>7. ResetFields(z, x, t, hid)
    BY <1>1, <1>2, <1>3, <1>5, <1>8, <2>2, <2>6 DEF ResetFields
  <2> QED BY <2>3, <2>5, <2>7
<1>9. CASE x.st[t] = "none"
  <2>1. Reset(x, t, hid) = y BY <1>6, <1>9
  <2>2. ResetFields(y, x, t, hid) BY <1>1, <1>2, <1>3, <1>5, <1>9 DEF ResetFields
  <2> QED BY <2>1, <2>2
<1>10. x.st[t] \in {"none", "needs", "restoring"} BY DEF Recs
<1> QED BY <1>7, <1>8, <1>9, <1>10

\* What restoreTab does to the fields before it tries to load.
StartedFields(y, x, t, why, hid) ==
  /\ y.st = [x.st EXCEPT ![t] = "restoring"]
  /\ y.on = x.on \cup {Home[t]} /\ y.count = x.count + 1
  /\ y.history = x.history \ {t}
  /\ y.asked = IF why = "asked" THEN x.asked \cup {t} ELSE x.asked \ {t}
  /\ y.data = x.data /\ y.loads = x.loads /\ y.left = x.left
  /\ WithoutTab(y.queue, x.queue, t, hid)

\* restoreTab marks the tab, counts it and takes it out of the queue.
LEMMA StartedEffect ==
  ASSUME NEW x \in Recs, NEW t \in Tabs, NEW why, NEW hid
  PROVE  /\ Started(x, t, why, hid) \in Recs
         /\ StartedFields(Started(x, t, why, hid), x, t, why, hid)
<1>1. PICK w \in Windows : w = Home[t] BY TabsFinite
<1>2. PICK q \in Queues : /\ Dequeue(x, t, hid) = [x EXCEPT !.queue = q]
                          /\ WithoutTab(q, x.queue, t, hid)
  BY DequeueEffect
<1>3. PICK u \in Recs : u = [x EXCEPT !.queue = q] BY DEF Recs
<1>4. PICK asked \in SUBSET Tabs :
        asked = IF why = "asked" THEN u.asked \cup {t} ELSE u.asked \ {t}
  BY DEF Recs
<1>5. PICK z : z = Started(x, t, why, hid) OBVIOUS
<1>6. z = [u EXCEPT !.on = @ \cup {w}, !.count = @ + 1, !.st[t] = "restoring",
                    !.history = @ \ {t}, !.asked = asked]
  BY <1>1, <1>2, <1>3, <1>4, <1>5 DEF Started
<1>7. z \in Recs
  <2>1. PICK on \in SUBSET Windows : on = u.on \cup {w} BY DEF Recs
  <2>2. PICK n \in Nat : n = u.count + 1 BY DEF Recs
  <2>3. z = [u EXCEPT !.on = on, !.count = n, !.st[t] = "restoring",
                      !.history = @ \ {t}, !.asked = asked]
    BY <1>6, <2>1, <2>2
  <2> QED BY <2>3 DEF Recs
<1>8. /\ u.st = x.st /\ u.on = x.on /\ u.count = x.count /\ u.history = x.history
      /\ u.asked = x.asked /\ u.data = x.data /\ u.loads = x.loads
      /\ u.left = x.left /\ u.queue = q
  BY <1>3 DEF Recs
<1>9. /\ z.st = [u.st EXCEPT ![t] = "restoring"] /\ z.on = u.on \cup {w}
      /\ z.count = u.count + 1 /\ z.history = u.history \ {t} /\ z.asked = asked
      /\ z.data = u.data /\ z.loads = u.loads /\ z.left = u.left /\ z.queue = u.queue
  BY <1>6 DEF Recs
<1>10. StartedFields(z, x, t, why, hid)
  BY <1>1, <1>2, <1>4, <1>8, <1>9 DEF StartedFields
<1> QED BY <1>5, <1>7, <1>10

\* A load that starts changes one more field.
LEMMA LoadingEffect ==
  ASSUME NEW x \in Recs, NEW t \in Tabs, NEW why, NEW hid
  PROVE  \E y \in Recs :
           /\ StartedFields(y, x, t, why, hid)
           /\ Loading(x, t, why, hid) \in Recs
           /\ Loading(x, t, why, hid) = [y EXCEPT !.loads = x.loads \cup {t}]
<1>1. PICK y \in Recs : y = Started(x, t, why, hid) BY StartedEffect
<1>2. StartedFields(y, x, t, why, hid) BY <1>1, StartedEffect
<1>3. Loading(x, t, why, hid) = [y EXCEPT !.loads = x.loads \cup {t}]
  BY <1>1, <1>2 DEF Loading, StartedFields
<1>4. [y EXCEPT !.loads = x.loads \cup {t}] \in Recs BY DEF Recs
<1> QED BY <1>2, <1>3, <1>4

\* A tab that does not load leaves a restoring state.
LEMMA NotLoadingTyped ==
  ASSUME NEW x \in Recs, NEW t \in Tabs, NEW why, NEW hid
  PROVE  NotLoading(x, t, why, hid) \in Recs
BY StartedEffect, ResetEffect DEF NotLoading

\* So does every end of restoreTab.
LEMMA RestoreTyped ==
  ASSUME NEW x \in Recs, NEW t \in Tabs, NEW why, NEW hid
  PROVE  Restore(x, t, why, hid) \subseteq Recs
BY LoadingEffect, NotLoadingTyped, StartedEffect DEF Restore

\* shift takes a tab out of the queue.
LEMMA ShiftedTyped ==
  ASSUME NEW x \in Recs, MayRestoreNext(x)
  PROVE  Shifted(x) \in Recs /\ NextTab(x) \in Tabs
<1>1. PICK q \in Queues : Shifted(x) = [x EXCEPT !.queue = q] /\ NextTab(x) \in Tabs
  BY ShiftedEffect
<1>2. [x EXCEPT !.queue = q] \in Recs BY DEF Recs
<1> QED BY <1>1, <1>2

\* The states after one more tab that did not load.
LEMMA SkipTyped ==
  ASSUME NEW X \in SUBSET Recs, NEW hid
  PROVE  Skip(X, hid) \in SUBSET Recs
<1>1. ASSUME NEW x \in X, MayRestoreNext(x)
      PROVE  NotLoading(Shifted(x), NextTab(x), "turn", hid) \in Recs
  BY <1>1, ShiftedTyped, NotLoadingTyped
<1> QED BY <1>1 DEF Skip

\* Whatever restoreNextTab ends in starts from a state that only tabs that did
\* not load have led to.
LEMMA RestoreNextRuns ==
  ASSUME NEW x \in Recs, NEW hid, NEW G \in SUBSET Recs, x \in G,
         \A y \in G : MayRestoreNext(y) /\ NextTab(y) \in y.data =>
                        NotLoading(Shifted(y), NextTab(y), "turn", hid) \in G
  PROVE  \A z \in RestoreNext(x, hid) : \E y \in G : z = StartNext(y, hid)
<1> DEFINE N == Len(x.queue.priority) + Len(x.queue.visible) + Len(x.queue.hidden)
           step == [n \in 1..N |-> [X \in SUBSET Recs |-> Skip(X, hid)]]
           Is(f) == f = [n \in 0..N |-> IF n = 0 THEN {x} ELSE Skip(f[n - 1], hid)]
           after[n \in 0..N] == IF n = 0 THEN {x} ELSE Skip(after[n - 1], hid)
<1>1. N \in Nat
  <2>1. x.queue \in Queues BY DEF Recs
  <2>2. /\ x.queue.priority \in Seq(Tabs) /\ x.queue.visible \in Seq(Tabs)
        /\ x.queue.hidden \in Seq(Tabs)
    BY <2>1 DEF Queues
  <2>3. /\ Len(x.queue.priority) \in Nat /\ Len(x.queue.visible) \in Nat
        /\ Len(x.queue.hidden) \in Nat
    BY <2>2, LenProperties
  <2>4. \A i, j, k \in Nat : i + j + k \in Nat OBVIOUS
  <2> QED BY <2>3, <2>4, Zenon
<1>2. step \in [1..N -> [SUBSET Recs -> SUBSET Recs]] BY SkipTyped
<1>3. RestoreNext(x, hid) = {StartNext(y, hid) : y \in UNION {after[n] : n \in 0..N}}
  BY DEF RestoreNext
<1>4. PICK g \in [0..N -> SUBSET Recs] :
          g[0] = {x} /\ \A n \in 1..N : g[n] = step[n][g[n - 1]]
  <2> DEFINE T == SUBSET Recs
             start == {x}
  <2>1. N \in Nat /\ start \in T /\ step \in [1..N -> [T -> T]] BY <1>1, <1>2
  <2> HIDE DEF N, T, start, step, after, Is
  <2>2. \E g \in [0..N -> T] : g[0] = start /\ \A n \in 1..N : g[n] = step[n][g[n - 1]]
    BY ONLY <2>1, RecursiveFunction
  <2> QED BY <2>2 DEF T, start
<1> HIDE DEF N
<1>5. Is(g)
  <2>1. ASSUME NEW n \in 0..N
        PROVE  g[n] = IF n = 0 THEN {x} ELSE Skip(g[n - 1], hid)
    <3>1. CASE n = 0 BY <1>4, <3>1
    <3>2. CASE n # 0
      <4>1. n \in 1..N /\ n - 1 \in 0..N BY <1>1, <3>2
      <4>2. g[n - 1] \in SUBSET Recs /\ g[n] = step[n][g[n - 1]] BY <1>4, <4>1
      <4> QED BY <3>2, <4>1, <4>2
    <3> QED BY <3>1, <3>2
  <2> QED BY <2>1
<1>6. after = CHOOSE f : Is(f) OBVIOUS
<1>7. Is(after)
  <2> HIDE DEF Is, after
  <2> QED BY <1>5, <1>6
<1> HIDE DEF after, step
<1> DEFINE Good == {n \in 0..N : after[n] \subseteq G}
<1>8. 0 \in Good BY <1>1, <1>7
<1>9. ASSUME NEW n \in 1..N, n - 1 \in Good PROVE n \in Good
  <2>1. n \in 0..N /\ n # 0 BY <1>1
  <2>2. after[n] = Skip(after[n - 1], hid) BY <1>7, <2>1
  <2>3. after[n - 1] \subseteq G BY <1>9
  <2>4. Skip(after[n - 1], hid) \subseteq G BY <2>3 DEF Skip
  <2> QED BY <2>1, <2>2, <2>4
<1>10. \A n \in 0..N : n \in Good
  <2> HIDE DEF Good, Is
  <2> QED BY <1>1, <1>8, <1>9, IntervalInduction
<1>11. UNION {after[n] : n \in 0..N} \subseteq G
  <2> HIDE DEF Is
  <2> QED BY <1>10
<1> HIDE DEF Is
<1> QED BY <1>3, <1>11

\* The tab that restoreNextTab starts in the end.
LEMMA StartNextTyped ==
  ASSUME NEW x \in Recs, NEW hid
  PROVE  StartNext(x, hid) \in Recs
BY ShiftedTyped, LoadingEffect, StartedEffect DEF StartNext

\* restoreNextTab leaves a restoring state.
LEMMA RestoreNextTyped ==
  ASSUME NEW x \in Recs, NEW hid
  PROVE  RestoreNext(x, hid) \subseteq Recs
<1>1. \A y \in Recs : MayRestoreNext(y) =>
        NotLoading(Shifted(y), NextTab(y), "turn", hid) \in Recs
  BY ShiftedTyped, NotLoadingTyped
<1>2. PICK G \in SUBSET Recs : G = Recs OBVIOUS
<1>3. \A z \in RestoreNext(x, hid) : \E y \in G : z = StartNext(y, hid)
  BY <1>1, <1>2, RestoreNextRuns
<1> QED BY <1>2, <1>3, StartNextTyped

\* Where no tab may be restored, restoreNextTab does nothing.
LEMMA RestoreNextStays ==
  ASSUME NEW x \in Recs, NEW hid, ~MayRestoreNext(x)
  PROVE  \A z \in RestoreNext(x, hid) : z = x
<1>1. PICK G \in SUBSET Recs : G = {x} OBVIOUS
<1>2. \A z \in RestoreNext(x, hid) : \E y \in G : z = StartNext(y, hid)
  BY <1>1, RestoreNextRuns
<1> QED BY <1>1, <1>2 DEF StartNext

\* onTabRemove leaves a restoring state.
LEMMA RemoveTabTyped ==
  ASSUME NEW x \in Recs, NEW t \in Tabs, NEW hid
  PROVE  RemoveTab(x, t, hid) \subseteq Recs
<1>1. PICK y \in Recs : y = [x EXCEPT !.data = @ \ {t}, !.loads = @ \ {t}]
  BY DEF Recs
<1>2. Reset(y, t, hid) \in Recs BY ResetEffect
<1>3. RestoreNext(Reset(y, t, hid), hid) \subseteq Recs BY <1>2, RestoreNextTyped
<1>4. x.st[t] \in {"none", "needs", "restoring"} BY DEF Recs
<1> QED BY <1>1, <1>2, <1>3, <1>4 DEF RemoveTab

\* The loop of ResetEach, for a set of states that no reset leaves.
LEMMA ResetEachRuns ==
  ASSUME NEW x, x \in Recs, NEW ts,
         NEW G, G \in SUBSET ((0..TabCount) \X Recs), <<0, x>> \in G,
         \A n \in 1..TabCount, y \in Recs : <<n - 1, y>> \in G =>
           <<n, IF n \in ts /\ y.st[n] # "none" THEN Reset(y, n, hidden) ELSE y>> \in G
  PROVE  <<TabCount, ResetEach(x, ts)>> \in G
<1> DEFINE N == TabCount
           Do(n, y) == IF n \in ts /\ y.st[n] # "none" THEN Reset(y, n, hidden) ELSE y
           step == [n \in 1..N |-> [y \in Recs |-> Do(n, y)]]
           Is(f) == f = [n \in 0..N |-> IF n = 0 THEN x
                           ELSE IF n \in ts /\ f[n - 1].st[n] # "none"
                                THEN Reset(f[n - 1], n, hidden) ELSE f[n - 1]]
           after[n \in 0..N] ==
             IF n = 0 THEN x
             ELSE IF n \in ts /\ after[n - 1].st[n] # "none"
                  THEN Reset(after[n - 1], n, hidden) ELSE after[n - 1]
<1>1. N \in Nat /\ Tabs = 1..N BY TabsFinite DEF Tabs
<1>2. step \in [1..N -> [Recs -> Recs]]
  BY <1>1, ResetEffect
<1>3. ResetEach(x, ts) = after[N] BY DEF ResetEach
<1>4. PICK g \in [0..N -> Recs] : g[0] = x /\ \A n \in 1..N : g[n] = step[n][g[n - 1]]
  <2> DEFINE T == Recs
             start == x
  <2>1. N \in Nat /\ start \in T /\ step \in [1..N -> [T -> T]] BY <1>1, <1>2
  <2> HIDE DEF N, T, start, step, after, Is
  <2>2. \E g \in [0..N -> T] : g[0] = start /\ \A n \in 1..N : g[n] = step[n][g[n - 1]]
    BY ONLY <2>1, RecursiveFunction
  <2> QED BY <2>2, Zenon DEF T, start
<1> HIDE DEF N
<1>5. ASSUME NEW n \in 1..N
      PROVE  g[n - 1] \in Recs /\ g[n] = Do(n, g[n - 1])
  <2>1. n - 1 \in 0..N BY <1>1
  <2>2. g[n - 1] \in Recs /\ g[n] = step[n][g[n - 1]]
    <3> HIDE DEF step
    <3> QED BY <1>4, <2>1
  <2> HIDE DEF Do
  <2> QED BY <2>2
<1> HIDE DEF step
<1>6. Is(g)
  <2>1. ASSUME NEW n \in 0..N
        PROVE  g[n] = IF n = 0 THEN x
                      ELSE IF n \in ts /\ g[n - 1].st[n] # "none"
                           THEN Reset(g[n - 1], n, hidden) ELSE g[n - 1]
    <3>1. CASE n = 0 BY <1>4, <3>1
    <3>2. CASE n # 0
      <4>1. n \in 1..N BY <1>1, <3>2
      <4> QED BY <3>2, <4>1, <1>5
    <3> QED BY <3>1, <3>2
  <2> QED BY <2>1
<1>7. after = CHOOSE f : Is(f) OBVIOUS
<1>8. Is(after)
  <2> HIDE DEF Is, after
  <2> QED BY <1>6, <1>7
<1>9. ASSUME NEW f, Is(f) PROVE f[N] = g[N]
  <2> HIDE DEF after
  <2> DEFINE Same == {m \in 0..N : f[m] = g[m]}
  <2>1. 0 \in Same BY <1>1, <1>4, <1>9
  <2>2. ASSUME NEW m \in 1..N, m - 1 \in Same PROVE m \in Same
    <3>1. m \in 0..N /\ m # 0 BY <1>1
    <3>2. f[m - 1] = g[m - 1] BY <2>2
    <3>3. f[m] = Do(m, f[m - 1]) BY <3>1, <1>9
    <3> HIDE DEF Is, Do
    <3> QED BY <3>1, <3>2, <3>3, <1>5
  <2>3. N \in 0..N BY <1>1
  <2> HIDE DEF Same, Is
  <2>4. N \in Same BY <1>1, <2>1, <2>2, <2>3, IntervalInduction
  <2> QED BY <2>4 DEF Same
<1>10. ResetEach(x, ts) = g[N]
  <2> HIDE DEF Is, after
  <2> QED BY <1>3, <1>8, <1>9 DEF N
<1> HIDE DEF Is, after
<1> DEFINE Good == {n \in 0..N : <<n, g[n]>> \in G}
<1>11. 0 \in Good BY <1>1, <1>4
<1>12. ASSUME NEW n \in 1..N, n - 1 \in Good PROVE n \in Good
  <2>1. n \in 0..N /\ <<n - 1, g[n - 1]>> \in G BY <1>1, <1>12
  <2>2. g[n - 1] \in Recs /\ g[n] = Do(n, g[n - 1]) BY <1>5
  <2>3. <<n, Do(n, g[n - 1])>> \in G BY <2>1, <2>2 DEF N
  <2> HIDE DEF Do
  <2> QED BY <2>1, <2>2, <2>3
<1>13. N \in Good
  <2>1. N \in 0..N BY <1>1
  <2> HIDE DEF Good
  <2> QED BY <1>1, <1>11, <1>12, <2>1, IntervalInduction
<1> QED BY <1>10, <1>13 DEF N

\* The loop of Closed, in the same way.
LEMMA ClosedRuns ==
  ASSUME NEW x, x \in Recs, NEW ws, NEW G, G \in SUBSET ((0..TabCount) \X Recs),
         <<0, [x EXCEPT !.on = @ \ ws]>> \in G,
         \A n \in 1..TabCount, y \in Recs : <<n - 1, y>> \in G =>
           \A z \in IF n \in open /\ Home[n] \in ws THEN RemoveTab(y, n, hidden) ELSE {y} :
             <<n, z>> \in G
  PROVE  \A z \in Closed(x, ws) : <<TabCount, z>> \in G
<1> DEFINE N == TabCount
           X == {[x EXCEPT !.on = @ \ ws]}
           Do(n, Y) == IF n \in open /\ Home[n] \in ws
                       THEN UNION {RemoveTab(y, n, hidden) : y \in Y} ELSE Y
           step == [n \in 1..N |-> [Y \in SUBSET Recs |-> Do(n, Y)]]
           Is(f) == f = [n \in 0..N |-> IF n = 0 THEN X
                           ELSE IF n \in open /\ Home[n] \in ws
                           THEN UNION {RemoveTab(y, n, hidden) : y \in f[n - 1]}
                           ELSE f[n - 1]]
           after[n \in 0..N] ==
             IF n = 0 THEN X
             ELSE IF n \in open /\ Home[n] \in ws
             THEN UNION {RemoveTab(y, n, hidden) : y \in after[n - 1]}
             ELSE after[n - 1]
<1>1. N \in Nat /\ Tabs = 1..N BY TabsFinite DEF Tabs
<1>2. step \in [1..N -> [SUBSET Recs -> SUBSET Recs]]
  <2>1. ASSUME NEW n \in 1..N, NEW Y \in SUBSET Recs PROVE Do(n, Y) \in SUBSET Recs
    <3>1. UNION {RemoveTab(y, n, hidden) : y \in Y} \in SUBSET Recs BY <1>1, RemoveTabTyped
    <3> QED BY <3>1
  <2> HIDE DEF Do
  <2> QED BY <2>1
<1>3. Closed(x, ws) = after[N] BY DEF Closed
<1>4. X \in SUBSET Recs BY DEF Recs
<1>5. PICK g \in [0..N -> SUBSET Recs] :
        g[0] = X /\ \A n \in 1..N : g[n] = step[n][g[n - 1]]
  <2> DEFINE T == SUBSET Recs
             start == X
  <2>1. N \in Nat /\ start \in T /\ step \in [1..N -> [T -> T]] BY <1>1, <1>2, <1>4
  <2> HIDE DEF N, T, start, step, after, Is
  <2>2. \E g \in [0..N -> T] : g[0] = start /\ \A n \in 1..N : g[n] = step[n][g[n - 1]]
    BY ONLY <2>1, RecursiveFunction
  <2> QED BY <2>2, Zenon DEF T, start
<1> HIDE DEF N, X
<1>6. ASSUME NEW n \in 1..N
      PROVE  g[n - 1] \in SUBSET Recs /\ g[n] = Do(n, g[n - 1])
  <2>1. n - 1 \in 0..N BY <1>1
  <2>2. g[n - 1] \in SUBSET Recs /\ g[n] = step[n][g[n - 1]]
    <3> HIDE DEF step
    <3> QED BY <1>5, <2>1
  <2> HIDE DEF Do
  <2> QED BY <2>2
<1> HIDE DEF step
<1>7. Is(g)
  <2>1. ASSUME NEW n \in 0..N
        PROVE  g[n] = IF n = 0 THEN X
                      ELSE IF n \in open /\ Home[n] \in ws
                      THEN UNION {RemoveTab(y, n, hidden) : y \in g[n - 1]}
                      ELSE g[n - 1]
    <3>1. CASE n = 0 BY <1>5, <3>1
    <3>2. CASE n # 0
      <4>1. n \in 1..N BY <1>1, <3>2
      <4> QED BY <3>2, <4>1, <1>6
    <3> QED BY <3>1, <3>2
  <2> QED BY <2>1
<1>8. after = CHOOSE f : Is(f) OBVIOUS
<1>9. Is(after)
  <2> HIDE DEF Is, after
  <2> QED BY <1>7, <1>8
<1>10. ASSUME NEW f, Is(f) PROVE f[N] = g[N]
  <2> HIDE DEF after
  <2> DEFINE Same == {m \in 0..N : f[m] = g[m]}
  <2>1. 0 \in Same BY <1>1, <1>5, <1>10
  <2>2. ASSUME NEW m \in 1..N, m - 1 \in Same PROVE m \in Same
    <3>1. m \in 0..N /\ m # 0 BY <1>1
    <3>2. f[m - 1] = g[m - 1] BY <2>2
    <3>3. f[m] = Do(m, f[m - 1]) BY <3>1, <1>10
    <3> HIDE DEF Is, Do
    <3> QED BY <3>1, <3>2, <3>3, <1>6
  <2>3. N \in 0..N BY <1>1
  <2> HIDE DEF Same, Is
  <2>4. N \in Same BY <1>1, <2>1, <2>2, <2>3, IntervalInduction
  <2> QED BY <2>4 DEF Same
<1>11. Closed(x, ws) = g[N]
  <2> HIDE DEF Is, after
  <2> QED BY <1>3, <1>9, <1>10 DEF N
<1> HIDE DEF Is, after
<1> DEFINE Good == {n \in 0..N : \A z \in g[n] : <<n, z>> \in G}
<1>12. 0 \in Good
  <2>1. \A z \in g[0] : z = [x EXCEPT !.on = @ \ ws] BY <1>5 DEF X
  <2>2. PICK u : u = [x EXCEPT !.on = @ \ ws] OBVIOUS
  <2>3. <<0, u>> \in G /\ \A z \in g[0] : z = u BY <2>1, <2>2
  <2>4. \A z \in g[0] : <<0, z>> \in G BY <2>3, Zenon
  <2>5. 0 \in 0..N BY <1>1
  <2> QED BY <2>4, <2>5, Zenon
<1>13. ASSUME NEW n \in 1..N, n - 1 \in Good PROVE n \in Good
  <2>1. n \in 0..N /\ \A y \in g[n - 1] : <<n - 1, y>> \in G BY <1>1, <1>13
  <2>2. g[n - 1] \in SUBSET Recs /\ g[n] = Do(n, g[n - 1]) BY <1>6
  <2>3. ASSUME NEW z \in Do(n, g[n - 1]) PROVE <<n, z>> \in G
    <3>1. PICK y \in g[n - 1] :
            z \in IF n \in open /\ Home[n] \in ws THEN RemoveTab(y, n, hidden) ELSE {y}
      BY <2>3
    <3>2. y \in Recs /\ <<n - 1, y>> \in G /\ n \in 1..TabCount BY <2>1, <2>2 DEF N
    <3> QED BY <3>1, <3>2
  <2> HIDE DEF Do
  <2> QED BY <2>1, <2>2, <2>3
<1>14. N \in Good
  <2>1. N \in 0..N BY <1>1
  <2> HIDE DEF Good
  <2> QED BY <1>1, <1>12, <1>13, <2>1, IntervalInduction
<1> QED BY <1>11, <1>14 DEF N

\* So does the loop that resets tabs,
LEMMA ResetEachTyped ==
  ASSUME NEW x \in Recs, NEW ts
  PROVE  ResetEach(x, ts) \in Recs
<1>1. PICK G : G = (0..TabCount) \X Recs OBVIOUS
<1>2. <<0, x>> \in G BY <1>1, TabsFinite
<1>3. ASSUME NEW n \in 1..TabCount, NEW y \in Recs
      PROVE  <<n, IF n \in ts /\ y.st[n] # "none" THEN Reset(y, n, hidden) ELSE y>> \in G
  <2>1. n \in Tabs /\ n \in 0..TabCount BY TabsFinite DEF Tabs
  <2>2. Reset(y, n, hidden) \in Recs BY <2>1, ResetEffect
  <2> QED BY <1>1, <2>1, <2>2
<1>4. <<TabCount, ResetEach(x, ts)>> \in G
  <2>1. x \in Recs /\ G \in SUBSET ((0..TabCount) \X Recs) BY <1>1
  <2> QED BY <1>2, <1>3, <2>1, ResetEachRuns
<1> QED BY <1>1, <1>4

\* and the loop that closes the tabs of windows.
LEMMA ClosedTyped ==
  ASSUME NEW x \in Recs, NEW ws
  PROVE  Closed(x, ws) \subseteq Recs
<1>1. PICK G : G = (0..TabCount) \X Recs OBVIOUS
<1>2. <<0, [x EXCEPT !.on = @ \ ws]>> \in G
  <2>1. [x EXCEPT !.on = @ \ ws] \in Recs BY DEF Recs
  <2> QED BY <1>1, <2>1, TabsFinite
<1>3. ASSUME NEW n \in 1..TabCount, NEW y \in Recs,
             NEW z \in IF n \in open /\ Home[n] \in ws THEN RemoveTab(y, n, hidden) ELSE {y}
      PROVE  <<n, z>> \in G
  <2>1. n \in Tabs /\ n \in 0..TabCount BY TabsFinite DEF Tabs
  <2>2. z \in Recs BY <2>1, RemoveTabTyped
  <2> QED BY <1>1, <2>1, <2>2
<1>4. \A z \in Closed(x, ws) : <<TabCount, z>> \in G
  <2>1. x \in Recs /\ G \in SUBSET ((0..TabCount) \X Recs) BY <1>1
  <2> QED BY <1>2, <1>3, <2>1, ClosedRuns
<1> QED BY <1>1, <1>4

\* A call of restoreHistory, waiting for its timeout.
Calls == [tabs : Seq(Tabs), now : BOOLEAN]

\* restoreHistoryPrecursor marks tabs.
LEMMA PreparedTyped ==
  ASSUME NEW x \in Recs, NEW ts \in SUBSET Tabs
  PROVE  Prepared(x, ts) \in Recs
<1>1. PICK st \in [Tabs -> {"none", "needs", "restoring"}] :
        st = [t \in Tabs |-> IF t \in ts THEN "needs" ELSE x.st[t]]
  BY DEF Recs
<1>2. PICK data \in SUBSET Tabs, loads \in SUBSET Tabs, asked \in SUBSET Tabs :
        data = x.data \cup ts /\ loads = x.loads \ ts /\ asked = x.asked \ ts
  BY DEF Recs
<1>3. Prepared(x, ts) = [x EXCEPT !.st = st, !.data = data, !.loads = loads,
                                  !.asked = asked]
  BY <1>1, <1>2 DEF Prepared, Recs
<1> QED BY <1>3 DEF Recs

\* No tab of the call can be restored; one can, and y has its listener.
NoneReady(o, x, call, opn) ==
  o = <<x, <<>>>> /\ \A i \in DOMAIN call.tabs : ~Restorable(x, call.tabs[i], opn)
OneReady(o, x, call, opn, hid, sel) ==
  \E i \in DOMAIN call.tabs, y \in Recs, rest \in Seq(Tabs), later \in Seq(Calls) :
    /\ Restorable(x, call.tabs[i], opn) /\ call.tabs[i] \in Tabs
    /\ \A k \in DOMAIN call.tabs : k < i => ~Restorable(x, call.tabs[k], opn)
    /\ y = [x EXCEPT !.history = @ \cup {call.tabs[i]}]
    /\ rest = SubSeq(call.tabs, i + 1, Len(call.tabs))
    /\ later = IF rest = <<>> THEN <<>> ELSE <<[call EXCEPT !.tabs = rest]>>
    /\ o[2] = later
    /\ o[1] \in IF call.now \/ sel[Home[call.tabs[i]]] = call.tabs[i]
                THEN Restore(y, call.tabs[i], "asked", hid)
                ELSE RestoreNext(Enqueue(y, call.tabs[i], hid), hid)

\* How restoreHistory goes on: with the first tab that can be restored.
LEMMA RestoreHistoryCases ==
  ASSUME NEW x \in Recs, NEW call \in Calls, NEW opn, NEW hid, NEW sel,
         NEW o \in RestoreHistory(x, call, opn, hid, sel)
  PROVE  NoneReady(o, x, call, opn) \/ OneReady(o, x, call, opn, hid, sel)
<1> DEFINE ready == {i \in DOMAIN call.tabs : Restorable(x, call.tabs[i], opn)}
<1>1. /\ call.tabs \in Seq(Tabs) /\ Len(call.tabs) \in Nat
      /\ DOMAIN call.tabs = 1..Len(call.tabs)
      /\ \A i \in DOMAIN call.tabs : call.tabs[i] \in Tabs
  <2>1. call.tabs \in Seq(Tabs) BY DEF Calls
  <2> QED BY <2>1, LenProperties
<1>2. CASE ready = {}
  <2>1. o = <<x, <<>>>> BY <1>2 DEF RestoreHistory
  <2> QED BY <1>2, <2>1 DEF NoneReady
<1>3. CASE ready # {}
  <2>1. ready \in SUBSET Nat BY <1>1
  <2>2. PICK i \in ready : i = Min(ready) /\ \A k \in ready : i <= k
    <3> HIDE DEF ready
    <3> QED BY <1>3, <2>1, MinOfSet
  <2>3. /\ i \in DOMAIN call.tabs /\ Restorable(x, call.tabs[i], opn)
        /\ call.tabs[i] \in Tabs
    BY <1>1
  <2>4. ASSUME NEW k \in DOMAIN call.tabs, k < i PROVE ~Restorable(x, call.tabs[k], opn)
    <3>1. ~(i <= k) BY <1>1, <2>3, <2>4
    <3> QED BY <2>2, <3>1
  <2>5. PICK y \in Recs : y = [x EXCEPT !.history = @ \cup {call.tabs[i]}]
    BY <2>3 DEF Recs
  <2>6. PICK rest \in Seq(Tabs) : rest = SubSeq(call.tabs, i + 1, Len(call.tabs))
    BY <1>1, <2>3, RestElements
  <2>7. PICK later \in Seq(Calls) :
          later = IF rest = <<>> THEN <<>> ELSE <<[call EXCEPT !.tabs = rest]>>
    <3>1. [call EXCEPT !.tabs = rest] \in Calls BY DEF Calls
    <3>2. \A c \in Calls : <<c>> \in Seq(Calls) OBVIOUS
    <3>3. <<>> \in Seq(Calls) OBVIOUS
    <3>4. (IF rest = <<>> THEN <<>> ELSE <<[call EXCEPT !.tabs = rest]>>) \in Seq(Calls)
      BY <3>1, <3>2, <3>3
    <3> QED BY <3>4, Zenon
  <2>8. /\ o[2] = later
        /\ o[1] \in IF call.now \/ sel[Home[call.tabs[i]]] = call.tabs[i]
                    THEN Restore(y, call.tabs[i], "asked", hid)
                    ELSE RestoreNext(Enqueue(y, call.tabs[i], hid), hid)
    <3> DEFINE S == IF call.now \/ sel[Home[call.tabs[i]]] = call.tabs[i]
                    THEN Restore(y, call.tabs[i], "asked", hid)
                    ELSE RestoreNext(Enqueue(y, call.tabs[i], hid), hid)
    <3>1. RestoreHistory(x, call, opn, hid, sel) = {<<z, later>> : z \in S}
      BY <1>3, <2>2, <2>5, <2>6, <2>7 DEF RestoreHistory
    <3>2. PICK z \in S : o = <<z, later>>
      <4> HIDE DEF S
      <4> QED BY <3>1
    <3> QED BY <3>2
  <2> HIDE DEF ready
  <2> QED BY <2>3, <2>4, <2>5, <2>6, <2>7, <2>8 DEF OneReady
<1> QED BY <1>2, <1>3

\* add puts a tab into the queue.
LEMMA EnqueueTyped ==
  ASSUME NEW x \in Recs, NEW t \in Tabs, NEW hid
  PROVE  Enqueue(x, t, hid) \in Recs
<1>1. PICK q \in Queues : Enqueue(x, t, hid) = [x EXCEPT !.queue = q] BY EnqueueEffect
<1> QED BY <1>1 DEF Recs

\* restoreHistory leaves a restoring state and at most one call.
LEMMA RestoreHistoryTyped ==
  ASSUME NEW x \in Recs, NEW call \in Calls, NEW opn, NEW hid, NEW sel,
         NEW o \in RestoreHistory(x, call, opn, hid, sel)
  PROVE  o[1] \in Recs /\ o[2] \in Seq(Calls)
<1>1. CASE NoneReady(o, x, call, opn) BY <1>1 DEF NoneReady
<1>2. CASE OneReady(o, x, call, opn, hid, sel)
  <2>1. PICK i \in DOMAIN call.tabs, y \in Recs, rest \in Seq(Tabs), later \in Seq(Calls) :
              /\ call.tabs[i] \in Tabs /\ o[2] = later
              /\ o[1] \in IF call.now \/ sel[Home[call.tabs[i]]] = call.tabs[i]
                          THEN Restore(y, call.tabs[i], "asked", hid)
                          ELSE RestoreNext(Enqueue(y, call.tabs[i], hid), hid)
    BY <1>2 DEF OneReady
  <2>2. Restore(y, call.tabs[i], "asked", hid) \subseteq Recs BY <2>1, RestoreTyped
  <2>3. RestoreNext(Enqueue(y, call.tabs[i], hid), hid) \subseteq Recs
    BY <2>1, EnqueueTyped, RestoreNextTyped
  <2> QED BY <2>1, <2>2, <2>3
<1> QED BY <1>1, <1>2, RestoreHistoryCases

\* The order in which restoreWindow restores its tabs: each of them once.
LEMMA RestoringOrderElements ==
  ASSUME NEW ts \in SUBSET Tabs, NEW hid, NEW first \in SUBSET ts
  PROVE  LET o == RestoringOrder(ts, hid, first)
         IN o \in Seq(Tabs) /\ ToSet(o) = ts /\ IsInjective(o)
<1> DEFINE line == [t \in Tabs |-> t]
           In(S) == Kept(line, S)
           rest == ts \ first
           A == In(first)
           B == In(rest \cap Pinned)
           C == In((rest \ Pinned) \ hid)
           D == In((rest \ Pinned) \cap hid)
<1>1. line \in Seq(Tabs) /\ DOMAIN line = Tabs /\ \A t \in Tabs : line[t] = t
  <2>1. line \in [1..TabCount -> Tabs] BY DEF Tabs
  <2>2. TabCount \in Nat BY TabsFinite
  <2> HIDE DEF line
  <2>3. line \in Seq(Tabs) BY <2>1, <2>2, FunctionIsSeq
  <2> QED BY <2>3 DEF line
<1>2. IsInjective(line) BY DEF IsInjective
<1> HIDE DEF line
<1>3. ASSUME NEW S \in SUBSET Tabs
      PROVE  In(S) \in Seq(Tabs) /\ ToSet(In(S)) = S /\ IsInjective(In(S))
  <2>1. /\ In(S) \in Seq(Tabs) /\ ToSet(In(S)) = {line[i] : i \in S \cap DOMAIN line}
        /\ IsInjective(In(S))
    BY <1>1, <1>2, KeptElements
  <2>2. {line[i] : i \in S \cap DOMAIN line} = S BY <1>1
  <2> QED BY <2>1, <2>2
<1>4. RestoringOrder(ts, hid, first) = A \o B \o C \o D
  BY DEF RestoringOrder, line
<1>5. /\ A \in Seq(Tabs) /\ ToSet(A) = first /\ IsInjective(A)
      /\ B \in Seq(Tabs) /\ ToSet(B) = rest \cap Pinned /\ IsInjective(B)
      /\ C \in Seq(Tabs) /\ ToSet(C) = (rest \ Pinned) \ hid /\ IsInjective(C)
      /\ D \in Seq(Tabs) /\ ToSet(D) = (rest \ Pinned) \cap hid /\ IsInjective(D)
  <2>1. /\ first \in SUBSET Tabs /\ rest \cap Pinned \in SUBSET Tabs
        /\ (rest \ Pinned) \ hid \in SUBSET Tabs /\ (rest \ Pinned) \cap hid \in SUBSET Tabs
    OBVIOUS
  <2> HIDE DEF In
  <2> QED BY <2>1, <1>3
<1> HIDE DEF A, B, C, D
<1>6. PICK AB : AB = A \o B OBVIOUS
<1>7. PICK ABC : ABC = AB \o C OBVIOUS
<1>8. AB \in Seq(Tabs) /\ ToSet(AB) = first \cup (rest \cap Pinned) /\ IsInjective(AB)
  BY <1>5, <1>6, ConcatElements
<1>9. /\ ABC \in Seq(Tabs) /\ IsInjective(ABC)
      /\ ToSet(ABC) = (first \cup (rest \cap Pinned)) \cup ((rest \ Pinned) \ hid)
  BY <1>5, <1>7, <1>8, ConcatElements
<1>10. /\ ABC \o D \in Seq(Tabs) /\ IsInjective(ABC \o D)
       /\ ToSet(ABC \o D) = ToSet(ABC) \cup ToSet(D)
  BY <1>5, <1>9, ConcatElements
<1>11. ToSet(ABC) \cup ToSet(D) = ts BY <1>5, <1>9
<1> QED BY <1>4, <1>6, <1>7, <1>10, <1>11

-----------------------------------------------------------------------------
\* Type correctness.

\* Every open window selects one of its visible tabs.
Shown ==
  \A w \in Windows :
    IF selected[w] = NoTab THEN open \cap TabsOf(w) = {}
    ELSE selected[w] \in (open \cap TabsOf(w)) \ hidden

Typed ==
  /\ ss \in Recs /\ chains \in Seq(Calls)
  /\ open \in SUBSET Tabs /\ hidden \in SUBSET open
  /\ selected \in [Windows -> Tabs \cup {NoTab}] /\ Shown

\* The type invariant of the runs follows.
LEMMA TypedImplies == Typed => TypeOK
<1> SUFFICES ASSUME Typed PROVE TypeOK OBVIOUS
<1>1. /\ ss.st \in [Tabs -> {"none", "needs", "restoring"}]
      /\ ss.data \subseteq Tabs /\ ss.history \subseteq Tabs /\ ss.loads \subseteq Tabs
      /\ ss.asked \subseteq Tabs /\ ss.queue \in Queues /\ ss.count \in Nat
      /\ ss.left \in [Windows -> Int \cup {Unset}] /\ ss.on \subseteq Windows
  BY DEF Typed, Recs
<1>2. \A s \in Seq(Tabs) : ToSet(s) \subseteq Tabs
  BY LenProperties DEF ToSet
<1>3. Queued \subseteq Tabs
  <2>1. \A b \in DOMAIN ss.queue : ss.queue[b] \in Seq(Tabs) BY <1>1, QueueFields
  <2> QED BY <1>2, <2>1 DEF Queued
<1>4. \A i \in DOMAIN chains : chains[i].tabs \in Seq(Tabs)
  <2>1. \A i \in DOMAIN chains : chains[i] \in Calls BY LenProperties DEF Typed
  <2> QED BY <2>1 DEF Calls
<1> QED BY <1>1, <1>3, <1>4 DEF Typed, TypeOK, Shown

\* It holds at the start.
LEMMA TypedInit == Init => Typed
<1> SUFFICES ASSUME Init PROVE Typed OBVIOUS
<1>1. NoQueue \in Queues
  <2>1. <<>> \in Seq(Tabs) OBVIOUS
  <2> QED BY <2>1 DEF NoQueue, Queues
<1>2. ss \in Recs BY <1>1 DEF Init, Recs
<1>3. \A w \in Windows : Min(TabsOf(w)) \in TabsOf(w)
  <2> TAKE w \in Windows
  <2>1. TabsOf(w) \in SUBSET Nat /\ TabsOf(w) # {}
    BY TabsFinite, ConstantsAssumption DEF TabsOf
  <2> QED BY <2>1, MinOfSet
<1>4. \A w \in Windows : selected[w] = Min(TabsOf(w)) BY DEF Init
<1>5. \A w \in Windows : selected[w] \in TabsOf(w) /\ selected[w] \in Tabs
  BY <1>3, <1>4 DEF TabsOf
<1>6. selected \in [Windows -> Tabs \cup {NoTab}] BY <1>5 DEF Init
<1>7. open = {selected[w] : w \in Windows} /\ hidden = {} /\ chains = <<>> BY DEF Init
<1>8. NoTab \notin Tabs BY ConstantsAssumption
<1>9. Shown BY <1>5, <1>7, <1>8 DEF Shown
<1> QED BY <1>2, <1>5, <1>6, <1>7, <1>9 DEF Typed

\* The first call of restoreHistory adds at most one call that waits.
LEMMA RestoreTabsTyped ==
  ASSUME Typed, NEW x \in Recs, NEW tabs \in Seq(Tabs), NEW now \in BOOLEAN,
         NEW opn, NEW hid, NEW sel, RestoreTabs(x, tabs, now, opn, hid, sel)
  PROVE  ss' \in Recs /\ chains' \in Seq(Calls)
<1>1. PICK y \in Recs : y = Prepared(x, ToSet(tabs))
  <2>1. ToSet(tabs) \in SUBSET Tabs BY LenProperties DEF ToSet
  <2> QED BY <2>1, PreparedTyped
<1>2. PICK call \in Calls : call = [tabs |-> tabs, now |-> now] BY DEF Calls
<1>3. PICK o \in RestoreHistory(y, call, opn, hid, sel) : ss' = o[1] /\ chains' = chains \o o[2]
  BY <1>1, <1>2 DEF RestoreTabs
<1>4. o[1] \in Recs /\ o[2] \in Seq(Calls) BY RestoreHistoryTyped
<1>5. chains \o o[2] \in Seq(Calls) BY <1>4, ConcatProperties DEF Typed
<1> QED BY <1>3, <1>4, <1>5

\* The tabs of a window that is overwritten stay those of the window.
LEMMA OverwriteTyped ==
  ASSUME Typed, NEW x \in Recs, NEW w \in Windows,
         NEW kept \in SUBSET (open \cap TabsOf(w)), NEW added \in SUBSET Free(w),
         NEW hid \in SUBSET Free(w), NEW first \in TabsOf(w), NEW gone, w \notin gone,
         Fits(w, kept, added, hid, first), Overwrite(x, w, kept, added, hid, first, gone)
  PROVE  Typed'
<1> DEFINE old == open \cap TabsOf(w)
           ts == kept \cup added
           elsewhere == {t \in open \ old : Home[t] \notin gone}
<1>1. PICK y \in Recs : y = [ResetEach(x, old) EXCEPT
                               !.left[w] = Cardinality(ts),
                               !.data = @ \ (old \ kept), !.loads = @ \ (old \ kept)]
  <2>1. PICK u \in Recs : u = ResetEach(x, old) BY ResetEachTyped
  <2>2. PICK n \in Int : n = Cardinality(ts)
    <3>1. ts \in SUBSET Tabs BY DEF Typed, Free, TabsOf
    <3>2. Cardinality(ts) \in Nat BY <3>1, TabsFinite
    <3> QED BY <3>2
  <2>3. PICK away : away = old \ kept OBVIOUS
  <2>4. PICK z : z = [u EXCEPT !.left[w] = n, !.data = @ \ away, !.loads = @ \ away]
    OBVIOUS
  <2>5. z \in Recs BY <2>4 DEF Recs
  <2> QED BY <2>1, <2>2, <2>3, <2>4, <2>5
<1>2. PICK o \in Seq(Tabs) : o = RestoringOrder(ts, hidden', {first})
  <2>1. ts \in SUBSET Tabs BY DEF Typed, Free, TabsOf
  <2>2. {first} \in SUBSET ts BY DEF Fits
  <2>3. PICK h : h = hidden' OBVIOUS
  <2> HIDE DEF ts
  <2>4. RestoringOrder(ts, h, {first}) \in Seq(Tabs) BY <2>1, <2>2, RestoringOrderElements
  <2> QED BY <2>3, <2>4
<1>3. /\ open' = elsewhere \cup ts
      /\ hidden' = (hidden \cap (elsewhere \cup kept)) \cup hid
      /\ selected' = [v \in Windows |-> IF v = w THEN first
                                        ELSE IF v \in gone THEN NoTab ELSE selected[v]]
      /\ first \notin hidden'
      /\ RestoreTabs(y, o, FALSE, open', hidden', selected')
  BY <1>1, <1>2 DEF Overwrite
<1>4. ss' \in Recs /\ chains' \in Seq(Calls)
  <2>1. PICK opn, h, sel : opn = open' /\ h = hidden' /\ sel = selected' OBVIOUS
  <2>2. RestoreTabs(y, o, FALSE, opn, h, sel) BY <1>3, <2>1
  <2> QED BY <2>2, RestoreTabsTyped
<1>5. /\ added \subseteq TabsOf(w) /\ kept \subseteq TabsOf(w) /\ first \in ts
      /\ hid \subseteq added /\ open \subseteq Tabs /\ hidden \subseteq open
      /\ TabsOf(w) \subseteq Tabs
  BY DEF Free, Fits, Typed, TabsOf
<1>6. open' \in SUBSET Tabs /\ hidden' \in SUBSET open' BY <1>3, <1>5
<1>7. selected' \in [Windows -> Tabs \cup {NoTab}] BY <1>3, <1>5 DEF Typed
<1>8. Shown'
  <2>1. ASSUME NEW v \in Windows
        PROVE  IF selected'[v] = NoTab THEN open' \cap TabsOf(v) = {}
               ELSE selected'[v] \in (open' \cap TabsOf(v)) \ hidden'
    <3>1. CASE v = w
      <4>1. selected'[v] = first /\ first # NoTab
        BY <1>3, <1>5, <3>1, ConstantsAssumption
      <4> QED BY <4>1, <3>1, <1>3, <1>5
    <3>2. CASE v # w /\ v \in gone
      <4>1. selected'[v] = NoTab BY <1>3, <3>2
      <4>2. \A t \in TabsOf(v) : Home[t] = v BY DEF TabsOf
      <4>3. \A t \in TabsOf(w) : Home[t] = w BY DEF TabsOf
      <4>4. open' \cap TabsOf(v) = {} BY <1>3, <1>5, <3>2, <4>2, <4>3
      <4> QED BY <4>1, <4>4
    <3>3. CASE v # w /\ v \notin gone
      <4>1. selected'[v] = selected[v] BY <1>3, <3>3
      <4>2. \A t \in TabsOf(v) : Home[t] = v BY DEF TabsOf
      <4>3. \A t \in TabsOf(w) : Home[t] = w BY DEF TabsOf
      <4>4. open' \cap TabsOf(v) = open \cap TabsOf(v) BY <1>3, <1>5, <3>3, <4>2, <4>3
      <4>5. hidden' \cap TabsOf(v) \subseteq hidden BY <1>3, <1>5, <3>3, <4>2, <4>3
      <4>6. IF selected[v] = NoTab THEN open \cap TabsOf(v) = {}
            ELSE selected[v] \in (open \cap TabsOf(v)) \ hidden
        BY DEF Typed, Shown
      <4> QED BY <4>1, <4>4, <4>5, <4>6
    <3> QED BY <3>1, <3>2, <3>3
  <2> QED BY <2>1 DEF Shown
<1> QED BY <1>4, <1>6, <1>7, <1>8 DEF Typed

\* onTabSelect leaves a restoring state.
LEMMA SelectedTyped ==
  ASSUME NEW x \in Recs, NEW t \in Tabs, NEW hid
  PROVE  Selected(x, t, hid) \subseteq Recs
BY RestoreTyped DEF Selected

\* A tab that is opened is neither open nor hidden before.
LEMMA FreeTabs ==
  ASSUME NEW w
  PROVE  /\ Free(w) \subseteq TabsOf(w) /\ Free(w) \cap open = {} /\ TabsOf(w) \subseteq Tabs
         /\ \A t \in TabsOf(w) : Home[t] = w
BY DEF Free, TabsOf

\* restoreWindow keeps the types,
LEMMA RestoreWindowTyped ==
  ASSUME Typed, NEW w \in Windows, RestoreWindow(w)
  PROVE  Typed'
<1>1. CASE \E kept \in SUBSET (open \cap TabsOf(w)), added \in SUBSET Free(w),
              hid \in SUBSET Free(w), first \in TabsOf(w) :
             /\ Fits(w, kept, added, hid, first)
             /\ Overwrite(ss, w, kept, added, hid, first, {})
  <2>1. PICK kept \in SUBSET (open \cap TabsOf(w)), added \in SUBSET Free(w),
             hid \in SUBSET Free(w), first \in TabsOf(w) :
          /\ Fits(w, kept, added, hid, first)
          /\ Overwrite(ss, w, kept, added, hid, first, {})
    BY <1>1
  <2>2. PICK x \in Recs : x = ss BY DEF Typed
  <2>3. PICK gone : gone = {} OBVIOUS
  <2>4. Overwrite(x, w, kept, added, hid, first, gone) BY <2>1, <2>2, <2>3
  <2> QED BY <2>1, <2>3, <2>4, OverwriteTyped
<1>2. CASE \E added \in SUBSET Free(w), hid \in SUBSET (Free(w) \ Pinned) :
             /\ added # {} /\ hid \subseteq added
             /\ open' = open \cup added /\ hidden' = hidden \cup hid
             /\ RestoreTabs([ss EXCEPT !.left[w] =
                               (IF IsZero(@) THEN 0 ELSE @) + Cardinality(added)],
                            RestoringOrder(added, hidden', {}), FALSE,
                            open', hidden', selected)
             /\ UNCHANGED selected
  <2>1. PICK added \in SUBSET Free(w), hid \in SUBSET (Free(w) \ Pinned) :
             /\ added # {} /\ hid \subseteq added
             /\ open' = open \cup added /\ hidden' = hidden \cup hid
             /\ RestoreTabs([ss EXCEPT !.left[w] =
                               (IF IsZero(@) THEN 0 ELSE @) + Cardinality(added)],
                            RestoringOrder(added, hidden', {}), FALSE,
                            open', hidden', selected)
             /\ UNCHANGED selected
    BY <1>2
  <2>2. added \in SUBSET Tabs BY FreeTabs
  <2>3. PICK x \in Recs : x = [ss EXCEPT !.left[w] =
                                 (IF IsZero(@) THEN 0 ELSE @) + Cardinality(added)]
    <3>1. ss \in Recs /\ ss.left[w] \in Int \cup {Unset} BY DEF Typed, Recs
    <3>2. PICK m \in Int : m = IF IsZero(ss.left[w]) THEN 0 ELSE ss.left[w]
      BY <3>1 DEF IsZero
    <3>3. PICK n \in Int : n = m + Cardinality(added)
      <4>1. Cardinality(added) \in Nat BY <2>2, TabsFinite
      <4> QED BY <4>1
    <3>4. PICK u : u = [ss EXCEPT !.left[w] = n] OBVIOUS
    <3>5. u \in Recs BY <3>1, <3>4 DEF Recs
    <3> QED BY <3>2, <3>3, <3>4, <3>5
  <2>4. PICK opn, h, sel : opn = open' /\ h = hidden' /\ sel = selected OBVIOUS
  <2>5. PICK o \in Seq(Tabs) : o = RestoringOrder(added, h, {})
    BY <2>2, RestoringOrderElements
  <2>6. RestoreTabs(x, o, FALSE, opn, h, sel) BY <2>1, <2>3, <2>4, <2>5
  <2>7. ss' \in Recs /\ chains' \in Seq(Calls) BY <2>6, RestoreTabsTyped
  <2>8. open' \in SUBSET Tabs /\ hidden' \in SUBSET open' BY <2>1, <2>2 DEF Typed
  <2>9. Shown'
    <3>1. ASSUME NEW v \in Windows
          PROVE  IF selected'[v] = NoTab THEN open' \cap TabsOf(v) = {}
                 ELSE selected'[v] \in (open' \cap TabsOf(v)) \ hidden'
      <4>1. selected[w] # NoTab BY DEF RestoreWindow
      <4>2. IF selected[v] = NoTab THEN open \cap TabsOf(v) = {}
            ELSE selected[v] \in (open \cap TabsOf(v)) \ hidden
        BY DEF Typed, Shown
      <4>3. added \cap open = {} /\ added \subseteq TabsOf(w) /\ hid \subseteq added
        BY <2>1, FreeTabs
      <4>4. v # w => TabsOf(v) \cap TabsOf(w) = {} BY DEF TabsOf
      <4> QED BY <2>1, <4>1, <4>2, <4>3, <4>4
    <3> QED BY <3>1 DEF Shown
  <2> QED BY <2>1, <2>7, <2>8, <2>9 DEF Typed
<1> QED BY <1>1, <1>2 DEF RestoreWindow

\* and so does a window that is closed,
LEMMA CloseWindowTyped ==
  ASSUME Typed, NEW w \in Windows, CloseWindow(w)
  PROVE  Typed'
<1>1. /\ ss' \in Closed(ss, {w}) /\ open' = open \ TabsOf(w) /\ hidden' = hidden \ TabsOf(w)
      /\ selected' = [selected EXCEPT ![w] = NoTab] /\ chains' = chains
  BY DEF CloseWindow
<1>2. ss' \in Recs
  <2>1. PICK x, ws : x \in Recs /\ x = ss /\ ws = {w} BY DEF Typed
  <2> QED BY <1>1, <2>1, ClosedTyped
<1>3. open' \in SUBSET Tabs /\ hidden' \in SUBSET open' BY <1>1 DEF Typed
<1>4. selected' \in [Windows -> Tabs \cup {NoTab}] BY <1>1 DEF Typed
<1>5. Shown'
  <2>1. ASSUME NEW v \in Windows
        PROVE  IF selected'[v] = NoTab THEN open' \cap TabsOf(v) = {}
               ELSE selected'[v] \in (open' \cap TabsOf(v)) \ hidden'
    <3>1. IF selected[v] = NoTab THEN open \cap TabsOf(v) = {}
          ELSE selected[v] \in (open \cap TabsOf(v)) \ hidden
      BY DEF Typed, Shown
    <3>2. v # w => TabsOf(v) \cap TabsOf(w) = {} BY DEF TabsOf
    <3>3. selected'[v] = IF v = w THEN NoTab ELSE selected[v] BY <1>1 DEF Typed
    <3> QED BY <1>1, <3>1, <3>2, <3>3
  <2> QED BY <2>1 DEF Shown
<1> QED BY <1>1, <1>2, <1>3, <1>4, <1>5 DEF Typed

\* one that is opened,
LEMMA OpenWindowTyped ==
  ASSUME Typed, NEW w \in Windows, OpenWindow(w)
  PROVE  Typed'
<1>1. PICK t \in Free(w) : t = Min(Free(w))
  <2>1. Free(w) \in SUBSET Nat /\ Free(w) # {}
    BY FreeTabs, TabsFinite DEF OpenWindow
  <2> QED BY <2>1, MinOfSet
<1>2. /\ selected' = [selected EXCEPT ![w] = t] /\ open' = open \cup {selected'[w]}
      /\ ss' = [ss EXCEPT !.left[w] = Unset, !.on = @ \ {w}]
      /\ hidden' = hidden /\ chains' = chains /\ selected[w] = NoTab
  BY <1>1 DEF OpenWindow
<1>3. t \in TabsOf(w) /\ t \notin open /\ t \in Tabs /\ t # NoTab
  BY FreeTabs, ConstantsAssumption
<1>4. selected'[w] = t /\ open' = open \cup {t} BY <1>2 DEF Typed
<1>5. ss' \in Recs BY <1>2 DEF Typed, Recs
<1>6. selected' \in [Windows -> Tabs \cup {NoTab}] BY <1>2, <1>3 DEF Typed
<1>7. open' \in SUBSET Tabs /\ hidden' \in SUBSET open' BY <1>2, <1>3, <1>4 DEF Typed
<1>8. Shown'
  <2>1. ASSUME NEW v \in Windows
        PROVE  IF selected'[v] = NoTab THEN open' \cap TabsOf(v) = {}
               ELSE selected'[v] \in (open' \cap TabsOf(v)) \ hidden'
    <3>1. IF selected[v] = NoTab THEN open \cap TabsOf(v) = {}
          ELSE selected[v] \in (open \cap TabsOf(v)) \ hidden
      BY DEF Typed, Shown
    <3>2. v # w => t \notin TabsOf(v) BY <1>3 DEF TabsOf
    <3>3. selected'[v] = IF v = w THEN t ELSE selected[v] BY <1>2 DEF Typed
    <3>4. hidden \subseteq open BY DEF Typed
    <3> QED BY <1>2, <1>3, <1>4, <3>1, <3>2, <3>3, <3>4
  <2> QED BY <2>1 DEF Shown
<1> QED BY <1>2, <1>5, <1>6, <1>7, <1>8 DEF Typed

\* setBrowserState,
LEMMA SetBrowserStateTyped ==
  ASSUME Typed, NEW w \in Windows, SetBrowserState(w)
  PROVE  Typed'
<1> DEFINE others == {v \in Windows \ {w} : selected[v] # NoTab}
<1>1. PICK x \in Closed([ss EXCEPT !.queue = NoQueue, !.count = 0], others),
           kept \in SUBSET (open \cap TabsOf(w)), added \in SUBSET Free(w),
           hid \in SUBSET Free(w), first \in TabsOf(w) :
        /\ Fits(w, kept, added, hid, first)
        /\ Overwrite(x, w, kept, added, hid, first, others)
  BY DEF SetBrowserState
<1>2. x \in Recs
  <2>1. NoQueue \in Queues
    <3>1. <<>> \in Seq(Tabs) OBVIOUS
    <3> QED BY <3>1 DEF NoQueue, Queues
  <2>2. PICK y \in Recs : y = [ss EXCEPT !.queue = NoQueue, !.count = 0]
    BY <2>1 DEF Typed, Recs
  <2>3. PICK ws : ws = others OBVIOUS
  <2>4. x \in Closed(y, ws) BY <1>1, <2>2, <2>3
  <2> QED BY <2>4, ClosedTyped
<1>3. PICK gone : gone = others OBVIOUS
<1>4. w \notin gone /\ Overwrite(x, w, kept, added, hid, first, gone) BY <1>1, <1>3
<1> QED BY <1>1, <1>2, <1>4, OverwriteTyped

\* Steps that leave the tabs of the windows alone.
LEMMA SameTabsTyped ==
  ASSUME Typed, ss' \in Recs, chains' \in Seq(Calls), UNCHANGED <<open, hidden, selected>>
  PROVE  Typed'
BY DEF Typed, Shown

\* the end of a load,
LEMMA LoadStopsTyped ==
  ASSUME Typed, NEW t \in Tabs, LoadStops(t)
  PROVE  Typed'
<1>1. PICK loaded \in BOOLEAN :
       LET x == [ss EXCEPT !.loads = @ \ {t},
                           !.data = IF loaded /\ ss.st[t] # "needs" THEN @ \ {t} ELSE @]
       IN IF ss.st[t] = "restoring" /\ Home[t] \in ss.on
          THEN ss' \in RestoreNext(Reset(x, t, hidden), hidden)
          ELSE ss' = x
  BY DEF LoadStops
<1>2. PICK x \in Recs : x = [ss EXCEPT !.loads = @ \ {t},
                           !.data = IF loaded /\ ss.st[t] # "needs" THEN @ \ {t} ELSE @]
  <2>1. PICK data \in SUBSET Tabs :
          data = IF loaded /\ ss.st[t] # "needs" THEN ss.data \ {t} ELSE ss.data
    BY DEF Typed, Recs
  <2>2. PICK y : y = [ss EXCEPT !.loads = @ \ {t}, !.data = data] OBVIOUS
  <2>3. y \in Recs BY <2>2 DEF Typed, Recs
  <2> QED BY <2>1, <2>2, <2>3
<1>3. ss' \in RestoreNext(Reset(x, t, hidden), hidden) \/ ss' = x BY <1>1, <1>2
<1>4. ss' \in Recs BY <1>3, ResetEffect, RestoreNextTyped
<1>5. chains' = chains /\ UNCHANGED <<open, hidden, selected>> BY DEF LoadStops
<1> QED BY <1>4, <1>5, SameTabsTyped DEF Typed

\* a tab that is selected,
LEMMA SelectTabTyped ==
  ASSUME Typed, NEW t \in Tabs, SelectTab(t)
  PROVE  Typed'
<1>1. ss' \in Recs
  <2>1. PICK x \in Recs : x = ss BY DEF Typed
  <2> QED BY <2>1, SelectedTyped DEF SelectTab
<1>2. /\ selected' = [selected EXCEPT ![Home[t]] = t] /\ t \in open \ hidden
      /\ UNCHANGED <<open, hidden, chains>>
  BY DEF SelectTab, Selectable
<1>3. Home[t] \in Windows /\ t \in TabsOf(Home[t]) /\ t # NoTab
  BY TabsFinite, ConstantsAssumption
<1>4. selected' \in [Windows -> Tabs \cup {NoTab}] BY <1>2 DEF Typed
<1>5. Shown' BY <1>2, <1>3 DEF Typed, Shown
<1> QED BY <1>1, <1>2, <1>4, <1>5 DEF Typed

\* a tab that is closed: another one of its window is shown,
LEMMA CloseTabTyped ==
  ASSUME Typed, NEW t \in Tabs, CloseTab(t)
  PROVE  Typed'
<1> DEFINE w == Home[t]
           shown == (TabsOf(w) \cap Selectable) \ {t}
<1>1. PICK x \in RemoveTab(ss, t, hidden) :
        IF selected[w] # t THEN ss' = x /\ UNCHANGED selected
        ELSE \E u \in shown : /\ selected' = [selected EXCEPT ![w] = u]
                              /\ ss' \in Selected(x, u, hidden)
  BY DEF CloseTab
<1>2. /\ open' = open \ {t} /\ hidden' = hidden \ {t} /\ chains' = chains /\ t \in open
  BY DEF CloseTab
<1>3. x \in Recs
  <2>1. PICK y \in Recs : y = ss BY DEF Typed
  <2> QED BY <1>1, <2>1, RemoveTabTyped
<1>4. w \in Windows /\ t \in TabsOf(w) BY TabsFinite
<1>5. \A v \in Windows : v # w => t \notin TabsOf(v) BY <1>4 DEF TabsOf
<1>6. CASE selected[w] # t
  <2>1. ss' = x /\ selected' = selected BY <1>1, <1>6
  <2>2. Shown' BY <1>2, <1>5, <1>6, <2>1 DEF Typed, Shown
  <2> QED BY <1>2, <1>3, <2>1, <2>2 DEF Typed
<1>7. CASE selected[w] = t
  <2>1. PICK u \in shown : /\ selected' = [selected EXCEPT ![w] = u]
                           /\ ss' \in Selected(x, u, hidden)
    BY <1>1, <1>7
  <2>2. u \in TabsOf(w) /\ u \in open \ hidden /\ u # t /\ u \in Tabs /\ u # NoTab
    BY ConstantsAssumption DEF Selectable, TabsOf
  <2>3. ss' \in Recs BY <1>3, <2>1, <2>2, SelectedTyped
  <2>4. selected' \in [Windows -> Tabs \cup {NoTab}] BY <2>1, <2>2 DEF Typed
  <2>5. \A v \in Windows : selected'[v] = IF v = w THEN u ELSE selected[v]
    BY <2>1 DEF Typed
  <2>6. Shown' BY <1>2, <1>5, <2>2, <2>5 DEF Typed, Shown
  <2> QED BY <1>2, <2>3, <2>4, <2>6 DEF Typed
<1> QED BY <1>6, <1>7

\* A tab moves from one bucket to another.
LEMMA MovedTyped ==
  ASSUME NEW x \in Recs, NEW t \in Tabs
  PROVE  /\ t \in ToSet(x.queue.hidden) =>
              [x EXCEPT !.queue.hidden = RemoveFirst(@, t),
                        !.queue.visible = Append(@, t)] \in Recs
         /\ t \in ToSet(x.queue.visible) =>
              [x EXCEPT !.queue.visible = RemoveFirst(@, t),
                        !.queue.hidden = Append(@, t)] \in Recs
<1>1. x.queue.hidden \in Seq(Tabs) /\ x.queue.visible \in Seq(Tabs) BY DEF Recs, Queues
<1>2. PICK h \in Seq(Tabs), v \in Seq(Tabs) :
        h = Append(x.queue.hidden, t) /\ v = Append(x.queue.visible, t)
  BY <1>1, AppendElements
<1>3. ASSUME t \in ToSet(x.queue.hidden)
      PROVE  [x EXCEPT !.queue.hidden = RemoveFirst(@, t),
                       !.queue.visible = Append(@, t)] \in Recs
  <2>1. PICK s \in Seq(Tabs) : s = RemoveFirst(x.queue.hidden, t)
    BY <1>1, <1>3, RemoveFirstElements
  <2>2. PICK y : y = [x EXCEPT !.queue.hidden = s, !.queue.visible = v] OBVIOUS
  <2>3. y \in Recs BY <2>2 DEF Recs, Queues
  <2>4. y = [x EXCEPT !.queue.hidden = RemoveFirst(@, t), !.queue.visible = Append(@, t)]
    BY <1>2, <2>1, <2>2 DEF Recs, Queues
  <2> QED BY <2>3, <2>4
<1>4. ASSUME t \in ToSet(x.queue.visible)
      PROVE  [x EXCEPT !.queue.visible = RemoveFirst(@, t),
                       !.queue.hidden = Append(@, t)] \in Recs
  <2>1. PICK s \in Seq(Tabs) : s = RemoveFirst(x.queue.visible, t)
    BY <1>1, <1>4, RemoveFirstElements
  <2>2. PICK y : y = [x EXCEPT !.queue.visible = s, !.queue.hidden = h] OBVIOUS
  <2>3. y \in Recs BY <2>2 DEF Recs, Queues
  <2>4. y = [x EXCEPT !.queue.visible = RemoveFirst(@, t), !.queue.hidden = Append(@, t)]
    BY <1>2, <2>1, <2>2 DEF Recs, Queues
  <2> QED BY <2>3, <2>4
<1> QED BY <1>3, <1>4

\* a tab that is shown,
LEMMA ShowTabTyped ==
  ASSUME Typed, NEW t \in Tabs, ShowTab(t)
  PROVE  Typed'
<1>1. PICK x, hid : x \in Recs /\ x = ss /\ hid = hidden' BY DEF Typed
<1>2. ss' \in Recs
  <2>1. CASE ss.st[t] = "needs" /\ t \in ToSet(ss.queue.hidden)
    <3>1. PICK y \in Recs : y = [x EXCEPT !.queue.hidden = RemoveFirst(@, t),
                                          !.queue.visible = Append(@, t)]
      BY <1>1, <2>1, MovedTyped
    <3>2. ss' \in RestoreNext(y, hid) BY <1>1, <2>1, <3>1 DEF ShowTab
    <3> QED BY <3>2, RestoreNextTyped
  <2>2. CASE ~(ss.st[t] = "needs" /\ t \in ToSet(ss.queue.hidden))
    BY <1>1, <2>2 DEF ShowTab
  <2> QED BY <2>1, <2>2
<1>3. hidden' = hidden \ {t} /\ UNCHANGED <<open, selected, chains>> BY DEF ShowTab
<1> QED BY <1>2, <1>3 DEF Typed, Shown

\* a tab that is hidden: it is not the selected one,
LEMMA HideTabTyped ==
  ASSUME Typed, NEW t \in Tabs, HideTab(t)
  PROVE  Typed'
<1>1. PICK x \in Recs : x = ss BY DEF Typed
<1>2. ss' \in Recs BY <1>1, MovedTyped DEF HideTab
<1>3. /\ hidden' = hidden \cup {t} /\ UNCHANGED <<open, selected, chains>>
      /\ t \in open /\ selected[Home[t]] # t
  BY DEF HideTab
<1>4. \A w \in Windows : selected[w] = t => w = Home[t]
  <2> TAKE w \in Windows
  <2>1. t # NoTab BY ConstantsAssumption
  <2> QED BY <2>1 DEF Typed, Shown, TabsOf
<1> QED BY <1>2, <1>3, <1>4 DEF Typed, Shown

\* a tab that is reloaded,
LEMMA ReloadTabTyped ==
  ASSUME Typed, NEW t \in Tabs, ReloadTab(t)
  PROVE  Typed'
<1>1. PICK x \in Recs : x = ss BY DEF Typed
<1>2. ss' \in Recs /\ chains' = chains BY <1>1, RestoreTyped DEF ReloadTab
<1> QED BY <1>2, SameTabsTyped DEF Typed, ReloadTab

\* the timeout of restoreHistory,
LEMMA ContinueHistoryTyped ==
  ASSUME Typed, ContinueHistory
  PROVE  Typed'
<1>1. PICK i \in DOMAIN chains :
        \E o \in RestoreHistory(ss, chains[i], open, hidden, selected) :
          ss' = o[1] /\ chains' = RemoveAt(chains, i) \o o[2]
  BY DEF ContinueHistory
<1>2. PICK x, call, opn, hid, sel :
        /\ x \in Recs /\ call \in Calls
        /\ x = ss /\ call = chains[i] /\ opn = open /\ hid = hidden /\ sel = selected
  <2>1. chains[i] \in Calls BY LenProperties DEF Typed
  <2> QED BY <2>1 DEF Typed
<1>3. x \in Recs /\ call \in Calls BY <1>2
<1>4. PICK o \in RestoreHistory(x, call, opn, hid, sel) :
        ss' = o[1] /\ chains' = RemoveAt(chains, i) \o o[2]
  BY <1>1, <1>2
<1>5. ss' \in Recs /\ o[2] \in Seq(Calls) BY <1>3, <1>4, RestoreHistoryTyped
<1>6. PICK c \in Seq(Calls) : c = RemoveAt(chains, i)
  <2>1. chains \in Seq(Calls) /\ i \in 1..Len(chains) BY LenProperties DEF Typed
  <2> QED BY <2>1, RemoveAtElements
<1>7. chains' \in Seq(Calls) BY <1>4, <1>5, <1>6, ConcatProperties
<1> QED BY <1>5, <1>7, SameTabsTyped DEF ContinueHistory

\* the end of all history,
LEMMA PurgeHistoryTyped ==
  ASSUME Typed, PurgeHistory
  PROVE  Typed'
<1>1. PICK x \in Recs : x = [ss EXCEPT !.data = {}] BY DEF Typed, Recs
<1>2. ss' \in Recs BY <1>1, ResetEachTyped DEF PurgeHistory
<1> QED BY <1>2, SameTabsTyped DEF Typed, PurgeHistory

\* duplicateTab,
LEMMA DuplicateTabTyped ==
  ASSUME Typed, NEW t \in Tabs, DuplicateTab(t)
  PROVE  Typed'
<1>1. PICK x \in Recs, tabs \in Seq(Tabs) : x = ss /\ tabs = <<t>>
  <2>1. <<t>> \in Seq(Tabs) OBVIOUS
  <2>2. ss \in Recs BY DEF Typed
  <2> QED BY <2>1, <2>2, Zenon
<1>2. PICK opn, hid, sel : opn = open' /\ hid = hidden /\ sel = selected OBVIOUS
<1>3. RestoreTabs(x, tabs, TRUE, opn, hid, sel) BY <1>2, <1>1 DEF DuplicateTab
<1>4. ss' \in Recs /\ chains' \in Seq(Calls) BY <1>3, RestoreTabsTyped
<1>5. /\ open' = open \cup {t} /\ UNCHANGED <<hidden, selected>> /\ t \in Free(Home[t])
      /\ selected[Home[t]] # NoTab
  BY DEF DuplicateTab
<1>6. t \notin open /\ \A w \in Windows : t \in TabsOf(w) => w = Home[t]
  BY <1>5, FreeTabs DEF TabsOf
<1>7. Shown' BY <1>5, <1>6 DEF Typed, Shown
<1> QED BY <1>4, <1>5, <1>7 DEF Typed

\* undoCloseTab,
LEMMA UndoCloseTabTyped ==
  ASSUME Typed, NEW t \in Tabs, UndoCloseTab(t)
  PROVE  Typed'
<1>1. PICK x \in Recs, tabs \in Seq(Tabs) : x = ss /\ tabs = <<t>>
  <2>1. <<t>> \in Seq(Tabs) OBVIOUS
  <2>2. ss \in Recs BY DEF Typed
  <2> QED BY <2>1, <2>2, Zenon
<1>2. PICK opn, hid, sel : opn = open' /\ hid = hidden /\ sel = selected' OBVIOUS
<1>3. RestoreTabs(x, tabs, FALSE, opn, hid, sel) BY <1>2, <1>1 DEF UndoCloseTab
<1>4. ss' \in Recs /\ chains' \in Seq(Calls) BY <1>3, RestoreTabsTyped
<1>5. /\ open' = open \cup {t} /\ hidden' = hidden /\ t \in Free(Home[t])
      /\ selected' = [selected EXCEPT ![Home[t]] = t]
  BY DEF UndoCloseTab
<1>6. /\ t \notin open /\ \A w \in Windows : t \in TabsOf(w) => w = Home[t]
      /\ t \in TabsOf(Home[t]) /\ Home[t] \in Windows /\ t # NoTab
  BY <1>5, FreeTabs, TabsFinite, ConstantsAssumption DEF TabsOf
<1>7. /\ selected' \in [Windows -> Tabs \cup {NoTab}]
      /\ \A w \in Windows : selected'[w] = IF w = Home[t] THEN t ELSE selected[w]
  BY <1>5 DEF Typed
<1>8. Shown' BY <1>5, <1>6, <1>7 DEF Typed, Shown
<1> QED BY <1>4, <1>5, <1>7, <1>8 DEF Typed

\* and setTabState.
LEMMA SetTabStateTyped ==
  ASSUME Typed, NEW t \in Tabs, SetTabState(t)
  PROVE  Typed'
<1>1. PICK x \in Recs, tabs \in Seq(Tabs) : x = ss /\ tabs = <<t>>
  <2>1. <<t>> \in Seq(Tabs) OBVIOUS
  <2>2. ss \in Recs BY DEF Typed
  <2> QED BY <2>1, <2>2, Zenon
<1>2. PICK opn, hid, sel : opn = open /\ hid = hidden /\ sel = selected OBVIOUS
<1>3. RestoreTabs(x, tabs, FALSE, opn, hid, sel) BY <1>2, <1>1 DEF SetTabState
<1>4. ss' \in Recs /\ chains' \in Seq(Calls) BY <1>3, RestoreTabsTyped
<1> QED BY <1>4, SameTabsTyped DEF SetTabState

\* No step leaves the types.
LEMMA TypedNext == Typed /\ [Next]_vars => Typed'
<1> SUFFICES ASSUME Typed, [Next]_vars PROVE Typed' OBVIOUS
<1>1. CASE \E w \in Windows : RestoreWindow(w) \/ CloseWindow(w) \/ OpenWindow(w)
                                \/ SetBrowserState(w)
  BY <1>1, RestoreWindowTyped, CloseWindowTyped, OpenWindowTyped, SetBrowserStateTyped
<1>2. CASE \E t \in Tabs : LoadStops(t) \/ SelectTab(t) \/ CloseTab(t)
  BY <1>2, LoadStopsTyped, SelectTabTyped, CloseTabTyped
<1>3. CASE \E t \in Tabs : ShowTab(t) \/ HideTab(t) \/ ReloadTab(t)
  BY <1>3, ShowTabTyped, HideTabTyped, ReloadTabTyped
<1>4. CASE \E t \in Tabs : DuplicateTab(t) \/ UndoCloseTab(t) \/ SetTabState(t)
  BY <1>4, DuplicateTabTyped, UndoCloseTabTyped, SetTabStateTyped
<1>5. CASE ContinueHistory \/ PurgeHistory \/ Quit \/ UNCHANGED vars
  <2>1. ASSUME Quit \/ UNCHANGED vars PROVE Typed'
    BY <2>1 DEF Typed, Shown, Quit, vars
  <2> QED BY <1>5, <2>1, ContinueHistoryTyped, PurgeHistoryTyped
<1> QED BY <1>1, <1>2, <1>3, <1>4, <1>5 DEF Next

\* Every variable stays within its type, whatever is called and in whatever order.
THEOREM TypeCorrect == Spec => []TypeOK
<1>1. Typed /\ [Next]_vars => Typed' BY TypedNext
<1> QED BY <1>1, TypedInit, TypedImplies, PTL DEF Spec

-----------------------------------------------------------------------------
\* Sound restoring states, and the operations that keep them.

RestoringIn(x) == {t \in Tabs : x.st[t] = "restoring"}
WaitingIn(x) == {t \in Tabs : x.st[t] = "needs"}
Undone(x) == {t \in Tabs : x.st[t] # "none"}

\* __SS_tabsToRestore counts the tabs of a window that are not done.
CountedOff(x) ==
  \A w \in Windows :
    /\ x.left[w] = Unset => Undone(x) \cap TabsOf(w) = {}
    /\ x.left[w] # Unset => x.left[w] = Cardinality(Undone(x) \cap TabsOf(w))

\* Outside of D the queue holds what waits, outside of C the listeners are.
Filed(x, hid, C, D) ==
  /\ Entries(x.queue) = WaitingIn(x) \ D /\ InOrder(x.queue, hid)
  /\ x.history \subseteq WaitingIn(x) \ C

\* The end of every load is heard, but in the windows of ws.
Heard(x, ws) == \A t \in RestoringIn(x) : Home[t] \in ws \/ Home[t] \in x.on

\* The preferences let t be restored in its turn, and none of Q goes first.
Allowed(t, hid, Q) ==
  \/ t \in Pinned /\ ~(RestoreOnDemand /\ PinnedOnDemand)
  \/ /\ t \notin Pinned /\ ~RestoreOnDemand /\ Q \cap Pinned = {}
     /\ t \in hid => RestoreHidden /\ Q \subseteq hid

\* t may be restored for this reason.
Due(t, why, hid, Q) == why = "asked" \/ Allowed(t, hid, Q)

\* The tabs that load are those of before, those asked for and those allowed.
InTurn(x, hid, before) ==
  \A t \in RestoringIn(x) \ before : t \in x.asked \/ Allowed(t, hid, Entries(x.queue))

Sound(x, hid, C, D, ws, before) ==
  /\ x \in Recs
  /\ x.count = Cardinality(RestoringIn(x)) /\ CountedOff(x)
  /\ Filed(x, hid, C, D) /\ Heard(x, ws) /\ InTurn(x, hid, before)

\* The tabs that load have a load, those that are not done have their data.
Fed(x) == RestoringIn(x) \subseteq x.loads /\ Undone(x) \subseteq x.data

\* Turns stay right while the queue gets shorter.
LEMMA ShorterQueue ==
  ASSUME NEW t, NEW hid, NEW P, NEW Q \in SUBSET P, Allowed(t, hid, P)
  PROVE  Allowed(t, hid, Q)
BY DEF Allowed

\* A tab that is marked as restoring.
LEMMA MarkedRestoring ==
  ASSUME NEW x \in Recs, NEW y, NEW t \in Tabs, y.st = [x.st EXCEPT ![t] = "restoring"]
  PROVE  /\ WaitingIn(y) = WaitingIn(x) \ {t}
         /\ RestoringIn(y) = RestoringIn(x) \cup {t} /\ Undone(y) = Undone(x) \cup {t}
         /\ \A u \in Tabs : u # t => y.st[u] = x.st[u]
<1>1. \A u \in Tabs : y.st[u] = IF u = t THEN "restoring" ELSE x.st[u] BY DEF Recs
<1> QED BY <1>1 DEF WaitingIn, RestoringIn, Undone

\* A tab that is marked as done.
LEMMA MarkedNone ==
  ASSUME NEW x \in Recs, NEW y, NEW t \in Tabs, y.st = [x.st EXCEPT ![t] = "none"]
  PROVE  /\ WaitingIn(y) = WaitingIn(x) \ {t}
         /\ RestoringIn(y) = RestoringIn(x) \ {t} /\ Undone(y) = Undone(x) \ {t}
         /\ \A u \in Tabs : u # t => y.st[u] = x.st[u]
<1>1. \A u \in Tabs : y.st[u] = IF u = t THEN "none" ELSE x.st[u] BY DEF Recs
<1> QED BY <1>1 DEF WaitingIn, RestoringIn, Undone

\* A tab that waits or loads is not done; all these sets are finite.
LEMMA StateSets ==
  ASSUME NEW x
  PROVE  /\ WaitingIn(x) \subseteq Undone(x) /\ RestoringIn(x) \subseteq Undone(x)
         /\ Undone(x) \subseteq Tabs /\ WaitingIn(x) \cap RestoringIn(x) = {}
         /\ \A S \in SUBSET Undone(x) : IsFiniteSet(S) /\ Cardinality(S) \in Nat
<1>1. Undone(x) \subseteq Tabs BY DEF Undone
<1>2. \A S \in SUBSET Undone(x) : IsFiniteSet(S) /\ Cardinality(S) \in Nat
  BY <1>1, TabsFinite
<1> QED BY <1>1, <1>2 DEF WaitingIn, RestoringIn, Undone

\* One element more, and one less.
LEMMA OneMore ==
  ASSUME NEW S \in SUBSET Tabs, NEW t
  PROVE  /\ t \in Tabs \ S => Cardinality(S \cup {t}) = Cardinality(S) + 1
         /\ t \in S => /\ Cardinality(S \ {t}) = Cardinality(S) - 1
                       /\ Cardinality(S) > 0
         /\ Cardinality(S) = 0 <=> S = {}
<1>1. IsFiniteSet(S) /\ Cardinality(S) \in Nat BY TabsFinite
<1>2. Cardinality(S) = 0 <=> S = {} BY <1>1, FS_EmptySet
<1>3. t \in Tabs \ S => Cardinality(S \cup {t}) = Cardinality(S) + 1
  BY <1>1, FS_AddElement
<1>4. t \in S => Cardinality(S \ {t}) = Cardinality(S) - 1
  BY <1>1, FS_RemoveElement
<1> QED BY <1>1, <1>2, <1>3, <1>4

\* A tab that starts.
LEMMA StartedSound ==
  ASSUME NEW hid, NEW C, NEW D, NEW ws, NEW before, NEW x, Sound(x, hid, C, D, ws, before),
         NEW t \in WaitingIn(x), D \ {t} = C \ {t}, NEW why,
         Due(t, why, hid, Entries(x.queue)),
         NEW y \in Recs, StartedFields(y, x, t, why, hid)
  PROVE  /\ Sound(y, hid, C, C, ws, before)
         /\ RestoringIn(y) = RestoringIn(x) \cup {t} /\ WaitingIn(y) = WaitingIn(x) \ {t}
         /\ Undone(y) = Undone(x) /\ y.data = x.data /\ y.loads = x.loads
         /\ \A u \in Tabs : u # t => y.st[u] = x.st[u]
<1>1. x \in Recs /\ t \in Tabs /\ t \in Undone(x) /\ t \notin RestoringIn(x)
  BY StateSets DEF Sound, WaitingIn
<1>2. /\ y.st = [x.st EXCEPT ![t] = "restoring"] /\ y.on = x.on \cup {Home[t]}
      /\ y.count = x.count + 1 /\ y.history = x.history \ {t}
      /\ y.asked = IF why = "asked" THEN x.asked \cup {t} ELSE x.asked \ {t}
      /\ y.data = x.data /\ y.loads = x.loads /\ y.left = x.left
      /\ WithoutTab(y.queue, x.queue, t, hid)
  BY DEF StartedFields
<1>3. /\ RestoringIn(y) = RestoringIn(x) \cup {t} /\ WaitingIn(y) = WaitingIn(x) \ {t}
      /\ Undone(y) = Undone(x) \cup {t} /\ \A u \in Tabs : u # t => y.st[u] = x.st[u]
  BY <1>1, <1>2, MarkedRestoring
<1>4. Undone(y) = Undone(x) BY <1>1, <1>3
<1>5. y.count = Cardinality(RestoringIn(y))
  <2>1. x.count = Cardinality(RestoringIn(x)) /\ RestoringIn(x) \in SUBSET Tabs
    BY DEF Sound, RestoringIn
  <2> QED BY <1>1, <1>2, <1>3, <2>1, OneMore
<1>6. CountedOff(y) BY <1>2, <1>4 DEF Sound, CountedOff
<1>7. Filed(y, hid, C, C)
  <2>1. /\ Entries(x.queue) = WaitingIn(x) \ D /\ InOrder(x.queue, hid)
        /\ x.history \subseteq WaitingIn(x) \ C
    BY DEF Sound, Filed
  <2>2. Entries(y.queue) = Entries(x.queue) \ {t} /\ InOrder(y.queue, hid)
    BY <1>2, <2>1 DEF WithoutTab
  <2>3. Entries(y.queue) = WaitingIn(y) \ C BY <1>3, <2>1, <2>2
  <2> QED BY <1>2, <1>3, <2>1, <2>2, <2>3 DEF Filed
<1>8. Heard(y, ws) BY <1>2, <1>3 DEF Sound, Heard
<1>9. InTurn(y, hid, before)
  <2>1. Entries(y.queue) \subseteq Entries(x.queue)
    BY <1>2 DEF Sound, Filed, WithoutTab
  <2>2. \A u \in Tabs : Allowed(u, hid, Entries(x.queue)) => Allowed(u, hid, Entries(y.queue))
    BY <2>1, ShorterQueue
  <2>3. \A u \in RestoringIn(x) \ before : u \in x.asked \/ Allowed(u, hid, Entries(x.queue))
    BY DEF Sound, InTurn
  <2>4. why = "asked" \/ Allowed(t, hid, Entries(x.queue)) BY DEF Due
  <2>5. RestoringIn(x) \subseteq Tabs BY DEF RestoringIn
  <2> QED BY <1>1, <1>2, <1>3, <2>2, <2>3, <2>4, <2>5 DEF InTurn
<1> QED BY <1>2, <1>3, <1>4, <1>5, <1>6, <1>7, <1>8, <1>9 DEF Sound

\* The counter of a window when one of its tabs is done, and its listener.
LEMMA ResetCounted ==
  ASSUME NEW x \in Recs, NEW y \in Recs, NEW t \in Undone(x), NEW hid, CountedOff(x),
         ResetFields(y, x, t, hid)
  PROVE  /\ CountedOff(y)
         /\ \A u \in RestoringIn(y) : Home[u] \in x.on => Home[u] \in y.on
<1> DEFINE w == Home[t]
           n == x.left[w]
           U == Undone(x) \cap TabsOf(w)
<1>1. /\ y.st = [x.st EXCEPT ![t] = "none"] /\ y.left = [x.left EXCEPT ![w] = OneLess(n)]
      /\ y.on = Unlistened(x.on, w, OneLess(n))
  BY DEF ResetFields
<1>2. t \in Tabs /\ w \in Windows /\ t \in U BY StateSets, TabsFinite
<1>3. n = Cardinality(U) /\ n \in Int /\ n # Unset /\ U \in SUBSET Tabs
  <2>1. n # Unset BY <1>2 DEF CountedOff
  <2>2. n \in Int \cup {Unset} BY <1>2 DEF Recs
  <2>3. U \in SUBSET Tabs BY DEF Undone
  <2> QED BY <1>2, <2>1, <2>2, <2>3 DEF CountedOff
<1>4. OneLess(n) = Cardinality(U \ {t}) /\ OneLess(n) \in Int
  <2> HIDE DEF U, n
  <2>1. Cardinality(U \ {t}) = Cardinality(U) - 1 BY <1>2, <1>3, OneMore
  <2> QED BY <1>3, <2>1 DEF OneLess
<1>5. Undone(y) = Undone(x) \ {t} BY <1>1, <1>2, MarkedNone
<1>6. OneLess(n) # Unset BY <1>4, ConstantsAssumption
<1>7. ASSUME NEW v \in Windows
      PROVE  /\ y.left[v] = Unset => Undone(y) \cap TabsOf(v) = {}
             /\ y.left[v] # Unset => y.left[v] = Cardinality(Undone(y) \cap TabsOf(v))
  <2>1. y.left[v] = IF v = w THEN OneLess(n) ELSE x.left[v] BY <1>1 DEF Recs
  <2>2. CASE v = w
    <3>1. Undone(y) \cap TabsOf(v) = U \ {t} BY <1>5, <2>2
    <3>2. y.left[v] = OneLess(n) BY <2>1, <2>2
    <3> QED BY <3>1, <3>2, <1>4, <1>6
  <2>3. CASE v # w
    <3>1. t \notin TabsOf(v) BY <2>3 DEF TabsOf
    <3>2. Undone(y) \cap TabsOf(v) = Undone(x) \cap TabsOf(v) BY <1>5, <3>1
    <3>3. y.left[v] = x.left[v] BY <2>1, <2>3
    <3> QED BY <3>2, <3>3 DEF CountedOff
  <2> QED BY <2>2, <2>3
<1>8. CountedOff(y) BY <1>7 DEF CountedOff
<1>9. ASSUME NEW u \in RestoringIn(y), Home[u] \in x.on PROVE Home[u] \in y.on
  <2>1. CASE OneLess(n) = 0
    <3>1. U \ {t} = {}
      <4>1. U \ {t} \in SUBSET Tabs BY <1>3
      <4> HIDE DEF U
      <4> QED BY <4>1, <2>1, <1>4, OneMore
    <3>2. u \in Undone(x) \ {t} /\ u \in TabsOf(Home[u])
      BY <1>5, StateSets, TabsFinite
    <3>3. Home[u] # w BY <3>1, <3>2
    <3> QED BY <1>1, <1>9, <3>3 DEF Unlistened
  <2>2. CASE OneLess(n) # 0
    <3>1. ~IsZero(OneLess(n)) BY <1>6, <2>2 DEF IsZero
    <3> QED BY <1>1, <1>9, <3>1 DEF Unlistened
  <2> QED BY <2>1, <2>2
<1> QED BY <1>8, <1>9

\* A tab that is done.
LEMMA ResetSound ==
  ASSUME NEW hid, NEW C, NEW D, NEW ws, NEW before, NEW x, Sound(x, hid, C, D, ws, before),
         NEW t \in Undone(x), NEW y \in Recs, ResetFields(y, x, t, hid)
  PROVE  /\ Sound(y, hid, C, D, ws, before)
         /\ RestoringIn(y) = RestoringIn(x) \ {t} /\ WaitingIn(y) = WaitingIn(x) \ {t}
         /\ Undone(y) = Undone(x) \ {t} /\ y.data = x.data /\ y.loads = x.loads
         /\ \A u \in Tabs : u # t => y.st[u] = x.st[u]
<1>1. x \in Recs /\ t \in Tabs BY StateSets DEF Sound
<1>2. /\ y.st = [x.st EXCEPT ![t] = "none"]
      /\ y.count = IF x.st[t] = "restoring" THEN Released(x.count) ELSE x.count
      /\ y.data = x.data /\ y.loads = x.loads /\ y.asked = x.asked \ {t}
      /\ y.history = IF x.st[t] = "needs" THEN x.history \ {t} ELSE x.history
      /\ IF x.st[t] = "needs" THEN WithoutTab(y.queue, x.queue, t, hid)
                              ELSE y.queue = x.queue
  BY DEF ResetFields
<1>3. /\ RestoringIn(y) = RestoringIn(x) \ {t} /\ WaitingIn(y) = WaitingIn(x) \ {t}
      /\ Undone(y) = Undone(x) \ {t} /\ \A u \in Tabs : u # t => y.st[u] = x.st[u]
  BY <1>1, <1>2, MarkedNone
<1>4. CountedOff(y) /\ \A u \in RestoringIn(y) : Home[u] \in x.on => Home[u] \in y.on
  BY <1>1, ResetCounted DEF Sound
<1>5. y.count = Cardinality(RestoringIn(y))
  <2>1. x.count = Cardinality(RestoringIn(x)) /\ RestoringIn(x) \in SUBSET Tabs
    BY DEF Sound, RestoringIn
  <2>2. CASE x.st[t] = "restoring"
    <3>1. t \in RestoringIn(x) BY <1>1, <2>2 DEF RestoringIn
    <3> QED BY <1>2, <1>3, <2>1, <2>2, <3>1, OneMore DEF Released
  <2>3. CASE x.st[t] # "restoring"
    <3>1. RestoringIn(y) = RestoringIn(x) BY <1>3, <2>3 DEF RestoringIn
    <3> QED BY <1>2, <2>1, <2>3, <3>1
  <2> QED BY <2>2, <2>3
<1>6. Filed(y, hid, C, D)
  <2>1. /\ Entries(x.queue) = WaitingIn(x) \ D /\ InOrder(x.queue, hid)
        /\ x.history \subseteq WaitingIn(x) \ C
    BY DEF Sound, Filed
  <2>2. CASE x.st[t] = "needs"
    <3>1. Entries(y.queue) = Entries(x.queue) \ {t} /\ InOrder(y.queue, hid)
      BY <1>2, <2>1, <2>2 DEF WithoutTab
    <3>2. y.history = x.history \ {t} BY <1>2, <2>2
    <3> QED BY <1>3, <2>1, <3>1, <3>2 DEF Filed
  <2>3. CASE x.st[t] # "needs"
    <3>1. WaitingIn(y) = WaitingIn(x) BY <1>3, <2>3 DEF WaitingIn
    <3> QED BY <1>2, <2>1, <2>3, <3>1 DEF Filed
  <2> QED BY <2>2, <2>3
<1>7. Heard(y, ws) BY <1>3, <1>4 DEF Sound, Heard
<1>8. InTurn(y, hid, before)
  <2>1. Entries(y.queue) \subseteq Entries(x.queue)
    BY <1>2 DEF Sound, Filed, WithoutTab
  <2>2. \A u \in Tabs : Allowed(u, hid, Entries(x.queue)) => Allowed(u, hid, Entries(y.queue))
    BY <2>1, ShorterQueue
  <2>3. \A u \in RestoringIn(x) \ before : u \in x.asked \/ Allowed(u, hid, Entries(x.queue))
    BY DEF Sound, InTurn
  <2>4. RestoringIn(x) \subseteq Tabs BY DEF RestoringIn
  <2> QED BY <1>2, <1>3, <2>2, <2>3, <2>4 DEF InTurn
<1> QED BY <1>2, <1>3, <1>4, <1>5, <1>6, <1>7, <1>8 DEF Sound

\* The data and the loads are not part of it.
LEMMA SameSound ==
  ASSUME NEW hid, NEW C, NEW D, NEW ws, NEW before, NEW x, NEW y \in Recs,
         y.st = x.st, y.history = x.history, y.queue = x.queue, y.count = x.count,
         y.left = x.left, y.on = x.on, y.asked = x.asked
  PROVE  /\ Sound(x, hid, C, D, ws, before) => Sound(y, hid, C, D, ws, before)
         /\ RestoringIn(y) = RestoringIn(x) /\ WaitingIn(y) = WaitingIn(x)
         /\ Undone(y) = Undone(x)
<1>1. /\ RestoringIn(y) = RestoringIn(x) /\ WaitingIn(y) = WaitingIn(x)
      /\ Undone(y) = Undone(x)
  BY DEF RestoringIn, WaitingIn, Undone
<1>2. ASSUME Sound(x, hid, C, D, ws, before) PROVE Sound(y, hid, C, D, ws, before)
  <2>1. y.count = Cardinality(RestoringIn(y)) BY <1>1, <1>2 DEF Sound
  <2>2. CountedOff(y) BY <1>1, <1>2 DEF Sound, CountedOff
  <2>3. Filed(y, hid, C, D) BY <1>1, <1>2 DEF Sound, Filed
  <2>4. Heard(y, ws) /\ InTurn(y, hid, before) BY <1>1, <1>2 DEF Sound, Heard, InTurn
  <2> QED BY <2>1, <2>2, <2>3, <2>4 DEF Sound
<1> QED BY <1>1, <1>2

\* What starting and restoring tabs does not change: data is kept, no tab
\* becomes undone, and the tabs of C stay as they are.
Goes(z, x, C) ==
  z.data = x.data /\ Undone(z) \subseteq Undone(x) /\ \A u \in C : z.st[u] = x.st[u]

\* restoreTab of a tab that waits and may be restored.
Startable(x, t, why, hid, C, D, ws, before) ==
  /\ Sound(x, hid, C, D, ws, before) /\ Fed(x) /\ C \in SUBSET Tabs
  /\ t \in WaitingIn(x) /\ t \notin C /\ D \ {t} = C /\ Due(t, why, hid, Entries(x.queue))

\* It keeps the state sound, whether the tab loads or not.
LEMMA RestoreSound ==
  ASSUME NEW hid, NEW C, NEW D, NEW ws, NEW before, NEW x, NEW t, NEW why,
         Startable(x, t, why, hid, C, D, ws, before)
  PROVE  /\ \A z \in {Loading(x, t, why, hid), NotLoading(x, t, why, hid)} :
              z \in Recs /\ Sound(z, hid, C, C, ws, before) /\ Fed(z) /\ Goes(z, x, C)
         /\ Restore(x, t, why, hid) = {Loading(x, t, why, hid), NotLoading(x, t, why, hid)}
         /\ t \in x.data
<1>1. x \in Recs /\ t \in Tabs /\ t \in Undone(x) /\ t \in x.data
  BY StateSets DEF Sound, WaitingIn, Fed, Startable
<1>2. /\ D \ {t} = C \ {t} /\ t \in WaitingIn(x) /\ t \notin C
      /\ Due(t, why, hid, Entries(x.queue)) /\ Sound(x, hid, C, D, ws, before) /\ Fed(x)
      /\ C \in SUBSET Tabs
  BY DEF Startable
<1>3. PICK y \in Recs : /\ StartedFields(y, x, t, why, hid)
                        /\ Loading(x, t, why, hid) \in Recs
                        /\ Loading(x, t, why, hid) = [y EXCEPT !.loads = x.loads \cup {t}]
  BY <1>1, LoadingEffect
<1>4. /\ Sound(y, hid, C, C, ws, before)
      /\ RestoringIn(y) = RestoringIn(x) \cup {t} /\ WaitingIn(y) = WaitingIn(x) \ {t}
      /\ Undone(y) = Undone(x) /\ y.data = x.data /\ y.loads = x.loads
      /\ \A u \in Tabs : u # t => y.st[u] = x.st[u]
  <2>1. StartedFields(y, x, t, why, hid) BY <1>3
  <2> QED BY <2>1, <1>2, StartedSound
<1>5. PICK z \in Recs : z = Loading(x, t, why, hid) BY <1>3
<1>6. /\ z.st = y.st /\ z.history = y.history /\ z.queue = y.queue /\ z.count = y.count
      /\ z.left = y.left /\ z.on = y.on /\ z.asked = y.asked /\ z.data = y.data
      /\ z.loads = x.loads \cup {t}
  BY <1>3, <1>5 DEF Recs
<1>7. /\ Sound(z, hid, C, C, ws, before) /\ RestoringIn(z) = RestoringIn(y)
      /\ Undone(z) = Undone(y)
  BY <1>4, <1>6, SameSound
<1>8. Fed(z) BY <1>2, <1>4, <1>6, <1>7 DEF Fed
<1>9. Goes(z, x, C) BY <1>2, <1>4, <1>6, <1>7 DEF Goes
<1>10. PICK v \in Recs : /\ v = Started(x, t, why, hid)
                         /\ StartedFields(v, x, t, why, hid)
  BY <1>1, StartedEffect
<1>11. /\ Sound(v, hid, C, C, ws, before)
       /\ RestoringIn(v) = RestoringIn(x) \cup {t} /\ WaitingIn(v) = WaitingIn(x) \ {t}
       /\ Undone(v) = Undone(x) /\ v.data = x.data /\ v.loads = x.loads
       /\ \A u \in Tabs : u # t => v.st[u] = x.st[u]
  <2>1. StartedFields(v, x, t, why, hid) BY <1>10
  <2> QED BY <2>1, <1>2, StartedSound
<1>12. PICK r \in Recs : r = Reset(v, t, hid) /\ ResetFields(r, v, t, hid)
  BY <1>1, ResetEffect
<1>13. /\ Sound(r, hid, C, C, ws, before)
       /\ RestoringIn(r) = RestoringIn(v) \ {t} /\ WaitingIn(r) = WaitingIn(v) \ {t}
       /\ Undone(r) = Undone(v) \ {t} /\ r.data = v.data /\ r.loads = v.loads
       /\ \A u \in Tabs : u # t => r.st[u] = v.st[u]
  BY <1>1, <1>11, <1>12, ResetSound
<1>14. Fed(r) BY <1>2, <1>11, <1>13 DEF Fed
<1>15. Goes(r, x, C) BY <1>2, <1>11, <1>13 DEF Goes
<1>16. r = NotLoading(x, t, why, hid) BY <1>10, <1>12 DEF NotLoading
<1>17. Restore(x, t, why, hid) = {Loading(x, t, why, hid), NotLoading(x, t, why, hid)}
  BY <1>1 DEF Restore
<1> QED BY <1>1, <1>5, <1>7, <1>8, <1>9, <1>13, <1>14, <1>15, <1>4, <1>16, <1>17

\* The tab that shift takes may be restored, and is waited for by nobody else.
LEMMA ShiftedSound ==
  ASSUME NEW hid, NEW C \in SUBSET Tabs, NEW ws, NEW before, NEW x,
         Sound(x, hid, C, C, ws, before), MayRestoreNext(x),
         NEW t, t = NextTab(x), NEW y, y = Shifted(x)
  PROVE  /\ Sound(y, hid, C, C \cup {t}, ws, before) /\ t \in WaitingIn(y) \ C
         /\ Allowed(t, hid, Entries(y.queue)) /\ RestoringIn(y) = RestoringIn(x)
         /\ Undone(y) = Undone(x) /\ y.st = x.st /\ y.data = x.data /\ y.loads = x.loads
<1>1. x \in Recs BY DEF Sound
<1>2. PICK b \in Buckets, q \in Queues :
         /\ b \in ShiftFrom(x) /\ x.queue[b] # <<>> /\ x.queue[b] \in Seq(Tabs)
         /\ NextTab(x) = Head(x.queue[b]) /\ NextTab(x) \in Tabs
         /\ NextTab(x) \in ToSet(x.queue[b])
         /\ Shifted(x) = [x EXCEPT !.queue = q]
         /\ \A c \in Buckets : q[c] = IF c = b THEN Tail(x.queue[b]) ELSE x.queue[c]
  BY <1>1, ShiftedEffect
<1>3. /\ y \in Recs /\ y.st = x.st /\ y.history = x.history /\ y.count = x.count
      /\ y.left = x.left /\ y.on = x.on /\ y.asked = x.asked /\ y.data = x.data
      /\ y.loads = x.loads /\ y.queue = q
  BY <1>1, <1>2 DEF Recs
<1>4. /\ RestoringIn(y) = RestoringIn(x) /\ WaitingIn(y) = WaitingIn(x)
      /\ Undone(y) = Undone(x)
  BY <1>3 DEF RestoringIn, WaitingIn, Undone
<1>5. /\ Entries(x.queue) = WaitingIn(x) \ C /\ InOrder(x.queue, hid)
      /\ x.history \subseteq WaitingIn(x) \ C
  BY DEF Sound, Filed
<1>6. /\ ToSet(x.queue[b]) = ToSet(Tail(x.queue[b])) \cup {t}
      /\ IsInjective(Tail(x.queue[b])) /\ t \notin ToSet(Tail(x.queue[b]))
  <2>1. IsInjective(x.queue[b]) BY <1>5 DEF InOrder
  <2> QED BY <1>2, <2>1, HeadTailElements
<1>7. \A c \in Buckets : t \in ToSet(x.queue[c]) => c = b
  BY <1>2, <1>5 DEF InOrder, InBucket, Buckets
<1>8. \A c \in Buckets : ToSet(q[c]) = ToSet(x.queue[c]) \ {t} /\ IsInjective(q[c])
  BY <1>2, <1>5, <1>6, <1>7 DEF InOrder
<1>9. InOrder(q, hid) BY <1>5, <1>8 DEF InOrder
<1>10. ASSUME NEW e PROVE e \in Entries(q) <=> e \in Entries(x.queue) \ {t}
  <2>1. \A c \in Buckets : e \in ToSet(q[c]) <=> e \in ToSet(x.queue[c]) /\ e # t
    BY <1>8
  <2>2. e \in Entries(q) <=> \E c \in Buckets : e \in ToSet(q[c]) BY EntriesOf
  <2>3. e \in Entries(x.queue) <=> \E c \in Buckets : e \in ToSet(x.queue[c])
    BY EntriesOf
  <2> QED BY <2>1, <2>2, <2>3
<1>11. Entries(q) = WaitingIn(x) \ (C \cup {t})
  <2>1. Entries(q) = Entries(x.queue) \ {t} BY <1>10
  <2> QED BY <1>5, <2>1
<1>12. t \in WaitingIn(x) \ C
  <2>1. t \in Entries(x.queue) BY <1>2, EntriesOf
  <2> QED BY <1>5, <2>1
<1>13. Filed(y, hid, C, C \cup {t}) BY <1>3, <1>4, <1>5, <1>9, <1>11 DEF Filed
<1>14. Allowed(t, hid, Entries(q))
  <2>1. b \in ShiftFrom(x) /\ t \in InBucket(b, hid) BY <1>2, <1>5 DEF InOrder
  <2>2. CASE b = "priority"
    BY <2>1, <2>2 DEF ShiftFrom, InBucket, Allowed
  <2>3. ASSUME NEW e \in Entries(q)
        PROVE  \E c \in Buckets : x.queue[c] # <<>> /\ e \in InBucket(c, hid)
    <3>1. PICK c \in Buckets : e \in ToSet(q[c]) BY <2>3, EntriesOf
    <3>2. e \in ToSet(x.queue[c]) BY <1>8, <3>1
    <3>3. x.queue[c] # <<>> BY <3>2 DEF ToSet
    <3>4. e \in InBucket(c, hid) BY <1>5, <3>2 DEF InOrder
    <3> QED BY <3>3, <3>4
  <2>4. CASE b = "visible"
    <3>1. x.queue["priority"] = <<>> /\ ~RestoreOnDemand BY <2>1, <2>4 DEF ShiftFrom
    <3>2. Entries(q) \cap Pinned = {} BY <2>3, <3>1 DEF InBucket, Buckets
    <3>3. t \notin Pinned /\ t \notin hid BY <2>1, <2>4 DEF InBucket
    <3> QED BY <3>1, <3>2, <3>3 DEF Allowed
  <2>5. CASE b = "hidden"
    <3>1. /\ x.queue["priority"] = <<>> /\ x.queue["visible"] = <<>>
          /\ ~RestoreOnDemand /\ RestoreHidden
      BY <2>1, <2>5 DEF ShiftFrom
    <3>2. Entries(q) \cap Pinned = {} /\ Entries(q) \subseteq hid
      BY <2>3, <3>1 DEF InBucket, Buckets
    <3>3. t \notin Pinned BY <2>1, <2>5 DEF InBucket
    <3> QED BY <3>1, <3>2, <3>3 DEF Allowed
  <2> QED BY <2>2, <2>4, <2>5 DEF Buckets
<1>15. Heard(y, ws) /\ InTurn(y, hid, before)
  <2>1. Entries(q) \subseteq Entries(x.queue) BY <1>10
  <2>2. \A u \in Tabs : Allowed(u, hid, Entries(x.queue)) => Allowed(u, hid, Entries(q))
    BY <2>1, ShorterQueue
  <2>3. \A u \in RestoringIn(x) \ before : u \in x.asked \/ Allowed(u, hid, Entries(x.queue))
    BY DEF Sound, InTurn
  <2>4. RestoringIn(x) \subseteq Tabs BY DEF RestoringIn
  <2>5. InTurn(y, hid, before) BY <1>3, <1>4, <2>2, <2>3, <2>4 DEF InTurn
  <2> QED BY <1>3, <1>4, <2>5 DEF Sound, Heard
<1>16. CountedOff(y) /\ y.count = Cardinality(RestoringIn(y))
  BY <1>3, <1>4 DEF Sound, CountedOff
<1>17. Sound(y, hid, C, C \cup {t}, ws, before) BY <1>3, <1>13, <1>15, <1>16 DEF Sound
<1> QED BY <1>3, <1>4, <1>12, <1>14, <1>17

\* restoreNextTab, whatever number of tabs it goes through.
LEMMA RestoreNextSound ==
  ASSUME NEW hid, NEW C \in SUBSET Tabs, NEW ws, NEW before, NEW x,
         Sound(x, hid, C, C, ws, before), Fed(x)
  PROVE  \A z \in RestoreNext(x, hid) :
           z \in Recs /\ Sound(z, hid, C, C, ws, before) /\ Fed(z) /\ Goes(z, x, C)
<1>1. PICK G : G = {y \in Recs : Sound(y, hid, C, C, ws, before) /\ Fed(y) /\ Goes(y, x, C)}
  OBVIOUS
<1>2. x \in Recs /\ G \in SUBSET Recs /\ x \in G BY <1>1 DEF Sound, Goes
<1>3. ASSUME NEW y \in G, MayRestoreNext(y)
      PROVE  /\ NextTab(y) \in y.data
             /\ NotLoading(Shifted(y), NextTab(y), "turn", hid) \in G
             /\ Loading(Shifted(y), NextTab(y), "turn", hid) \in G
  <2>1. y \in Recs /\ Sound(y, hid, C, C, ws, before) /\ Fed(y) /\ Goes(y, x, C)
    BY <1>1
  <2>2. PICK t, v : t = NextTab(y) /\ v = Shifted(y) OBVIOUS
  <2>3. /\ Sound(v, hid, C, C \cup {t}, ws, before) /\ t \in WaitingIn(v) \ C
        /\ Allowed(t, hid, Entries(v.queue)) /\ RestoringIn(v) = RestoringIn(y)
        /\ Undone(v) = Undone(y) /\ v.st = y.st /\ v.data = y.data /\ v.loads = y.loads
    BY <1>3, <2>1, <2>2, ShiftedSound
  <2>4. Fed(v) BY <2>1, <2>3 DEF Fed
  <2>5. PICK D : D = C \cup {t} OBVIOUS
  <2>6. Sound(v, hid, C, D, ws, before) /\ D \ {t} = C BY <2>3, <2>5
  <2>7. /\ \A z \in {Loading(v, t, "turn", hid), NotLoading(v, t, "turn", hid)} :
             z \in Recs /\ Sound(z, hid, C, C, ws, before) /\ Fed(z) /\ Goes(z, v, C)
        /\ t \in v.data
    <3>1. Due(t, "turn", hid, Entries(v.queue)) BY <2>3 DEF Due
    <3>2. Startable(v, t, "turn", hid, C, D, ws, before)
      BY <2>3, <2>4, <2>6, <3>1 DEF Startable
    <3> QED BY <3>2, RestoreSound
  <2>8. ASSUME NEW z \in {Loading(v, t, "turn", hid), NotLoading(v, t, "turn", hid)}
        PROVE  z \in G
    <3>1. Goes(z, x, C) BY <2>1, <2>3, <2>7 DEF Goes
    <3> QED BY <1>1, <2>7, <3>1
  <2> QED BY <2>2, <2>3, <2>7, <2>8
<1>4. \A z \in RestoreNext(x, hid) : \E y \in G : z = StartNext(y, hid)
  BY <1>2, <1>3, RestoreNextRuns
<1>5. ASSUME NEW y \in G PROVE StartNext(y, hid) \in G
  BY <1>3 DEF StartNext
<1>6. \A z \in RestoreNext(x, hid) : z \in G BY <1>4, <1>5
<1> QED BY <1>1, <1>6

\* Tabs that do not wait may join C and D or leave them.
LEMMA OtherChainSound ==
  ASSUME NEW hid, NEW C, NEW D, NEW ws, NEW before, NEW x, Sound(x, hid, C, D, ws, before),
         NEW C2, NEW D2, WaitingIn(x) \ C = WaitingIn(x) \ C2, WaitingIn(x) \ D = WaitingIn(x) \ D2
  PROVE  Sound(x, hid, C2, D2, ws, before)
BY DEF Sound, Filed

\* Tabs that are not in the queue may be shown; hidden too, where none started.
LEMMA OtherHiddenSound ==
  ASSUME NEW hid, NEW C, NEW D, NEW ws, NEW before, NEW x, Sound(x, hid, C, D, ws, before),
         NEW hid2, \A t \in Entries(x.queue) \ Pinned : t \in hid <=> t \in hid2,
         hid2 \subseteq hid \/ RestoringIn(x) \subseteq before
  PROVE  Sound(x, hid2, C, D, ws, before)
<1>1. InOrder(x.queue, hid2)
  <2>1. ASSUME NEW b \in Buckets
        PROVE  IsInjective(x.queue[b]) /\ ToSet(x.queue[b]) \subseteq InBucket(b, hid2)
    <3>1. IsInjective(x.queue[b]) /\ ToSet(x.queue[b]) \subseteq InBucket(b, hid)
      BY DEF Sound, Filed, InOrder
    <3>2. \A t \in ToSet(x.queue[b]) \ Pinned : t \in hid <=> t \in hid2 BY EntriesOf
    <3> QED BY <3>1, <3>2 DEF InBucket
  <2> QED BY <2>1 DEF InOrder
<1>2. InTurn(x, hid2, before) BY DEF Sound, InTurn, Allowed
<1> QED BY <1>1, <1>2 DEF Sound, Filed

\* add puts a tab with a listener where it belongs.
LEMMA EnqueueSound ==
  ASSUME NEW hid, NEW C, NEW D, NEW ws, NEW before, NEW x, Sound(x, hid, C, D, ws, before),
         NEW t \in WaitingIn(x), t \notin C, D = C \cup {t}, NEW y, y = Enqueue(x, t, hid),
         RestoringIn(x) \subseteq before
  PROVE  /\ Sound(y, hid, C, C, ws, before)
         /\ y.st = x.st /\ y.data = x.data /\ y.loads = x.loads
<1>1. x \in Recs /\ t \in Tabs BY DEF Sound, WaitingIn
<1>2. PICK q \in Queues :
           /\ Enqueue(x, t, hid) = [x EXCEPT !.queue = q]
           /\ Bucket(t, hid) \in Buckets
           /\ \A b \in Buckets :
                q[b] = IF b = Bucket(t, hid) THEN Append(x.queue[b], t) ELSE x.queue[b]
  BY <1>1, EnqueueEffect
<1>3. /\ y \in Recs /\ y.st = x.st /\ y.history = x.history /\ y.count = x.count
      /\ y.left = x.left /\ y.on = x.on /\ y.asked = x.asked /\ y.data = x.data
      /\ y.loads = x.loads /\ y.queue = q
  BY <1>1, <1>2 DEF Recs
<1>4. /\ RestoringIn(y) = RestoringIn(x) /\ WaitingIn(y) = WaitingIn(x)
      /\ Undone(y) = Undone(x)
  BY <1>3 DEF RestoringIn, WaitingIn, Undone
<1>5. /\ Entries(x.queue) = WaitingIn(x) \ D /\ InOrder(x.queue, hid)
      /\ x.history \subseteq WaitingIn(x) \ C
  BY DEF Sound, Filed
<1>6. PICK b \in Buckets : b = Bucket(t, hid) BY <1>2
<1>7. /\ ToSet(q[b]) = ToSet(x.queue[b]) \cup {t} /\ IsInjective(q[b])
  <2>1. x.queue[b] \in Seq(Tabs)
    <3>1. x.queue \in Queues BY <1>1 DEF Recs
    <3> QED BY <3>1, QueueFields
  <2>2. t \notin ToSet(x.queue[b])
    <3>1. t \notin Entries(x.queue) BY <1>5
    <3> QED BY <3>1, EntriesOf
  <2>3. IsInjective(x.queue[b]) BY <1>5 DEF InOrder
  <2>4. q[b] = Append(x.queue[b], t) BY <1>2, <1>6
  <2> QED BY <1>1, <2>1, <2>2, <2>3, <2>4, AppendElements
<1>8. \A c \in Buckets : c # b => q[c] = x.queue[c] BY <1>2, <1>6
<1>9. InOrder(q, hid)
  <2>1. t \in InBucket(b, hid) BY <1>1, <1>6 DEF Bucket, InBucket
  <2> QED BY <1>5, <1>7, <1>8, <2>1 DEF InOrder
<1>10. ASSUME NEW e PROVE e \in Entries(q) <=> e \in Entries(x.queue) \cup {t}
  <2>1. e \in Entries(q) <=> \E c \in Buckets : e \in ToSet(q[c]) BY EntriesOf
  <2>2. e \in Entries(x.queue) <=> \E c \in Buckets : e \in ToSet(x.queue[c])
    BY EntriesOf
  <2> QED BY <1>7, <1>8, <2>1, <2>2
<1>11. Entries(q) = WaitingIn(x) \ C
  <2>1. Entries(q) = Entries(x.queue) \cup {t} BY <1>10
  <2> QED BY <1>5, <2>1
<1>12. Filed(y, hid, C, C) BY <1>3, <1>4, <1>5, <1>9, <1>11 DEF Filed
<1>13. Heard(y, ws) /\ InTurn(y, hid, before) BY <1>3, <1>4 DEF Sound, Heard, InTurn
<1>14. CountedOff(y) /\ y.count = Cardinality(RestoringIn(y))
  BY <1>3, <1>4 DEF Sound, CountedOff
<1> QED BY <1>3, <1>12, <1>13, <1>14 DEF Sound

\* What marking the tabs of ts leaves of a restoring state.
Marked(y, x, ts) ==
  /\ RestoringIn(y) = RestoringIn(x) /\ Undone(y) = Undone(x) \cup ts
  /\ y.data = x.data \cup ts /\ (Fed(x) => Fed(y))
  /\ \A t \in Tabs : y.st[t] = IF t \in ts THEN "needs" ELSE x.st[t]

\* restoreHistoryPrecursor marks tabs that were done; somebody has counted them.
LEMMA PreparedSound ==
  ASSUME NEW hid, NEW C, NEW D, NEW ws, NEW before, NEW x \in Recs,
         x.count = Cardinality(RestoringIn(x)), Filed(x, hid, C, D), Heard(x, ws),
         InTurn(x, hid, before),
         NEW ts \in SUBSET Tabs, Undone(x) \cap ts = {},
         NEW y, y = Prepared(x, ts), CountedOff(y), NEW C2, C2 = C \cup ts, NEW D2, D2 = D \cup ts
  PROVE  Sound(y, hid, C2, D2, ws, before) /\ Marked(y, x, ts)
<1>1. y \in Recs BY PreparedTyped
<1>2. /\ y.st = [t \in Tabs |-> IF t \in ts THEN "needs" ELSE x.st[t]]
      /\ y.data = x.data \cup ts /\ y.loads = x.loads \ ts /\ y.asked = x.asked \ ts
      /\ y.history = x.history /\ y.queue = x.queue /\ y.count = x.count
      /\ y.on = x.on /\ y.left = x.left
  BY DEF Prepared, Recs
<1>3. /\ RestoringIn(y) = RestoringIn(x) /\ WaitingIn(y) = WaitingIn(x) \cup ts
      /\ Undone(y) = Undone(x) \cup ts /\ WaitingIn(x) \cap ts = {}
      /\ RestoringIn(x) \cap ts = {}
  BY <1>2 DEF RestoringIn, WaitingIn, Undone
<1>4. Filed(y, hid, C2, D2)
  <2>1. /\ Entries(x.queue) = WaitingIn(x) \ D /\ InOrder(x.queue, hid)
        /\ x.history \subseteq WaitingIn(x) \ C
    BY DEF Filed
  <2>2. WaitingIn(y) \ D2 = WaitingIn(x) \ D /\ WaitingIn(y) \ C2 = WaitingIn(x) \ C
    BY <1>3
  <2> QED BY <1>2, <2>1, <2>2 DEF Filed
<1>5. Heard(y, ws) /\ InTurn(y, hid, before) BY <1>2, <1>3 DEF Heard, InTurn
<1>6. Fed(x) => Fed(y) BY <1>2, <1>3 DEF Fed
<1>7. Sound(y, hid, C2, D2, ws, before) BY <1>1, <1>2, <1>3, <1>4, <1>5 DEF Sound
<1> QED BY <1>2, <1>3, <1>6, <1>7 DEF Marked

\* What a call of restoreHistory leaves, C0 being the tabs of the other calls.
Continued(o, x, call, C0, hid, ws, before) ==
  \E rest \in Seq(Tabs), C2 \in SUBSET Tabs :
    /\ C2 = C0 \cup ToSet(rest) /\ IsInjective(rest)
    /\ ToSet(rest) \subseteq ToSet(call.tabs)
    /\ o[2] = IF rest = <<>> THEN <<>> ELSE <<[call EXCEPT !.tabs = rest]>>
    /\ o[1] \in Recs /\ Sound(o[1], hid, C2, C2, ws, before) /\ Fed(o[1])
    /\ Goes(o[1], x, C2)

\* A call of restoreHistory, C0 being the tabs that other calls will come to.
LEMMA RestoreHistorySound ==
  ASSUME NEW hid, NEW ws, NEW before, NEW x, NEW C0 \in SUBSET Tabs, NEW call \in Calls,
         NEW C, C = C0 \cup ToSet(call.tabs), Sound(x, hid, C, C, ws, before), Fed(x),
         NEW opn, Undone(x) \subseteq opn, IsInjective(call.tabs),
         ToSet(call.tabs) \cap C0 = {},
         \A t \in ToSet(call.tabs) : t \in opn \cap x.data => x.st[t] = "needs",
         RestoringIn(x) \subseteq before,
         NEW sel, NEW o \in RestoreHistory(x, call, opn, hid, sel)
  PROVE  Continued(o, x, call, C0, hid, ws, before)
<1>1. x \in Recs /\ call.tabs \in Seq(Tabs) BY DEF Sound, Calls
<1>2. /\ Len(call.tabs) \in Nat /\ DOMAIN call.tabs = 1..Len(call.tabs)
      /\ \A i \in DOMAIN call.tabs : call.tabs[i] \in ToSet(call.tabs)
      /\ ToSet(call.tabs) \subseteq Tabs
  BY <1>1, LenProperties DEF ToSet
<1>3. ASSUME NEW i \in DOMAIN call.tabs, ~Restorable(x, call.tabs[i], opn)
      PROVE  call.tabs[i] \notin WaitingIn(x)
  <2>1. WaitingIn(x) \subseteq opn \cap x.data BY StateSets DEF Fed
  <2> QED BY <1>3, <2>1 DEF Restorable
<1>4. CASE NoneReady(o, x, call, opn)
  <2>1. <<>> \in Seq(Tabs) OBVIOUS
  <2>2. PICK rest \in Seq(Tabs) : rest = <<>> BY <2>1, Zenon
  <2>3. ToSet(rest) = {} /\ IsInjective(rest) BY <2>2 DEF ToSet, IsInjective
  <2>4. WaitingIn(x) \ C = WaitingIn(x) \ C0 BY <1>3, <1>4 DEF NoneReady, ToSet
  <2>5. Sound(x, hid, C0, C0, ws, before) BY <2>4, OtherChainSound
  <2>6. Goes(x, x, C0) BY DEF Goes
  <2>7. C0 = C0 \cup ToSet(rest) BY <2>3
  <2>8. o[1] = x /\ o[2] = <<>> BY <1>4 DEF NoneReady
  <2> QED BY <1>1, <2>2, <2>3, <2>5, <2>6, <2>7, <2>8 DEF Continued
<1>5. CASE OneReady(o, x, call, opn, hid, sel)
  <2>1. PICK i \in DOMAIN call.tabs, y \in Recs, rest \in Seq(Tabs), later \in Seq(Calls) :
              /\ Restorable(x, call.tabs[i], opn) /\ call.tabs[i] \in Tabs
              /\ \A k \in DOMAIN call.tabs : k < i => ~Restorable(x, call.tabs[k], opn)
              /\ y = [x EXCEPT !.history = @ \cup {call.tabs[i]}]
              /\ rest = SubSeq(call.tabs, i + 1, Len(call.tabs))
              /\ later = IF rest = <<>> THEN <<>> ELSE <<[call EXCEPT !.tabs = rest]>>
              /\ o[2] = later
              /\ o[1] \in IF call.now \/ sel[Home[call.tabs[i]]] = call.tabs[i]
                          THEN Restore(y, call.tabs[i], "asked", hid)
                          ELSE RestoreNext(Enqueue(y, call.tabs[i], hid), hid)
    BY <1>5 DEF OneReady
  <2>2. PICK t \in Tabs : t = call.tabs[i] BY <2>1
  <2>3. /\ ToSet(rest) = {call.tabs[k] : k \in i + 1..Len(call.tabs)}
        /\ IsInjective(rest)
    <3>1. PICK s \in Seq(Tabs) : s = call.tabs BY <1>1
    <3>2. i \in 1..Len(s) BY <1>2, <3>1
    <3>3. IsInjective(s) /\ rest = SubSeq(s, i + 1, Len(s)) BY <2>1, <3>1
    <3>4. ToSet(rest) = {s[k] : k \in i + 1..Len(s)} /\ IsInjective(rest)
      BY <3>2, <3>3, RestElements
    <3> QED BY <3>1, <3>4
  <2>4. t \notin ToSet(rest) /\ ToSet(rest) \subseteq ToSet(call.tabs) /\ t \in ToSet(call.tabs)
    <3>1. \A k \in i + 1..Len(call.tabs) : k \in 1..Len(call.tabs) /\ k # i BY <1>2
    <3> QED BY <1>2, <2>2, <2>3, <3>1 DEF IsInjective
  <2>5. t \in WaitingIn(x)
    <3>1. t \in opn \cap x.data BY <2>1, <2>2 DEF Restorable
    <3> QED BY <2>4, <3>1 DEF WaitingIn
  <2>6. PICK C2 \in SUBSET Tabs : C2 = C0 \cup ToSet(rest) BY <1>2, <2>4
  <2>7. PICK D : D = C2 \cup {t} OBVIOUS
  <2>8. WaitingIn(x) \ C = WaitingIn(x) \ D
    <3>1. \A u \in ToSet(call.tabs) : u \in ToSet(rest) \/ u = t \/ u \notin WaitingIn(x)
      <4> TAKE u \in ToSet(call.tabs)
      <4>1. PICK k \in DOMAIN call.tabs : u = call.tabs[k] BY DEF ToSet
      <4>2. k < i \/ k = i \/ k \in i + 1..Len(call.tabs) BY <1>2
      <4> QED BY <1>3, <2>1, <2>2, <2>3, <4>1, <4>2
    <3> QED BY <2>4, <2>6, <2>7, <3>1
  <2>9. Sound(x, hid, D, D, ws, before) BY <2>8, OtherChainSound
  <2>10. /\ y.st = x.st /\ y.queue = x.queue /\ y.count = x.count /\ y.left = x.left
         /\ y.on = x.on /\ y.asked = x.asked /\ y.data = x.data /\ y.loads = x.loads
         /\ y.history = x.history \cup {t}
    BY <1>1, <2>1, <2>2 DEF Recs
  <2>11. /\ RestoringIn(y) = RestoringIn(x) /\ WaitingIn(y) = WaitingIn(x)
         /\ Undone(y) = Undone(x)
    BY <2>10 DEF RestoringIn, WaitingIn, Undone
  <2>12. Sound(y, hid, C2, D, ws, before)
    <3>1. t \notin C2 BY <2>4, <2>6
    <3>2. /\ Entries(x.queue) = WaitingIn(x) \ D /\ InOrder(x.queue, hid)
          /\ x.history \subseteq WaitingIn(x) \ D
      BY <2>9 DEF Sound, Filed
    <3>3. y.history \subseteq WaitingIn(y) \ C2 BY <2>5, <2>7, <2>10, <2>11, <3>1, <3>2
    <3>4. Filed(y, hid, C2, D) BY <2>10, <2>11, <3>2, <3>3 DEF Filed
    <3>5. Heard(y, ws) /\ InTurn(y, hid, before) BY <2>9, <2>10, <2>11 DEF Sound, Heard, InTurn
    <3>6. CountedOff(y) /\ y.count = Cardinality(RestoringIn(y))
      BY <2>9, <2>10, <2>11 DEF Sound, CountedOff
    <3> QED BY <3>4, <3>5, <3>6 DEF Sound
  <2>13. Fed(y) BY <2>10, <2>11 DEF Fed
  <2>14. t \in WaitingIn(y) /\ t \notin C2 /\ D \ {t} = C2 BY <2>4, <2>5, <2>6, <2>7, <2>11
  <2>15. o[1] \in Recs /\ Sound(o[1], hid, C2, C2, ws, before) /\ Fed(o[1]) /\ Goes(o[1], y, C2)
    <3>1. CASE call.now \/ sel[Home[call.tabs[i]]] = call.tabs[i]
      <4>1. o[1] \in Restore(y, t, "asked", hid) BY <2>1, <2>2, <3>1
      <4>2. PICK why : why = "asked" OBVIOUS
      <4>3. /\ \A z \in {Loading(y, t, why, hid), NotLoading(y, t, why, hid)} :
                 z \in Recs /\ Sound(z, hid, C2, C2, ws, before) /\ Fed(z) /\ Goes(z, y, C2)
            /\ t \in y.data
        <5>1. Due(t, why, hid, Entries(y.queue)) BY <4>2 DEF Due
        <5>2. Startable(y, t, why, hid, C2, D, ws, before)
          BY <2>12, <2>13, <2>14, <5>1 DEF Startable
        <5> QED BY <5>2, RestoreSound
      <4>4. Restore(y, t, why, hid) = {Loading(y, t, why, hid), NotLoading(y, t, why, hid)}
        BY <4>3 DEF Restore
      <4> QED BY <4>1, <4>2, <4>3, <4>4
    <3>2. CASE ~(call.now \/ sel[Home[call.tabs[i]]] = call.tabs[i])
      <4>1. PICK v : v = Enqueue(y, t, hid) OBVIOUS
      <4>2. /\ Sound(v, hid, C2, C2, ws, before) /\ v.st = y.st /\ v.data = y.data
            /\ v.loads = y.loads
        BY <2>7, <2>11, <2>12, <2>14, <4>1, EnqueueSound
      <4>3. Fed(v) /\ Undone(v) = Undone(y)
        BY <2>13, <4>2 DEF Fed, RestoringIn, Undone
      <4>4. o[1] \in RestoreNext(v, hid) BY <2>1, <2>2, <3>2, <4>1
      <4>5. /\ o[1] \in Recs /\ Sound(o[1], hid, C2, C2, ws, before) /\ Fed(o[1])
            /\ Goes(o[1], v, C2)
        BY <4>2, <4>3, <4>4, RestoreNextSound
      <4> QED BY <4>2, <4>3, <4>5 DEF Goes
    <3> QED BY <3>1, <3>2
  <2>16. Goes(o[1], x, C2) BY <2>10, <2>11, <2>15 DEF Goes
  <2> QED BY <2>1, <2>3, <2>4, <2>6, <2>15, <2>16 DEF Continued
<1> QED BY <1>1, <1>4, <1>5, RestoreHistoryCases

\* What closing the tabs of ts leaves of a restoring state.
Without(z, x, ts, C) ==
  /\ z.data = x.data \ ts /\ Undone(z) \subseteq Undone(x) \ ts
  /\ \A u \in C \ ts : z.st[u] = x.st[u]

\* A tab that is closed loses its data, and another may start in its place.
LEMMA RemoveTabSound ==
  ASSUME NEW hid, NEW C \in SUBSET Tabs, NEW ws, NEW before, NEW x,
         Sound(x, hid, C, C, ws, before), Fed(x), NEW t \in Tabs,
         NEW z \in RemoveTab(x, t, hid)
  PROVE  z \in Recs /\ Sound(z, hid, C, C, ws, before) /\ Fed(z) /\ Without(z, x, {t}, C)
<1>1. x \in Recs BY DEF Sound
<1>2. PICK y \in Recs : y = [x EXCEPT !.data = @ \ {t}, !.loads = @ \ {t}]
  BY <1>1 DEF Recs
<1>3. /\ y.st = x.st /\ y.history = x.history /\ y.queue = x.queue /\ y.count = x.count
      /\ y.left = x.left /\ y.on = x.on /\ y.asked = x.asked
      /\ y.data = x.data \ {t} /\ y.loads = x.loads \ {t}
  BY <1>1, <1>2 DEF Recs
<1>4. /\ Sound(y, hid, C, C, ws, before) /\ RestoringIn(y) = RestoringIn(x)
      /\ Undone(y) = Undone(x)
  BY <1>3, SameSound
<1>5. CASE x.st[t] = "none"
  <2>1. z = y BY <1>2, <1>5 DEF RemoveTab
  <2>2. t \notin Undone(x) /\ t \notin RestoringIn(x) BY <1>5 DEF Undone, RestoringIn
  <2>3. Fed(z) BY <1>3, <1>4, <2>1, <2>2 DEF Fed
  <2>4. Without(z, x, {t}, C) BY <1>3, <1>4, <2>1, <2>2 DEF Without
  <2> QED BY <1>3, <1>4, <2>1, <2>3, <2>4
<1>6. CASE x.st[t] # "none"
  <2>1. t \in Undone(y) BY <1>4, <1>6 DEF Undone
  <2>2. PICK r \in Recs : r = Reset(y, t, hid) /\ ResetFields(r, y, t, hid)
    BY ResetEffect
  <2>3. /\ Sound(r, hid, C, C, ws, before)
        /\ RestoringIn(r) = RestoringIn(y) \ {t}
        /\ Undone(r) = Undone(y) \ {t} /\ r.data = y.data /\ r.loads = y.loads
        /\ \A u \in Tabs : u # t => r.st[u] = y.st[u]
    BY <1>4, <2>1, <2>2, ResetSound
  <2>4. Fed(r) BY <1>3, <1>4, <2>3 DEF Fed
  <2>5. z = r \/ z \in RestoreNext(r, hid)
    <3>1. x.st[t] \in {"none", "needs", "restoring"} BY <1>1 DEF Recs
    <3> QED BY <1>2, <1>6, <2>2, <3>1 DEF RemoveTab
  <2>6. z \in Recs /\ Sound(z, hid, C, C, ws, before) /\ Fed(z) /\ Goes(z, r, C)
    <3>1. CASE z = r BY <2>2, <2>3, <2>4, <3>1 DEF Goes
    <3>2. CASE z \in RestoreNext(r, hid) BY <2>3, <2>4, <3>2, RestoreNextSound
    <3> QED BY <2>5, <3>1, <3>2
  <2>7. \A u \in C \ {t} : z.st[u] = x.st[u] BY <1>3, <2>3, <2>6 DEF Goes
  <2>8. Without(z, x, {t}, C) BY <1>3, <1>4, <2>3, <2>6, <2>7 DEF Goes, Without
  <2> QED BY <2>6, <2>8
<1> QED BY <1>5, <1>6

\* The tab that is selected, or reloaded, starts at once.
LEMMA AskedSound ==
  ASSUME NEW hid, NEW C \in SUBSET Tabs, NEW ws, NEW before, NEW x,
         Sound(x, hid, C, C, ws, before), Fed(x),
         NEW t \in WaitingIn(x), t \notin C, NEW z \in Restore(x, t, "asked", hid)
  PROVE  z \in Recs /\ Sound(z, hid, C, C, ws, before) /\ Fed(z) /\ Goes(z, x, C)
<1>1. PICK why : why = "asked" OBVIOUS
<1>2. Due(t, why, hid, Entries(x.queue)) BY <1>1 DEF Due
<1>3. Startable(x, t, why, hid, C, C, ws, before) BY <1>2 DEF Startable
<1>4. /\ \A v \in {Loading(x, t, why, hid), NotLoading(x, t, why, hid)} :
           v \in Recs /\ Sound(v, hid, C, C, ws, before) /\ Fed(v) /\ Goes(v, x, C)
      /\ t \in x.data
  BY <1>3, RestoreSound
<1>5. z \in {Loading(x, t, why, hid), NotLoading(x, t, why, hid)}
  BY <1>1, <1>4 DEF Restore
<1> QED BY <1>4, <1>5

\* onTabSelect restores a tab that waits.
LEMMA SelectedSound ==
  ASSUME NEW hid, NEW C \in SUBSET Tabs, NEW ws, NEW before, NEW x,
         Sound(x, hid, C, C, ws, before), Fed(x),
         NEW t \in Tabs, t \notin C, NEW z \in Selected(x, t, hid)
  PROVE  z \in Recs /\ Sound(z, hid, C, C, ws, before) /\ Fed(z) /\ Goes(z, x, C)
<1>1. CASE ~quitting /\ x.st[t] = "needs"
  <2>1. t \in WaitingIn(x) BY <1>1 DEF WaitingIn
  <2>2. z \in Restore(x, t, "asked", hid) BY <1>1 DEF Selected
  <2> QED BY <2>1, <2>2, AskedSound
<1>2. CASE ~(~quitting /\ x.st[t] = "needs")
  <2>1. z = x BY <1>2 DEF Selected
  <2> QED BY <2>1 DEF Goes, Sound
<1> QED BY <1>1, <1>2

\* The loop that resets tabs leaves the others as they are.
LEMMA ResetEachSound ==
  ASSUME NEW C, NEW D, NEW ws, NEW before, NEW x, Sound(x, hidden, C, D, ws, before),
         NEW ts, NEW z, z = ResetEach(x, ts)
  PROVE  /\ z \in Recs /\ Sound(z, hidden, C, D, ws, before)
         /\ z.data = x.data /\ z.loads = x.loads
         /\ Undone(z) = Undone(x) \ ts /\ RestoringIn(z) = RestoringIn(x) \ ts
         /\ \A u \in Tabs \ ts : z.st[u] = x.st[u]
<1> DEFINE Done(n) == {m \in ts : m \in 1..n}
           Is(n, y) == /\ Sound(y, hidden, C, D, ws, before)
                       /\ y.data = x.data /\ y.loads = x.loads
                       /\ Undone(y) = Undone(x) \ Done(n)
                       /\ RestoringIn(y) = RestoringIn(x) \ Done(n)
                       /\ \A u \in Tabs \ ts : y.st[u] = x.st[u]
<1>1. x \in Recs BY DEF Sound
<1>2. PICK G : G = {p \in (0..TabCount) \X Recs : Is(p[1], p[2])} OBVIOUS
<1>3. \A n \in 0..TabCount, y \in Recs : <<n, y>> \in G <=> Is(n, y) BY <1>2
<1>4. <<0, x>> \in G
  <2>1. Done(0) = {} OBVIOUS
  <2>2. Is(0, x) BY <2>1
  <2>3. 0 \in 0..TabCount BY TabsFinite
  <2> HIDE DEF Is
  <2> QED BY <1>1, <1>3, <2>2, <2>3
<1>5. ASSUME NEW n \in 1..TabCount, NEW y \in Recs, <<n - 1, y>> \in G
      PROVE  <<n, IF n \in ts /\ y.st[n] # "none" THEN Reset(y, n, hidden) ELSE y>> \in G
  <2>1. n \in Tabs /\ n \in 0..TabCount /\ n - 1 \in 0..TabCount BY TabsFinite DEF Tabs
  <2>2. Is(n - 1, y)
    <3> HIDE DEF Is
    <3> QED BY <1>3, <1>5, <2>1
  <2>3. Done(n) = IF n \in ts THEN Done(n - 1) \cup {n} ELSE Done(n - 1) BY <2>1
  <2> HIDE DEF Done
  <2>4. CASE n \in ts /\ y.st[n] # "none"
    <3>1. PICK r \in Recs : r = Reset(y, n, hidden) /\ ResetFields(r, y, n, hidden)
      BY <2>1, ResetEffect
    <3>2. n \in Undone(y) BY <2>1, <2>4 DEF Undone
    <3>3. PICK h : h = hidden OBVIOUS
    <3>4. Sound(y, h, C, D, ws, before) /\ ResetFields(r, y, n, h) BY <2>2, <3>1, <3>3
    <3>5. /\ Sound(r, h, C, D, ws, before)
          /\ RestoringIn(r) = RestoringIn(y) \ {n}
          /\ Undone(r) = Undone(y) \ {n} /\ r.data = y.data /\ r.loads = y.loads
          /\ \A u \in Tabs : u # n => r.st[u] = y.st[u]
      BY <3>2, <3>4, ResetSound
    <3>6. Is(n, r) BY <2>2, <2>3, <2>4, <3>3, <3>5
    <3> HIDE DEF Is
    <3>7. <<n, r>> \in G BY <1>3, <2>1, <3>6
    <3> QED BY <2>4, <3>1, <3>7
  <2>5. CASE n \notin ts
    <3>1. Is(n, y) BY <2>2, <2>3, <2>5
    <3> HIDE DEF Is
    <3> QED BY <1>3, <2>1, <2>5, <3>1
  <2>6. CASE n \in ts /\ y.st[n] = "none"
    <3>1. n \notin Undone(y) /\ n \notin RestoringIn(y) BY <2>6 DEF Undone, RestoringIn
    <3>2. Is(n, y) BY <2>2, <2>3, <2>6, <3>1
    <3> HIDE DEF Is
    <3> QED BY <1>3, <2>1, <2>6, <3>2
  <2> QED BY <2>4, <2>5, <2>6
<1>6. <<TabCount, z>> \in G
  <2>1. G \in SUBSET ((0..TabCount) \X Recs) BY <1>2
  <2>2. <<TabCount, ResetEach(x, ts)>> \in G
    <3> HIDE DEF Is
    <3> QED BY <1>1, <1>4, <1>5, <2>1, ResetEachRuns
  <2> QED BY <2>2
<1>7. z \in Recs BY <1>1, ResetEachTyped
<1>8. Is(TabCount, z)
  <2>1. TabCount \in 0..TabCount BY TabsFinite
  <2> HIDE DEF Is
  <2> QED BY <1>3, <1>6, <1>7, <2>1
<1>9. Undone(x) \ Done(TabCount) = Undone(x) \ ts /\ RestoringIn(x) \ Done(TabCount) = RestoringIn(x) \ ts
  BY TabsFinite DEF Undone, RestoringIn, Tabs
<1> HIDE DEF Done
<1> QED BY <1>7, <1>8, <1>9

\* The windows of ws are closed one tab after another.
LEMMA ClosedSound ==
  ASSUME NEW C \in SUBSET Tabs, NEW ws, NEW before, NEW x,
         Sound(x, hidden, C, C, {}, before), Fed(x), Undone(x) \subseteq open,
         NEW gone, gone = {t \in open : Home[t] \in ws}, NEW z \in Closed(x, ws)
  PROVE  /\ z \in Recs /\ Sound(z, hidden, C, C, {}, before) /\ Fed(z)
         /\ Without(z, x, gone, C)
<1> DEFINE Done(n) == {m \in gone : m \in 1..n}
           Is(n, y) == /\ Sound(y, hidden, C, C, ws, before) /\ Fed(y)
                       /\ y.data = x.data \ Done(n)
                       /\ Undone(y) \subseteq Undone(x) \ Done(n)
                       /\ \A u \in C \ gone : y.st[u] = x.st[u]
<1>1. x \in Recs BY DEF Sound
<1>2. PICK G : G = {p \in (0..TabCount) \X Recs : Is(p[1], p[2])} OBVIOUS
<1>3. \A n \in 0..TabCount, y \in Recs : <<n, y>> \in G <=> Is(n, y) BY <1>2
<1>4. <<0, [x EXCEPT !.on = @ \ ws]>> \in G
  <2>1. PICK y \in Recs : y = [x EXCEPT !.on = @ \ ws] BY <1>1 DEF Recs
  <2>2. /\ y.st = x.st /\ y.history = x.history /\ y.queue = x.queue /\ y.count = x.count
        /\ y.left = x.left /\ y.asked = x.asked /\ y.data = x.data /\ y.loads = x.loads
        /\ y.on = x.on \ ws
    BY <1>1, <2>1 DEF Recs
  <2>3. /\ RestoringIn(y) = RestoringIn(x) /\ WaitingIn(y) = WaitingIn(x)
        /\ Undone(y) = Undone(x)
    BY <2>2 DEF RestoringIn, WaitingIn, Undone
  <2>4. Heard(y, ws) BY <2>2, <2>3 DEF Sound, Heard
  <2>5. y.count = Cardinality(RestoringIn(y)) /\ CountedOff(y)
    BY <2>2, <2>3 DEF Sound, CountedOff
  <2>6. Filed(y, hidden, C, C) /\ InTurn(y, hidden, before)
    BY <2>2, <2>3 DEF Sound, Filed, InTurn
  <2>7. Sound(y, hidden, C, C, ws, before) BY <2>4, <2>5, <2>6 DEF Sound
  <2>8. Fed(y) BY <2>2, <2>3 DEF Fed
  <2>9. Done(0) = {} OBVIOUS
  <2>10. Is(0, y) BY <2>2, <2>3, <2>7, <2>8, <2>9
  <2>11. 0 \in 0..TabCount BY TabsFinite
  <2> HIDE DEF Is
  <2> QED BY <1>3, <2>1, <2>10, <2>11
<1>5. ASSUME NEW n \in 1..TabCount, NEW y \in Recs, <<n - 1, y>> \in G,
             NEW v \in IF n \in open /\ Home[n] \in ws THEN RemoveTab(y, n, hidden) ELSE {y}
      PROVE  <<n, v>> \in G
  <2>1. n \in Tabs /\ n \in 0..TabCount /\ n - 1 \in 0..TabCount BY TabsFinite DEF Tabs
  <2>2. Is(n - 1, y)
    <3> HIDE DEF Is
    <3> QED BY <1>3, <1>5, <2>1
  <2>3. Done(n) = IF n \in gone THEN Done(n - 1) \cup {n} ELSE Done(n - 1) BY <2>1
  <2> HIDE DEF Done
  <2>4. CASE n \in open /\ Home[n] \in ws
    <3>1. PICK h : h = hidden OBVIOUS
    <3>2. Sound(y, h, C, C, ws, before) /\ Fed(y) /\ v \in RemoveTab(y, n, h)
      BY <1>5, <2>2, <2>4, <3>1
    <3>3. /\ v \in Recs /\ Sound(v, h, C, C, ws, before) /\ Fed(v)
          /\ v.data = y.data \ {n} /\ Undone(v) \subseteq Undone(y) \ {n}
          /\ \A u \in C \ {n} : v.st[u] = y.st[u]
      <4>1. PICK t \in Tabs : t = n BY <2>1
      <4>2. Sound(y, h, C, C, ws, before) /\ Fed(y) /\ v \in RemoveTab(y, t, h)
        BY <3>2, <4>1
      <4>3. /\ v \in Recs /\ Sound(v, h, C, C, ws, before) /\ Fed(v)
            /\ Without(v, y, {t}, C)
        BY <4>2, RemoveTabSound
      <4> QED BY <4>1, <4>3 DEF Without
    <3>4. n \in gone BY <2>4
    <3>5. Is(n, v) BY <2>2, <2>3, <3>1, <3>3, <3>4
    <3> HIDE DEF Is
    <3> QED BY <1>3, <2>1, <3>3, <3>5
  <2>5. CASE ~(n \in open /\ Home[n] \in ws)
    <3>1. v = y BY <1>5, <2>5
    <3>2. Is(n, v) BY <2>2, <2>3, <2>5, <3>1
    <3> HIDE DEF Is
    <3> QED BY <1>3, <2>1, <3>1, <3>2
  <2> QED BY <2>4, <2>5
<1>6. <<TabCount, z>> \in G
  <2>1. G \in SUBSET ((0..TabCount) \X Recs) BY <1>2
  <2> HIDE DEF Is
  <2> QED BY <1>1, <1>4, <1>5, <2>1, ClosedRuns
<1>7. z \in Recs BY <1>1, ClosedTyped
<1>8. Is(TabCount, z)
  <2>1. TabCount \in 0..TabCount BY TabsFinite
  <2> HIDE DEF Is
  <2> QED BY <1>3, <1>6, <1>7, <2>1
<1>9. Undone(x) \ Done(TabCount) = Undone(x) \ gone
  BY TabsFinite DEF Undone, Tabs
<1>10. z.data = x.data \ gone
  <2>1. x.data \subseteq Tabs BY <1>1 DEF Recs
  <2>2. x.data \ Done(TabCount) = x.data \ gone BY <2>1, TabsFinite DEF Tabs
  <2> QED BY <1>8, <2>2
<1> HIDE DEF Done
<1>11. Undone(z) \subseteq Undone(x) \ gone BY <1>8, <1>9
<1>12. Heard(z, {})
  <2>1. ASSUME NEW t \in RestoringIn(z) PROVE Home[t] \in z.on
    <3>1. t \in open /\ t \notin gone BY <1>11, StateSets
    <3>2. Home[t] \notin ws BY <3>1
    <3> QED BY <1>8, <3>2 DEF Sound, Heard
  <2> QED BY <2>1 DEF Heard
<1>13. Sound(z, hidden, C, C, {}, before) BY <1>8, <1>12 DEF Sound
<1> QED BY <1>7, <1>8, <1>10, <1>11, <1>13 DEF Without

\* Tab t moves to the end of another bucket.
MovedIn(q, p, t, a, b) ==
  /\ q[a] = RemoveFirst(p[a], t) /\ q[b] = Append(p[b], t)
  /\ \A c \in Buckets \ {a, b} : q[c] = p[c]

Requeued(y, x, q) == y = [x EXCEPT !.queue = q]

\* A tab that is shown or hidden moves to the bucket it belongs to now.
LEMMA MovedSound ==
  ASSUME NEW hid, NEW hid2, NEW C, NEW ws, NEW before, NEW x, Sound(x, hid, C, C, ws, before),
         RestoringIn(x) \subseteq before,
         NEW t \in Tabs, NEW a \in Buckets, NEW b \in Buckets, a # b, t \in ToSet(x.queue[a]),
         t \in InBucket(b, hid2), hid \ {t} = hid2 \ {t},
         NEW q \in Queues, MovedIn(q, x.queue, t, a, b),
         NEW y, Requeued(y, x, q)
  PROVE  Sound(y, hid2, C, C, ws, before)
<1>1. x \in Recs /\ x.queue \in Queues BY DEF Sound, Recs
<1>2. /\ y \in Recs /\ y.st = x.st /\ y.history = x.history /\ y.count = x.count
      /\ y.left = x.left /\ y.on = x.on /\ y.asked = x.asked /\ y.data = x.data
      /\ y.loads = x.loads /\ y.queue = q
  BY <1>1 DEF Recs, Requeued
<1>3. /\ RestoringIn(y) = RestoringIn(x) /\ WaitingIn(y) = WaitingIn(x)
      /\ Undone(y) = Undone(x)
  BY <1>2 DEF RestoringIn, WaitingIn, Undone
<1>4. /\ Entries(x.queue) = WaitingIn(x) \ C /\ InOrder(x.queue, hid)
      /\ x.history \subseteq WaitingIn(x) \ C
  BY DEF Sound, Filed
<1>5. x.queue[a] \in Seq(Tabs) /\ x.queue[b] \in Seq(Tabs) BY <1>1, QueueFields
<1>6. ASSUME NEW c \in Buckets, t \in ToSet(x.queue[c]) PROVE c = a
  BY <1>4, <1>6 DEF InOrder, InBucket, Buckets
<1>7. ToSet(q[a]) = ToSet(x.queue[a]) \ {t} /\ IsInjective(q[a])
  <2>1. IsInjective(x.queue[a]) BY <1>4 DEF InOrder
  <2> QED BY <1>5, <2>1, RemoveFirstElements DEF MovedIn
<1>8. ToSet(q[b]) = ToSet(x.queue[b]) \cup {t} /\ IsInjective(q[b])
  <2>1. IsInjective(x.queue[b]) BY <1>4 DEF InOrder
  <2>2. t \notin ToSet(x.queue[b]) BY <1>6
  <2> QED BY <1>5, <2>1, <2>2, AppendElements DEF MovedIn
<1>9. ASSUME NEW c \in Buckets
      PROVE  /\ ToSet(q[c]) = (ToSet(x.queue[c]) \ {t}) \cup (IF c = b THEN {t} ELSE {})
             /\ IsInjective(q[c])
  <2>1. IsInjective(x.queue[c]) BY <1>4 DEF InOrder
  <2>2. CASE c \notin {a, b} BY <1>6, <2>1, <2>2 DEF MovedIn
  <2> QED BY <1>6, <1>7, <1>8, <2>2
<1>10. InOrder(q, hid2)
  <2>1. ASSUME NEW c \in Buckets, NEW u \in ToSet(q[c]) PROVE u \in InBucket(c, hid2)
    <3>1. CASE u = t
      <4>1. c = b BY <1>9, <2>1, <3>1
      <4> QED BY <3>1, <4>1
    <3>2. CASE u # t
      <4>1. u \in ToSet(x.queue[c]) BY <1>9, <2>1, <3>2
      <4>2. u \in InBucket(c, hid) BY <1>4, <4>1 DEF InOrder
      <4>3. u \in Tabs
        <5>1. x.queue[c] \in Seq(Tabs) BY <1>1, QueueFields
        <5> QED BY <4>1, <5>1, LenProperties DEF ToSet
      <4> QED BY <3>2, <4>2, <4>3 DEF InBucket
    <3> QED BY <3>1, <3>2
  <2> QED BY <1>9, <2>1 DEF InOrder
<1>11. ASSUME NEW e PROVE e \in Entries(q) <=> e \in Entries(x.queue)
  <2>1. e \in Entries(q) <=> \E c \in Buckets : e \in ToSet(q[c]) BY EntriesOf
  <2>2. e \in Entries(x.queue) <=> \E c \in Buckets : e \in ToSet(x.queue[c])
    BY EntriesOf
  <2> QED BY <1>9, <2>1, <2>2
<1>12. Entries(q) = Entries(x.queue) BY <1>11
<1>13. Filed(y, hid2, C, C) BY <1>2, <1>3, <1>4, <1>10, <1>12 DEF Filed
<1>14. Heard(y, ws) /\ InTurn(y, hid2, before) BY <1>2, <1>3 DEF Sound, Heard, InTurn
<1>15. CountedOff(y) /\ y.count = Cardinality(RestoringIn(y))
  BY <1>2, <1>3 DEF Sound, CountedOff
<1>16. Sound(y, hid2, C, C, ws, before) BY <1>2, <1>13, <1>14, <1>15 DEF Sound
<1> QED BY <1>16

-----------------------------------------------------------------------------
\* The calls of restoreHistory that wait.

\* The tabs of some calls, and calls that share no tab.
InCalls(cs) == UNION {ToSet(cs[i].tabs) : i \in DOMAIN cs}
Apart(cs) ==
  \A i \in DOMAIN cs :
    /\ IsInjective(cs[i].tabs)
    /\ \A k \in (DOMAIN cs) \ {i} : ToSet(cs[i].tabs) \cap ToSet(cs[k].tabs) = {}

\* Calls of restoreHistory are about tabs.
LEMMA InCallsTabs ==
  ASSUME NEW cs, cs \in Seq(Calls)
  PROVE  InCalls(cs) \subseteq Tabs
<1>1. ASSUME NEW i \in DOMAIN cs PROVE ToSet(cs[i].tabs) \subseteq Tabs
  <2>1. cs[i] \in Calls BY LenProperties
  <2>2. cs[i].tabs \in Seq(Tabs) BY <2>1 DEF Calls
  <2> QED BY <2>2, LenProperties DEF ToSet
<1> QED BY <1>1 DEF InCalls

\* One call less.
LEMMA CallTaken ==
  ASSUME NEW cs, cs \in Seq(Calls), Apart(cs), NEW i \in DOMAIN cs,
         NEW r, r = RemoveAt(cs, i)
  PROVE  /\ r \in Seq(Calls) /\ Apart(r) /\ InCalls(r) \cap ToSet(cs[i].tabs) = {}
         /\ InCalls(cs) = InCalls(r) \cup ToSet(cs[i].tabs)
<1> DEFINE n == Len(cs)
           At(k) == IF k < i THEN k ELSE k + 1
<1>1. n \in Nat /\ DOMAIN cs = 1..n BY LenProperties
<1>2. i \in 1..n BY <1>1
<1>3. r \in Seq(Calls) /\ Len(r) = n - 1 /\ \A k \in 1..n - 1 : r[k] = cs[At(k)]
  BY <1>2, RemoveAtElements
<1>4. DOMAIN r = 1..n - 1 BY <1>3, LenProperties
<1> HIDE DEF n
<1>5. \A k \in 1..n - 1 : At(k) \in (1..n) \ {i} BY <1>1, <1>2
<1>6. \A j, k \in 1..n - 1 : At(j) = At(k) => j = k BY <1>1, <1>2
<1>7. ASSUME NEW k \in (1..n) \ {i} PROVE \E j \in 1..n - 1 : At(j) = k
  <2>1. CASE k < i
    <3>1. k \in 1..n - 1 /\ At(k) = k BY <2>1, <1>1, <1>2
    <3> QED BY <3>1
  <2>2. CASE ~(k < i)
    <3>1. k - 1 \in 1..n - 1 /\ At(k - 1) = k BY <2>2, <1>1, <1>2
    <3> HIDE DEF At
    <3> QED BY <3>1
  <2> QED BY <2>1, <2>2
<1> HIDE DEF At
<1>8. Apart(r)
  <2>1. ASSUME NEW j \in 1..n - 1
        PROVE  /\ IsInjective(r[j].tabs)
               /\ \A k \in (1..n - 1) \ {j} : ToSet(r[j].tabs) \cap ToSet(r[k].tabs) = {}
    <3>1. IsInjective(cs[At(j)].tabs) BY <1>1, <1>5 DEF Apart
    <3>2. ASSUME NEW k \in (1..n - 1) \ {j}
          PROVE  ToSet(cs[At(j)].tabs) \cap ToSet(cs[At(k)].tabs) = {}
      <4>1. At(j) \in DOMAIN cs /\ At(k) \in (DOMAIN cs) \ {At(j)} BY <1>1, <1>5, <1>6
      <4> QED BY <4>1 DEF Apart
    <3> QED BY <1>3, <3>1, <3>2
  <2> QED BY <1>4, <2>1 DEF Apart
<1>9. ASSUME NEW e
      PROVE  e \in InCalls(r) <=> \E k \in (1..n) \ {i} : e \in ToSet(cs[k].tabs)
  <2>1. e \in InCalls(r) <=> \E k \in 1..n - 1 : e \in ToSet(r[k].tabs)
    BY <1>4 DEF InCalls
  <2>2. ASSUME NEW k \in 1..n - 1, e \in ToSet(r[k].tabs)
        PROVE  \E m \in (1..n) \ {i} : e \in ToSet(cs[m].tabs)
    BY <1>3, <1>5, <2>2
  <2>3. ASSUME NEW m \in (1..n) \ {i}, e \in ToSet(cs[m].tabs)
        PROVE  \E k \in 1..n - 1 : e \in ToSet(r[k].tabs)
    <3>1. PICK k \in 1..n - 1 : At(k) = m BY <1>7
    <3> QED BY <1>3, <2>3, <3>1
  <2> QED BY <2>1, <2>2, <2>3
<1>10. ASSUME NEW e
       PROVE  e \in InCalls(cs) <=> \E k \in 1..n : e \in ToSet(cs[k].tabs)
  BY <1>1 DEF InCalls
<1>11. ASSUME NEW e
       PROVE  e \in InCalls(cs) <=> e \in InCalls(r) \cup ToSet(cs[i].tabs)
  BY <1>2, <1>9, <1>10
<1>12. \A k \in (1..n) \ {i} : ToSet(cs[i].tabs) \cap ToSet(cs[k].tabs) = {}
  BY <1>1 DEF Apart
<1>13. ASSUME NEW e \in InCalls(r), e \in ToSet(cs[i].tabs) PROVE FALSE
  BY <1>9, <1>12, <1>13
<1>14. InCalls(r) \cap ToSet(cs[i].tabs) = {} BY <1>13
<1>15. InCalls(cs) = InCalls(r) \cup ToSet(cs[i].tabs) BY <1>11
<1> QED BY <1>3, <1>8, <1>14, <1>15

\* One call more, of tabs no other call has.
LEMMA CallAdded ==
  ASSUME NEW cs, cs \in Seq(Calls), Apart(cs), NEW call, call \in Calls,
         IsInjective(call.tabs), ToSet(call.tabs) \cap InCalls(cs) = {},
         NEW r, r = cs \o <<call>>
  PROVE  /\ r \in Seq(Calls) /\ Apart(r) /\ InCalls(r) = InCalls(cs) \cup ToSet(call.tabs)
<1> DEFINE n == Len(cs)
<1>1. n \in Nat /\ DOMAIN cs = 1..n BY LenProperties
<1>2. <<call>> \in Seq(Calls) /\ Len(<<call>>) = 1 /\ <<call>>[1] = call OBVIOUS
<1>3. r \in Seq(Calls) /\ Len(r) = n + 1 BY <1>2, ConcatProperties
<1>4. DOMAIN r = 1..n + 1 BY <1>3, LenProperties
<1>5. \A k \in 1..n : r[k] = cs[k] BY <1>1, <1>2, ConcatProperties
<1>6. r[n + 1] = call BY <1>1, <1>2, ConcatProperties
<1> HIDE DEF n
<1>7. \A k \in 1..n + 1 : k \in 1..n \/ k = n + 1 BY <1>1
<1>8. \A k \in 1..n : ToSet(cs[k].tabs) \cap ToSet(call.tabs) = {} BY <1>1 DEF InCalls
<1>9. \A j, k \in 1..n : j # k => ToSet(cs[j].tabs) \cap ToSet(cs[k].tabs) = {}
  BY <1>1 DEF Apart
<1>10. \A k \in 1..n : IsInjective(cs[k].tabs) BY <1>1 DEF Apart
<1>11. Apart(r)
  <2>1. ASSUME NEW j \in 1..n + 1 PROVE IsInjective(r[j].tabs)
    BY <1>5, <1>6, <1>7, <1>10
  <2>2. ASSUME NEW j \in 1..n + 1, NEW k \in (1..n + 1) \ {j}
        PROVE  ToSet(r[j].tabs) \cap ToSet(r[k].tabs) = {}
    BY <1>5, <1>6, <1>7, <1>8, <1>9
  <2> QED BY <1>4, <2>1, <2>2 DEF Apart
<1>12. ASSUME NEW e
       PROVE  e \in InCalls(r) <=> e \in InCalls(cs) \cup ToSet(call.tabs)
  <2>1. e \in InCalls(r) <=> \E k \in 1..n + 1 : e \in ToSet(r[k].tabs)
    BY <1>4 DEF InCalls
  <2>2. e \in InCalls(cs) <=> \E k \in 1..n : e \in ToSet(cs[k].tabs)
    BY <1>1 DEF InCalls
  <2>3. n + 1 \in 1..n + 1 /\ \A k \in 1..n : k \in 1..n + 1 BY <1>1
  <2> QED BY <1>5, <1>6, <1>7, <2>1, <2>2, <2>3
<1>13. InCalls(r) = InCalls(cs) \cup ToSet(call.tabs) BY <1>12
<1> QED BY <1>3, <1>11, <1>13

-----------------------------------------------------------------------------
\* Calm states, and the steps that keep them.

\* The restoring state x, between two actions, while the calls cs wait.
Calm(x, cs, hid, opn, before) ==
  /\ Sound(x, hid, InCalls(cs), InCalls(cs), {}, before) /\ Fed(x)
  /\ cs \in Seq(Calls) /\ Apart(cs) /\ Undone(x) \subseteq opn
  /\ \A t \in InCalls(cs) : t \in opn \cap x.data => x.st[t] = "needs"

\* A call of restoreHistory, while the calls cs wait for their timeout.
LEMMA HistoryCalm ==
  ASSUME NEW hid, NEW before, NEW opn, NEW sel, NEW cs, cs \in Seq(Calls), Apart(cs),
         NEW call \in Calls, IsInjective(call.tabs), ToSet(call.tabs) \cap InCalls(cs) = {},
         NEW C, C = InCalls(cs) \cup ToSet(call.tabs),
         NEW x, Sound(x, hid, C, C, {}, before), Fed(x), Undone(x) \subseteq opn,
         \A t \in C : t \in opn \cap x.data => x.st[t] = "needs",
         RestoringIn(x) \subseteq before,
         NEW o \in RestoreHistory(x, call, opn, hid, sel)
  PROVE  Calm(o[1], cs \o o[2], hid, opn, before)
<1>1. PICK C0 \in SUBSET Tabs : C0 = InCalls(cs) BY InCallsTabs
<1>2. Continued(o, x, call, C0, hid, {}, before)
  <2>1. PICK ws : ws = {} OBVIOUS
  <2>2. C = C0 \cup ToSet(call.tabs) /\ ToSet(call.tabs) \cap C0 = {} BY <1>1
  <2>3. \A t \in ToSet(call.tabs) : t \in opn \cap x.data => x.st[t] = "needs" OBVIOUS
  <2>4. Sound(x, hid, C, C, ws, before) BY <2>1
  <2>5. Continued(o, x, call, C0, hid, ws, before)
    BY <2>2, <2>3, <2>4, RestoreHistorySound
  <2> QED BY <2>1, <2>5
<1>3. PICK rest \in Seq(Tabs), C2 \in SUBSET Tabs :
           /\ C2 = C0 \cup ToSet(rest) /\ IsInjective(rest)
           /\ ToSet(rest) \subseteq ToSet(call.tabs)
           /\ o[2] = IF rest = <<>> THEN <<>> ELSE <<[call EXCEPT !.tabs = rest]>>
           /\ o[1] \in Recs /\ Sound(o[1], hid, C2, C2, {}, before) /\ Fed(o[1])
           /\ Goes(o[1], x, C2)
  BY <1>2 DEF Continued
<1>4. PICK r : r = cs \o o[2] OBVIOUS
<1>5. r \in Seq(Calls) /\ Apart(r) /\ InCalls(r) = C2
  <2>1. CASE rest = <<>>
    <3>1. o[2] = <<>> /\ ToSet(rest) = {} BY <1>3, <2>1 DEF ToSet
    <3>2. r = cs BY <1>4, <3>1
    <3> QED BY <1>1, <1>3, <3>1, <3>2
  <2>2. CASE rest # <<>>
    <3>1. PICK c : c = [call EXCEPT !.tabs = rest] OBVIOUS
    <3>2. c \in Calls /\ c.tabs = rest BY <3>1 DEF Calls
    <3>3. r = cs \o <<c>> BY <1>3, <1>4, <2>2, <3>1
    <3>4. IsInjective(c.tabs) /\ ToSet(c.tabs) \cap InCalls(cs) = {} BY <1>3, <3>2
    <3>5. r \in Seq(Calls) /\ Apart(r) /\ InCalls(r) = InCalls(cs) \cup ToSet(c.tabs)
      BY <3>2, <3>3, <3>4, CallAdded
    <3> QED BY <1>1, <1>3, <3>2, <3>5
  <2> QED BY <2>1, <2>2
<1>6. Undone(o[1]) \subseteq opn BY <1>3 DEF Goes
<1>7. ASSUME NEW t \in C2, t \in opn \cap o[1].data PROVE o[1].st[t] = "needs"
  <2>1. t \in C /\ t \in opn \cap x.data BY <1>1, <1>3, <1>7 DEF Goes
  <2>2. x.st[t] = "needs" BY <2>1
  <2> QED BY <1>3, <2>2 DEF Goes
<1>8. Sound(o[1], hid, C2, C2, {}, before) /\ Fed(o[1]) BY <1>3
<1> HIDE DEF InCalls
<1> QED BY <1>4, <1>5, <1>6, <1>7, <1>8 DEF Calm

\* The restoring state x before the tabs of ts are marked.
Ready(x, ts, hid, opn, before) ==
  /\ x.count = Cardinality(RestoringIn(x)) /\ CountedOff(Prepared(x, ts))
  /\ Filed(x, hid, InCalls(chains), InCalls(chains)) /\ Heard(x, {})
  /\ RestoringIn(x) \subseteq before /\ Fed(x)
  /\ Undone(x) \subseteq opn /\ Undone(x) \cap ts = {}
  /\ ts \subseteq opn /\ ts \cap InCalls(chains) = {}
  /\ \A t \in InCalls(chains) : t \in opn \cap x.data => x.st[t] = "needs"

\* The tabs of ts are marked and their first call made.
LEMMA RestoreTabsCalm ==
  ASSUME NEW hid, NEW before, NEW opn, NEW sel, chains \in Seq(Calls), Apart(chains),
         NEW tabs, tabs \in Seq(Tabs), IsInjective(tabs), NEW now \in BOOLEAN,
         NEW ts \in SUBSET Tabs, ts = ToSet(tabs), NEW x \in Recs,
         Ready(x, ts, hid, opn, before), RestoreTabs(x, tabs, now, opn, hid, sel)
  PROVE  Calm(ss', chains', hid, opn, before)
<1>1. /\ x.count = Cardinality(RestoringIn(x)) /\ CountedOff(Prepared(x, ts))
      /\ Filed(x, hid, InCalls(chains), InCalls(chains)) /\ Heard(x, {})
      /\ RestoringIn(x) \subseteq before /\ Fed(x)
      /\ Undone(x) \subseteq opn /\ Undone(x) \cap ts = {}
      /\ ts \subseteq opn /\ ts \cap InCalls(chains) = {}
      /\ \A t \in InCalls(chains) : t \in opn \cap x.data => x.st[t] = "needs"
  BY DEF Ready
<1>2. PICK call \in Calls : call = [tabs |-> tabs, now |-> now] BY DEF Calls
<1>3. PICK y : y = Prepared(x, ts) OBVIOUS
<1>4. PICK cs : cs = chains OBVIOUS
<1>5. PICK o \in RestoreHistory(y, call, opn, hid, sel) : ss' = o[1] /\ chains' = cs \o o[2]
  BY <1>2, <1>3, <1>4 DEF RestoreTabs
<1>6. PICK C0, C : C0 \in SUBSET Tabs /\ C0 = InCalls(cs) /\ C = C0 \cup ts
  <2>1. InCalls(cs) \in SUBSET Tabs BY <1>4, InCallsTabs
  <2> QED BY <2>1
<1>7. /\ Sound(y, hid, C, C, {}, before)
      /\ RestoringIn(y) = RestoringIn(x) /\ Undone(y) = Undone(x) \cup ts
      /\ y.data = x.data \cup ts /\ Fed(y)
      /\ \A t \in Tabs : y.st[t] = IF t \in ts THEN "needs" ELSE x.st[t]
  <2>1. PICK ws : ws = {} OBVIOUS
  <2>2. Filed(x, hid, C0, C0) /\ Heard(x, ws) /\ InTurn(x, hid, before)
    BY <1>1, <1>4, <1>6, <2>1 DEF InTurn
  <2>3. CountedOff(y) BY <1>1, <1>3
  <2>4. Sound(y, hid, C, C, ws, before) /\ Marked(y, x, ts)
    BY <1>1, <1>3, <1>6, <2>2, <2>3, PreparedSound
  <2> QED BY <1>1, <2>1, <2>4 DEF Marked
<1>8. ASSUME NEW t \in C, t \in opn \cap y.data PROVE y.st[t] = "needs"
  <2>1. t \in Tabs BY <1>6
  <2>2. CASE t \in ts BY <1>7, <2>1, <2>2
  <2>3. CASE t \notin ts BY <1>1, <1>4, <1>6, <1>7, <1>8, <2>1, <2>3
  <2> QED BY <2>2, <2>3
<1>9. /\ call.tabs = tabs /\ C = InCalls(cs) \cup ToSet(call.tabs)
      /\ ToSet(call.tabs) \cap InCalls(cs) = {} /\ IsInjective(call.tabs)
  BY <1>1, <1>2, <1>4, <1>6
<1>10. Undone(y) \subseteq opn BY <1>1, <1>7
<1>11. cs \in Seq(Calls) /\ Apart(cs) BY <1>4
<1>12. RestoringIn(y) \subseteq before BY <1>1, <1>7
<1>13. Calm(o[1], cs \o o[2], hid, opn, before)
  BY <1>7, <1>8, <1>9, <1>10, <1>11, <1>12, HistoryCalm
<1> QED BY <1>5, <1>13

\* Steps that leave the calls alone.
LEMMA GoesCalm ==
  ASSUME NEW hid, NEW before, NEW opn, NEW x, NEW cs, Calm(x, cs, hid, opn, before),
         NEW C, C = InCalls(cs), NEW z, Sound(z, hid, C, C, {}, before), Fed(z), Goes(z, x, C)
  PROVE  Calm(z, cs, hid, opn, before)
BY DEF Calm, Goes

\* InChain is about the calls that wait.
LEMMA InChainCalls == InChain = InCalls(chains)
BY DEF InChain, InCalls

\* What waits in the queue is not done.
LEMMA EntriesUndone ==
  ASSUME NEW hid, NEW C, NEW D, NEW ws, NEW before, NEW x, Sound(x, hid, C, D, ws, before)
  PROVE  Entries(x.queue) \subseteq Undone(x)
BY StateSets DEF Sound, Filed

\* Tabs are opened, closed, shown and hidden that the restoring state does not
\* know.
LEMMA OtherTabsCalm ==
  ASSUME NEW hid, NEW before, NEW opn, NEW x, NEW cs, Calm(x, cs, hid, opn, before),
         NEW hid2, \A t \in Undone(x) : t \in hid <=> t \in hid2,
         hid2 \subseteq hid \/ RestoringIn(x) \subseteq before,
         NEW opn2, Undone(x) \subseteq opn2, InCalls(cs) \cap opn2 \subseteq opn
  PROVE  Calm(x, cs, hid2, opn2, before)
<1>1. PICK C : C = InCalls(cs) OBVIOUS
<1>2. Sound(x, hid, C, C, {}, before) BY <1>1 DEF Calm
<1>3. PICK ws : ws = {} OBVIOUS
<1>4. Sound(x, hid, C, C, ws, before) BY <1>2, <1>3
<1>5. \A t \in Entries(x.queue) \ Pinned : t \in hid <=> t \in hid2
  <2>1. Entries(x.queue) \subseteq Undone(x) BY <1>4, EntriesUndone
  <2> QED BY <2>1
<1>6. Sound(x, hid2, C, C, ws, before) BY <1>4, <1>5, OtherHiddenSound
<1> QED BY <1>1, <1>3, <1>6 DEF Calm

\* The end of a load is counted, and the next tab started.
LEMMA LoadStopsCalm ==
  ASSUME NEW before, Calm(ss, chains, hidden, open, before), NEW t \in Tabs, LoadStops(t)
  PROVE  Calm(ss', chains', hidden', open', before)
<1> DEFINE C == InCalls(chains)
<1>1. /\ ss \in Recs /\ Sound(ss, hidden, C, C, {}, before) /\ Fed(ss) /\ C \in SUBSET Tabs
      /\ Undone(ss) \subseteq open
  BY InCallsTabs DEF Calm, Sound
<1>2. PICK loaded \in BOOLEAN :
       LET x == [ss EXCEPT !.loads = @ \ {t},
                           !.data = IF loaded /\ ss.st[t] # "needs" THEN @ \ {t} ELSE @]
       IN IF ss.st[t] = "restoring" /\ Home[t] \in ss.on
          THEN ss' \in RestoreNext(Reset(x, t, hidden), hidden)
          ELSE ss' = x
  BY DEF LoadStops
<1>3. PICK data \in SUBSET Tabs :
        data = IF loaded /\ ss.st[t] # "needs" THEN ss.data \ {t} ELSE ss.data
  BY <1>1 DEF Recs
<1>4. PICK x : x = [ss EXCEPT !.loads = @ \ {t}, !.data = data] OBVIOUS
<1>5. /\ x \in Recs /\ x.st = ss.st /\ x.history = ss.history /\ x.queue = ss.queue
      /\ x.count = ss.count /\ x.left = ss.left /\ x.on = ss.on /\ x.asked = ss.asked
      /\ x.data = data /\ x.loads = ss.loads \ {t}
  BY <1>1, <1>4 DEF Recs
<1>6. IF ss.st[t] = "restoring" /\ Home[t] \in ss.on
      THEN ss' \in RestoreNext(Reset(x, t, hidden), hidden) ELSE ss' = x
  BY <1>2, <1>3, <1>4
<1>7. /\ Sound(x, hidden, C, C, {}, before)
      /\ RestoringIn(x) = RestoringIn(ss) /\ Undone(x) = Undone(ss)
  BY <1>1, <1>5, SameSound
<1>8. UNCHANGED <<chains, hidden, open>> BY DEF LoadStops
<1>9. CASE ss.st[t] = "restoring"
  <2>1. t \in RestoringIn(ss) /\ t \in Undone(x) BY <1>7, <1>9 DEF RestoringIn, Undone
  <2>2. Home[t] \in ss.on BY <1>1, <2>1 DEF Sound, Heard
  <2>3. PICK hid, ws : hid = hidden /\ ws = {} OBVIOUS
  <2>4. PICK r \in Recs : r = Reset(x, t, hid) /\ ResetFields(r, x, t, hid)
    BY <1>5, ResetEffect
  <2>5. Sound(x, hid, C, C, ws, before) BY <1>7, <2>3
  <2> HIDE DEF C
  <2>6. /\ Sound(r, hid, C, C, ws, before)
        /\ RestoringIn(r) = RestoringIn(x) \ {t} /\ Undone(r) = Undone(x) \ {t}
        /\ r.data = x.data /\ r.loads = x.loads
        /\ \A u \in Tabs : u # t => r.st[u] = x.st[u]
    BY <2>1, <2>4, <2>5, ResetSound
  <2>7. Fed(r) BY <1>1, <1>3, <1>5, <1>7, <2>6 DEF Fed
  <2>8. ss' \in RestoreNext(r, hid) BY <1>6, <1>9, <2>2, <2>3, <2>4
  <2>9. /\ Sound(ss', hid, C, C, ws, before) /\ Fed(ss') /\ Goes(ss', r, C)
    BY <1>1, <2>6, <2>7, <2>8, RestoreNextSound
  <2>10. ASSUME NEW u \in C, u \in open \cap ss'.data PROVE ss'.st[u] = "needs"
    <3>1. u \in open \cap ss.data BY <1>1, <1>3, <1>5, <2>6, <2>9, <2>10 DEF Goes
    <3>2. ss.st[u] = "needs" BY <3>1 DEF C, Calm
    <3>3. u # t /\ u \in Tabs BY <1>1, <1>9, <3>2
    <3>4. r.st[u] = "needs" BY <1>5, <2>6, <3>2, <3>3
    <3> QED BY <2>9, <3>4 DEF Goes
  <2>11. Undone(ss') \subseteq open BY <1>1, <1>7, <2>6, <2>9 DEF Goes
  <2>12. Sound(ss', hidden, C, C, {}, before) BY <2>3, <2>9
  <2>13. Calm(ss', chains, hidden, open, before)
    BY <2>9, <2>10, <2>11, <2>12 DEF C, Calm
  <2> QED BY <1>8, <2>13
<1>10. CASE ss.st[t] # "restoring"
  <2>1. ss' = x BY <1>6, <1>10
  <2>2. Fed(x)
    <3>1. RestoringIn(x) \subseteq x.loads
      BY <1>1, <1>5, <1>7, <1>10 DEF Fed, RestoringIn
    <3>2. Undone(x) \subseteq x.data
      <4>1. CASE loaded /\ ss.st[t] # "needs"
        <5>1. ss.st[t] \in {"none", "needs", "restoring"} BY <1>1 DEF Recs
        <5>2. t \notin Undone(x) BY <1>7, <1>10, <4>1, <5>1 DEF Undone
        <5> QED BY <1>1, <1>3, <1>5, <1>7, <4>1, <5>2 DEF Fed
      <4>2. CASE ~(loaded /\ ss.st[t] # "needs")
        BY <1>1, <1>3, <1>5, <1>7, <4>2 DEF Fed
      <4> QED BY <4>1, <4>2
    <3> QED BY <3>1, <3>2 DEF Fed
  <2>3. ASSUME NEW u \in C, u \in open \cap x.data PROVE x.st[u] = "needs"
    BY <1>3, <1>5, <2>3 DEF Calm
  <2>4. Calm(x, chains, hidden, open, before)
    BY <1>1, <1>7, <2>2, <2>3 DEF Calm
  <2> QED BY <1>8, <2>1, <2>4
<1> QED BY <1>9, <1>10

\* The tab that is selected is restored at once; no chain will come to it.
LEMMA SelectTabCalm ==
  ASSUME NEW before, Calm(ss, chains, hidden, open, before), ~Hasty, NEW t \in Tabs, SelectTab(t)
  PROVE  Calm(ss', chains', hidden', open', before)
<1>1. PICK C, ws, hid : C = InCalls(chains) /\ ws = {} /\ hid = hidden OBVIOUS
<1>2. /\ Sound(ss, hid, C, C, ws, before) /\ Fed(ss) /\ C \in SUBSET Tabs
  BY <1>1, InCallsTabs DEF Calm
<1>3. t \notin C BY <1>1, InChainCalls DEF SelectTab, Selectable
<1>4. ss' \in Selected(ss, t, hid) BY <1>1 DEF SelectTab
<1>5. PICK x : x = ss OBVIOUS
<1>6. Sound(x, hid, C, C, ws, before) /\ Fed(x) /\ ss' \in Selected(x, t, hid)
  BY <1>2, <1>4, <1>5
<1>7. Sound(ss', hid, C, C, ws, before) /\ Fed(ss') /\ Goes(ss', x, C)
  BY <1>2, <1>3, <1>6, SelectedSound
<1>8. Calm(ss', chains, hidden, open, before)
  BY <1>1, <1>5, <1>7, GoesCalm
<1> QED BY <1>8 DEF SelectTab

\* A tab that is reloaded had its listener, so it waited in the queue.
LEMMA ReloadTabCalm ==
  ASSUME NEW before, Calm(ss, chains, hidden, open, before), NEW t \in Tabs, ReloadTab(t)
  PROVE  Calm(ss', chains', hidden', open', before)
<1>1. PICK C, ws, hid : C = InCalls(chains) /\ ws = {} /\ hid = hidden OBVIOUS
<1>2. PICK x : x = ss OBVIOUS
<1>3. /\ Sound(x, hid, C, C, ws, before) /\ Fed(x) /\ C \in SUBSET Tabs
  BY <1>1, <1>2, InCallsTabs DEF Calm
<1>4. t \in WaitingIn(x) /\ t \notin C BY <1>2, <1>3 DEF ReloadTab, Sound, Filed
<1>5. ss' \in Restore(x, t, "asked", hid) BY <1>1, <1>2 DEF ReloadTab
<1>6. Sound(ss', hid, C, C, ws, before) /\ Fed(ss') /\ Goes(ss', x, C)
  BY <1>3, <1>4, <1>5, AskedSound
<1>7. Calm(ss', chains, hidden, open, before) BY <1>1, <1>2, <1>6, GoesCalm
<1> QED BY <1>7 DEF ReloadTab

\* The timeout takes one call away and may add the rest of it.
LEMMA ContinueHistoryCalm ==
  ASSUME NEW before, Calm(ss, chains, hidden, open, before),
         RestoringIn(ss) \subseteq before, ContinueHistory
  PROVE  Calm(ss', chains', hidden', open', before)
<1>1. PICK i \in DOMAIN chains :
        \E o \in RestoreHistory(ss, chains[i], open, hidden, selected) :
          ss' = o[1] /\ chains' = RemoveAt(chains, i) \o o[2]
  BY DEF ContinueHistory
<1>2. PICK x, hid, opn, sel, cs :
        x = ss /\ hid = hidden /\ opn = open /\ sel = selected /\ cs = chains
  OBVIOUS
<1>3. cs \in Seq(Calls) /\ Apart(cs) /\ i \in DOMAIN cs BY <1>2 DEF Calm
<1>4. PICK call \in Calls : call = cs[i] BY <1>3, LenProperties
<1>5. PICK r : r = RemoveAt(cs, i) OBVIOUS
<1>6. /\ r \in Seq(Calls) /\ Apart(r) /\ InCalls(r) \cap ToSet(cs[i].tabs) = {}
      /\ InCalls(cs) = InCalls(r) \cup ToSet(cs[i].tabs)
  BY <1>3, <1>5, CallTaken
<1>7. PICK o \in RestoreHistory(x, call, opn, hid, sel) : ss' = o[1] /\ chains' = r \o o[2]
  BY <1>1, <1>2, <1>4, <1>5
<1>8. PICK C : C = InCalls(cs) OBVIOUS
<1>9. /\ Sound(x, hid, C, C, {}, before) /\ Fed(x) /\ Undone(x) \subseteq opn
      /\ \A t \in C : t \in opn \cap x.data => x.st[t] = "needs"
      /\ RestoringIn(x) \subseteq before
  BY <1>2, <1>8 DEF Calm
<1>10. IsInjective(call.tabs) BY <1>3, <1>4 DEF Apart
<1>11. C = InCalls(r) \cup ToSet(call.tabs) /\ ToSet(call.tabs) \cap InCalls(r) = {}
  BY <1>4, <1>6, <1>8
<1>12. Calm(o[1], r \o o[2], hid, opn, before)
  BY <1>6, <1>9, <1>10, <1>11, HistoryCalm
<1> QED BY <1>2, <1>7, <1>12 DEF ContinueHistory

\* A tab that is closed is counted off, and the tab shown in its place restored.
LEMMA CloseTabCalm ==
  ASSUME NEW before, Calm(ss, chains, hidden, open, before), ~Hasty, NEW t \in Tabs, CloseTab(t)
  PROVE  Calm(ss', chains', hidden', open', before)
<1>1. PICK C, ws, hid, x : C = InCalls(chains) /\ ws = {} /\ hid = hidden /\ x = ss
  OBVIOUS
<1>2. /\ Sound(x, hid, C, C, ws, before) /\ Fed(x) /\ C \in SUBSET Tabs
      /\ Undone(x) \subseteq open
  BY <1>1, InCallsTabs DEF Calm
<1>3. PICK y \in RemoveTab(x, t, hid) :
        \/ ss' = y
        \/ \E u \in (TabsOf(Home[t]) \cap Selectable) \ {t} : ss' \in Selected(y, u, hid)
  BY <1>1 DEF CloseTab
<1>4. /\ y \in Recs /\ Sound(y, hid, C, C, ws, before) /\ Fed(y) /\ Without(y, x, {t}, C)
  BY <1>2, RemoveTabSound
<1>5. Sound(ss', hid, C, C, ws, before) /\ Fed(ss') /\ Goes(ss', y, C)
  <2>1. CASE ss' = y BY <1>4, <2>1 DEF Goes
  <2>2. CASE ss' # y
    <3>1. PICK u \in (TabsOf(Home[t]) \cap Selectable) \ {t} : ss' \in Selected(y, u, hid)
      BY <1>3, <2>2
    <3>2. u \in Tabs /\ u \notin C BY <1>1, InChainCalls DEF Selectable, TabsOf
    <3> QED BY <1>2, <1>4, <3>1, <3>2, SelectedSound
  <2> QED BY <2>1, <2>2
<1>6. open' = open \ {t} /\ hidden' = hidden \ {t} /\ chains' = chains
  BY DEF CloseTab
<1>7. Undone(ss') \subseteq open \ {t} BY <1>2, <1>4, <1>5, <1>6 DEF Without, Goes
<1>8. ASSUME NEW u \in C, u \in (open \ {t}) \cap ss'.data PROVE ss'.st[u] = "needs"
  <2>1. u \in open \cap x.data BY <1>4, <1>5, <1>8 DEF Without, Goes
  <2>2. x.st[u] = "needs" BY <1>1, <2>1 DEF Calm
  <2>3. y.st[u] = "needs" BY <1>4, <1>8, <2>2 DEF Without
  <2> QED BY <1>5, <2>3 DEF Goes
<1>9. PICK hid2 : hid2 = hidden \ {t} OBVIOUS
<1>10. Sound(ss', hid2, C, C, ws, before)
  <2>1. hid2 \subseteq hid BY <1>1, <1>9
  <2>2. PICK z : z = ss' OBVIOUS
  <2>3. Sound(z, hid, C, C, ws, before) BY <1>5, <2>2
  <2>4. Entries(z.queue) \subseteq Undone(z) BY <2>3, EntriesUndone
  <2>5. \A u \in Entries(z.queue) \ Pinned : u \in hid <=> u \in hid2
    BY <1>1, <1>7, <1>9, <2>2, <2>4
  <2>6. Sound(z, hid2, C, C, ws, before) BY <2>1, <2>3, <2>5, OtherHiddenSound
  <2> QED BY <2>2, <2>6
<1>11. chains \in Seq(Calls) /\ Apart(chains) BY DEF Calm
<1>12. Calm(ss', chains, hid2, open \ {t}, before)
  BY <1>1, <1>5, <1>7, <1>8, <1>10, <1>11 DEF Calm
<1> QED BY <1>6, <1>9, <1>12

\* A tab that is shown moves in the queue, and may be the next.
LEMMA ShowTabCalm ==
  ASSUME NEW before, Calm(ss, chains, hidden, open, before),
         RestoringIn(ss) \subseteq before, NEW t \in Tabs, ShowTab(t)
  PROVE  Calm(ss', chains', hidden', open', before)
<1>1. PICK C, ws, hid, x, hid2 : /\ C = InCalls(chains) /\ ws = {} /\ hid = hidden /\ x = ss
                                 /\ hid2 = hidden'
  OBVIOUS
<1>2. /\ Sound(x, hid, C, C, {}, before) /\ Fed(x) /\ C \in SUBSET Tabs
      /\ x \in Recs /\ x.queue \in Queues
      /\ Entries(x.queue) = WaitingIn(x) \ C /\ InOrder(x.queue, hid)
  BY <1>1, InCallsTabs DEF Calm, Sound, Filed, Recs
<1>3. hid2 = hid \ {t} /\ t \in hid /\ UNCHANGED <<open, chains>> BY <1>1 DEF ShowTab
<1>4. CASE ss.st[t] = "needs" /\ t \in ToSet(ss.queue.hidden)
  <2>1. x.queue.hidden \in Seq(Tabs) /\ x.queue.visible \in Seq(Tabs) BY <1>2 DEF Queues
  <2>2. PICK s \in Seq(Tabs) : s = RemoveFirst(x.queue.hidden, t)
    BY <1>1, <1>4, <2>1, RemoveFirstElements
  <2>3. PICK v \in Seq(Tabs) : v = Append(x.queue.visible, t)
    BY <2>1, AppendElements
  <2>4. PICK q : q = [x.queue EXCEPT !["hidden"] = s, !["visible"] = v] OBVIOUS
  <2>5. /\ q \in Queues /\ q["hidden"] = s /\ q["visible"] = v
        /\ q["priority"] = x.queue["priority"]
    BY <1>2, <2>4 DEF Queues
  <2>6. PICK a \in Buckets, b \in Buckets : a = "hidden" /\ b = "visible"
    BY DEF Buckets
  <2>7. a # b /\ t \in ToSet(x.queue[a]) BY <1>1, <1>4, <2>6
  <2>8. t \in InBucket(b, hid2)
    <3>1. t \in InBucket(a, hid) BY <1>2, <2>7 DEF InOrder
    <3> QED BY <1>3, <2>6, <3>1 DEF InBucket
  <2>9. hid \ {t} = hid2 \ {t} BY <1>3
  <2>10. q[a] = RemoveFirst(x.queue[a], t) /\ q[b] = Append(x.queue[b], t)
    BY <2>2, <2>3, <2>5, <2>6
  <2>11. MovedIn(q, x.queue, t, a, b)
    <3>1. \A c \in Buckets \ {a, b} : q[c] = x.queue[c] BY <2>5, <2>6 DEF Buckets
    <3> QED BY <2>10, <3>1 DEF MovedIn
  <2>12. PICK y : y = [x EXCEPT !.queue = q] OBVIOUS
  <2>13. RestoringIn(x) \subseteq before /\ Requeued(y, x, q) BY <1>1, <2>12 DEF Requeued
  <2>14. Sound(x, hid, C, C, ws, before) BY <1>1, <1>2
  <2>15. Sound(y, hid2, C, C, ws, before)
    BY <2>5, <2>7, <2>8, <2>9, <2>11, <2>13, <2>14, MovedSound
  <2>16. y.st = x.st /\ y.data = x.data /\ y.loads = x.loads
    BY <1>2, <2>12 DEF Recs
  <2>17. y = [x EXCEPT !.queue.hidden = RemoveFirst(@, t), !.queue.visible = Append(@, t)]
    BY <1>2, <2>2, <2>3, <2>4, <2>12 DEF Recs, Queues
  <2>18. ss' \in RestoreNext(y, hid2)
    BY <1>1, <1>4, <2>17 DEF ShowTab
  <2>19. Fed(y) BY <1>2, <2>15, <2>16 DEF Fed, RestoringIn, Undone
  <2>20. Sound(y, hid2, C, C, ws, before) BY <2>15, <2>18, <2>19, RestoreNextSound
  <2>21. Sound(ss', hid2, C, C, ws, before) /\ Fed(ss') /\ Goes(ss', y, C)
    BY <1>2, <2>18, <2>19, <2>20, RestoreNextSound
  <2>22. Goes(ss', x, C) BY <2>15, <2>16, <2>21 DEF Goes, Undone
  <2>23. Undone(ss') \subseteq open BY <1>1, <2>22 DEF Calm, Goes
  <2>24. ASSUME NEW u \in C, u \in open \cap ss'.data PROVE ss'.st[u] = "needs"
    BY <1>1, <2>22, <2>24 DEF Calm, Goes
  <2>25. chains \in Seq(Calls) /\ Apart(chains) BY DEF Calm
  <2>26. Calm(ss', chains, hid2, open, before)
    BY <1>1, <2>21, <2>23, <2>24, <2>25 DEF Calm
  <2> QED BY <1>1, <1>3, <2>26
<1>5. CASE ~(ss.st[t] = "needs" /\ t \in ToSet(ss.queue.hidden))
  <2>1. ss' = ss BY <1>5 DEF ShowTab
  <2>2. \A u \in Entries(x.queue) \ Pinned : u \in hid <=> u \in hid2
    <3>1. ASSUME t \in Entries(x.queue) \ Pinned PROVE FALSE
      <4>1. PICK b \in Buckets : t \in ToSet(x.queue[b]) BY <3>1, EntriesOf
      <4>2. t \in InBucket(b, hid) BY <1>2, <4>1 DEF InOrder
      <4>3. b = "hidden" BY <1>3, <3>1, <4>2 DEF InBucket
      <4>4. x.st[t] = "needs" BY <1>2, <3>1 DEF WaitingIn
      <4> QED BY <1>1, <1>5, <4>1, <4>3, <4>4
    <3> QED BY <1>3, <3>1
  <2>3. Sound(x, hid, C, C, ws, before) /\ hid2 \subseteq hid BY <1>1, <1>2, <1>3
  <2>4. Sound(x, hid2, C, C, ws, before) BY <2>2, <2>3, OtherHiddenSound
  <2>5. Calm(ss, chains, hid2, open, before) BY <1>1, <2>4 DEF Calm
  <2> QED BY <1>1, <1>3, <2>1, <2>5
<1> QED BY <1>4, <1>5

\* A tab that is hidden moves in the queue.
LEMMA HideTabCalm ==
  ASSUME NEW before, Calm(ss, chains, hidden, open, before),
         RestoringIn(ss) \subseteq before, NEW t \in Tabs, HideTab(t)
  PROVE  Calm(ss', chains', hidden', open', before)
<1>1. PICK C, ws, hid, x, hid2 : /\ C = InCalls(chains) /\ ws = {} /\ hid = hidden /\ x = ss
                                 /\ hid2 = hidden'
  OBVIOUS
<1>2. /\ Sound(x, hid, C, C, {}, before) /\ Fed(x) /\ C \in SUBSET Tabs
      /\ x \in Recs /\ x.queue \in Queues
      /\ Entries(x.queue) = WaitingIn(x) \ C /\ InOrder(x.queue, hid)
  BY <1>1, InCallsTabs DEF Calm, Sound, Filed, Recs
<1>3. /\ hid2 = hid \cup {t} /\ t \notin hid /\ t \notin Pinned
      /\ UNCHANGED <<open, chains>>
  BY <1>1 DEF HideTab
<1>4. CASE ss.st[t] = "needs" /\ t \in ToSet(ss.queue.visible)
  <2>1. x.queue.hidden \in Seq(Tabs) /\ x.queue.visible \in Seq(Tabs) BY <1>2 DEF Queues
  <2>2. PICK s \in Seq(Tabs) : s = RemoveFirst(x.queue.visible, t)
    BY <1>1, <1>4, <2>1, RemoveFirstElements
  <2>3. PICK v \in Seq(Tabs) : v = Append(x.queue.hidden, t)
    BY <2>1, AppendElements
  <2>4. PICK q : q = [x.queue EXCEPT !["visible"] = s, !["hidden"] = v] OBVIOUS
  <2>5. /\ q \in Queues /\ q["visible"] = s /\ q["hidden"] = v
        /\ q["priority"] = x.queue["priority"]
    BY <1>2, <2>4 DEF Queues
  <2>6. PICK a \in Buckets, b \in Buckets : a = "visible" /\ b = "hidden"
    BY DEF Buckets
  <2>7. a # b /\ t \in ToSet(x.queue[a]) BY <1>1, <1>4, <2>6
  <2>8. t \in InBucket(b, hid2) BY <1>3, <2>6 DEF InBucket
  <2>9. hid \ {t} = hid2 \ {t} BY <1>3
  <2>10. q[a] = RemoveFirst(x.queue[a], t) /\ q[b] = Append(x.queue[b], t)
    BY <2>2, <2>3, <2>5, <2>6
  <2>11. MovedIn(q, x.queue, t, a, b)
    <3>1. \A c \in Buckets \ {a, b} : q[c] = x.queue[c] BY <2>5, <2>6 DEF Buckets
    <3> QED BY <2>10, <3>1 DEF MovedIn
  <2>12. PICK y : y = [x EXCEPT !.queue = q] OBVIOUS
  <2>13. RestoringIn(x) \subseteq before /\ Requeued(y, x, q) BY <1>1, <2>12 DEF Requeued
  <2>14. Sound(x, hid, C, C, ws, before) BY <1>1, <1>2
  <2>15. Sound(y, hid2, C, C, ws, before)
    BY <2>5, <2>7, <2>8, <2>9, <2>11, <2>13, <2>14, MovedSound
  <2>16. y.st = x.st /\ y.data = x.data /\ y.loads = x.loads
    BY <1>2, <2>12 DEF Recs
  <2>17. y = [x EXCEPT !.queue.visible = RemoveFirst(@, t), !.queue.hidden = Append(@, t)]
    BY <1>2, <2>2, <2>3, <2>4, <2>12 DEF Recs, Queues
  <2>18. ss' = y BY <1>1, <1>4, <2>17 DEF HideTab
  <2>19. Fed(y) /\ Undone(y) = Undone(x)
    BY <1>2, <2>15, <2>16 DEF Fed, RestoringIn, Undone
  <2>20. Calm(y, chains, hid2, open, before) BY <1>1, <2>15, <2>16, <2>19 DEF Calm
  <2> QED BY <1>1, <1>3, <2>18, <2>20
<1>5. CASE ~(ss.st[t] = "needs" /\ t \in ToSet(ss.queue.visible))
  <2>1. ss' = ss BY <1>5 DEF HideTab
  <2>2. \A u \in Entries(x.queue) \ Pinned : u \in hid <=> u \in hid2
    <3>1. ASSUME t \in Entries(x.queue) \ Pinned PROVE FALSE
      <4>1. PICK b \in Buckets : t \in ToSet(x.queue[b]) BY <3>1, EntriesOf
      <4>2. t \in InBucket(b, hid) BY <1>2, <4>1 DEF InOrder
      <4>3. b = "visible" BY <1>3, <3>1, <4>2 DEF InBucket, Buckets
      <4>4. x.st[t] = "needs" BY <1>2, <3>1 DEF WaitingIn
      <4> QED BY <1>1, <1>5, <4>1, <4>3, <4>4
    <3> QED BY <1>3, <3>1
  <2>3. Sound(x, hid, C, C, ws, before) /\ RestoringIn(x) \subseteq before
    BY <1>1, <1>2
  <2>4. Sound(x, hid2, C, C, ws, before) BY <2>2, <2>3, OtherHiddenSound
  <2>5. Calm(ss, chains, hid2, open, before) BY <1>1, <2>4 DEF Calm
  <2> QED BY <1>1, <1>3, <2>1, <2>5
<1> QED BY <1>4, <1>5

\* The tabs of a window go before the window does.
LEMMA CloseWindowCalm ==
  ASSUME NEW before, Calm(ss, chains, hidden, open, before), NEW w \in Windows, CloseWindow(w)
  PROVE  Calm(ss', chains', hidden', open', before)
<1>1. PICK C, ws, x, z : C = InCalls(chains) /\ ws = {w} /\ x = ss /\ z = ss'
  OBVIOUS
<1>2. /\ Sound(x, hidden, C, C, {}, before) /\ Fed(x) /\ C \in SUBSET Tabs
      /\ Undone(x) \subseteq open
  BY <1>1, InCallsTabs DEF Calm
<1>3. z \in Closed(x, ws) BY <1>1 DEF CloseWindow
<1>4. PICK gone : gone = {t \in open : Home[t] \in ws} OBVIOUS
<1>5. /\ z \in Recs /\ Sound(z, hidden, C, C, {}, before) /\ Fed(z)
      /\ z.data = x.data \ gone /\ Undone(z) \subseteq Undone(x) \ gone
      /\ \A u \in C \ gone : z.st[u] = x.st[u]
  <2>1. /\ z \in Recs /\ Sound(z, hidden, C, C, {}, before) /\ Fed(z)
        /\ Without(z, x, gone, C)
    BY <1>2, <1>3, <1>4, ClosedSound
  <2> QED BY <2>1 DEF Without
<1>6. PICK opn, hid : opn = open \ TabsOf(w) /\ hid = hidden \ TabsOf(w) OBVIOUS
<1>7. open' = opn /\ hidden' = hid /\ chains' = chains BY <1>6 DEF CloseWindow
<1>8. Undone(z) \subseteq open /\ Undone(z) \subseteq opn /\ Undone(z) \cap TabsOf(w) = {}
  <2>1. \A t \in TabsOf(w) : Home[t] = w BY DEF TabsOf
  <2>2. \A t \in Undone(z) : t \in open /\ t \notin gone BY <1>2, <1>5
  <2>3. \A t \in Undone(z) : t \notin TabsOf(w) BY <1>1, <1>4, <2>1, <2>2
  <2> QED BY <1>6, <2>2, <2>3
<1>9. ASSUME NEW u \in C, u \in open \cap z.data PROVE z.st[u] = "needs"
  <2>1. u \in open \cap x.data /\ u \notin gone BY <1>5, <1>9
  <2>2. x.st[u] = "needs" BY <1>1, <2>1 DEF Calm
  <2> QED BY <1>5, <2>1, <2>2
<1>10. Calm(z, chains, hidden, open, before)
  BY <1>1, <1>5, <1>8, <1>9 DEF Calm
<1>11. hid \subseteq hidden /\ \A t \in Undone(z) : t \in hidden <=> t \in hid
  BY <1>6, <1>8
<1>12. PICK h, o, cs : h = hidden /\ o = open /\ cs = chains OBVIOUS
<1>13. InCalls(cs) \cap opn \subseteq o BY <1>6, <1>12
<1>14. Calm(z, cs, h, o, before) BY <1>10, <1>12
<1>15. Calm(z, cs, hid, opn, before)
  BY <1>8, <1>11, <1>12, <1>13, <1>14, OtherTabsCalm
<1> QED BY <1>1, <1>7, <1>12, <1>15

\* A new window has nothing to restore.
LEMMA OpenWindowCalm ==
  ASSUME Typed, NEW before, Calm(ss, chains, hidden, open, before),
         NEW w \in Windows, OpenWindow(w)
  PROVE  Calm(ss', chains', hidden', open', before)
<1>1. PICK t \in Free(w) : t = Min(Free(w))
  <2>1. Free(w) \in SUBSET Nat /\ Free(w) # {}
    BY FreeTabs, TabsFinite DEF OpenWindow
  <2> QED BY <2>1, MinOfSet
<1>2. /\ selected' = [selected EXCEPT ![w] = t] /\ open' = open \cup {selected'[w]}
      /\ ss' = [ss EXCEPT !.left[w] = Unset, !.on = @ \ {w}]
      /\ hidden' = hidden /\ chains' = chains /\ selected[w] = NoTab
  BY <1>1 DEF OpenWindow
<1>3. open' = open \cup {t} /\ t \notin InCalls(chains)
  BY <1>1, <1>2, InChainCalls DEF Typed, Free
<1>4. PICK C, x, y : C = InCalls(chains) /\ x = ss /\ y = ss' OBVIOUS
<1>5. /\ Sound(x, hidden, C, C, {}, before) /\ Fed(x) /\ C \in SUBSET Tabs /\ x \in Recs
      /\ Undone(x) \subseteq open
  BY <1>4, InCallsTabs DEF Calm, Sound
<1>6. /\ y \in Recs /\ y.st = x.st /\ y.history = x.history /\ y.queue = x.queue
      /\ y.count = x.count /\ y.asked = x.asked /\ y.data = x.data /\ y.loads = x.loads
      /\ y.left = [x.left EXCEPT ![w] = Unset] /\ y.on = x.on \ {w}
  BY <1>2, <1>4, <1>5 DEF Recs
<1>7. /\ RestoringIn(y) = RestoringIn(x) /\ WaitingIn(y) = WaitingIn(x)
      /\ Undone(y) = Undone(x)
  BY <1>6 DEF RestoringIn, WaitingIn, Undone
<1>8. Undone(x) \cap TabsOf(w) = {}
  <2>1. open \cap TabsOf(w) = {} BY <1>2 DEF Typed, Shown
  <2> QED BY <1>5, <2>1
<1>9. CountedOff(y)
  <2>1. \A v \in Windows : y.left[v] = IF v = w THEN Unset ELSE x.left[v]
    BY <1>5, <1>6 DEF Recs
  <2> QED BY <1>5, <1>7, <1>8, <2>1 DEF Sound, CountedOff
<1>10. Heard(y, {})
  <2>1. ASSUME NEW u \in RestoringIn(x) PROVE Home[u] \in y.on
    <3>1. u \in Undone(x) /\ u \in TabsOf(Home[u]) BY StateSets, TabsFinite
    <3>2. Home[u] # w BY <1>8, <3>1
    <3> QED BY <1>5, <1>6, <3>2 DEF Sound, Heard
  <2> QED BY <1>7, <2>1 DEF Heard
<1>11. Filed(y, hidden, C, C) /\ InTurn(y, hidden, before) /\ y.count = Cardinality(RestoringIn(y))
  BY <1>5, <1>6, <1>7 DEF Sound, Filed, InTurn
<1>12. Sound(y, hidden, C, C, {}, before) BY <1>6, <1>9, <1>10, <1>11 DEF Sound
<1>13. Fed(y) BY <1>5, <1>6, <1>7 DEF Fed
<1>14. ASSUME NEW u \in C, u \in (open \cup {t}) \cap y.data PROVE y.st[u] = "needs"
  BY <1>3, <1>4, <1>6, <1>14 DEF Calm
<1>15. Calm(y, chains, hidden, open \cup {t}, before)
  BY <1>4, <1>5, <1>7, <1>12, <1>13, <1>14 DEF Calm
<1> QED BY <1>2, <1>3, <1>4, <1>15

\* After a purge no tab waits or loads.
LEMMA PurgeHistoryCalm ==
  ASSUME NEW before, Calm(ss, chains, hidden, open, before), PurgeHistory
  PROVE  Calm(ss', chains', hidden', open', before)
<1>1. PICK C, ws, ts, x : C = InCalls(chains) /\ ws = {} /\ ts = open /\ x = ss OBVIOUS
<1>2. /\ Sound(x, hidden, C, C, ws, before) /\ Fed(x) /\ C \in SUBSET Tabs /\ x \in Recs
      /\ Undone(x) \subseteq open
  BY <1>1, InCallsTabs DEF Calm, Sound
<1>3. PICK y : y = [x EXCEPT !.data = {}] OBVIOUS
<1>4. /\ y \in Recs /\ y.st = x.st /\ y.history = x.history /\ y.queue = x.queue
      /\ y.count = x.count /\ y.left = x.left /\ y.on = x.on /\ y.asked = x.asked
      /\ y.data = {}
  BY <1>2, <1>3 DEF Recs
<1>5. Sound(y, hidden, C, C, ws, before) /\ Undone(y) = Undone(x)
  BY <1>2, <1>4, SameSound
<1>6. PICK z : z = ResetEach(y, ts) OBVIOUS
<1>7. z = ss' BY <1>1, <1>3, <1>6 DEF PurgeHistory
<1>8. /\ z \in Recs /\ Sound(z, hidden, C, C, ws, before)
      /\ z.data = y.data /\ z.loads = y.loads
      /\ Undone(z) = Undone(y) \ ts /\ RestoringIn(z) = RestoringIn(y) \ ts
      /\ \A u \in Tabs \ ts : z.st[u] = y.st[u]
  BY <1>5, <1>6, ResetEachSound
<1>9. Undone(z) = {} /\ RestoringIn(z) = {}
  <2>1. Undone(z) = {} BY <1>1, <1>2, <1>5, <1>8
  <2> QED BY <2>1, StateSets
<1>10. Fed(z) BY <1>9 DEF Fed
<1>11. Calm(z, chains, hidden, open, before)
  BY <1>1, <1>4, <1>8, <1>9, <1>10 DEF Calm
<1> QED BY <1>7, <1>11 DEF PurgeHistory

\* The open tabs that are neither overwritten nor closed.
Elsewhere(old, gone) == {t \in open \ old : Home[t] \notin gone}

\* What resetting the tabs that are overwritten leaves.
Cleared(y, elsewhere, before) ==
  /\ Sound(y, hidden, InCalls(chains), InCalls(chains), {}, before) /\ Fed(y)
  /\ Undone(y) \subseteq elsewhere /\ RestoringIn(y) \subseteq before
  /\ \A u \in InCalls(chains) : u \in elsewhere \cap y.data => y.st[u] = "needs"

\* restoreWindow into open tabs, y0 being what resetting them has left.
LEMMA OverwriteCalm ==
  ASSUME Typed, chains \in Seq(Calls), Apart(chains), ~Hasty, NEW x \in Recs,
         NEW w \in Windows,
         NEW kept \in SUBSET (open \cap TabsOf(w)), NEW added \in SUBSET Free(w),
         NEW hid \in SUBSET Free(w), NEW first \in TabsOf(w), NEW gone,
         Fits(w, kept, added, hid, first), Overwrite(x, w, kept, added, hid, first, gone),
         NEW old, old = open \cap TabsOf(w),
         NEW elsewhere, elsewhere = Elsewhere(old, gone),
         NEW y0, y0 = ResetEach(x, old), NEW before, Cleared(y0, elsewhere, before)
  PROVE  Calm(ss', chains', hidden', open', before)
<1> SUFFICES ASSUME NEW C, C = InCalls(chains),
                    Sound(y0, hidden, C, C, {}, before), Fed(y0),
                    Undone(y0) \subseteq elsewhere, RestoringIn(y0) \subseteq before,
                    \A u \in C : u \in elsewhere \cap y0.data => y0.st[u] = "needs",
                    elsewhere = {t \in open \ old : Home[t] \notin gone}
             PROVE  Calm(ss', chains', hidden', open', before)
  BY DEF Cleared, Elsewhere
<1>1. PICK ts : ts = kept \cup added OBVIOUS
<1>2. /\ added \subseteq TabsOf(w) /\ added \cap open = {} /\ added \cap C = {}
      /\ ts \in SUBSET TabsOf(w) /\ ts \in SUBSET Tabs /\ kept \cap C = {}
      /\ first \in ts /\ hid \subseteq added
  <2>1. added \subseteq TabsOf(w) /\ added \cap open = {} /\ added \cap C = {}
    BY InChainCalls DEF Free
  <2>2. kept \cap C = {} /\ first \in ts /\ hid \subseteq added
    BY <1>1, InChainCalls DEF Fits
  <2> QED BY <1>1, <2>1, <2>2, FreeTabs
<1>3. PICK n \in Int : n = Cardinality(ts) BY <1>2, TabsFinite
<1>4. PICK away : away = old \ kept OBVIOUS
<1>5. y0 \in Recs BY DEF Sound
<1>6. PICK y : y = [y0 EXCEPT !.left[w] = n, !.data = @ \ away, !.loads = @ \ away]
  OBVIOUS
<1>7. /\ y \in Recs /\ y.st = y0.st /\ y.history = y0.history /\ y.queue = y0.queue
      /\ y.count = y0.count /\ y.on = y0.on /\ y.asked = y0.asked
      /\ y.data = y0.data \ away /\ y.loads = y0.loads \ away
      /\ y.left = [y0.left EXCEPT ![w] = n]
  <2>1. PICK u \in Recs : u = y0 BY <1>5
  <2>2. PICK z : z = [u EXCEPT !.left[w] = n, !.data = @ \ away, !.loads = @ \ away]
    OBVIOUS
  <2>3. z \in Recs BY <2>2 DEF Recs
  <2>4. z = y BY <1>6, <2>1, <2>2
  <2> QED BY <1>6, <2>1, <2>3, <2>4 DEF Recs
<1>8. /\ RestoringIn(y) = RestoringIn(y0) /\ WaitingIn(y) = WaitingIn(y0)
      /\ Undone(y) = Undone(y0)
  BY <1>7 DEF RestoringIn, WaitingIn, Undone
<1>9. PICK opn, h, sel : opn = open' /\ h = hidden' /\ sel = selected' OBVIOUS
<1>10. PICK o \in Seq(Tabs) :
         o = RestoringOrder(ts, h, {first}) /\ ToSet(o) = ts /\ IsInjective(o)
  <2>1. {first} \in SUBSET ts BY <1>2
  <2>2. LET s == RestoringOrder(ts, h, {first})
        IN s \in Seq(Tabs) /\ ToSet(s) = ts /\ IsInjective(s)
    BY <1>2, <2>1, RestoringOrderElements
  <2> QED BY <2>2
<1>11. /\ opn = elsewhere \cup ts /\ h = (hidden \cap (elsewhere \cup kept)) \cup hid
       /\ RestoreTabs(y, o, FALSE, opn, h, sel)
  BY <1>1, <1>3, <1>4, <1>6, <1>9, <1>10 DEF Overwrite
<1>12. Filed(y, h, C, C) /\ RestoringIn(y) \subseteq before /\ Heard(y, {})
  <2>1. PICK ws, h0 : ws = {} /\ h0 = hidden OBVIOUS
  <2>2. Sound(y0, h0, C, C, ws, before) BY <2>1
  <2>3. \A t \in Entries(y0.queue) \ Pinned : t \in h0 <=> t \in h
    <3>1. Entries(y0.queue) \subseteq Undone(y0) BY <2>2, EntriesUndone
    <3>2. \A t \in elsewhere : t \in hidden <=> t \in h BY <1>2, <1>11
    <3> QED BY <2>1, <3>1, <3>2
  <2>4. Sound(y0, h, C, C, ws, before) BY <2>2, <2>3, OtherHiddenSound
  <2> QED BY <1>7, <1>8, <2>1, <2>4 DEF Sound, Filed, Heard
<1>13. y.count = Cardinality(RestoringIn(y)) BY <1>7, <1>8 DEF Sound
<1>14. elsewhere \cap TabsOf(w) = {} /\ elsewhere \subseteq open /\ elsewhere \cap old = {}
  OBVIOUS
<1>15. Fed(y)
  <2>1. Undone(y) \cap away = {} BY <1>4, <1>8, <1>14
  <2>2. RestoringIn(y) \subseteq Undone(y) BY StateSets
  <2> QED BY <1>7, <1>8, <2>1, <2>2 DEF Fed
<1>16. Undone(y) \subseteq opn /\ Undone(y) \cap ts = {} /\ ts \subseteq opn
  BY <1>2, <1>8, <1>11, <1>14
<1>17. CountedOff(Prepared(y, ts))
  <2>1. PICK z : z = Prepared(y, ts) OBVIOUS
  <2>2. z.left = y.left /\ z.st = [t \in Tabs |-> IF t \in ts THEN "needs" ELSE y.st[t]]
    BY <1>7, <2>1 DEF Prepared, Recs
  <2>3. Undone(z) = Undone(y) \cup ts BY <1>2, <2>2 DEF Undone
  <2>4. \A v \in Windows : z.left[v] = IF v = w THEN n ELSE y0.left[v]
    BY <1>5, <1>7, <2>2 DEF Recs
  <2>5. ASSUME NEW v \in Windows
        PROVE  /\ z.left[v] = Unset => Undone(z) \cap TabsOf(v) = {}
               /\ z.left[v] # Unset => z.left[v] = Cardinality(Undone(z) \cap TabsOf(v))
    <3>1. CASE v = w
      <4>1. Undone(z) \cap TabsOf(v) = ts BY <1>2, <1>8, <1>14, <2>3, <3>1
      <4>2. n # Unset BY ConstantsAssumption
      <4> QED BY <1>3, <2>4, <3>1, <4>1, <4>2
    <3>2. CASE v # w
      <4>1. TabsOf(v) \cap TabsOf(w) = {} BY <3>2 DEF TabsOf
      <4>2. Undone(z) \cap TabsOf(v) = Undone(y0) \cap TabsOf(v)
        BY <1>2, <1>8, <2>3, <4>1
      <4>3. z.left[v] = y0.left[v] BY <2>4, <3>2
      <4> QED BY <4>2, <4>3 DEF Sound, CountedOff
    <3> QED BY <3>1, <3>2
  <2> QED BY <2>1, <2>5 DEF CountedOff
<1>18. ts \cap InCalls(chains) = {} BY <1>1, <1>2
<1>19. ASSUME NEW t \in InCalls(chains), t \in opn \cap y.data PROVE y.st[t] = "needs"
  <2>1. t \in elsewhere \cap y0.data BY <1>7, <1>11, <1>18, <1>19
  <2> QED BY <1>7, <2>1
<1>20. Filed(y, h, InCalls(chains), InCalls(chains)) BY <1>12
<1>21. Calm(ss', chains', h, opn, before)
  <2>1. PICK now \in BOOLEAN : now = FALSE OBVIOUS
  <2>2. RestoreTabs(y, o, now, opn, h, sel) BY <1>11, <2>1
  <2>3. Ready(y, ts, h, opn, before)
    BY <1>12, <1>13, <1>15, <1>16, <1>17, <1>18, <1>19, <1>20 DEF Ready
  <2> QED BY <1>2, <1>7, <1>10, <2>2, <2>3, RestoreTabsCalm
<1> QED BY <1>9, <1>21

\* restoreWindow counts the tabs it marks.
LEMMA RestoreWindowCalm ==
  ASSUME Typed, ~Hasty, NEW before, Calm(ss, chains, hidden, open, before),
         RestoringIn(ss) \subseteq before, NEW w \in Windows, RestoreWindow(w)
  PROVE  Calm(ss', chains', hidden', open', before)
<1>1. PICK C, x : C = InCalls(chains) /\ x = ss OBVIOUS
<1>2. /\ Sound(x, hidden, C, C, {}, before) /\ Fed(x) /\ C \in SUBSET Tabs /\ x \in Recs
      /\ Undone(x) \subseteq open /\ chains \in Seq(Calls) /\ Apart(chains)
  BY <1>1, InCallsTabs DEF Calm, Sound
<1>3. CASE \E kept \in SUBSET (open \cap TabsOf(w)), added \in SUBSET Free(w),
              hid \in SUBSET Free(w), first \in TabsOf(w) :
             /\ Fits(w, kept, added, hid, first)
             /\ Overwrite(ss, w, kept, added, hid, first, {})
  <2>1. PICK kept \in SUBSET (open \cap TabsOf(w)), added \in SUBSET Free(w),
             hid \in SUBSET Free(w), first \in TabsOf(w) :
          /\ Fits(w, kept, added, hid, first)
          /\ Overwrite(ss, w, kept, added, hid, first, {})
    BY <1>3
  <2>2. PICK gone, old : gone = {} /\ old = open \cap TabsOf(w) OBVIOUS
  <2>3. PICK elsewhere : elsewhere = Elsewhere(old, gone) OBVIOUS
  <2>4. elsewhere = open \ old BY <2>2, <2>3 DEF Elsewhere
  <2>5. PICK y : y = ResetEach(x, old) OBVIOUS
  <2>6. PICK ws : ws = {} OBVIOUS
  <2>7. Sound(x, hidden, C, C, ws, before) BY <1>2, <2>6
  <2>8. /\ y \in Recs /\ Sound(y, hidden, C, C, ws, before)
        /\ y.data = x.data /\ y.loads = x.loads
        /\ Undone(y) = Undone(x) \ old /\ RestoringIn(y) = RestoringIn(x) \ old
        /\ \A u \in Tabs \ old : y.st[u] = x.st[u]
    BY <2>5, <2>7, ResetEachSound
  <2>9. Fed(y) /\ Undone(y) \subseteq elsewhere /\ RestoringIn(y) \subseteq before
    BY <1>1, <1>2, <2>4, <2>8 DEF Fed
  <2>10. ASSUME NEW u \in C, u \in elsewhere \cap y.data PROVE y.st[u] = "needs"
    <3>1. u \in open \cap x.data /\ u \in Tabs \ old BY <1>2, <2>4, <2>8, <2>10
    <3>2. x.st[u] = "needs" BY <1>1, <3>1 DEF Calm
    <3> QED BY <2>8, <3>1, <3>2
  <2>11. Sound(y, hidden, C, C, {}, before) BY <2>6, <2>8
  <2>12. Overwrite(x, w, kept, added, hid, first, gone) /\ Fits(w, kept, added, hid, first)
    BY <1>1, <2>1, <2>2
  <2>13. Cleared(y, elsewhere, before) BY <1>1, <2>9, <2>10, <2>11 DEF Cleared
  <2> QED BY <1>2, <2>2, <2>3, <2>5, <2>12, <2>13, OverwriteCalm
<1>4. CASE \E added \in SUBSET Free(w), hid \in SUBSET (Free(w) \ Pinned) :
             /\ added # {} /\ hid \subseteq added
             /\ open' = open \cup added /\ hidden' = hidden \cup hid
             /\ RestoreTabs([ss EXCEPT !.left[w] =
                               (IF IsZero(@) THEN 0 ELSE @) + Cardinality(added)],
                            RestoringOrder(added, hidden', {}), FALSE,
                            open', hidden', selected)
             /\ UNCHANGED selected
  <2>1. PICK added \in SUBSET Free(w), hid \in SUBSET (Free(w) \ Pinned) :
             /\ added # {} /\ hid \subseteq added
             /\ open' = open \cup added /\ hidden' = hidden \cup hid
             /\ RestoreTabs([ss EXCEPT !.left[w] =
                               (IF IsZero(@) THEN 0 ELSE @) + Cardinality(added)],
                            RestoringOrder(added, hidden', {}), FALSE,
                            open', hidden', selected)
             /\ UNCHANGED selected
    BY <1>4
  <2>2. /\ added \in SUBSET Tabs /\ added \subseteq TabsOf(w) /\ added \cap open = {}
        /\ added \cap C = {}
    BY <1>1, FreeTabs, InChainCalls DEF Free
  <2>3. PICK m \in Int : m = IF IsZero(x.left[w]) THEN 0 ELSE x.left[w]
    BY <1>2 DEF IsZero, Recs
  <2>4. PICK n \in Int : n = m + Cardinality(added)
    <3>1. Cardinality(added) \in Nat BY <2>2, TabsFinite
    <3> QED BY <3>1
  <2>5. PICK v \in Recs : v = x BY <1>2
  <2>6. PICK y : y = [v EXCEPT !.left[w] = n] OBVIOUS
  <2>7. y \in Recs BY <2>6 DEF Recs
  <2>8. /\ y.st = x.st /\ y.history = x.history /\ y.queue = x.queue
        /\ y.count = x.count /\ y.on = x.on /\ y.asked = x.asked
        /\ y.data = x.data /\ y.loads = x.loads
        /\ y.left = [x.left EXCEPT ![w] = n]
    BY <2>5, <2>6 DEF Recs
  <2>9. y = [ss EXCEPT !.left[w] = (IF IsZero(@) THEN 0 ELSE @) + Cardinality(added)]
    BY <1>1, <2>3, <2>4, <2>5, <2>6
  <2>10. PICK opn, h, sel : opn = open' /\ h = hidden' /\ sel = selected OBVIOUS
  <2>11. PICK o \in Seq(Tabs) :
           o = RestoringOrder(added, h, {}) /\ ToSet(o) = added /\ IsInjective(o)
    <3>1. LET s == RestoringOrder(added, h, {})
          IN s \in Seq(Tabs) /\ ToSet(s) = added /\ IsInjective(s)
      BY <2>2, RestoringOrderElements
    <3> QED BY <3>1
  <2>12. PICK now \in BOOLEAN : now = FALSE OBVIOUS
  <2>13. RestoreTabs(y, o, now, opn, h, sel) BY <2>1, <2>9, <2>10, <2>11, <2>12
  <2>14. /\ RestoringIn(y) = RestoringIn(x) /\ WaitingIn(y) = WaitingIn(x)
         /\ Undone(y) = Undone(x)
    BY <2>8 DEF RestoringIn, WaitingIn, Undone
  <2>15. Filed(y, h, C, C) /\ RestoringIn(y) \subseteq before /\ Heard(y, {})
    <3>1. PICK ws, h0 : ws = {} /\ h0 = hidden OBVIOUS
    <3>2. Sound(x, h0, C, C, ws, before) BY <1>2, <3>1
    <3>3. \A t \in Entries(x.queue) \ Pinned : t \in h0 <=> t \in h
      <4>1. Entries(x.queue) \subseteq Undone(x) BY <3>2, EntriesUndone
      <4> QED BY <1>2, <2>1, <2>2, <2>10, <3>1, <4>1
    <3>4. RestoringIn(x) \subseteq before BY <1>1
    <3>5. Sound(x, h, C, C, ws, before) BY <3>2, <3>3, <3>4, OtherHiddenSound
    <3> QED BY <2>8, <2>14, <3>1, <3>4, <3>5 DEF Sound, Filed, Heard
  <2>16. y.count = Cardinality(RestoringIn(y)) /\ Fed(y)
    BY <1>2, <2>8, <2>14 DEF Sound, Fed
  <2>17. Undone(y) \subseteq opn /\ Undone(y) \cap added = {} /\ added \subseteq opn
    BY <1>2, <2>1, <2>2, <2>10, <2>14
  <2>18. CountedOff(Prepared(y, added))
    <3>1. PICK z : z = Prepared(y, added) OBVIOUS
    <3>2. z.left = y.left /\ z.st = [t \in Tabs |-> IF t \in added THEN "needs" ELSE y.st[t]]
      BY <2>7, <3>1 DEF Prepared, Recs
    <3>3. Undone(z) = Undone(y) \cup added BY <2>2, <3>2 DEF Undone
    <3>4. \A u \in Windows : z.left[u] = IF u = w THEN n ELSE x.left[u]
      BY <1>2, <2>8, <3>2 DEF Recs
    <3>5. ASSUME NEW u \in Windows
          PROVE  /\ z.left[u] = Unset => Undone(z) \cap TabsOf(u) = {}
                 /\ z.left[u] # Unset => z.left[u] = Cardinality(Undone(z) \cap TabsOf(u))
      <4>1. CASE u = w
        <5>1. PICK U \in SUBSET Tabs : U = Undone(x) \cap TabsOf(w) BY DEF Undone
        <5>2. m = Cardinality(U)
          <6>1. /\ x.left[w] = Unset => U = {}
                /\ x.left[w] # Unset => x.left[w] = Cardinality(U)
            BY <1>2, <5>1 DEF Sound, CountedOff
          <6>2. U = {} => Cardinality(U) = 0 BY FS_EmptySet
          <6> QED BY <2>3, <6>1, <6>2 DEF IsZero
        <5>3. U \cap added = {} /\ Undone(z) \cap TabsOf(u) = U \cup added
          BY <1>2, <2>2, <2>14, <3>3, <4>1, <5>1
        <5>4. Cardinality(U \cup added) = Cardinality(U) + Cardinality(added)
          <6>1. IsFiniteSet(U) /\ IsFiniteSet(added) /\ Cardinality(U) \in Nat
                /\ Cardinality(added) \in Nat
            BY <2>2, TabsFinite
          <6>2. /\ Cardinality(U \cup added)
                     = Cardinality(U) + Cardinality(added) - Cardinality(U \cap added)
            BY <6>1, FS_Union
          <6>3. Cardinality(U \cap added) = 0 BY <5>3, FS_EmptySet
          <6> QED BY <6>1, <6>2, <6>3
        <5>5. z.left[u] = n /\ n # Unset BY <3>4, <4>1, ConstantsAssumption
        <5> QED BY <2>4, <5>2, <5>3, <5>4, <5>5
      <4>2. CASE u # w
        <5>1. TabsOf(u) \cap TabsOf(w) = {} BY <4>2 DEF TabsOf
        <5>2. Undone(z) \cap TabsOf(u) = Undone(x) \cap TabsOf(u)
          BY <2>2, <2>14, <3>3, <5>1
        <5>3. z.left[u] = x.left[u] BY <3>4, <4>2
        <5> QED BY <1>2, <5>2, <5>3 DEF Sound, CountedOff
      <4> QED BY <4>1, <4>2
    <3> QED BY <3>1, <3>5 DEF CountedOff
  <2>19. ASSUME NEW t \in InCalls(chains), t \in opn \cap y.data PROVE y.st[t] = "needs"
    <3>1. t \in open \cap x.data BY <1>1, <2>1, <2>2, <2>8, <2>10, <2>19
    <3> QED BY <1>1, <2>8, <3>1 DEF Calm
  <2>20. Filed(y, h, InCalls(chains), InCalls(chains)) /\ added \cap InCalls(chains) = {}
    BY <1>1, <2>2, <2>15
  <2>21. Ready(y, added, h, opn, before)
    BY <2>15, <2>16, <2>17, <2>18, <2>19, <2>20 DEF Ready
  <2>22. Calm(ss', chains', h, opn, before)
    BY <1>2, <2>2, <2>7, <2>11, <2>13, <2>21, RestoreTabsCalm
  <2> QED BY <2>10, <2>22
<1> QED BY <1>3, <1>4 DEF RestoreWindow

-----------------------------------------------------------------------------
\* setBrowserState: an empty queue stays empty, and nothing starts.
Emptied(x, hid) ==
  /\ x \in Recs /\ x.count = 0 /\ CountedOff(x)
  /\ Entries(x.queue) = {} /\ InOrder(x.queue, hid) /\ x.history \subseteq WaitingIn(x)

\* A tab is reset while the queue is empty,
LEMMA ResetEmptied ==
  ASSUME NEW hid, NEW x, Emptied(x, hid), NEW t \in Undone(x),
         NEW y \in Recs, ResetFields(y, x, t, hid)
  PROVE  Emptied(y, hid) /\ Undone(y) = Undone(x) \ {t}
<1>1. x \in Recs /\ t \in Tabs BY StateSets DEF Emptied
<1>2. /\ y.st = [x.st EXCEPT ![t] = "none"]
      /\ y.count = IF x.st[t] = "restoring" THEN Released(x.count) ELSE x.count
      /\ y.history = IF x.st[t] = "needs" THEN x.history \ {t} ELSE x.history
      /\ IF x.st[t] = "needs" THEN WithoutTab(y.queue, x.queue, t, hid)
                              ELSE y.queue = x.queue
  BY DEF ResetFields
<1>3. WaitingIn(y) = WaitingIn(x) \ {t} /\ Undone(y) = Undone(x) \ {t}
  BY <1>1, <1>2, MarkedNone
<1>4. CountedOff(y) BY <1>1, ResetCounted DEF Emptied
<1>5. y.count = 0 BY <1>2 DEF Emptied, Released
<1>6. Entries(y.queue) = {} /\ InOrder(y.queue, hid) BY <1>2 DEF Emptied, WithoutTab
<1>7. y.history \subseteq WaitingIn(y) BY <1>2, <1>3 DEF Emptied, WaitingIn
<1> QED BY <1>3, <1>4, <1>5, <1>6, <1>7 DEF Emptied

\* or closed: no other tab starts in its place.
LEMMA RemoveTabEmptied ==
  ASSUME NEW hid, NEW x, Emptied(x, hid), NEW t \in Tabs, NEW z \in RemoveTab(x, t, hid)
  PROVE  Emptied(z, hid) /\ Undone(z) \subseteq Undone(x) \ {t}
<1>1. x \in Recs BY DEF Emptied
<1>2. PICK y \in Recs : y = [x EXCEPT !.data = @ \ {t}, !.loads = @ \ {t}]
  BY <1>1 DEF Recs
<1>3. /\ y.st = x.st /\ y.history = x.history /\ y.queue = x.queue /\ y.count = x.count
      /\ y.left = x.left
  BY <1>1, <1>2 DEF Recs
<1>4. WaitingIn(y) = WaitingIn(x) /\ Undone(y) = Undone(x)
  BY <1>3 DEF WaitingIn, Undone
<1>5. Emptied(y, hid) BY <1>3, <1>4 DEF Emptied, CountedOff
<1>6. CASE x.st[t] = "none"
  <2>1. z = y BY <1>2, <1>6 DEF RemoveTab
  <2>2. t \notin Undone(x) BY <1>6 DEF Undone
  <2> QED BY <1>4, <1>5, <2>1, <2>2
<1>7. CASE x.st[t] # "none"
  <2>1. t \in Undone(y) BY <1>4, <1>7 DEF Undone
  <2>2. PICK r \in Recs : r = Reset(y, t, hid) /\ ResetFields(r, y, t, hid)
    BY ResetEffect
  <2>3. Emptied(r, hid) /\ Undone(r) = Undone(y) \ {t}
    BY <1>5, <2>1, <2>2, ResetEmptied
  <2>4. z = r \/ z \in RestoreNext(r, hid)
    <3>1. x.st[t] \in {"none", "needs", "restoring"} BY <1>1 DEF Recs
    <3> QED BY <1>2, <1>7, <2>2, <3>1 DEF RemoveTab
  <2>5. ~MayRestoreNext(r)
    <3>1. ASSUME MayRestoreNext(r) PROVE FALSE
      <4>1. r \in Recs BY <2>2
      <4>2. PICK b \in Buckets, q \in Queues : NextTab(r) \in ToSet(r.queue[b])
        BY <3>1, <4>1, ShiftedEffect
      <4>3. NextTab(r) \in Entries(r.queue) BY <4>2, EntriesOf
      <4> QED BY <2>3, <4>3 DEF Emptied
    <3> QED BY <3>1
  <2>6. z = r BY <2>4, <2>5, RestoreNextStays
  <2> QED BY <1>4, <2>3, <2>6
<1> QED BY <1>6, <1>7

\* Closing windows keeps an empty queue empty, and nothing that is closed is
\* left to do.
LEMMA ClosedEmptied ==
  ASSUME NEW x, Emptied(x, hidden), NEW ws, NEW gone, gone = {t \in open : Home[t] \in ws},
         NEW z \in Closed(x, ws)
  PROVE  Emptied(z, hidden) /\ Undone(z) \subseteq Undone(x) \ gone
<1> DEFINE Done(n) == {m \in gone : m \in 1..n}
           Is(n, y) == Emptied(y, hidden) /\ Undone(y) \subseteq Undone(x) \ Done(n)
<1>1. x \in Recs BY DEF Emptied
<1>2. PICK G : G = {p \in (0..TabCount) \X Recs : Is(p[1], p[2])} OBVIOUS
<1>3. \A n \in 0..TabCount, y \in Recs : <<n, y>> \in G <=> Is(n, y) BY <1>2
<1>4. <<0, [x EXCEPT !.on = @ \ ws]>> \in G
  <2>1. PICK y \in Recs : y = [x EXCEPT !.on = @ \ ws] BY <1>1 DEF Recs
  <2>2. /\ y.st = x.st /\ y.history = x.history /\ y.queue = x.queue /\ y.count = x.count
        /\ y.left = x.left
    BY <1>1, <2>1 DEF Recs
  <2>3. WaitingIn(y) = WaitingIn(x) /\ Undone(y) = Undone(x)
    BY <2>2 DEF WaitingIn, Undone
  <2>4. Emptied(y, hidden) BY <2>2, <2>3 DEF Emptied, CountedOff
  <2>5. Done(0) = {} OBVIOUS
  <2>6. Is(0, y) BY <2>3, <2>4, <2>5
  <2>7. 0 \in 0..TabCount BY TabsFinite
  <2> HIDE DEF Is
  <2> QED BY <1>3, <2>1, <2>6, <2>7
<1>5. ASSUME NEW n \in 1..TabCount, NEW y \in Recs, <<n - 1, y>> \in G,
             NEW v \in IF n \in open /\ Home[n] \in ws THEN RemoveTab(y, n, hidden) ELSE {y}
      PROVE  <<n, v>> \in G
  <2>1. n \in Tabs /\ n \in 0..TabCount /\ n - 1 \in 0..TabCount BY TabsFinite DEF Tabs
  <2>2. Is(n - 1, y)
    <3> HIDE DEF Is
    <3> QED BY <1>3, <1>5, <2>1
  <2>3. Done(n) = IF n \in gone THEN Done(n - 1) \cup {n} ELSE Done(n - 1) BY <2>1
  <2> HIDE DEF Done
  <2>4. CASE n \in open /\ Home[n] \in ws
    <3>1. PICK h : h = hidden OBVIOUS
    <3>2. PICK t \in Tabs : t = n BY <2>1
    <3>3. h = hidden /\ t = n BY <3>1, <3>2
    <3>4. Emptied(y, h) /\ v \in RemoveTab(y, t, h) BY <1>5, <2>2, <2>4, <3>3
    <3>5. Emptied(v, h) /\ Undone(v) \subseteq Undone(y) \ {t} BY <3>4, RemoveTabEmptied
    <3>6. n \in gone BY <2>4
    <3>7. Is(n, v) BY <2>2, <2>3, <3>3, <3>5, <3>6
    <3>8. v \in Recs BY <3>5 DEF Emptied
    <3> HIDE DEF Is
    <3> QED BY <1>3, <2>1, <3>7, <3>8
  <2>5. CASE ~(n \in open /\ Home[n] \in ws)
    <3>1. v = y BY <1>5, <2>5
    <3>2. Is(n, v) BY <2>2, <2>3, <2>5, <3>1
    <3> HIDE DEF Is
    <3> QED BY <1>3, <2>1, <3>1, <3>2
  <2> QED BY <2>4, <2>5
<1>6. <<TabCount, z>> \in G
  <2>1. G \in SUBSET ((0..TabCount) \X Recs) BY <1>2
  <2> HIDE DEF Is
  <2> QED BY <1>1, <1>4, <1>5, <2>1, ClosedRuns
<1>7. z \in Recs BY <1>1, ClosedTyped
<1>8. Is(TabCount, z)
  <2>1. TabCount \in 0..TabCount BY TabsFinite
  <2> HIDE DEF Is
  <2> QED BY <1>3, <1>6, <1>7, <2>1
<1>9. Undone(x) \ Done(TabCount) = Undone(x) \ gone
  BY TabsFinite DEF Undone, Tabs
<1> HIDE DEF Done
<1> QED BY <1>8, <1>9

\* So does resetting the tabs that are overwritten.
LEMMA ResetEachEmptied ==
  ASSUME NEW x, Emptied(x, hidden), NEW ts, NEW z, z = ResetEach(x, ts)
  PROVE  Emptied(z, hidden) /\ Undone(z) = Undone(x) \ ts
<1> DEFINE Done(n) == {m \in ts : m \in 1..n}
           Is(n, y) == Emptied(y, hidden) /\ Undone(y) = Undone(x) \ Done(n)
<1>1. x \in Recs BY DEF Emptied
<1>2. PICK G : G = {p \in (0..TabCount) \X Recs : Is(p[1], p[2])} OBVIOUS
<1>3. \A n \in 0..TabCount, y \in Recs : <<n, y>> \in G <=> Is(n, y) BY <1>2
<1>4. <<0, x>> \in G
  <2>1. Done(0) = {} OBVIOUS
  <2>2. Is(0, x) BY <2>1
  <2>3. 0 \in 0..TabCount BY TabsFinite
  <2> HIDE DEF Is
  <2> QED BY <1>1, <1>3, <2>2, <2>3
<1>5. ASSUME NEW n \in 1..TabCount, NEW y \in Recs, <<n - 1, y>> \in G
      PROVE  <<n, IF n \in ts /\ y.st[n] # "none" THEN Reset(y, n, hidden) ELSE y>> \in G
  <2>1. n \in Tabs /\ n \in 0..TabCount /\ n - 1 \in 0..TabCount BY TabsFinite DEF Tabs
  <2>2. Is(n - 1, y)
    <3> HIDE DEF Is
    <3> QED BY <1>3, <1>5, <2>1
  <2>3. Done(n) = IF n \in ts THEN Done(n - 1) \cup {n} ELSE Done(n - 1) BY <2>1
  <2> HIDE DEF Done
  <2>4. CASE n \in ts /\ y.st[n] # "none"
    <3>1. PICK r \in Recs : r = Reset(y, n, hidden) /\ ResetFields(r, y, n, hidden)
      BY <2>1, ResetEffect
    <3>2. PICK h : h = hidden OBVIOUS
    <3>3. PICK t \in Undone(y) : t = n BY <2>1, <2>4 DEF Undone
    <3>4. h = hidden /\ t = n BY <3>2, <3>3
    <3>5. Emptied(y, h) /\ ResetFields(r, y, t, h) BY <2>2, <3>1, <3>4
    <3>6. Emptied(r, h) /\ Undone(r) = Undone(y) \ {t} BY <3>5, ResetEmptied
    <3>7. Is(n, r) BY <2>2, <2>3, <2>4, <3>4, <3>6
    <3> HIDE DEF Is
    <3>8. <<n, r>> \in G BY <1>3, <2>1, <3>7
    <3> QED BY <2>4, <3>1, <3>8
  <2>5. CASE n \notin ts
    <3>1. Is(n, y) BY <2>2, <2>3, <2>5
    <3> HIDE DEF Is
    <3> QED BY <1>3, <2>1, <2>5, <3>1
  <2>6. CASE n \in ts /\ y.st[n] = "none"
    <3>1. n \notin Undone(y) BY <2>6 DEF Undone
    <3>2. Is(n, y) BY <2>2, <2>3, <2>6, <3>1
    <3> HIDE DEF Is
    <3> QED BY <1>3, <2>1, <2>6, <3>2
  <2> QED BY <2>4, <2>5, <2>6
<1>6. <<TabCount, z>> \in G
  <2>1. G \in SUBSET ((0..TabCount) \X Recs) BY <1>2
  <2>2. <<TabCount, ResetEach(x, ts)>> \in G
    <3> HIDE DEF Is
    <3> QED BY <1>1, <1>4, <1>5, <2>1, ResetEachRuns
  <2> QED BY <2>2
<1>7. z \in Recs BY <1>1, ResetEachTyped
<1>8. Is(TabCount, z)
  <2>1. TabCount \in 0..TabCount BY TabsFinite
  <2> HIDE DEF Is
  <2> QED BY <1>3, <1>6, <1>7, <2>1
<1>9. Undone(x) \ Done(TabCount) = Undone(x) \ ts
  BY TabsFinite DEF Undone, Tabs
<1> HIDE DEF Done
<1> QED BY <1>8, <1>9

\* An empty queue and no tab to do is a sound state.
LEMMA EmptiedSound ==
  ASSUME NEW x, Emptied(x, hidden), Undone(x) = {}, NEW C, NEW before
  PROVE  Sound(x, hidden, C, C, {}, before) /\ Fed(x) /\ RestoringIn(x) = {}
<1>1. WaitingIn(x) = {} /\ RestoringIn(x) = {} BY StateSets
<1>2. Cardinality(RestoringIn(x)) = 0 BY <1>1, FS_EmptySet
<1>3. Filed(x, hidden, C, C) /\ Heard(x, {}) /\ InTurn(x, hidden, before) /\ Fed(x)
  BY <1>1 DEF Emptied, Filed, Heard, InTurn, Fed
<1> QED BY <1>1, <1>2, <1>3 DEF Emptied, Sound

\* _resetRestoringState, for the windows that setBrowserState closes.
Unrestored(x) == [x EXCEPT !.queue = NoQueue, !.count = 0]
OtherWindows(w) == {v \in Windows \ {w} : selected[v] # NoTab}
Anew(x, others, w) == x = Unrestored(ss) /\ others = OtherWindows(w)

\* After setBrowserState has closed the other windows and reset the tabs of w,
\* nothing is left to do.
LEMMA SetBrowserStateEmpties ==
  ASSUME Typed, NEW before, Calm(ss, chains, hidden, open, before),
         NEW w \in Windows, NEW others, NEW x0, Anew(x0, others, w),
         NEW x \in Closed(x0, others),
         NEW old, old = open \cap TabsOf(w), NEW y, y = ResetEach(x, old)
  PROVE  /\ Emptied(y, hidden) /\ Undone(y) = {} /\ x \in Recs
         /\ Elsewhere(old, others) = {}
<1>1. PICK x1 \in Recs : x1 = ss BY DEF Typed
<1>2. x0 = [x1 EXCEPT !.queue = NoQueue, !.count = 0] BY <1>1 DEF Unrestored, Anew
<1>3. NoQueue \in Queues /\ \A b \in Buckets : NoQueue[b] = <<>>
  BY DEF NoQueue, Queues, Buckets
<1>4. /\ x0 \in Recs /\ x0.st = x1.st /\ x0.history = x1.history /\ x0.queue = NoQueue
      /\ x0.count = 0 /\ x0.left = x1.left
  BY <1>2, <1>3 DEF Recs
<1>5. WaitingIn(x0) = WaitingIn(x1) /\ Undone(x0) = Undone(x1)
  BY <1>4 DEF WaitingIn, Undone
<1>6. PICK C : C = InCalls(chains) OBVIOUS
<1>7. Sound(x1, hidden, C, C, {}, before) /\ Undone(x1) \subseteq open
  BY <1>1, <1>6 DEF Calm
<1>8. Emptied(x0, hidden)
  <2>1. \A b \in Buckets : ToSet(NoQueue[b]) = {} /\ IsInjective(NoQueue[b])
    BY <1>3 DEF ToSet, IsInjective
  <2>2. Entries(NoQueue) = {} /\ InOrder(NoQueue, hidden)
    BY <2>1 DEF Entries, InOrder
  <2>3. CountedOff(x0) BY <1>4, <1>5, <1>7 DEF Sound, CountedOff
  <2>4. x0.history \subseteq WaitingIn(x0) BY <1>4, <1>5, <1>7 DEF Sound, Filed
  <2> QED BY <1>4, <2>2, <2>3, <2>4 DEF Emptied
<1>9. PICK gone : gone = {t \in open : Home[t] \in others} OBVIOUS
<1>10. Emptied(x, hidden) /\ Undone(x) \subseteq Undone(x0) \ gone
  BY <1>8, <1>9, ClosedEmptied
<1>11. Emptied(y, hidden) /\ Undone(y) = Undone(x) \ old BY <1>10, ResetEachEmptied
<1>12. open \subseteq gone \cup old
  <2>1. ASSUME NEW t \in open, t \notin old PROVE Home[t] \in others
    <3>1. t \in Tabs BY <2>1 DEF Typed, Shown
    <3>2. Home[t] \in Windows /\ t \in TabsOf(Home[t]) BY <3>1, TabsFinite
    <3>3. selected[Home[t]] # NoTab BY <2>1, <3>2 DEF Typed, Shown
    <3>4. Home[t] # w BY <2>1, <3>2
    <3> QED BY <3>2, <3>3, <3>4 DEF OtherWindows, Anew
  <2> QED BY <1>9, <2>1
<1>13. Undone(y) = {} BY <1>5, <1>7, <1>10, <1>11, <1>12
<1>14. Elsewhere(old, others) = {} BY <1>9, <1>12 DEF Elsewhere
<1>15. x \in Recs BY <1>10 DEF Emptied
<1> QED BY <1>11, <1>13, <1>14, <1>15

\* setBrowserState starts anew.
LEMMA SetBrowserStateCalm ==
  ASSUME Typed, ~Hasty, NEW before, Calm(ss, chains, hidden, open, before),
         NEW w \in Windows, SetBrowserState(w)
  PROVE  Calm(ss', chains', hidden', open', before)
<1>1. PICK others, x0 : others = OtherWindows(w) /\ x0 = Unrestored(ss) OBVIOUS
<1>2. PICK x \in Closed(x0, others),
           kept \in SUBSET (open \cap TabsOf(w)), added \in SUBSET Free(w),
           hid \in SUBSET Free(w), first \in TabsOf(w) :
          /\ Fits(w, kept, added, hid, first)
          /\ Overwrite(x, w, kept, added, hid, first, others)
  <2>1. \E x \in Closed(Unrestored(ss), OtherWindows(w)),
           kept \in SUBSET (open \cap TabsOf(w)), added \in SUBSET Free(w),
           hid \in SUBSET Free(w), first \in TabsOf(w) :
          /\ Fits(w, kept, added, hid, first)
          /\ Overwrite(x, w, kept, added, hid, first, OtherWindows(w))
    BY DEF SetBrowserState, OtherWindows, Unrestored
  <2> QED BY <1>1, <2>1
<1>3. PICK old : old = open \cap TabsOf(w) OBVIOUS
<1>4. PICK y : y = ResetEach(x, old) OBVIOUS
<1>5. /\ Emptied(y, hidden) /\ Undone(y) = {} /\ x \in Recs
      /\ Elsewhere(old, others) = {}
  <2>1. Anew(x0, others, w) BY <1>1 DEF Anew
  <2> QED BY <1>3, <1>4, <2>1, SetBrowserStateEmpties
<1>6. PICK C, elsewhere : C = InCalls(chains) /\ elsewhere = Elsewhere(old, others)
  OBVIOUS
<1>7. Sound(y, hidden, C, C, {}, before) /\ Fed(y) /\ RestoringIn(y) = {}
  BY <1>5, EmptiedSound
<1>8. chains \in Seq(Calls) /\ Apart(chains) BY DEF Calm
<1>9. Cleared(y, elsewhere, before) BY <1>5, <1>6, <1>7 DEF Cleared
<1>10. Fits(w, kept, added, hid, first) /\ Overwrite(x, w, kept, added, hid, first, others)
  BY <1>2
<1>11. x \in Recs /\ elsewhere = Elsewhere(old, others) BY <1>5, <1>6
<1>12. chains \in Seq(Calls) BY <1>8
<1>13. Apart(chains) BY <1>8
<1> QED BY <1>3, <1>4, <1>9, <1>10, <1>11, <1>12, <1>13, OverwriteCalm

-----------------------------------------------------------------------------
\* The invariant of the calm state and what follows.

\* Nothing is restored at the start.
LEMMA CalmInit ==
  ASSUME Init, NEW before
  PROVE  Calm(ss, chains, hidden, open, before)
<1>1. Typed BY TypedInit
<1>2. PICK x \in Recs : x = ss BY <1>1 DEF Typed
<1>3. /\ x.st = [t \in Tabs |-> "none"] /\ x.history = {} /\ x.queue = NoQueue
      /\ x.count = 0 /\ x.left = [w \in Windows |-> Unset]
  BY <1>2 DEF Init
<1>4. Undone(x) = {} /\ RestoringIn(x) = {} /\ WaitingIn(x) = {}
  BY <1>3 DEF Undone, RestoringIn, WaitingIn
<1>5. CountedOff(x) BY <1>3, <1>4 DEF CountedOff
<1>6. Emptied(x, hidden)
  <2>1. \A b \in Buckets : NoQueue[b] = <<>> BY DEF NoQueue, Buckets
  <2>2. \A b \in Buckets : ToSet(NoQueue[b]) = {} /\ IsInjective(NoQueue[b])
    BY <2>1 DEF ToSet, IsInjective
  <2>3. Entries(NoQueue) = {} /\ InOrder(NoQueue, hidden)
    BY <2>2 DEF Entries, InOrder
  <2> QED BY <1>3, <1>4, <1>5, <2>3 DEF Emptied
<1>7. PICK C : C = InCalls(chains) OBVIOUS
<1>8. Sound(x, hidden, C, C, {}, before) /\ Fed(x) BY <1>4, <1>6, EmptiedSound
<1>9. chains = <<>> /\ chains \in Seq(Calls) BY <1>1 DEF Init, Typed
<1>10. C = {} /\ Apart(chains) BY <1>7, <1>9 DEF InCalls, Apart
<1> QED BY <1>2, <1>4, <1>7, <1>8, <1>9, <1>10 DEF Calm

\* Nothing else is called, and no tab is selected before its timeout.
Patient == ~Hasty /\ Requests \subseteq {"setBrowserState"}

\* A step keeps the state calm, whatever tabs loaded before.
LEMMA CalmStep ==
  ASSUME Patient, Typed, NEW before, Calm(ss, chains, hidden, open, before),
         RestoringIn(ss) \subseteq before, [Next]_vars
  PROVE  Calm(ss', chains', hidden', open', before)
<1>1. ~Hasty BY DEF Patient
<1>2. ASSUME NEW w \in Windows,
             RestoreWindow(w) \/ CloseWindow(w) \/ OpenWindow(w) \/ SetBrowserState(w)
      PROVE  Calm(ss', chains', hidden', open', before)
  BY <1>1, <1>2, RestoreWindowCalm, CloseWindowCalm, OpenWindowCalm, SetBrowserStateCalm
<1>3. ASSUME NEW t \in Tabs,
             \/ LoadStops(t) \/ SelectTab(t) \/ CloseTab(t)
             \/ ShowTab(t) \/ HideTab(t) \/ ReloadTab(t)
      PROVE  Calm(ss', chains', hidden', open', before)
  BY <1>1, <1>3, LoadStopsCalm, SelectTabCalm, CloseTabCalm, ShowTabCalm, HideTabCalm,
     ReloadTabCalm
<1>4. ASSUME NEW t \in Tabs, DuplicateTab(t) \/ UndoCloseTab(t) \/ SetTabState(t)
      PROVE  FALSE
  BY <1>4 DEF Patient, DuplicateTab, UndoCloseTab, SetTabState, Called
<1>5. ASSUME Quit \/ UNCHANGED vars PROVE Calm(ss', chains', hidden', open', before)
  <2>1. ss' = ss /\ chains' = chains /\ hidden' = hidden /\ open' = open
    BY <1>5 DEF Quit, vars
  <2> QED BY <2>1
<1>6. ASSUME ContinueHistory \/ PurgeHistory
      PROVE  Calm(ss', chains', hidden', open', before)
  BY <1>6, ContinueHistoryCalm, PurgeHistoryCalm
<1> QED BY <1>2, <1>3, <1>4, <1>5, <1>6 DEF Next

\* The inductive invariant.
CalmInv == Typed /\ Calm(ss, chains, hidden, open, RestoringIn(ss))

\* That the tabs that load have been started in their turn is about one step;
\* afterwards they are those that loaded before.
LEMMA CalmLater ==
  ASSUME NEW x, NEW cs, NEW hid, NEW opn, NEW before, Calm(x, cs, hid, opn, before)
  PROVE  Calm(x, cs, hid, opn, RestoringIn(x))
<1>1. InTurn(x, hid, RestoringIn(x)) BY DEF InTurn
<1> QED BY <1>1 DEF Calm, Sound

\* The invariant is inductive, and a step starts tabs in their turn only.
LEMMA CalmNext ==
  ASSUME Patient, CalmInv, [Next]_vars
  PROVE  CalmInv' /\ Calm(ss', chains', hidden', open', RestoringIn(ss))
<1>1. Typed' BY TypedNext DEF CalmInv
<1>2. PICK before : before = RestoringIn(ss) OBVIOUS
<1>3. Typed /\ Calm(ss, chains, hidden, open, before) BY <1>2 DEF CalmInv
<1>4. Calm(ss', chains', hidden', open', before) BY <1>2, <1>3, CalmStep
<1>5. PICK x, cs, hid, opn : x = ss' /\ cs = chains' /\ hid = hidden' /\ opn = open'
  OBVIOUS
<1>6. Calm(x, cs, hid, opn, RestoringIn(x)) BY <1>4, <1>5, CalmLater
<1> QED BY <1>1, <1>2, <1>4, <1>5, <1>6 DEF CalmInv

\* Sets without a common tab.
LEMMA ApartCardinality ==
  ASSUME NEW S \in SUBSET Tabs, NEW T \in SUBSET Tabs, S \cap T = {}
  PROVE  Cardinality(S \cup T) = Cardinality(S) + Cardinality(T)
<1>1. /\ IsFiniteSet(S) /\ IsFiniteSet(T) /\ Cardinality(S) \in Nat
      /\ Cardinality(T) \in Nat
  BY TabsFinite
<1>2. Cardinality(S \cup T) = Cardinality(S) + Cardinality(T) - Cardinality(S \cap T)
  BY <1>1, FS_Union
<1>3. Cardinality(S \cap T) = 0 BY FS_EmptySet
<1> QED BY <1>1, <1>2, <1>3

\* As many elements as places.
LEMMA InjectiveLength ==
  ASSUME NEW S, NEW s, s \in Seq(S), IsInjective(s), IsFiniteSet(ToSet(s))
  PROVE  Cardinality(ToSet(s)) = Len(s)
<1>1. PICK n, D, T : n = Len(s) /\ D = 1..n /\ T = ToSet(s) OBVIOUS
<1>2. n \in Nat /\ DOMAIN s = D BY <1>1, LenProperties
<1>3. T = {s[i] : i \in D} BY <1>1, <1>2 DEF ToSet
<1>4. s \in [D -> T]
  <2>1. s \in [1..Len(s) -> S] BY LenProperties
  <2> QED BY <1>1, <1>3, <2>1
<1>5. s \in Injection(D, T) /\ s \in Surjection(D, T)
  BY <1>2, <1>3, <1>4 DEF Injection, Surjection, IsInjective
<1>6. Cardinality(D) = Cardinality(T) BY <1>1, <1>5, FS_Injection
<1>7. Cardinality(D) = n
  <2>1. n \in Int /\ 1 \in Int BY <1>2
  <2>2. Cardinality(1..n) = IF 1 > n THEN 0 ELSE n - 1 + 1 BY <2>1, FS_Interval
  <2> QED BY <1>1, <1>2, <2>2
<1> QED BY <1>1, <1>6, <1>7

\* The sum of the lengths of the buckets of a queue in order.
LEMMA QueueLength ==
  ASSUME NEW q \in Queues, NEW hid, InOrder(q, hid)
  PROVE  Cardinality(Entries(q)) = Len(q.priority) + Len(q.visible) + Len(q.hidden)
<1>1. PICK p, v, h : p = q["priority"] /\ v = q["visible"] /\ h = q["hidden"] OBVIOUS
<1>2. p \in Seq(Tabs) /\ v \in Seq(Tabs) /\ h \in Seq(Tabs)
  BY <1>1 DEF Queues
<1>3. /\ IsInjective(p) /\ IsInjective(v) /\ IsInjective(h)
      /\ ToSet(p) \subseteq Pinned /\ ToSet(v) \cap (hid \cup Pinned) = {}
      /\ ToSet(h) \subseteq hid \ Pinned
  BY <1>1 DEF InOrder, InBucket, Buckets
<1>4. PICK P, V, H : P = ToSet(p) /\ V = ToSet(v) /\ H = ToSet(h) OBVIOUS
<1>5. P \in SUBSET Tabs /\ V \in SUBSET Tabs /\ H \in SUBSET Tabs
  BY <1>2, <1>4, LenProperties DEF ToSet
<1>6. /\ Cardinality(ToSet(p)) = Len(p) /\ Cardinality(ToSet(v)) = Len(v)
      /\ Cardinality(ToSet(h)) = Len(h)
  <2>1. IsFiniteSet(ToSet(p)) /\ IsFiniteSet(ToSet(v)) /\ IsFiniteSet(ToSet(h))
    BY <1>4, <1>5, TabsFinite
  <2> QED BY <1>2, <1>3, <2>1, InjectiveLength
<1>7. P \cap V = {} /\ P \cap H = {} /\ V \cap H = {} BY <1>3, <1>4
<1>8. Cardinality(P \cup (V \cup H)) = Cardinality(P) + (Cardinality(V) + Cardinality(H))
  <2>1. PICK W \in SUBSET Tabs : W = V \cup H BY <1>5
  <2>2. P \cap W = {} /\ V \cap H = {} BY <1>7, <2>1
  <2>3. Cardinality(P \cup W) = Cardinality(P) + Cardinality(W)
    BY <1>5, <2>2, ApartCardinality
  <2>4. Cardinality(V \cup H) = Cardinality(V) + Cardinality(H)
    BY <1>5, <2>2, ApartCardinality
  <2> QED BY <2>1, <2>3, <2>4
<1>9. ASSUME NEW e PROVE e \in Entries(q) <=> e \in P \cup (V \cup H)
  BY <1>1, <1>4 DEF Entries, Buckets
<1>10. Entries(q) = P \cup (V \cup H) BY <1>9
<1>11. Len(p) \in Nat /\ Len(v) \in Nat /\ Len(h) \in Nat BY <1>2, LenProperties
<1>12. p = q.priority /\ v = q.visible /\ h = q.hidden
  <2>1. q["priority"] = q.priority OBVIOUS
  <2>2. q["visible"] = q.visible /\ q["hidden"] = q.hidden OBVIOUS
  <2> QED BY <1>1, <2>1, <2>2
<1>13. Cardinality(Entries(q)) = Len(p) + (Len(v) + Len(h))
  BY <1>6, <1>4, <1>8, <1>10
<1>14. Len(p) + (Len(v) + Len(h)) = Len(p) + Len(v) + Len(h) BY <1>11
<1> QED BY <1>12, <1>13, <1>14

\* The invariant says what the properties say.
LEMMA CalmImplies ==
  CalmInv => CountIsRestoring /\ LeftIsUnrestored /\ HeardWhileLoading /\ QueueIsWaiting
<1> SUFFICES ASSUME CalmInv
             PROVE  CountIsRestoring /\ LeftIsUnrestored /\ HeardWhileLoading /\ QueueIsWaiting
  OBVIOUS
<1>1. PICK x, C, before : x = ss /\ C = InCalls(chains) /\ before = RestoringIn(ss) OBVIOUS
<1>2. Sound(x, hidden, C, C, {}, before) /\ Fed(x) /\ x \in Recs
  BY <1>1 DEF CalmInv, Calm, Sound
<1>3. Restoring = RestoringIn(x) /\ Waiting = WaitingIn(x)
  BY <1>1 DEF Restoring, Waiting, RestoringIn, WaitingIn
<1>4. CountIsRestoring BY <1>1, <1>2, <1>3 DEF CountIsRestoring, Sound
<1>5. LeftIsUnrestored
  <2>1. Restoring \cup Waiting = Undone(x)
    BY <1>2, <1>3 DEF RestoringIn, WaitingIn, Undone, Recs
  <2> QED BY <1>1, <1>2, <2>1 DEF LeftIsUnrestored, Sound, CountedOff
<1>6. HeardWhileLoading BY <1>1, <1>2, <1>3 DEF HeardWhileLoading, Sound, Heard, Fed
<1>7. QueueIsWaiting
  <2>1. PICK q \in Queues : q = x.queue BY <1>2 DEF Recs
  <2>2. Entries(q) = WaitingIn(x) \ C /\ InOrder(q, hidden)
    BY <1>2, <2>1 DEF Sound, Filed
  <2>3. Queued = Entries(q)
    BY <1>1, <2>1, QueueFields DEF Queued, Entries
  <2>4. InChain = C BY <1>1 DEF InChain, InCalls
  <2>5. Cardinality(Entries(q)) = Len(q.priority) + Len(q.visible) + Len(q.hidden)
    BY <2>2, QueueLength
  <2> QED BY <1>1, <1>3, <2>1, <2>2, <2>3, <2>4, <2>5 DEF QueueIsWaiting
<1> QED BY <1>4, <1>5, <1>6, <1>7

\* It holds at the start,
LEMMA CalmInvInit == Init => CalmInv
BY TypedInit, CalmInit DEF CalmInv

\* and always.
LEMMA CalmAlways == ASSUME Patient PROVE Spec => []CalmInv
<1>1. CalmInv /\ [Next]_vars => CalmInv' BY CalmNext
<1> QED BY <1>1, CalmInvInit, PTL DEF Spec

\* _tabsRestoringCount is the number of tabs that are restoring, whatever is
\* closed, selected, hidden, purged or overwritten meanwhile.
THEOREM CountKept == ASSUME Patient PROVE Spec => []CountIsRestoring
BY CalmAlways, CalmImplies, PTL

\* __SS_tabsToRestore of a window is the number of its tabs that are not restored:
\* a window whose counter runs ahead loses the listener its loads need
\* (restoreWindow, _resetTabRestoringState).
THEOREM LeftCounted == ASSUME Patient PROVE Spec => []LeftIsUnrestored
BY CalmAlways, CalmImplies, PTL

\* A tab marked as restoring does load, and its window has the progress listener
\* that hears the end of the load (_removeTabsProgressListener).
THEOREM LoadsHeard == ASSUME Patient PROVE Spec => []HeardWhileLoading
BY CalmAlways, CalmImplies, PTL

\* TabRestoreQueue holds each tab once that waits for its turn, and no other
\* (restoreTab, onTabRemove, onTabShow, onTabHide).
THEOREM QueueKept == ASSUME Patient PROVE Spec => []QueueIsWaiting
BY CalmAlways, CalmImplies, PTL

\* A tab that starts in a step was asked for, or the preferences allow it and
\* nothing that waits goes first.
LEMMA TurnStep ==
  ASSUME Patient, CalmInv, [Next]_vars
  PROVE  \A t \in (Restoring' \ Restoring) \ ss'.asked :
           \/ t \in Pinned /\ ~(RestoreOnDemand /\ PinnedOnDemand)
           \/ /\ t \notin Pinned /\ ~RestoreOnDemand /\ (Queued \cap Pinned = {})'
              /\ t \in hidden' => RestoreHidden /\ (Queued \subseteq hidden)'
<1>1. PICK before, x, hid : before = RestoringIn(ss) /\ x = ss' /\ hid = hidden' OBVIOUS
<1>2. Calm(ss', chains', hidden', open', before) BY <1>1, CalmNext
<1>3. InTurn(x, hid, before) /\ x \in Recs BY <1>1, <1>2 DEF Calm, Sound
<1>4. Restoring' = RestoringIn(x) /\ Restoring = before
  BY <1>1 DEF Restoring, RestoringIn
<1>5. Queued' = Entries(x.queue)
  <2>1. x.queue \in Queues BY <1>3 DEF Recs
  <2>2. DOMAIN x.queue = Buckets BY <2>1, QueueFields
  <2> QED BY <1>1, <2>2 DEF Queued, Entries
<1> QED BY <1>1, <1>3, <1>4, <1>5 DEF InTurn, Allowed

\* Unless somebody asks for it, a tab starts only if the preferences let it and
\* nothing that goes first is waiting (TabRestoreQueue.shift).
THEOREM TurnsKept == ASSUME Patient PROVE Spec => StartedInTurn
<1>1. CalmInv /\ [Next]_vars =>
        [\A t \in (Restoring' \ Restoring) \ ss'.asked :
           \/ t \in Pinned /\ ~(RestoreOnDemand /\ PinnedOnDemand)
           \/ /\ t \notin Pinned /\ ~RestoreOnDemand /\ (Queued \cap Pinned = {})'
              /\ t \in hidden' => RestoreHidden /\ (Queued \subseteq hidden)']_vars
  BY TurnStep
<1> QED BY <1>1, CalmAlways, PTL DEF Spec, StartedInTurn

-----------------------------------------------------------------------------
\* The limit of concurrent loads.

\* The states in which no more tabs load than the counter says, and no more than
\* allowed besides those somebody asked for.
Limited ==
  {x \in Recs : /\ Cardinality(RestoringIn(x)) <= x.count
                /\ Cardinality(RestoringIn(x) \ x.asked) <= MaxConcurrent}

\* Fewer tabs that load.
LEMMA FewerLimited ==
  ASSUME NEW x \in Limited, NEW y \in Recs, y.count >= x.count,
         RestoringIn(y) \subseteq RestoringIn(x),
         RestoringIn(y) \ y.asked \subseteq RestoringIn(x) \ x.asked
  PROVE  y \in Limited
<1>1. PICK R, S, A, B : /\ R = RestoringIn(x) /\ S = RestoringIn(y)
                        /\ A = RestoringIn(x) \ x.asked /\ B = RestoringIn(y) \ y.asked
  OBVIOUS
<1>2. R \in SUBSET Tabs /\ A \in SUBSET Tabs /\ S \subseteq R /\ B \subseteq A
  BY <1>1 DEF RestoringIn
<1>3. IsFiniteSet(R) /\ IsFiniteSet(A) /\ Cardinality(R) \in Nat /\ Cardinality(A) \in Nat
  BY <1>2, TabsFinite
<1>4. Cardinality(S) <= Cardinality(R) /\ Cardinality(B) <= Cardinality(A)
  BY <1>2, <1>3, FS_Subset
<1>5. Cardinality(S) \in Nat /\ Cardinality(B) \in Nat
  BY <1>2, TabsFinite
<1>6. x.count \in Nat /\ y.count \in Nat BY DEF Limited, Recs
<1>7. Cardinality(R) <= x.count /\ Cardinality(A) <= MaxConcurrent BY <1>1 DEF Limited
<1>8. MaxConcurrent \in Nat BY ConstantsAssumption
<1>9. Cardinality(S) <= y.count /\ Cardinality(B) <= MaxConcurrent
  BY <1>3, <1>4, <1>5, <1>6, <1>7, <1>8
<1> QED BY <1>1, <1>9 DEF Limited

\* The fields a limit is about stay as they are.
LEMMA SameLimited ==
  ASSUME NEW x \in Limited, NEW y \in Recs, y.st = x.st, y.count = x.count,
         y.asked = x.asked
  PROVE  y \in Limited
<1>1. RestoringIn(y) = RestoringIn(x) BY DEF RestoringIn
<1> QED BY <1>1 DEF Limited

\* A tab that is reset is one less, and one less in the counter.
LEMMA ResetLimited ==
  ASSUME NEW x \in Limited, NEW t \in Tabs, NEW hid
  PROVE  Reset(x, t, hid) \in Limited
<1>1. x \in Recs /\ x.count \in Nat BY DEF Limited, Recs
<1>2. PICK y \in Recs : y = Reset(x, t, hid) /\ ResetFields(y, x, t, hid)
  BY <1>1, ResetEffect
<1>3. /\ y.st = [x.st EXCEPT ![t] = "none"] /\ y.asked = x.asked \ {t}
      /\ y.count = IF x.st[t] = "restoring" THEN Released(x.count) ELSE x.count
  BY <1>2 DEF ResetFields
<1>4. RestoringIn(y) = RestoringIn(x) \ {t} BY <1>1, <1>3, MarkedNone
<1>5. CASE x.st[t] # "restoring"
  <2>1. y.count >= x.count BY <1>1, <1>3, <1>5
  <2> QED BY <1>2, <1>3, <1>4, <2>1, FewerLimited
<1>6. CASE x.st[t] = "restoring"
  <2>1. PICK R \in SUBSET Tabs : R = RestoringIn(x) BY DEF RestoringIn
  <2>2. t \in R BY <1>6, <2>1 DEF RestoringIn
  <2>3. Cardinality(R \ {t}) = Cardinality(R) - 1 /\ Cardinality(R) \in Nat \ {0}
    BY <2>2, OneMore, TabsFinite
  <2>4. Cardinality(R) <= x.count BY <2>1 DEF Limited
  <2>5. y.count = x.count - 1 BY <1>1, <1>3, <1>6, <2>3, <2>4 DEF Released
  <2>6. Cardinality(RestoringIn(y)) <= y.count BY <1>1, <1>4, <2>1, <2>3, <2>4, <2>5
  <2>7. PICK A \in SUBSET Tabs : A = RestoringIn(x) \ x.asked BY DEF RestoringIn
  <2>8. PICK B : B = RestoringIn(y) \ y.asked OBVIOUS
  <2>9. B \subseteq A BY <1>3, <1>4, <2>7, <2>8
  <2>10. Cardinality(B) <= Cardinality(A) /\ Cardinality(A) \in Nat /\ Cardinality(B) \in Nat
    <3>1. IsFiniteSet(A) /\ Cardinality(A) \in Nat BY TabsFinite
    <3>2. B \in SUBSET Tabs BY <2>9
    <3>3. Cardinality(B) \in Nat BY <3>2, TabsFinite
    <3> QED BY <2>9, <3>1, <3>3, FS_Subset
  <2>11. Cardinality(A) <= MaxConcurrent /\ MaxConcurrent \in Nat
    BY <2>7, ConstantsAssumption DEF Limited
  <2>12. Cardinality(B) <= MaxConcurrent BY <2>10, <2>11
  <2> QED BY <1>2, <2>6, <2>8, <2>12 DEF Limited
<1> QED BY <1>5, <1>6

\* Somebody asks for the tab, or the counter leaves room for it.
Room(x, why) == why = "asked" \/ x.count < MaxConcurrent

\* A tab that starts is counted; in its turn it starts below the limit only.
LEMMA StartedLimited ==
  ASSUME NEW x \in Limited, NEW t \in Tabs, NEW why, NEW hid, Room(x, why),
         NEW y \in Recs, StartedFields(y, x, t, why, hid)
  PROVE  y \in Limited
<1>1. x \in Recs /\ x.count \in Nat /\ MaxConcurrent \in Nat
  BY ConstantsAssumption DEF Limited, Recs
<1>2. /\ y.st = [x.st EXCEPT ![t] = "restoring"] /\ y.count = x.count + 1
      /\ y.asked = IF why = "asked" THEN x.asked \cup {t} ELSE x.asked \ {t}
  BY DEF StartedFields
<1>3. RestoringIn(y) = RestoringIn(x) \cup {t} BY <1>1, <1>2, MarkedRestoring
<1>4. PICK R \in SUBSET Tabs : R = RestoringIn(x) BY DEF RestoringIn
<1>5. PICK S \in SUBSET Tabs : S = RestoringIn(y) BY DEF RestoringIn
<1>6. Cardinality(R) \in Nat /\ Cardinality(S) \in Nat BY TabsFinite
<1>7. Cardinality(S) <= Cardinality(R) + 1
  <2>1. CASE t \in R
    <3>1. S = R BY <1>3, <1>4, <1>5, <2>1
    <3> QED BY <1>6, <3>1
  <2>2. CASE t \notin R
    <3>1. Cardinality(R \cup {t}) = Cardinality(R) + 1 BY <2>2, TabsFinite, FS_AddElement
    <3> QED BY <1>3, <1>4, <1>5, <1>6, <3>1
  <2> QED BY <2>1, <2>2
<1>8. Cardinality(R) <= x.count BY <1>4 DEF Limited
<1>9. Cardinality(S) <= y.count BY <1>1, <1>2, <1>6, <1>7, <1>8
<1>10. PICK A \in SUBSET Tabs, B \in SUBSET Tabs : A = R \ x.asked /\ B = S \ y.asked
  BY <1>4, <1>5
<1>11. Cardinality(A) \in Nat /\ Cardinality(B) \in Nat /\ IsFiniteSet(A) /\ IsFiniteSet(S)
  BY TabsFinite
<1>12. Cardinality(A) <= MaxConcurrent BY <1>4, <1>10 DEF Limited
<1>13. Cardinality(B) <= MaxConcurrent
  <2>1. CASE why = "asked"
    <3>1. B \subseteq A BY <1>2, <1>3, <1>4, <1>5, <1>10, <2>1
    <3>2. Cardinality(B) <= Cardinality(A) BY <1>11, <3>1, FS_Subset
    <3> QED BY <1>1, <1>11, <1>12, <3>2
  <2>2. CASE x.count < MaxConcurrent
    <3>1. B \subseteq S BY <1>10
    <3>2. Cardinality(B) <= Cardinality(S) BY <1>11, <3>1, FS_Subset
    <3> QED BY <1>1, <1>2, <1>6, <1>9, <1>11, <2>2, <3>2
  <2> QED BY <2>1, <2>2 DEF Room
<1> QED BY <1>5, <1>9, <1>10, <1>13 DEF Limited

\* The three ends of restoreTab.
LEMMA EndsLimited ==
  ASSUME NEW x \in Limited, NEW t \in Tabs, NEW why, NEW hid, Room(x, why)
  PROVE  /\ Started(x, t, why, hid) \in Limited /\ Loading(x, t, why, hid) \in Limited
         /\ NotLoading(x, t, why, hid) \in Limited
<1>1. x \in Recs BY DEF Limited
<1>2. Started(x, t, why, hid) \in Limited BY <1>1, StartedEffect, StartedLimited
<1>3. PICK y \in Recs : /\ StartedFields(y, x, t, why, hid)
                        /\ Loading(x, t, why, hid) \in Recs
                        /\ Loading(x, t, why, hid) = [y EXCEPT !.loads = x.loads \cup {t}]
  BY <1>1, LoadingEffect
<1>4. y \in Limited BY <1>3, StartedLimited
<1>5. PICK z \in Recs : z = Loading(x, t, why, hid) BY <1>3
<1>6. z.st = y.st /\ z.count = y.count /\ z.asked = y.asked BY <1>3, <1>5 DEF Recs
<1>7. z \in Limited BY <1>4, <1>6, SameLimited
<1>8. NotLoading(x, t, why, hid) \in Limited BY <1>2, ResetLimited DEF NotLoading
<1> QED BY <1>2, <1>5, <1>7, <1>8

\* restoreTab at somebody's request keeps the limit.
LEMMA RestoreLimited ==
  ASSUME NEW x \in Limited, NEW t \in Tabs, NEW hid
  PROVE  Restore(x, t, "asked", hid) \subseteq Limited
<1>1. PICK why : why = "asked" OBVIOUS
<1>2. Room(x, why) BY <1>1 DEF Room
<1>3. Restore(x, t, why, hid) \subseteq Limited BY <1>2, EndsLimited DEF Restore
<1> QED BY <1>1, <1>3

\* shift is called below the limit.
LEMMA ShiftedLimited ==
  ASSUME NEW x \in Limited, MayRestoreNext(x), NEW why
  PROVE  /\ Shifted(x) \in Limited /\ NextTab(x) \in Tabs /\ Room(Shifted(x), why)
<1>1. x \in Recs BY DEF Limited
<1>2. PICK q \in Queues : Shifted(x) = [x EXCEPT !.queue = q] BY <1>1, ShiftedEffect
<1>3. PICK y : y = [x EXCEPT !.queue = q] OBVIOUS
<1>4. y \in Recs /\ y.st = x.st /\ y.count = x.count /\ y.asked = x.asked
  BY <1>1, <1>3 DEF Recs
<1>5. y \in Limited BY <1>4, SameLimited
<1>6. NextTab(x) \in Tabs BY <1>1, ShiftedTyped
<1> QED BY <1>2, <1>3, <1>4, <1>5, <1>6 DEF Room, MayRestoreNext

\* restoreNextTab keeps the limit,
LEMMA RestoreNextLimited ==
  ASSUME NEW x \in Limited, NEW hid
  PROVE  RestoreNext(x, hid) \subseteq Limited
<1>1. PICK G \in SUBSET Recs : G = Limited BY DEF Limited
<1>2. x \in Recs BY DEF Limited
<1>3. ASSUME NEW y \in Limited, MayRestoreNext(y)
      PROVE  /\ Started(Shifted(y), NextTab(y), "turn", hid) \in Limited
             /\ Loading(Shifted(y), NextTab(y), "turn", hid) \in Limited
             /\ NotLoading(Shifted(y), NextTab(y), "turn", hid) \in Limited
  <2>1. PICK why : why = "turn" OBVIOUS
  <2>2. /\ Shifted(y) \in Limited /\ NextTab(y) \in Tabs /\ Room(Shifted(y), why)
    BY <1>3, ShiftedLimited
  <2>3. /\ Started(Shifted(y), NextTab(y), why, hid) \in Limited
        /\ Loading(Shifted(y), NextTab(y), why, hid) \in Limited
        /\ NotLoading(Shifted(y), NextTab(y), why, hid) \in Limited
    BY <2>2, EndsLimited
  <2> QED BY <2>1, <2>3
<1>4. \A z \in RestoreNext(x, hid) : \E y \in G : z = StartNext(y, hid)
  BY <1>1, <1>2, <1>3, RestoreNextRuns
<1>5. \A y \in Limited : StartNext(y, hid) \in Limited
  BY <1>3 DEF StartNext
<1> QED BY <1>1, <1>4, <1>5

\* onTabRemove does,
LEMMA RemoveTabLimited ==
  ASSUME NEW x \in Limited, NEW t \in Tabs, NEW hid
  PROVE  RemoveTab(x, t, hid) \subseteq Limited
<1>1. x \in Recs BY DEF Limited
<1>2. PICK y \in Recs : y = [x EXCEPT !.data = @ \ {t}, !.loads = @ \ {t}]
  BY <1>1 DEF Recs
<1>3. y.st = x.st /\ y.count = x.count /\ y.asked = x.asked BY <1>1, <1>2 DEF Recs
<1>4. y \in Limited BY <1>3, SameLimited
<1>5. Reset(y, t, hid) \in Limited BY <1>4, ResetLimited
<1>6. RestoreNext(Reset(y, t, hid), hid) \subseteq Limited BY <1>5, RestoreNextLimited
<1>7. x.st[t] \in {"none", "needs", "restoring"} BY <1>1 DEF Recs
<1> QED BY <1>2, <1>4, <1>5, <1>6, <1>7 DEF RemoveTab

\* the loop that resets tabs,
LEMMA ResetEachLimited ==
  ASSUME NEW x \in Limited, NEW ts
  PROVE  ResetEach(x, ts) \in Limited
<1>1. PICK G : G = (0..TabCount) \X Limited OBVIOUS
<1>2. x \in Recs /\ Limited \subseteq Recs BY DEF Limited
<1>3. <<0, x>> \in G BY <1>1, TabsFinite
<1>4. ASSUME NEW n \in 1..TabCount, NEW y \in Recs, <<n - 1, y>> \in G
      PROVE  <<n, IF n \in ts /\ y.st[n] # "none" THEN Reset(y, n, hidden) ELSE y>> \in G
  <2>1. n \in Tabs /\ n \in 0..TabCount BY TabsFinite DEF Tabs
  <2>2. y \in Limited BY <1>1, <1>4
  <2>3. Reset(y, n, hidden) \in Limited BY <2>1, <2>2, ResetLimited
  <2> QED BY <1>1, <2>1, <2>2, <2>3
<1>5. G \in SUBSET ((0..TabCount) \X Recs) BY <1>1, <1>2
<1>6. <<TabCount, ResetEach(x, ts)>> \in G BY <1>2, <1>3, <1>4, <1>5, ResetEachRuns
<1> QED BY <1>1, <1>6

\* the loop that closes windows,
LEMMA ClosedLimited ==
  ASSUME NEW x \in Limited, NEW ws
  PROVE  Closed(x, ws) \subseteq Limited
<1>1. PICK G : G = (0..TabCount) \X Limited OBVIOUS
<1>2. x \in Recs /\ Limited \subseteq Recs BY DEF Limited
<1>3. <<0, [x EXCEPT !.on = @ \ ws]>> \in G
  <2>1. PICK y \in Recs : y = [x EXCEPT !.on = @ \ ws] BY <1>2 DEF Recs
  <2>2. y.st = x.st /\ y.count = x.count /\ y.asked = x.asked BY <1>2, <2>1 DEF Recs
  <2>3. y \in Limited BY <2>2, SameLimited
  <2> QED BY <1>1, <2>1, <2>3, TabsFinite
<1>4. ASSUME NEW n \in 1..TabCount, NEW y \in Recs, <<n - 1, y>> \in G,
             NEW z \in IF n \in open /\ Home[n] \in ws THEN RemoveTab(y, n, hidden) ELSE {y}
      PROVE  <<n, z>> \in G
  <2>1. n \in Tabs /\ n \in 0..TabCount BY TabsFinite DEF Tabs
  <2>2. y \in Limited BY <1>1, <1>4
  <2>3. RemoveTab(y, n, hidden) \subseteq Limited BY <2>1, <2>2, RemoveTabLimited
  <2>4. z \in Limited BY <2>2, <2>3
  <2> QED BY <1>1, <2>1, <2>4
<1>5. G \in SUBSET ((0..TabCount) \X Recs) BY <1>1, <1>2
<1>6. \A z \in Closed(x, ws) : <<TabCount, z>> \in G
  BY <1>2, <1>3, <1>4, <1>5, ClosedRuns
<1> QED BY <1>1, <1>6

\* restoreHistoryPrecursor, even if the tab loads,
LEMMA PreparedLimited ==
  ASSUME NEW x \in Limited, NEW ts \in SUBSET Tabs
  PROVE  Prepared(x, ts) \in Limited
<1>1. x \in Recs BY DEF Limited
<1>2. PICK y \in Recs : y = Prepared(x, ts) BY <1>1, PreparedTyped
<1>3. /\ y.st = [t \in Tabs |-> IF t \in ts THEN "needs" ELSE x.st[t]]
      /\ y.count = x.count /\ y.asked = x.asked \ ts
  BY <1>1, <1>2 DEF Prepared, Recs
<1>4. RestoringIn(y) = RestoringIn(x) \ ts BY <1>3 DEF RestoringIn
<1>5. RestoringIn(y) \ y.asked \subseteq RestoringIn(x) \ x.asked BY <1>3, <1>4
<1>6. y.count >= x.count
  <2>1. x.count \in Nat BY <1>1 DEF Recs
  <2> QED BY <1>3, <2>1
<1> QED BY <1>2, <1>4, <1>5, <1>6, FewerLimited

\* restoreHistory,
LEMMA RestoreHistoryLimited ==
  ASSUME NEW x \in Limited, NEW call \in Calls, NEW opn, NEW hid, NEW sel,
         NEW o \in RestoreHistory(x, call, opn, hid, sel)
  PROVE  o[1] \in Limited
<1>1. x \in Recs BY DEF Limited
<1>2. CASE NoneReady(o, x, call, opn) BY <1>2 DEF NoneReady
<1>3. CASE OneReady(o, x, call, opn, hid, sel)
  <2>1. PICK i \in DOMAIN call.tabs, y \in Recs, rest \in Seq(Tabs), later \in Seq(Calls) :
              /\ call.tabs[i] \in Tabs /\ o[2] = later
              /\ y = [x EXCEPT !.history = @ \cup {call.tabs[i]}]
              /\ o[1] \in IF call.now \/ sel[Home[call.tabs[i]]] = call.tabs[i]
                          THEN Restore(y, call.tabs[i], "asked", hid)
                          ELSE RestoreNext(Enqueue(y, call.tabs[i], hid), hid)
    BY <1>3 DEF OneReady
  <2>2. y.st = x.st /\ y.count = x.count /\ y.asked = x.asked BY <1>1, <2>1 DEF Recs
  <2>3. y \in Limited BY <2>2, SameLimited
  <2>4. PICK t \in Tabs : t = call.tabs[i] BY <2>1
  <2>5. Restore(y, t, "asked", hid) \subseteq Limited BY <2>3, RestoreLimited
  <2>6. PICK q \in Queues : Enqueue(y, t, hid) = [y EXCEPT !.queue = q] BY EnqueueEffect
  <2>7. PICK z : z = [y EXCEPT !.queue = q] OBVIOUS
  <2>8. z \in Recs /\ z.st = y.st /\ z.count = y.count /\ z.asked = y.asked
    BY <2>7 DEF Recs
  <2>9. z \in Limited BY <2>3, <2>8, SameLimited
  <2>10. RestoreNext(z, hid) \subseteq Limited BY <2>9, RestoreNextLimited
  <2> QED BY <2>1, <2>4, <2>5, <2>6, <2>7, <2>10
<1> QED BY <1>1, <1>2, <1>3, RestoreHistoryCases

\* onTabSelect,
LEMMA SelectedLimited ==
  ASSUME NEW x \in Limited, NEW t \in Tabs, NEW hid
  PROVE  Selected(x, t, hid) \subseteq Limited
BY RestoreLimited DEF Selected

\* a restore of some tabs,
LEMMA RestoreTabsLimited ==
  ASSUME NEW x \in Limited, NEW tabs \in Seq(Tabs), NEW now \in BOOLEAN,
         NEW opn, NEW hid, NEW sel, RestoreTabs(x, tabs, now, opn, hid, sel)
  PROVE  ss' \in Limited
<1>1. PICK y \in Limited : y = Prepared(x, ToSet(tabs))
  <2>1. ToSet(tabs) \in SUBSET Tabs BY LenProperties DEF ToSet
  <2> QED BY <2>1, PreparedLimited
<1>2. PICK call \in Calls : call = [tabs |-> tabs, now |-> now] BY DEF Calls
<1>3. PICK o \in RestoreHistory(y, call, opn, hid, sel) : ss' = o[1]
  BY <1>1, <1>2 DEF RestoreTabs
<1>4. o[1] \in Limited BY RestoreHistoryLimited
<1> QED BY <1>3, <1>4

\* and a window that is overwritten.
LEMMA OverwriteLimited ==
  ASSUME Typed, NEW x \in Recs, NEW w \in Windows, NEW old, old = open \cap TabsOf(w),
         ResetEach(x, old) \in Limited,
         NEW kept \in SUBSET (open \cap TabsOf(w)), NEW added \in SUBSET Free(w),
         NEW hid \in SUBSET Free(w), NEW first \in TabsOf(w), NEW gone,
         Fits(w, kept, added, hid, first), Overwrite(x, w, kept, added, hid, first, gone)
  PROVE  ss' \in Limited
<1>1. PICK ts : ts = kept \cup added OBVIOUS
<1>2. ts \in SUBSET Tabs /\ {first} \in SUBSET ts
  <2>1. kept \subseteq Tabs /\ added \subseteq Tabs BY FreeTabs
  <2> QED BY <1>1, <2>1 DEF Fits
<1>3. PICK n \in Int : n = Cardinality(ts) BY <1>2, TabsFinite
<1>4. PICK away : away = old \ kept OBVIOUS
<1>5. PICK u \in Limited : u = ResetEach(x, old) OBVIOUS
<1>6. PICK y : y = [u EXCEPT !.left[w] = n, !.data = @ \ away, !.loads = @ \ away]
  OBVIOUS
<1>7. u \in Recs BY DEF Limited
<1>8. y \in Recs /\ y.st = u.st /\ y.count = u.count /\ y.asked = u.asked
  BY <1>6, <1>7 DEF Recs
<1>9. y \in Limited BY <1>8, SameLimited
<1>10. PICK opn, h, sel : opn = open' /\ h = hidden' /\ sel = selected' OBVIOUS
<1>11. PICK o \in Seq(Tabs) : o = RestoringOrder(ts, h, {first})
  <2>1. RestoringOrder(ts, h, {first}) \in Seq(Tabs) BY <1>2, RestoringOrderElements
  <2> QED BY <2>1
<1>12. PICK now \in BOOLEAN : now = FALSE OBVIOUS
<1>13. RestoreTabs(y, o, now, opn, h, sel)
  BY <1>1, <1>3, <1>4, <1>5, <1>6, <1>10, <1>11, <1>12 DEF Overwrite
<1> QED BY <1>9, <1>13, RestoreTabsLimited

\* setBrowserState is not called, or nothing happens behind its back.
Bounded == "setBrowserState" \notin Requests \/ Patient

\* setBrowserState sets the counter to zero: right if the tabs it closes are all
\* that load.
LEMMA SetBrowserStateLimited ==
  ASSUME Typed, ss \in Limited, Bounded, Patient => CalmInv, NEW w \in Windows,
         SetBrowserState(w)
  PROVE  ss' \in Limited
<1>1. CalmInv BY DEF Bounded, SetBrowserState, Called
<1>2. PICK others, x0 : others = OtherWindows(w) /\ x0 = Unrestored(ss) OBVIOUS
<1>3. PICK x \in Closed(x0, others),
           kept \in SUBSET (open \cap TabsOf(w)), added \in SUBSET Free(w),
           hid \in SUBSET Free(w), first \in TabsOf(w) :
          /\ Fits(w, kept, added, hid, first)
          /\ Overwrite(x, w, kept, added, hid, first, others)
  <2>1. \E x \in Closed(Unrestored(ss), OtherWindows(w)),
           kept \in SUBSET (open \cap TabsOf(w)), added \in SUBSET Free(w),
           hid \in SUBSET Free(w), first \in TabsOf(w) :
          /\ Fits(w, kept, added, hid, first)
          /\ Overwrite(x, w, kept, added, hid, first, OtherWindows(w))
    BY DEF SetBrowserState, OtherWindows, Unrestored
  <2> QED BY <1>2, <2>1
<1>4. PICK old : old = open \cap TabsOf(w) OBVIOUS
<1>5. PICK y : y = ResetEach(x, old) OBVIOUS
<1>6. Emptied(y, hidden) /\ Undone(y) = {} /\ x \in Recs
  <2>1. Anew(x0, others, w) BY <1>2 DEF Anew
  <2>2. PICK before : before = RestoringIn(ss) OBVIOUS
  <2>3. Calm(ss, chains, hidden, open, before) BY <1>1, <2>2 DEF CalmInv
  <2> QED BY <1>4, <1>5, <2>1, <2>3, SetBrowserStateEmpties
<1>7. y \in Limited
  <2>1. RestoringIn(y) = {} BY <1>6, StateSets
  <2>2. RestoringIn(y) \ y.asked = {} BY <2>1
  <2>3. Cardinality(RestoringIn(y)) = 0 /\ Cardinality(RestoringIn(y) \ y.asked) = 0
    BY <2>1, <2>2, FS_EmptySet
  <2>4. y.count = 0 /\ y \in Recs /\ 0 <= MaxConcurrent
    BY <1>6, ConstantsAssumption DEF Emptied
  <2> QED BY <2>3, <2>4 DEF Limited
<1>8. Fits(w, kept, added, hid, first) /\ Overwrite(x, w, kept, added, hid, first, others)
  BY <1>3
<1>9. ResetEach(x, old) \in Limited BY <1>5, <1>7
<1>10. x \in Recs BY <1>6
<1> QED BY <1>4, <1>8, <1>9, <1>10, OverwriteLimited

\* restoreWindow keeps the limit,
LEMMA RestoreWindowLimited ==
  ASSUME Typed, ss \in Limited, NEW w \in Windows, RestoreWindow(w)
  PROVE  ss' \in Limited
<1>1. CASE \E kept \in SUBSET (open \cap TabsOf(w)), added \in SUBSET Free(w),
              hid \in SUBSET Free(w), first \in TabsOf(w) :
             /\ Fits(w, kept, added, hid, first)
             /\ Overwrite(ss, w, kept, added, hid, first, {})
  <2>1. PICK kept \in SUBSET (open \cap TabsOf(w)), added \in SUBSET Free(w),
             hid \in SUBSET Free(w), first \in TabsOf(w) :
          /\ Fits(w, kept, added, hid, first)
          /\ Overwrite(ss, w, kept, added, hid, first, {})
    BY <1>1
  <2>2. PICK x \in Limited : x = ss OBVIOUS
  <2>3. PICK gone, old : gone = {} /\ old = open \cap TabsOf(w) OBVIOUS
  <2>4. Overwrite(x, w, kept, added, hid, first, gone) BY <2>1, <2>2, <2>3
  <2>5. ResetEach(x, old) \in Limited BY ResetEachLimited
  <2>6. x \in Recs BY DEF Limited
  <2>7. ss' \in Limited BY <2>1, <2>3, <2>4, <2>5, <2>6, OverwriteLimited
  <2> QED BY <2>7
<1>2. CASE \E added \in SUBSET Free(w), hid \in SUBSET (Free(w) \ Pinned) :
             /\ added # {} /\ hid \subseteq added
             /\ open' = open \cup added /\ hidden' = hidden \cup hid
             /\ RestoreTabs([ss EXCEPT !.left[w] =
                               (IF IsZero(@) THEN 0 ELSE @) + Cardinality(added)],
                            RestoringOrder(added, hidden', {}), FALSE,
                            open', hidden', selected)
             /\ UNCHANGED selected
  <2>1. PICK added \in SUBSET Free(w), hid \in SUBSET (Free(w) \ Pinned) :
             RestoreTabs([ss EXCEPT !.left[w] =
                               (IF IsZero(@) THEN 0 ELSE @) + Cardinality(added)],
                            RestoringOrder(added, hidden', {}), FALSE,
                            open', hidden', selected)
    BY <1>2
  <2>2. added \in SUBSET Tabs BY FreeTabs
  <2>3. PICK u \in Limited : u = ss OBVIOUS
  <2>4. u \in Recs BY DEF Limited
  <2>5. PICK m \in Int : m = IF IsZero(u.left[w]) THEN 0 ELSE u.left[w]
    BY <2>4 DEF IsZero, Recs
  <2>6. PICK n \in Int : n = m + Cardinality(added)
    <3>1. Cardinality(added) \in Nat BY <2>2, TabsFinite
    <3> QED BY <3>1
  <2>7. PICK x : x = [u EXCEPT !.left[w] = n] OBVIOUS
  <2>8. x \in Recs /\ x.st = u.st /\ x.count = u.count /\ x.asked = u.asked
    BY <2>4, <2>7 DEF Recs
  <2>9. x \in Limited BY <2>8, SameLimited
  <2>10. x = [ss EXCEPT !.left[w] = (IF IsZero(@) THEN 0 ELSE @) + Cardinality(added)]
    BY <2>3, <2>5, <2>6, <2>7
  <2>11. PICK opn, h, sel : opn = open' /\ h = hidden' /\ sel = selected OBVIOUS
  <2>12. PICK o \in Seq(Tabs) : o = RestoringOrder(added, h, {})
    BY <2>2, RestoringOrderElements
  <2>13. PICK now \in BOOLEAN : now = FALSE OBVIOUS
  <2>14. RestoreTabs(x, o, now, opn, h, sel) BY <2>1, <2>10, <2>11, <2>12, <2>13
  <2> QED BY <2>9, <2>14, RestoreTabsLimited
<1> QED BY <1>1, <1>2 DEF RestoreWindow

\* The steps of the API that restore one tab.
LEMMA RestoreOneLimited ==
  ASSUME ss \in Limited, NEW t \in Tabs,
         DuplicateTab(t) \/ UndoCloseTab(t) \/ SetTabState(t)
  PROVE  ss' \in Limited
<1>1. PICK x \in Limited, tabs \in Seq(Tabs) : x = ss /\ tabs = <<t>>
  <2>1. <<t>> \in Seq(Tabs) OBVIOUS
  <2>2. PICK tabs \in Seq(Tabs) : tabs = <<t>> BY <2>1, Zenon
  <2> QED BY <2>2
<1>2. PICK now, opn, hid, sel : now \in BOOLEAN /\ RestoreTabs(x, tabs, now, opn, hid, sel)
  <2>1. CASE DuplicateTab(t)
    <3>1. RestoreTabs(ss, <<t>>, TRUE, open', hidden, selected) BY <2>1 DEF DuplicateTab
    <3>2. PICK now \in BOOLEAN : now = TRUE OBVIOUS
    <3>3. RestoreTabs(x, tabs, now, open', hidden, selected) BY <1>1, <3>1, <3>2
    <3> QED BY <3>3
  <2>2. CASE UndoCloseTab(t)
    <3>1. RestoreTabs(ss, <<t>>, FALSE, open', hidden, selected') BY <2>2 DEF UndoCloseTab
    <3>2. PICK now \in BOOLEAN : now = FALSE OBVIOUS
    <3>3. RestoreTabs(x, tabs, now, open', hidden, selected') BY <1>1, <3>1, <3>2
    <3> QED BY <3>3
  <2>3. CASE SetTabState(t)
    <3>1. RestoreTabs(ss, <<t>>, FALSE, open, hidden, selected) BY <2>3 DEF SetTabState
    <3>2. PICK now \in BOOLEAN : now = FALSE OBVIOUS
    <3>3. RestoreTabs(x, tabs, now, open, hidden, selected) BY <1>1, <3>1, <3>2
    <3> QED BY <3>3
  <2> QED BY <2>1, <2>2, <2>3
<1> QED BY <1>2, RestoreTabsLimited

\* and so do the end of a load,
LEMMA LoadStopsLimited ==
  ASSUME ss \in Limited, NEW t \in Tabs, LoadStops(t)
  PROVE  ss' \in Limited
<1>1. PICK loaded \in BOOLEAN :
       LET x == [ss EXCEPT !.loads = @ \ {t},
                           !.data = IF loaded /\ ss.st[t] # "needs" THEN @ \ {t} ELSE @]
       IN IF ss.st[t] = "restoring" /\ Home[t] \in ss.on
          THEN ss' \in RestoreNext(Reset(x, t, hidden), hidden)
          ELSE ss' = x
  BY DEF LoadStops
<1>2. PICK u \in Limited : u = ss OBVIOUS
<1>3. u \in Recs BY DEF Limited
<1>4. PICK data \in SUBSET Tabs :
        data = IF loaded /\ u.st[t] # "needs" THEN u.data \ {t} ELSE u.data
  BY <1>3 DEF Recs
<1>5. PICK x : x = [u EXCEPT !.loads = @ \ {t}, !.data = data] OBVIOUS
<1>6. x \in Recs /\ x.st = u.st /\ x.count = u.count /\ x.asked = u.asked
  BY <1>3, <1>5 DEF Recs
<1>7. x \in Limited BY <1>6, SameLimited
<1>8. ss' \in RestoreNext(Reset(x, t, hidden), hidden) \/ ss' = x
  BY <1>1, <1>2, <1>4, <1>5
<1>9. RestoreNext(Reset(x, t, hidden), hidden) \subseteq Limited
  BY <1>7, ResetLimited, RestoreNextLimited
<1> QED BY <1>7, <1>8, <1>9

\* a tab that is closed,
LEMMA CloseTabLimited ==
  ASSUME ss \in Limited, NEW t \in Tabs, CloseTab(t)
  PROVE  ss' \in Limited
<1>1. PICK x \in RemoveTab(ss, t, hidden) :
        \/ ss' = x
        \/ \E u \in TabsOf(Home[t]) : ss' \in Selected(x, u, hidden)
  BY DEF CloseTab
<1>2. x \in Limited
  <2>1. RemoveTab(ss, t, hidden) \subseteq Limited BY RemoveTabLimited
  <2> QED BY <2>1
<1>3. \A u \in TabsOf(Home[t]) : Selected(x, u, hidden) \subseteq Limited
  BY <1>2, SelectedLimited DEF TabsOf
<1> QED BY <1>1, <1>2, <1>3

\* shown,
LEMMA ShowTabLimited ==
  ASSUME ss \in Limited, NEW t \in Tabs, ShowTab(t)
  PROVE  ss' \in Limited
<1>1. PICK u, hid : u \in Limited /\ u = ss /\ hid = hidden'
  <2>1. PICK u \in Limited : u = ss OBVIOUS
  <2> QED BY <2>1
<1>2. u \in Limited BY <1>1
<1>3. u \in Recs BY <1>2 DEF Limited
<1>4. CASE ss.st[t] = "needs" /\ t \in ToSet(ss.queue.hidden)
  <2>1. PICK y \in Recs : y = [u EXCEPT !.queue.hidden = RemoveFirst(@, t),
                                        !.queue.visible = Append(@, t)]
    BY <1>1, <1>3, <1>4, MovedTyped
  <2>2. y.st = u.st /\ y.count = u.count /\ y.asked = u.asked BY <1>3, <2>1 DEF Recs
  <2>3. y \in Limited BY <1>2, <2>2, SameLimited
  <2>4. ss' \in RestoreNext(y, hid) BY <1>1, <1>4, <2>1 DEF ShowTab
  <2>5. RestoreNext(y, hid) \subseteq Limited BY <2>3, RestoreNextLimited
  <2> QED BY <2>4, <2>5
<1>5. CASE ~(ss.st[t] = "needs" /\ t \in ToSet(ss.queue.hidden))
  BY <1>5 DEF ShowTab
<1> QED BY <1>4, <1>5

\* hidden,
LEMMA HideTabLimited ==
  ASSUME ss \in Limited, NEW t \in Tabs, HideTab(t)
  PROVE  ss' \in Limited
<1>1. PICK u \in Limited : u = ss OBVIOUS
<1>2. u \in Recs BY DEF Limited
<1>3. CASE ss.st[t] = "needs" /\ t \in ToSet(ss.queue.visible)
  <2>1. PICK y \in Recs : y = [u EXCEPT !.queue.visible = RemoveFirst(@, t),
                                        !.queue.hidden = Append(@, t)]
    BY <1>1, <1>2, <1>3, MovedTyped
  <2>2. y.st = u.st /\ y.count = u.count /\ y.asked = u.asked BY <1>2, <2>1 DEF Recs
  <2>3. y \in Limited BY <2>2, SameLimited
  <2>4. ss' = y BY <1>1, <1>3, <2>1 DEF HideTab
  <2> QED BY <2>3, <2>4
<1>4. CASE ~(ss.st[t] = "needs" /\ t \in ToSet(ss.queue.visible))
  BY <1>4 DEF HideTab
<1> QED BY <1>3, <1>4

\* reloaded or selected,
LEMMA ReloadTabLimited ==
  ASSUME ss \in Limited, NEW t \in Tabs, ReloadTab(t) \/ SelectTab(t)
  PROVE  ss' \in Limited
<1>1. Restore(ss, t, "asked", hidden) \subseteq Limited BY RestoreLimited
<1>2. Selected(ss, t, hidden) \subseteq Limited BY SelectedLimited
<1> QED BY <1>1, <1>2 DEF ReloadTab, SelectTab

\* and the timeout of restoreHistory.
LEMMA ContinueHistoryLimited ==
  ASSUME Typed, ss \in Limited, ContinueHistory
  PROVE  ss' \in Limited
<1>1. PICK i \in DOMAIN chains :
        \E o \in RestoreHistory(ss, chains[i], open, hidden, selected) : ss' = o[1]
  BY DEF ContinueHistory
<1>2. PICK call \in Calls : call = chains[i]
  <2>1. chains[i] \in Calls BY LenProperties DEF Typed
  <2> QED BY <2>1
<1>3. PICK x, opn, hid, sel :
        /\ x \in Limited
        /\ x = ss /\ opn = open /\ hid = hidden /\ sel = selected
  <2>1. PICK x \in Limited : x = ss OBVIOUS
  <2> QED BY <2>1
<1>4. x \in Limited BY <1>3
<1>5. PICK o \in RestoreHistory(x, call, opn, hid, sel) : ss' = o[1]
  BY <1>1, <1>2, <1>3
<1>6. o[1] \in Limited BY <1>4, RestoreHistoryLimited
<1> QED BY <1>5, <1>6

\* The other steps of windows, and the end of the saved data.
LEMMA WindowsLimited ==
  ASSUME ss \in Limited, PurgeHistory \/ \E w \in Windows : CloseWindow(w) \/ OpenWindow(w)
  PROVE  ss' \in Limited
<1>1. ss \in Recs BY DEF Limited
<1>2. CASE PurgeHistory
  <2>1. PICK u \in Recs : u = ss BY <1>1
  <2>2. PICK y : y = [u EXCEPT !.data = {}] OBVIOUS
  <2>3. y \in Recs /\ y.st = u.st /\ y.count = u.count /\ y.asked = u.asked
    BY <2>1, <2>2 DEF Recs
  <2>4. y \in Limited BY <2>1, <2>3, SameLimited
  <2>5. ResetEach(y, open) \in Limited BY <2>4, ResetEachLimited
  <2> QED BY <1>2, <2>1, <2>2, <2>5 DEF PurgeHistory
<1>3. ASSUME NEW w \in Windows, CloseWindow(w) PROVE ss' \in Limited
  <2>1. PICK ws : ws = {w} OBVIOUS
  <2>2. Closed(ss, ws) \subseteq Limited BY ClosedLimited
  <2> QED BY <1>3, <2>1, <2>2 DEF CloseWindow
<1>4. ASSUME NEW w \in Windows, OpenWindow(w) PROVE ss' \in Limited
  <2>1. PICK u \in Recs : u = ss BY <1>1
  <2>2. PICK y : y = [u EXCEPT !.left[w] = Unset, !.on = @ \ {w}] OBVIOUS
  <2>3. y \in Recs /\ y.st = u.st /\ y.count = u.count /\ y.asked = u.asked
    BY <2>1, <2>2 DEF Recs
  <2>4. y \in Limited BY <2>1, <2>3, SameLimited
  <2> QED BY <1>4, <2>1, <2>2, <2>4 DEF OpenWindow
<1> QED BY <1>2, <1>3, <1>4

\* The inductive invariant.
LimitInv == Typed /\ ss \in Limited /\ (Patient => CalmInv)

\* The invariant holds at the start,
LEMMA LimitInit == Init => LimitInv
<1> SUFFICES ASSUME Init PROVE LimitInv OBVIOUS
<1>1. Typed /\ CalmInv BY TypedInit, CalmInvInit
<1>2. PICK x \in Recs : x = ss BY <1>1 DEF Typed
<1>3. x.st = [t \in Tabs |-> "none"] /\ x.count = 0 BY <1>2 DEF Init
<1>4. RestoringIn(x) = {} BY <1>3 DEF RestoringIn
<1>5. RestoringIn(x) \ x.asked = {} BY <1>4
<1>6. Cardinality(RestoringIn(x)) = 0 /\ Cardinality(RestoringIn(x) \ x.asked) = 0
  BY <1>4, <1>5, FS_EmptySet
<1>7. 0 <= MaxConcurrent BY ConstantsAssumption
<1>8. x \in Limited BY <1>3, <1>6, <1>7 DEF Limited
<1> QED BY <1>1, <1>2, <1>8 DEF LimitInv

\* and every step keeps it.
LEMMA LimitNext == ASSUME Bounded, LimitInv, [Next]_vars PROVE LimitInv'
<1>1. Typed /\ ss \in Limited /\ (Patient => CalmInv) BY DEF LimitInv
<1>2. Typed' BY <1>1, TypedNext
<1>3. (Patient => CalmInv)' BY <1>1, CalmNext DEF Patient
<1>4. ss' \in Limited
  <2>1. ASSUME NEW w \in Windows, RestoreWindow(w) \/ SetBrowserState(w)
        PROVE  ss' \in Limited
    BY <1>1, <2>1, RestoreWindowLimited, SetBrowserStateLimited
  <2>2. ASSUME NEW w \in Windows, CloseWindow(w) \/ OpenWindow(w)
        PROVE  ss' \in Limited
    BY <1>1, <2>2, WindowsLimited
  <2>3. ASSUME NEW t \in Tabs,
               \/ LoadStops(t) \/ SelectTab(t) \/ CloseTab(t)
               \/ ShowTab(t) \/ HideTab(t) \/ ReloadTab(t)
        PROVE  ss' \in Limited
    BY <1>1, <2>3, LoadStopsLimited, ReloadTabLimited, CloseTabLimited, ShowTabLimited,
       HideTabLimited
  <2>4. ASSUME NEW t \in Tabs, DuplicateTab(t) \/ UndoCloseTab(t) \/ SetTabState(t)
        PROVE  ss' \in Limited
    BY <1>1, <2>4, RestoreOneLimited
  <2>5. ASSUME ContinueHistory \/ PurgeHistory PROVE ss' \in Limited
    BY <1>1, <2>5, ContinueHistoryLimited, WindowsLimited
  <2>6. ASSUME Quit \/ UNCHANGED vars PROVE ss' \in Limited
    <3>1. ss' = ss BY <2>6 DEF Quit, vars
    <3> QED BY <1>1, <3>1
  <2> QED BY <2>1, <2>2, <2>3, <2>4, <2>5, <2>6 DEF Next
<1> QED BY <1>2, <1>3, <1>4 DEF LimitInv

\* No more than max_concurrent_tabs tabs load at a time besides those somebody
\* asked for.  This holds for an impatient user and every other operation of the
\* API, wrong as the counter may be then; setBrowserState is all right if nothing
\* happens behind its back (restoreNextTab).
THEOREM LimitKept ==
  ASSUME "setBrowserState" \notin Requests \/ (~Hasty /\ Requests \subseteq {"setBrowserState"})
  PROVE  Spec => []ConcurrencyLimit
<1>1. Bounded BY DEF Bounded, Patient
<1>2. LimitInv /\ [Next]_vars => LimitInv' BY <1>1, LimitNext
<1>3. LimitInv => ConcurrencyLimit
  BY DEF LimitInv, Limited, ConcurrencyLimit, Restoring, RestoringIn
<1> QED BY <1>2, <1>3, LimitInit, PTL DEF Spec
=============================================================================
