---------------------------- MODULE FullZoom_proofs ----------------------------
(***************************************************************************)
(* Page zoom, for any number of tabs, sites and steps: types, that every   *)
(* location change is answered once, that no read of an earlier page or    *)
(* before a zoom of the user sets the zoom of a tab, and that the selected *)
(* tab ends up at the zoom that is stored.                                 *)
(*                                                                         *)
(* The functions of FullZoom work on records of four variables.  What each *)
(* of them does to the three things that matter (what is still due to each *)
(* tab, the tokens, and the zoom of other tabs) is a lemma of its own; the *)
(* actions are put together from these.                                    *)
(***************************************************************************)
EXTENDS FullZoom, FiniteSetTheorems, TLAPS

Kinds == {"location", "site", "global", "reset", "set", "remove"}
Values == Int \cup {None}
Accesses ==
  [kind : Kinds, browser : Browsers \cup {None}, site : Groups, value : Values,
   notify : BOOLEAN, current : BOOLEAN, turn : Nat]
Globals == Zooms \cup {None, Unread}
States ==
  [zoom : [Browsers -> Zooms], queue : Seq(Accesses), soon : [Browsers -> Nat],
   global : Globals]

TypeInv ==
  /\ site \in [Browsers -> Groups] /\ synthetic \subseteq Browsers
  /\ open \subseteq Browsers /\ selected \in Browsers
  /\ State \in States
  /\ inited \in BOOLEAN /\ initial \subseteq Browsers /\ missed \subseteq Browsers
  /\ siteSpecific \in BOOLEAN /\ updateBackground \in BOOLEAN /\ internal \in BOOLEAN
  /\ stored \in [Groups -> Values] /\ known \subseteq Groups
  /\ unanswered \in [Browsers -> Int] /\ turns \in [Browsers -> Nat]
  /\ overlooked \subseteq Groups /\ steps \in Nat /\ flips \in Nat

-----------------------------------------------------------------------------
\* What is due: the accesses of a queue that will notify for a tab, and the
\* notifications that are dispatched.

Answering(q, b) == {i \in DOMAIN q : q[i].browser = b /\ q[i].notify}
Due(st, b) == st.soon[b] + Cardinality(Answering(st.queue, b))
One(p) == IF p THEN 1 ELSE 0

\* The reads of a queue that are current have the turn of their tab.
Fresh(q, tn) ==
  \A i \in DOMAIN q : ~Change(q[i]) /\ q[i].current
                        => q[i].browser \in Browsers /\ q[i].turn = tn[q[i].browser]

\* Reads are for a tab, those of a location change notify, those of a changed
\* preference and changes do not.
Proper(a) ==
  /\ ~Change(a) => a.browser \in Browsers
  /\ a.kind = "location" => a.notify
  /\ a.kind = "site" \/ Change(a) => ~a.notify
AllProper(q) == \A i \in DOMAIN q : Proper(q[i])

LEMMA EnsureValidType ==
  ASSUME NEW v \in Values PROVE EnsureValid(v) \in Zooms
BY ConstantsAssumption DEF EnsureValid, Values, Zooms

LEMMA AnsweringFinite ==
  ASSUME NEW q \in Seq(Accesses), NEW b
  PROVE  IsFiniteSet(Answering(q, b)) /\ Cardinality(Answering(q, b)) \in Nat
<1>1. DOMAIN q = 1..Len(q) /\ Len(q) \in Nat
  OBVIOUS
<1>2. IsFiniteSet(1..Len(q))
  BY <1>1, FS_Interval
<1>3. Answering(q, b) \in SUBSET (1..Len(q))
  BY <1>1 DEF Answering
<1> QED
  BY <1>2, <1>3, FS_Subset, FS_CardinalityType

\* A posted access adds what it is to notify.
LEMMA AnsweringAppend ==
  ASSUME NEW q \in Seq(Accesses), NEW a \in Accesses, NEW b
  PROVE  Cardinality(Answering(Append(q, a), b))
           = Cardinality(Answering(q, b)) + One(a.browser = b /\ a.notify)
<1> DEFINE r == Append(q, a)
           n == Len(q) + 1
<1>1. /\ DOMAIN r = DOMAIN q \cup {n} /\ n \notin DOMAIN q /\ r[n] = a
      /\ \A i \in DOMAIN q : r[i] = q[i]
  OBVIOUS
<1>2. CASE a.browser = b /\ a.notify
  <2>1. Answering(r, b) = Answering(q, b) \cup {n} /\ n \notin Answering(q, b)
    BY <1>1, <1>2 DEF Answering
  <2>2. IsFiniteSet(Answering(q, b))
    BY AnsweringFinite
  <2>3. Cardinality(Answering(r, b)) = Cardinality(Answering(q, b)) + 1
    BY <2>1, <2>2, FS_AddElement
  <2>4. One(a.browser = b /\ a.notify) = 1
    BY <1>2 DEF One
  <2> QED
    BY <2>3, <2>4
<1>3. CASE ~(a.browser = b /\ a.notify)
  <2>1. Answering(r, b) = Answering(q, b)
    BY <1>1, <1>3 DEF Answering
  <2>2. One(a.browser = b /\ a.notify) = 0
    BY <1>3 DEF One
  <2>3. Cardinality(Answering(q, b)) \in Nat
    BY AnsweringFinite
  <2> QED
    BY <2>1, <2>2, <2>3
<1> QED
  BY <1>2, <1>3

\* An access that is served takes it away.
LEMMA AnsweringTail ==
  ASSUME NEW q \in Seq(Accesses), q # <<>>, NEW b
  PROVE  Cardinality(Answering(q, b))
           = Cardinality(Answering(Tail(q), b)) + One(Head(q).browser = b /\ Head(q).notify)
<1> DEFINE r == Tail(q)
           A == Answering(r, b)
           B == Answering(q, b) \ {1}
           f == [i \in A |-> i + 1]
<1>1. /\ r \in Seq(Accesses) /\ DOMAIN q = 1..Len(q) /\ Len(q) \in Nat \ {0}
      /\ DOMAIN r = 1..(Len(q) - 1) /\ Head(q) = q[1]
      /\ \A i \in DOMAIN r : r[i] = q[i + 1]
  OBVIOUS
<1>2. A \subseteq Nat /\ \A i \in A : i + 1 \in B
  BY <1>1 DEF Answering
<1>3. \A j \in B : j - 1 \in A /\ j \in Nat /\ j - 1 \in Nat
  <2> TAKE j \in B
  <2>1. j \in 2..Len(q) /\ q[j].browser = b /\ q[j].notify
    BY <1>1 DEF Answering
  <2>2. j - 1 \in DOMAIN r /\ r[j - 1] = q[j]
    BY <1>1, <2>1
  <2> QED
    BY <2>1, <2>2 DEF Answering
<1>4. f \in Bijection(A, B)
  <2>1. f \in [A -> B]
    BY <1>2
  <2>2. \A i, j \in A : f[i] = f[j] => i = j
    BY <1>2
  <2>3. \A j \in B : \E i \in A : f[i] = j
    BY <1>2, <1>3
  <2> QED
    BY <2>1, <2>2, <2>3 DEF Bijection, Injection, Surjection, IsInjective
<1>5. ExistsBijection(A, B)
  BY <1>4 DEF ExistsBijection
<1>6. Cardinality(B) = Cardinality(A) /\ IsFiniteSet(A)
  BY <1>1, <1>5, AnsweringFinite, FS_Bijection
<1>7. IsFiniteSet(Answering(q, b)) /\ Cardinality(Answering(q, b)) \in Nat
      /\ Cardinality(A) \in Nat
  BY <1>1, AnsweringFinite
<1>8. Cardinality(B) = IF 1 \in Answering(q, b) THEN Cardinality(Answering(q, b)) - 1
                       ELSE Cardinality(Answering(q, b))
  BY <1>7, FS_RemoveElement
<1>9. 1 \in Answering(q, b) <=> Head(q).browser = b /\ Head(q).notify
  BY <1>1 DEF Answering
<1> QED
  BY <1>6, <1>7, <1>8, <1>9 DEF One

-----------------------------------------------------------------------------
\* The functions on states.

\* What a function on states keeps: types, what is due to every tab but for one
\* notification to b if p, what is posted, fresh tokens, and the zoom of other tabs.
Carries(st, new, b, p, tn) ==
  /\ new \in States
  /\ \A c \in Browsers : Due(new, c) = Due(st, c) + One(p /\ c = b)
  /\ Fresh(st.queue, tn) => Fresh(new.queue, tn)
  /\ AllProper(st.queue) => AllProper(new.queue)
  /\ \A c \in Browsers \ {b} : new.zoom[c] = st.zoom[c]
  /\ Len(new.queue) >= Len(st.queue)

LEMMA DueType ==
  ASSUME NEW st \in States, NEW b \in Browsers PROVE Due(st, b) \in Nat
<1>1. st.queue \in Seq(Accesses) /\ st.soon[b] \in Nat
  BY DEF States
<1> QED
  BY <1>1, AnsweringFinite DEF Due

LEMMA CarriesTwice ==
  ASSUME NEW st \in States, NEW mid, NEW new, NEW b \in Browsers, NEW p, NEW tn,
         Carries(st, mid, b, FALSE, tn), Carries(mid, new, b, p, tn)
  PROVE  Carries(st, new, b, p, tn)
<1>1. mid \in States /\ new \in States
  BY DEF Carries
<1>2. ASSUME NEW c \in Browsers PROVE Due(new, c) = Due(st, c) + One(p /\ c = b)
  <2>1. Due(mid, c) = Due(st, c) + 0 /\ Due(new, c) = Due(mid, c) + One(p /\ c = b)
    BY DEF Carries, One
  <2> QED
    BY <2>1, DueType
<1>3. Len(st.queue) \in Nat /\ Len(mid.queue) \in Nat /\ Len(new.queue) \in Nat
  BY <1>1 DEF States
<1> QED
  BY <1>1, <1>2, <1>3 DEF Carries

\* _ignorePendingZoomAccesses changes no more than tokens, to FALSE.
LEMMA IgnorePendingCarries ==
  ASSUME NEW st \in States, NEW b \in Browsers, NEW tn
  PROVE  /\ Carries(st, IgnorePending(st, b), b, FALSE, tn)
         /\ IgnorePending(st, b).zoom = st.zoom
<1> DEFINE q == st.queue
           r == [i \in DOMAIN q |-> [q[i] EXCEPT !.current = @ /\ q[i].browser # b]]
           new == IgnorePending(st, b)
<1>1. q \in Seq(Accesses) /\ DOMAIN q = 1..Len(q) /\ Len(q) \in Nat
      /\ \A i \in DOMAIN q : q[i] \in Accesses
  BY DEF States
<1>2. \A i \in DOMAIN q : [q[i] EXCEPT !.current = @ /\ q[i].browser # b] \in Accesses
  BY <1>1 DEF Accesses
<1>3. r \in Seq(Accesses) /\ DOMAIN r = DOMAIN q /\ Len(r) = Len(q)
  <2>1. r \in [1..Len(q) -> Accesses]
    BY <1>1, <1>2
  <2> QED
    BY <1>1, <2>1
<1>4. /\ new = [st EXCEPT !.queue = r]
      /\ new.queue = r /\ new.zoom = st.zoom /\ new.soon = st.soon /\ new.global = st.global
      /\ new \in States
  BY <1>3 DEF IgnorePending, States
<1>5. \A i \in DOMAIN q : /\ r[i].browser = q[i].browser /\ r[i].notify = q[i].notify
                          /\ r[i].kind = q[i].kind /\ r[i].turn = q[i].turn
                          /\ r[i].current => q[i].current
  BY <1>1 DEF Accesses
<1>6. \A c : Answering(r, c) = Answering(q, c)
  BY <1>3, <1>5 DEF Answering
<1>7. \A c \in Browsers : Due(new, c) = Due(st, c) + One(FALSE /\ c = b)
  <2> TAKE c \in Browsers
  <2>1. Due(new, c) = Due(st, c)
    BY <1>4, <1>6 DEF Due
  <2> QED
    BY <2>1, DueType DEF One
<1>8. Fresh(q, tn) => Fresh(r, tn)
  BY <1>3, <1>5 DEF Fresh, Change
<1>9. AllProper(q) => AllProper(r)
  <2>1. ASSUME NEW i \in DOMAIN q, Proper(q[i]) PROVE Proper(r[i])
    BY <1>5, <2>1 DEF Proper, Change
  <2> QED
    BY <1>3, <2>1 DEF AllProper
<1> QED
  BY <1>1, <1>3, <1>4, <1>7, <1>8, <1>9 DEF Carries

\* ... and so the tokens of b survive another turn of b.
LEMMA IgnorePendingTurns ==
  ASSUME NEW st \in States, NEW b \in Browsers, NEW tn, NEW new,
         \A c \in Browsers \ {b} : new[c] = tn[c],
         Fresh(st.queue, tn)
  PROVE  Fresh(IgnorePending(st, b).queue, new)
<1> DEFINE q == st.queue
           r == [i \in DOMAIN q |-> [q[i] EXCEPT !.current = @ /\ q[i].browser # b]]
<1>1. IgnorePending(st, b).queue = r /\ DOMAIN r = DOMAIN q
      /\ \A i \in DOMAIN q : q[i] \in Accesses
  BY DEF IgnorePending, States
<1>2. \A i \in DOMAIN q : /\ r[i].browser = q[i].browser
                          /\ r[i].kind = q[i].kind /\ r[i].turn = q[i].turn
                          /\ r[i].current => q[i].current /\ q[i].browser # b
  BY <1>1 DEF Accesses
<1>3. ASSUME NEW i \in DOMAIN q, ~Change(r[i]), r[i].current
      PROVE  r[i].browser \in Browsers /\ r[i].turn = new[r[i].browser]
  <2>1. ~Change(q[i]) /\ q[i].current /\ q[i].browser # b
    BY <1>2, <1>3 DEF Change
  <2>2. q[i].browser \in Browsers /\ q[i].turn = tn[q[i].browser]
    BY <2>1 DEF Fresh
  <2>3. q[i].browser \in Browsers \ {b}
    BY <2>1, <2>2
  <2>4. new[q[i].browser] = tn[q[i].browser]
    BY <2>3
  <2> QED
    BY <1>2, <2>2, <2>4
<1>4. Fresh(r, new)
  BY <1>1, <1>3 DEF Fresh
<1> QED
  BY <1>1, <1>4

LEMMA SoonCarries ==
  ASSUME NEW st \in States, NEW b \in Browsers, NEW p \in BOOLEAN, NEW tn
  PROVE  /\ Carries(st, Soon(st, b, p), b, p, tn)
         /\ Soon(st, b, p).queue = st.queue /\ Soon(st, b, p).zoom = st.zoom
<1> DEFINE new == Soon(st, b, p)
<1>1. st.soon \in [Browsers -> Nat] /\ st.queue \in Seq(Accesses)
  BY DEF States
<1>2. /\ new \in States /\ new.queue = st.queue /\ new.zoom = st.zoom
      /\ \A c \in Browsers : new.soon[c] = st.soon[c] + One(p /\ c = b)
  <2>1. CASE p
    <3>1. new = [st EXCEPT !.soon[b] = @ + 1]
      BY <2>1 DEF Soon
    <3>2. [st.soon EXCEPT ![b] = @ + 1] \in [Browsers -> Nat]
      BY <1>1
    <3>3. /\ new \in States /\ new.queue = st.queue /\ new.zoom = st.zoom
          /\ \A c \in Browsers : new.soon[c] = IF c = b THEN st.soon[c] + 1 ELSE st.soon[c]
      BY <1>1, <3>1, <3>2 DEF States
    <3>4. ASSUME NEW c \in Browsers PROVE st.soon[c] \in Nat /\ One(p /\ c = b) = IF c = b THEN 1 ELSE 0
      BY <1>1, <2>1 DEF One
    <3> QED
      BY <3>3, <3>4
  <2>2. CASE ~p
    <3>1. new = st
      BY <2>2 DEF Soon
    <3>2. ASSUME NEW c \in Browsers PROVE st.soon[c] \in Nat /\ One(p /\ c = b) = 0
      BY <1>1, <2>2 DEF One
    <3> QED
      BY <3>1, <3>2
  <2> QED
    BY <2>1, <2>2
<1>3. ASSUME NEW c \in Browsers PROVE Due(new, c) = Due(st, c) + One(p /\ c = b)
  <2>1. st.soon[c] \in Nat /\ Cardinality(Answering(st.queue, c)) \in Nat
        /\ One(p /\ c = b) \in Nat
    BY <1>1, AnsweringFinite DEF One
  <2> QED
    BY <1>2, <2>1 DEF Due
<1>4. Len(st.queue) \in Nat
  BY <1>1
<1> QED
  BY <1>2, <1>3, <1>4 DEF Carries

LEMMA PostCarries ==
  ASSUME NEW st \in States, NEW b \in Browsers, NEW a \in Accesses, NEW p, NEW tn,
         a.notify = p, ~p \/ a.browser = b, Proper(a),
         Change(a) \/ (a.browser = b /\ a.turn = tn[b])
  PROVE  /\ Carries(st, Post(st, a), b, p, tn)
         /\ Post(st, a).zoom = st.zoom
<1> DEFINE q == st.queue
           new == Post(st, a)
<1>1. st.soon \in [Browsers -> Nat] /\ q \in Seq(Accesses)
  BY DEF States
<1>2. /\ new \in States /\ new.queue = Append(q, a) /\ new.zoom = st.zoom
      /\ new.soon = st.soon
  <2>1. Append(q, a) \in Seq(Accesses)
    BY <1>1
  <2> QED
    BY <2>1 DEF Post, States
<1>3. ASSUME NEW c \in Browsers PROVE Due(new, c) = Due(st, c) + One(p /\ c = b)
  <2>1. st.soon[c] \in Nat /\ Cardinality(Answering(q, c)) \in Nat
    BY <1>1, AnsweringFinite
  <2>2. Cardinality(Answering(new.queue, c))
          = Cardinality(Answering(q, c)) + One(a.browser = c /\ a.notify)
    BY <1>1, <1>2, AnsweringAppend
  <2>3. One(a.browser = c /\ a.notify) = One(p /\ c = b) /\ One(p /\ c = b) \in Nat
    BY DEF One
  <2> QED
    BY <1>2, <2>1, <2>2, <2>3 DEF Due
<1>4. /\ DOMAIN Append(q, a) = DOMAIN q \cup {Len(q) + 1}
      /\ Append(q, a)[Len(q) + 1] = a /\ Len(Append(q, a)) = Len(q) + 1
      /\ \A i \in DOMAIN q : Append(q, a)[i] = q[i]
  BY <1>1
<1>5. (Fresh(q, tn) => Fresh(new.queue, tn)) /\ (AllProper(q) => AllProper(new.queue))
  BY <1>2, <1>4 DEF Fresh, AllProper, Proper
<1> QED
  BY <1>2, <1>3, <1>4, <1>5 DEF Carries

LEMMA ZoomCarries ==
  ASSUME NEW st \in States, NEW b \in Browsers, NEW v \in Zooms, NEW tn
  PROVE  /\ Carries(st, [st EXCEPT !.zoom[b] = v], b, FALSE, tn)
         /\ [st EXCEPT !.zoom[b] = v].queue = st.queue
<1> DEFINE mid == [st EXCEPT !.zoom[b] = v]
<1>1. /\ mid \in States /\ mid.queue = st.queue /\ mid.soon = st.soon
      /\ \A c \in Browsers \ {b} : mid.zoom[c] = st.zoom[c]
  BY DEF States
<1>2. Carries(st, mid, b, FALSE, tn)
  <2>1. \A c \in Browsers : Due(mid, c) = Due(st, c)
    BY <1>1 DEF Due
  <2>2. Len(st.queue) \in Nat
    BY DEF States
  <2> QED
    BY <1>1, <2>1, <2>2, DueType DEF Carries, One
<1> QED
  BY <1>1, <1>2

\* A global value that is read changes nothing else.
LEMMA GlobalCarries ==
  ASSUME NEW st \in States, NEW b \in Browsers, NEW g \in Globals, NEW tn
  PROVE  /\ Carries(st, [st EXCEPT !.global = g], b, FALSE, tn)
         /\ [st EXCEPT !.global = g].zoom = st.zoom
<1> DEFINE mid == [st EXCEPT !.global = g]
<1>1. mid \in States /\ mid.queue = st.queue /\ mid.soon = st.soon /\ mid.zoom = st.zoom
  BY DEF States
<1>2. \A c \in Browsers : Due(mid, c) = Due(st, c)
  BY <1>1 DEF Due
<1>3. Len(st.queue) \in Nat
  BY DEF States
<1> QED
  BY <1>1, <1>2, <1>3, DueType DEF Carries, One

LEMMA CarriesNothing ==
  ASSUME NEW st \in States, NEW b \in Browsers, NEW tn
  PROVE  Carries(st, st, b, FALSE, tn)
<1>1. Len(st.queue) \in Nat
  BY DEF States
<1> QED
  BY <1>1, DueType DEF Carries, One

LEMMA SetZoomCarries ==
  ASSUME NEW st \in States, NEW b \in Browsers, NEW v \in Zooms, NEW tn
  PROVE  Carries(st, SetZoom(st, b, v), b, FALSE, tn)
<1> DEFINE mid == [st EXCEPT !.zoom[b] = v]
<1>1. Carries(st, mid, b, FALSE, tn)
  BY ZoomCarries
<1>2. mid \in States
  BY <1>1 DEF Carries
<1>3. Carries(mid, SetZoom(st, b, v), b, FALSE, tn)
  BY <1>2, IgnorePendingCarries DEF SetZoom
<1> HIDE DEF mid
<1> QED
  BY <1>1, <1>3, CarriesTwice

LEMMA AccessType ==
  ASSUME NEW k \in Kinds, NEW b \in Browsers, NEW g \in Groups, NEW v \in Values,
         NEW p \in BOOLEAN, turns' \in [Browsers -> Nat]
  PROVE  LET a == Access(k, b, g, v, p)
         IN /\ a \in Accesses /\ a.kind = k /\ a.browser = b /\ a.notify = p
            /\ a.turn = turns'[b]
BY DEF Access, Accesses

LEMMA GlobalZoomType ==
  ASSUME NEW g \in Globals, g # Unread PROVE GlobalZoom(g) \in Zooms
BY ConstantsAssumption DEF GlobalZoom, Globals

LEMMA ApplyPrefCarries ==
  ASSUME NEW st \in States, NEW v \in Values, NEW b \in Browsers, NEW p \in BOOLEAN,
         turns' \in [Browsers -> Nat]
  PROVE  Carries(st, ApplyPref(st, v, b, p), b, p, turns')
<1> DEFINE done == ApplyPref(st, v, b, p)
           tn == turns'
<1>1. CASE done = Soon(st, b, p)
  BY <1>1, SoonCarries
<1>2. ASSUME NEW z \in Zooms, done = Soon(SetZoom(st, b, z), b, p)
      PROVE  Carries(st, done, b, p, tn)
  <2>1. Carries(st, SetZoom(st, b, z), b, FALSE, tn)
    BY SetZoomCarries
  <2>2. SetZoom(st, b, z) \in States
    BY <2>1 DEF Carries
  <2>3. Carries(SetZoom(st, b, z), done, b, p, tn)
    BY <1>2, <2>2, SoonCarries
  <2> HIDE DEF done, tn
  <2> QED
    BY <2>1, <2>3, CarriesTwice
<1>3. CASE done = Post(st, Access("global", b, Global, None, p))
  <2> DEFINE a == Access("global", b, Global, None, p)
  <2>1. "global" \in Kinds /\ Global \in Groups /\ None \in Values
    BY DEF Kinds, Groups, Values
  <2>2. /\ a \in Accesses /\ a.kind = "global" /\ a.browser = b /\ a.notify = p
        /\ a.turn = tn[b]
    BY <2>1, AccessType
  <2>3. Proper(a)
    BY <2>2 DEF Proper, Change
  <2> HIDE DEF a
  <2> QED
    BY <1>3, <2>2, <2>3, PostCarries DEF a
<1>4. CASE done = Soon(SetZoom(st, b, EnsureValid(v)), b, p)
  BY <1>2, <1>4, EnsureValidType
<1>5. CASE done = Soon(SetZoom(st, b, GlobalZoom(st.global)), b, p) /\ st.global # Unread
  <2>1. GlobalZoom(st.global) \in Zooms
    BY <1>5, GlobalZoomType DEF States
  <2> QED
    BY <1>2, <1>5, <2>1
<1> QED
  BY <1>1, <1>3, <1>4, <1>5 DEF ApplyPref

-----------------------------------------------------------------------------
\* The invariant.

\* Before init nobody reads.
NoReads == inited \/ \A i \in DOMAIN queue : Change(queue[i])

IInv ==
  /\ TypeInv
  /\ AnsweredOnce
  /\ Fresh(queue, turns)
  /\ AllProper(queue)
  /\ NoReads

\* The part of it the functions on states keep.
Counted ==
  /\ State \in States
  /\ unanswered \in [Browsers -> Int]
  /\ turns \in [Browsers -> Nat]
  /\ AnsweredOnce
  /\ Fresh(queue, turns)
  /\ AllProper(queue)

LEMMA StateFields ==
  State.zoom = zoom /\ State.queue = queue /\ State.soon = soon /\ State.global = global
BY DEF State

LEMMA BecomesState ==
  ASSUME NEW new \in States, Becomes(new)
  PROVE  State' = new
BY DEF States, Becomes, State

LEMMA AnsweredIsDue ==
  AnsweredOnce <=> \A b \in Browsers : unanswered[b] = Due(State, b)
BY StateFields DEF AnsweredOnce, Answers, Due, Answering

LEMMA AnsweredIsDueNext ==
  AnsweredOnce' <=> \A b \in Browsers : unanswered'[b] = Due(State', b)
BY DEF AnsweredOnce, Answers, Due, Answering, State

\* A step that carries the state on, with or without a location change.
LEMMA CarriesOn ==
  ASSUME Counted, NEW b \in Browsers, NEW new, Becomes(new),
         Carries(State, new, b, FALSE, turns'), unanswered' = unanswered,
         turns' \in [Browsers -> Nat], Fresh(new.queue, turns')
  PROVE  Counted' /\ Len(queue') >= Len(queue)
<1>1. new \in States /\ State' = new
  BY BecomesState DEF Carries
<1>2. ASSUME NEW c \in Browsers PROVE unanswered'[c] = Due(State', c)
  <2>1. Due(new, c) = Due(State, c) + 0 /\ unanswered[c] = Due(State, c)
    BY AnsweredIsDue DEF Counted, Carries, One
  <2> QED
    BY <1>1, <2>1, DueType DEF Counted
<1>3. /\ AllProper(new.queue) /\ queue' = new.queue
      /\ Len(new.queue) >= Len(queue)
  BY StateFields DEF Counted, Carries, Becomes
<1> QED
  BY <1>1, <1>2, <1>3, AnsweredIsDueNext DEF Counted

LEMMA CarriesChange ==
  ASSUME Counted, NEW b \in Browsers, NEW new, Becomes(new),
         Carries(State, new, b, TRUE, turns'),
         unanswered' = [unanswered EXCEPT ![b] = @ + 1],
         turns' \in [Browsers -> Nat], Fresh(new.queue, turns')
  PROVE  Counted' /\ Len(queue') >= Len(queue)
<1>1. new \in States /\ State' = new
  BY BecomesState DEF Carries
<1>2. ASSUME NEW c \in Browsers PROVE unanswered'[c] = Due(State', c)
  <2>1. Due(new, c) = Due(State, c) + (IF c = b THEN 1 ELSE 0) /\ unanswered[c] = Due(State, c)
    BY AnsweredIsDue DEF Counted, Carries, One
  <2> QED
    BY <1>1, <2>1, DueType DEF Counted
<1>3. /\ AllProper(new.queue) /\ queue' = new.queue
      /\ Len(new.queue) >= Len(queue)
  BY StateFields DEF Counted, Carries, Becomes
<1>4. unanswered' \in [Browsers -> Int]
  BY DEF Counted
<1> QED
  BY <1>1, <1>2, <1>3, <1>4, AnsweredIsDueNext DEF Counted

LEMMA NothingPosted ==
  ASSUME Counted, UNCHANGED <<zoom, queue, soon, global, unanswered>>,
         turns' \in [Browsers -> Nat], Fresh(queue, turns')
  PROVE  Counted' /\ Len(queue') >= Len(queue)
<1>1. Len(queue) \in Nat
  BY StateFields DEF Counted, States
<1>2. State' = State /\ queue' = queue /\ unanswered' = unanswered
  BY DEF State
<1>3. Fresh(queue', turns') /\ AllProper(queue')
  BY <1>2 DEF Counted
<1>4. AnsweredOnce'
  BY <1>2, AnsweredIsDue, AnsweredIsDueNext DEF Counted
<1> QED
  BY <1>1, <1>2, <1>3, <1>4 DEF Counted

-----------------------------------------------------------------------------
\* The actions of the window.

LEMMA LocationChangeCounted ==
  ASSUME TypeInv, Counted, NEW b \in Browsers, NEW t, LocationChange(b, t), inited,
         site'[b] \in Groups, turns' \in [Browsers -> Nat],
         \A c \in Browsers \ {b} : turns'[c] = turns[c]
  PROVE  Counted' /\ Len(queue') >= Len(queue)
<1> DEFINE quiet == IgnorePending(State, b)
           v == stored[site'[b]]
           a == Access("location", b, site'[b], None, TRUE)
           tn == turns'
<1>1. State \in States /\ Fresh(State.queue, turns)
  BY StateFields DEF Counted
<1>2. Carries(State, quiet, b, FALSE, tn) /\ quiet \in States
  BY <1>1, IgnorePendingCarries DEF Carries
<1>3. Fresh(quiet.queue, tn)
  <2>1. \A c \in Browsers \ {b} : tn[c] = turns[c]
    OBVIOUS
  <2> HIDE DEF tn
  <2> QED
    BY <1>1, <2>1, IgnorePendingTurns
<1>4. unanswered' = [unanswered EXCEPT ![b] = @ + 1]
  BY DEF LocationChange
<1>5. \E new : Becomes(new) /\ Carries(quiet, new, b, TRUE, tn)
  <2>1. CASE Becomes(Soon(quiet, b, TRUE))
    BY <1>2, <2>1, SoonCarries
  <2>2. CASE Becomes(ApplyPref(quiet, None, b, TRUE))
    BY <1>2, <2>2, ApplyPrefCarries DEF Values
  <2>3. CASE Becomes(Soon([quiet EXCEPT !.zoom[b] = 1], b, TRUE))
    <3> DEFINE mid == [quiet EXCEPT !.zoom[b] = 1]
    <3>1. Carries(quiet, mid, b, FALSE, tn) /\ mid \in States
      BY <1>2, ZoomCarries, ConstantsAssumption DEF Carries
    <3>2. Carries(mid, Soon(mid, b, TRUE), b, TRUE, tn)
      BY <3>1, SoonCarries
    <3> HIDE DEF mid
    <3>3. Carries(quiet, Soon(mid, b, TRUE), b, TRUE, tn)
      BY <1>2, <3>1, <3>2, CarriesTwice
    <3> QED
      BY <2>3, <3>3 DEF mid
  <2>4. CASE Becomes(ApplyPref(quiet, v, b, TRUE))
    <3>1. v \in Values
      BY DEF TypeInv
    <3> QED
      BY <1>2, <2>4, <3>1, ApplyPrefCarries
  <2>5. CASE Becomes(Post(quiet, a))
    <3>1. "location" \in Kinds /\ None \in Values
      BY DEF Kinds, Values
    <3>2. /\ a \in Accesses /\ a.kind = "location" /\ a.browser = b /\ a.notify = TRUE
          /\ a.turn = tn[b]
      BY <3>1 DEF Access, Accesses
    <3>3. Proper(a)
      BY <3>2 DEF Proper, Change
    <3> HIDE DEF a
    <3> QED
      BY <1>2, <2>5, <3>2, <3>3, PostCarries
  <2> QED
    BY <2>1, <2>2, <2>3, <2>4, <2>5 DEF LocationChange
<1>6. PICK new : Becomes(new) /\ Carries(quiet, new, b, TRUE, tn)
  BY <1>5
<1>7. Carries(State, new, b, TRUE, tn)
  <2> HIDE DEF quiet, tn
  <2> QED
    BY <1>1, <1>2, <1>6, CarriesTwice
<1>8. Fresh(new.queue, tn)
  BY <1>3, <1>6 DEF Carries
<1> QED
  BY <1>4, <1>6, <1>7, <1>8, CarriesChange

LEMMA NavigateCounted ==
  ASSUME IInv, NEW b \in Browsers, Navigate(b)
  PROVE  Counted' /\ Len(queue') >= Len(queue)
<1>1. TypeInv /\ Counted
  BY DEF IInv, TypeInv, Counted
<1>2. /\ turns' = [turns EXCEPT ![b] = @ + 1] /\ turns' \in [Browsers -> Nat]
      /\ \A c \in Browsers \ {b} : turns'[c] = turns[c]
  BY <1>1 DEF Navigate, Counted
<1>3. site'[b] \in Groups
  BY <1>1 DEF Navigate, TypeInv, Groups
<1>4. CASE inited
  BY <1>1, <1>2, <1>3, <1>4, LocationChangeCounted DEF Navigate
<1>5. CASE ~inited
  <2>1. Fresh(queue, turns')
    BY <1>5 DEF IInv, NoReads, Fresh
  <2>2. UNCHANGED <<zoom, queue, soon, global, unanswered>>
    BY <1>5, StateFields DEF Navigate, LocationChange, Becomes
  <2> QED
    BY <1>1, <1>2, <2>1, <2>2, NothingPosted
<1> QED
  BY <1>4, <1>5

LEMMA SelectCounted ==
  ASSUME IInv, NEW b \in Browsers, Select(b)
  PROVE  Counted' /\ Len(queue') >= Len(queue)
<1>1. TypeInv /\ Counted /\ Fresh(queue, turns)
  BY DEF IInv, TypeInv, Counted
<1>2. turns' = turns /\ turns' \in [Browsers -> Nat] /\ site'[b] \in Groups
  BY <1>1 DEF Select, Counted, TypeInv
<1>3. CASE updateBackground /\ inited
  BY <1>1, <1>2, <1>3, LocationChangeCounted DEF Select
<1>4. CASE ~(updateBackground /\ inited)
  <2>1. UNCHANGED <<zoom, queue, soon, global, unanswered>>
    BY <1>4, StateFields DEF Select, LocationChange, Becomes
  <2>2. Fresh(queue, turns')
    BY <1>1, <1>2
  <2> QED
    BY <1>1, <1>2, <2>1, <2>2, NothingPosted
<1> QED
  BY <1>3, <1>4

LEMMA ZoomByCounted ==
  ASSUME IInv, NEW v \in Zooms, ZoomBy(v)
  PROVE  Counted' /\ Len(queue') >= Len(queue)
<1> DEFINE b == selected
           mid == [State EXCEPT !.zoom[b] = v]
           set == SetZoom(State, b, v)
           a == Access("set", b, site[b], set.zoom[b], FALSE)
           new == ApplyZoomToPref(set, b)
           tn == turns'
<1>1. TypeInv /\ Counted /\ State \in States /\ b \in Browsers /\ Fresh(State.queue, turns)
  BY StateFields DEF IInv, TypeInv, Counted
<1>2. /\ tn \in [Browsers -> Nat] /\ unanswered' = unanswered /\ Becomes(new)
      /\ \A c \in Browsers \ {b} : tn[c] = turns[c]
  BY <1>1 DEF ZoomBy, Counted
<1>3. Carries(State, set, b, FALSE, tn) /\ set \in States
  BY <1>1, SetZoomCarries DEF Carries
<1>4. Fresh(set.queue, tn)
  <2>1. mid \in States /\ mid.queue = State.queue /\ set = IgnorePending(mid, b)
    BY <1>1, ZoomCarries DEF Carries, SetZoom
  <2>2. Fresh(mid.queue, turns)
    BY <1>1, <2>1
  <2>3. \A c \in Browsers \ {b} : tn[c] = turns[c]
    BY <1>2
  <2> HIDE DEF mid, set, tn
  <2>4. Fresh(IgnorePending(mid, b).queue, tn)
    BY <1>1, <2>1, <2>2, <2>3, IgnorePendingTurns
  <2> QED
    BY <2>1, <2>4
<1>5. CASE new = set
  BY <1>1, <1>2, <1>3, <1>4, <1>5, CarriesOn
<1>6. CASE new = Post(set, a)
  <2>1. set.zoom[b] \in Values /\ site[b] \in Groups /\ "set" \in Kinds
    BY <1>1, <1>3, ConstantsAssumption DEF States, Values, Zooms, TypeInv, Kinds
  <2>2. a \in Accesses /\ a.kind = "set" /\ a.notify = FALSE
    BY <1>1, <1>2, <2>1 DEF Access, Accesses
  <2>3. Proper(a) /\ Change(a)
    BY <2>2 DEF Proper, Change
  <2> HIDE DEF a, set, tn
  <2>4. Carries(set, Post(set, a), b, FALSE, tn)
    BY <1>1, <1>3, <2>2, <2>3, PostCarries
  <2>5. Carries(State, Post(set, a), b, FALSE, tn)
    BY <1>1, <1>3, <2>4, CarriesTwice
  <2>6. Fresh(Post(set, a).queue, tn)
    BY <1>4, <2>4 DEF Carries
  <2>7. Becomes(Post(set, a))
    BY <1>2, <1>6
  <2> QED
    BY <1>1, <1>2, <2>5, <2>6, <2>7, CarriesOn DEF tn
<1> QED
  BY <1>5, <1>6 DEF ApplyZoomToPref

LEMMA ResetCounted ==
  ASSUME IInv, Reset
  PROVE  Counted' /\ Len(queue') >= Len(queue)
<1> DEFINE b == selected
           r == Access("reset", b, Global, None, FALSE)
           a == Access("remove", b, site[b], None, FALSE)
           st == IF global = Unread THEN Post(State, r)
                 ELSE SetZoom(State, b, GlobalZoom(global))
           tn == turns'
<1>1. TypeInv /\ Counted /\ State \in States /\ b \in Browsers /\ Fresh(State.queue, turns)
  BY StateFields DEF IInv, TypeInv, Counted
<1>2. /\ tn = turns /\ tn \in [Browsers -> Nat] /\ unanswered' = unanswered
      /\ Becomes(IF b \in synthetic THEN st ELSE Post(st, a))
  BY <1>1 DEF Reset, Counted
<1>3. Carries(State, st, b, FALSE, tn)
  <2>1. CASE global = Unread
    <3>1. "reset" \in Kinds /\ Global \in Groups /\ None \in Values
      BY DEF Kinds, Groups, Values
    <3>2. r \in Accesses /\ r.kind = "reset" /\ r.browser = b /\ r.notify = FALSE /\ r.turn = tn[b]
      BY <1>1, <1>2, <3>1 DEF Access, Accesses
    <3>3. Proper(r)
      BY <1>1, <3>2 DEF Proper, Change
    <3> HIDE DEF r, tn
    <3>4. Carries(State, Post(State, r), b, FALSE, tn)
      BY <1>1, <3>2, <3>3, PostCarries
    <3> QED
      BY <2>1, <3>4
  <2>2. CASE global # Unread
    <3>1. GlobalZoom(global) \in Zooms
      BY <1>1, <2>2, GlobalZoomType, StateFields DEF States
    <3> QED
      BY <1>1, <2>2, <3>1, SetZoomCarries
  <2> QED
    BY <2>1, <2>2
<1>4. Carries(State, Post(st, a), b, FALSE, tn)
  <2>1. "remove" \in Kinds /\ site[b] \in Groups /\ None \in Values
    BY <1>1 DEF Kinds, TypeInv, Values
  <2>2. a \in Accesses /\ a.kind = "remove" /\ a.notify = FALSE
    BY <1>1, <1>2, <2>1 DEF Access, Accesses
  <2>3. Proper(a) /\ Change(a)
    BY <2>2 DEF Proper, Change
  <2>4. st \in States
    BY <1>3 DEF Carries
  <2> HIDE DEF a, st, tn
  <2>5. Carries(st, Post(st, a), b, FALSE, tn)
    BY <1>1, <2>2, <2>3, <2>4, PostCarries
  <2> QED
    BY <1>1, <1>3, <2>5, CarriesTwice
<1>5. PICK new : Becomes(new) /\ Carries(State, new, b, FALSE, tn)
  BY <1>2, <1>3, <1>4
<1>6. Fresh(new.queue, tn)
  BY <1>1, <1>2, <1>5 DEF Carries
<1> QED
  BY <1>1, <1>2, <1>5, <1>6, CarriesOn

LEMMA ChangeElsewhereCounted ==
  ASSUME IInv, NEW g \in Groups, NEW v \in Foreign, ChangeElsewhere(g, v)
  PROVE  Counted' /\ Len(queue') >= Len(queue)
<1> DEFINE a == [kind |-> IF v = None THEN "remove" ELSE "set",
                 browser |-> None, site |-> g, value |-> v,
                 notify |-> FALSE, current |-> FALSE, turn |-> 0]
           tn == turns'
<1>1. Counted /\ State \in States /\ selected \in Browsers /\ Fresh(State.queue, turns)
  BY StateFields DEF IInv, TypeInv, Counted
<1>2. /\ tn = turns /\ tn \in [Browsers -> Nat] /\ unanswered' = unanswered
      /\ queue' = Append(queue, a) /\ UNCHANGED <<zoom, soon, global>>
  BY <1>1 DEF ChangeElsewhere, Counted
<1>3. a \in Accesses /\ a.notify = FALSE /\ a.kind \in {"set", "remove"}
  BY ConstantsAssumption DEF Accesses, Kinds, Values
<1>4. Proper(a) /\ Change(a)
  BY <1>3 DEF Proper, Change
<1> HIDE DEF a
<1>5. Becomes(Post(State, a))
  BY <1>2 DEF Becomes, Post, State
<1>6. Carries(State, Post(State, a), selected, FALSE, tn)
  <2> HIDE DEF tn
  <2> QED
    BY <1>1, <1>3, <1>4, PostCarries
<1>7. Fresh(Post(State, a).queue, tn)
  BY <1>1, <1>2, <1>6 DEF Carries
<1> QED
  BY <1>1, <1>2, <1>5, <1>6, <1>7, CarriesOn

-----------------------------------------------------------------------------
\* The service.

\* The state without the access that is served.
Rest == [State EXCEPT !.queue = Tail(@)]

\* The access that is served leaves one answer less to come, and what it is to
\* do to a tab belongs to the present turn of the tab.
LEMMA Served ==
  ASSUME Counted, queue # <<>>
  PROVE  LET a == Head(queue) IN
         /\ a \in Accesses /\ Proper(a)
         /\ Rest \in States /\ Rest.queue = Tail(queue) /\ Rest.zoom = zoom
         /\ Fresh(Rest.queue, turns) /\ AllProper(Rest.queue)
         /\ \A c \in Browsers : Due(State, c) = Due(Rest, c) + One(a.browser = c /\ a.notify)
         /\ ~Change(a) /\ a.current => a.turn = turns[a.browser]
<1> DEFINE a == Head(queue)
<1>1. queue \in Seq(Accesses) /\ State \in States
  BY StateFields DEF Counted, States
<1>2. /\ a = queue[1] /\ 1 \in DOMAIN queue /\ a \in Accesses
      /\ Tail(queue) \in Seq(Accesses)
      /\ \A i \in DOMAIN Tail(queue) : i + 1 \in DOMAIN queue /\ Tail(queue)[i] = queue[i + 1]
  BY <1>1
<1>3. Rest \in States /\ Rest.queue = Tail(queue) /\ Rest.zoom = zoom /\ Rest.soon = soon
  BY <1>1, <1>2, StateFields DEF Rest, States
<1>4. Proper(a) /\ (~Change(a) /\ a.current => a.turn = turns[a.browser])
  BY <1>2 DEF Counted, AllProper, Fresh
<1>5. Fresh(Rest.queue, turns) /\ AllProper(Rest.queue)
  BY <1>2, <1>3 DEF Counted, AllProper, Fresh
<1>6. ASSUME NEW c \in Browsers
      PROVE  Due(State, c) = Due(Rest, c) + One(a.browser = c /\ a.notify)
  <2>1. Cardinality(Answering(queue, c))
          = Cardinality(Answering(Tail(queue), c)) + One(a.browser = c /\ a.notify)
    BY <1>1, AnsweringTail
  <2>2. Cardinality(Answering(Tail(queue), c)) \in Nat /\ soon[c] \in Nat
        /\ One(a.browser = c /\ a.notify) \in Nat
    BY <1>1, <1>2, AnsweringFinite, StateFields DEF States, One
  <2> QED
    BY <1>3, <2>1, <2>2, StateFields DEF Due
<1> QED
  BY <1>2, <1>3, <1>4, <1>5, <1>6

LEMMA ServedOn ==
  ASSUME Counted, queue # <<>>, NEW b \in Browsers, NEW p, NEW new, Becomes(new),
         Carries(Rest, new, b, p, turns), turns' = turns, unanswered' = unanswered,
         \A c \in Browsers :
           One(p /\ c = b) = One(Head(queue).browser = c /\ Head(queue).notify)
  PROVE  Counted'
<1>1. new \in States /\ State' = new /\ queue' = new.queue
  BY BecomesState DEF Carries, Becomes
<1>2. Rest \in States /\ Fresh(Rest.queue, turns) /\ AllProper(Rest.queue)
  BY Served
<1>3. Fresh(new.queue, turns) /\ AllProper(new.queue)
  BY <1>2 DEF Carries
<1>4. ASSUME NEW c \in Browsers PROVE unanswered'[c] = Due(State', c)
  <2>1. Due(new, c) = Due(Rest, c) + One(p /\ c = b)
    BY DEF Carries
  <2>2. Due(State, c) = Due(Rest, c) + One(Head(queue).browser = c /\ Head(queue).notify)
    BY Served
  <2>3. unanswered[c] = Due(State, c)
    BY AnsweredIsDue DEF Counted
  <2> QED
    BY <1>1, <2>1, <2>2, <2>3
<1> QED
  BY <1>1, <1>3, <1>4, AnsweredIsDueNext DEF Counted

\* A read that sets the zoom of a tab was posted for it in its present turn.
LEMMA ReadCounted ==
  ASSUME IInv, queue # <<>>, Read(Head(queue)),
         turns' = turns, unanswered' = unanswered
  PROVE  /\ Counted'
         /\ \A c \in Browsers : zoom'[c] # zoom[c] =>
              Head(queue).browser = c /\ Head(queue).turn = turns[c]
<1> DEFINE a == Head(queue)
           b == a.browser
           g == EnsureValid(stored[Global])
           read == [Rest EXCEPT !.global = g]
<1>1. Counted /\ TypeInv /\ turns' \in [Browsers -> Nat]
  BY DEF IInv, TypeInv, Counted
<1>2. /\ ~Change(a) /\ b \in Browsers /\ a.notify \in BOOLEAN
      /\ stored[a.site] \in Values /\ stored[Global] \in Values
  BY <1>1, Served DEF Read, Proper, Accesses, TypeInv, Groups
<1>3. Rest \in States /\ Rest.zoom = zoom
  BY <1>1, Served
\* What is left to show of each of the three reads.
<1>4. ASSUME NEW new, Becomes(new), Carries(Rest, new, b, a.notify, turns),
             Current(a) \/ new.zoom = zoom
      PROVE  /\ Counted'
             /\ \A c \in Browsers : zoom'[c] # zoom[c] => b = c /\ a.turn = turns[c]
  <2>1. \A c \in Browsers : One(a.notify /\ c = b) = One(a.browser = c /\ a.notify)
    BY DEF One
  <2>2. Counted'
    BY <1>1, <1>2, <1>4, <2>1, ServedOn
  <2>3. ASSUME NEW c \in Browsers, zoom'[c] # zoom[c] PROVE b = c /\ a.turn = turns[c]
    <3>1. b = c /\ Current(a)
      BY <1>3, <1>4, <2>3 DEF Carries, Becomes
    <3> QED
      BY <1>1, <1>2, <3>1, Served DEF Current
  <2> QED
    BY <2>2, <2>3
<1>5. CASE a.kind = "location" /\ Becomes(LocationRead(Rest, a))
  <2>1. a.notify = TRUE
    BY <1>1, <1>2, <1>5, Served DEF Proper
  <2>2. CASE Current(a)
    <3> DEFINE new == ApplyPref(Rest, stored[a.site], b, TRUE)
    <3>1. Carries(Rest, new, b, TRUE, turns)
      BY <1>1, <1>2, <1>3, ApplyPrefCarries
    <3> QED
      BY <1>4, <1>5, <2>1, <2>2, <3>1 DEF LocationRead
  <2>3. CASE ~Current(a)
    <3> DEFINE new == Soon(Rest, b, TRUE)
    <3>1. Carries(Rest, new, b, TRUE, turns) /\ new.zoom = zoom
      BY <1>2, <1>3, SoonCarries
    <3> QED
      BY <1>4, <1>5, <2>1, <2>3, <3>1 DEF LocationRead
  <2> QED
    BY <2>2, <2>3
<1>6. CASE a.kind = "site" /\ Becomes(SiteRead(Rest, a))
  <2>1. a.notify = FALSE
    BY <1>1, <1>2, <1>6, Served DEF Proper
  <2>2. CASE Current(a) /\ stored[a.site] = None
    <3> DEFINE new == ApplyPref(Rest, None, b, FALSE)
    <3>1. Carries(Rest, new, b, FALSE, turns)
      BY <1>1, <1>2, <1>3, ApplyPrefCarries DEF Values
    <3> QED
      BY <1>4, <1>6, <2>1, <2>2, <3>1 DEF SiteRead
  <2>3. CASE ~(Current(a) /\ stored[a.site] = None)
    <3>1. Carries(Rest, Rest, b, FALSE, turns)
      BY <1>2, <1>3, CarriesNothing
    <3> QED
      BY <1>3, <1>4, <1>6, <2>1, <2>3, <3>1 DEF SiteRead
  <2> QED
    BY <2>2, <2>3
<1>7. CASE Becomes(GlobalRead(Rest, a))
  <2>1. g \in Zooms /\ g \in Globals
    BY <1>2, EnsureValidType DEF Globals
  <2>2. Carries(Rest, read, b, FALSE, turns) /\ read \in States /\ read.zoom = zoom
    BY <1>2, <1>3, <2>1, GlobalCarries DEF Carries
  <2> DEFINE mid == IF Current(a) THEN SetZoom(read, b, g) ELSE read
             new == Soon(mid, b, a.notify)
  <2>3. Carries(Rest, mid, b, FALSE, turns) /\ (Current(a) \/ mid.zoom = zoom)
    <3>1. Carries(read, SetZoom(read, b, g), b, FALSE, turns)
      BY <1>2, <2>1, <2>2, SetZoomCarries
    <3>2. Carries(Rest, SetZoom(read, b, g), b, FALSE, turns)
      <4> HIDE DEF read, g
      <4> QED
        BY <1>2, <1>3, <2>2, <3>1, CarriesTwice
    <3> QED
      BY <2>2, <3>2
  <2>4. Carries(mid, new, b, a.notify, turns) /\ new.zoom = mid.zoom
    <3>1. mid \in States
      BY <2>3 DEF Carries
    <3> HIDE DEF mid
    <3> QED
      BY <1>2, <3>1, SoonCarries
  <2>5. Becomes(new)
    BY <1>7 DEF GlobalRead
  <2>6. Carries(Rest, new, b, a.notify, turns)
    <3> HIDE DEF mid, new
    <3> QED
      BY <1>2, <1>3, <2>3, <2>4, CarriesTwice
  <2> HIDE DEF mid, new
  <2> QED
    BY <1>4, <2>3, <2>4, <2>5, <2>6
<1> QED
  BY <1>5, <1>6, <1>7 DEF Read, Rest

\* A change that is served answers nothing; what the observer makes of it is for
\* the selected tab.
LEMMA ChangedCounted ==
  ASSUME IInv, queue # <<>>, Changed(Head(queue)),
         turns' = turns, unanswered' = unanswered
  PROVE  Counted'
<1> DEFINE a == Head(queue)
           b == selected
           st == [State EXCEPT !.queue = Tail(@)]
<1>1. Counted /\ TypeInv /\ turns' \in [Browsers -> Nat] /\ b \in Browsers
  BY DEF IInv, TypeInv, Counted
<1>2. a \in Accesses /\ Change(a) /\ a.notify = FALSE /\ st = Rest
  BY <1>1, Served DEF Changed, Proper, Rest
<1>3. a.value \in Values /\ Rest \in States
  BY <1>1, <1>2, Served DEF Accesses
<1>4. ASSUME NEW new, Becomes(new), Carries(Rest, new, b, FALSE, turns)
      PROVE  Counted'
  <2>1. \A c \in Browsers : One(FALSE /\ c = b) = One(a.browser = c /\ a.notify)
    BY <1>2 DEF One
  <2> QED
    BY <1>1, <1>4, <2>1, ServedOn
<1>5. CASE Becomes(Rest)
  BY <1>1, <1>3, <1>4, <1>5, CarriesNothing
<1>6. CASE Becomes(ApplyPref(Rest, a.value, b, FALSE))
  <2>1. Carries(Rest, ApplyPref(Rest, a.value, b, FALSE), b, FALSE, turns)
    BY <1>1, <1>3, ApplyPrefCarries
  <2> QED
    BY <1>4, <1>6, <2>1
<1> DEFINE g == IF a.value = None THEN None ELSE EnsureValid(a.value)
           mid == [Rest EXCEPT !.global = g]
           r == Access("site", b, site[b], None, FALSE)
<1>7. CASE Becomes(Post(mid, r))
  <2>1. g \in Globals
    BY <1>3, EnsureValidType DEF Globals
  <2>2. Carries(Rest, mid, b, FALSE, turns) /\ mid \in States
    BY <1>1, <1>3, <2>1, GlobalCarries DEF Carries
  <2>3. "site" \in Kinds /\ site[b] \in Groups /\ None \in Values
    BY <1>1 DEF Kinds, TypeInv, Values
  <2>4. r \in Accesses /\ r.kind = "site" /\ r.browser = b /\ r.notify = FALSE /\ r.turn = turns[b]
    BY <1>1, <2>3 DEF Access, Accesses
  <2>5. Proper(r)
    BY <1>1, <2>4 DEF Proper, Change
  <2> HIDE DEF r, mid
  <2>6. Carries(mid, Post(mid, r), b, FALSE, turns)
    BY <1>1, <2>2, <2>4, <2>5, PostCarries
  <2>7. Carries(Rest, Post(mid, r), b, FALSE, turns)
    BY <1>1, <1>3, <2>2, <2>6, CarriesTwice
  <2> QED
    BY <1>4, <1>7, <2>7
<1>8. Becomes(PrefChanged(st, a.site, a.value)) \/ Becomes(st)
  BY DEF Changed
<1> QED
  BY <1>2, <1>5, <1>6, <1>7, <1>8 DEF PrefChanged

LEMMA NotifyCounted ==
  ASSUME IInv, NEW b \in Browsers, Notify(b)
  PROVE  Counted' /\ Len(queue') >= Len(queue)
<1>1. /\ Counted /\ State \in States /\ queue' = queue /\ turns' = turns
      /\ soon \in [Browsers -> Nat] /\ soon[b] > 0 /\ soon' = [soon EXCEPT ![b] = @ - 1]
      /\ unanswered' = [unanswered EXCEPT ![b] = @ - 1] /\ UNCHANGED <<zoom, global>>
      /\ Len(queue) \in Nat /\ queue \in Seq(Accesses)
  BY StateFields DEF IInv, TypeInv, Counted, Notify, States
<1>3. soon' \in [Browsers -> Nat]
  <2>1. soon[b] \in Nat /\ soon[b] - 1 \in Nat
    BY <1>1
  <2>2. [soon EXCEPT ![b] = soon[b] - 1] \in [Browsers -> Nat]
    BY <1>1, <2>1
  <2> QED
    BY <1>1, <2>2
<1>4. State' \in States
  <2>1. zoom \in [Browsers -> Zooms] /\ global \in Globals
    BY <1>1, StateFields DEF States
  <2>2. State' = [zoom |-> zoom, queue |-> queue, soon |-> soon', global |-> global]
    BY <1>1 DEF State
  <2> QED
    BY <1>1, <1>3, <2>1, <2>2 DEF States
<1>5. ASSUME NEW c \in Browsers PROVE unanswered'[c] = Due(State', c)
  <2>1. Cardinality(Answering(queue, c)) \in Nat /\ soon[c] \in Nat
    BY <1>1, AnsweringFinite
  <2>2. unanswered[c] = soon[c] + Cardinality(Answering(queue, c))
    BY <1>1, AnsweredIsDue, StateFields DEF Due, Counted
  <2>3. Due(State', c) = soon'[c] + Cardinality(Answering(queue, c))
    BY <1>1 DEF Due, State
  <2>4. unanswered'[c] = IF c = b THEN unanswered[c] - 1 ELSE unanswered[c]
    BY <1>1 DEF Counted
  <2>5. soon'[c] = IF c = b THEN soon[c] - 1 ELSE soon[c]
    BY <1>1
  <2> QED
    BY <2>1, <2>2, <2>3, <2>4, <2>5
<1>6. Fresh(queue', turns') /\ AllProper(queue')
  BY <1>1 DEF Counted
<1>7. unanswered' \in [Browsers -> Int]
  BY <1>1 DEF Counted
<1> QED
  BY <1>1, <1>4, <1>5, <1>6, <1>7, AnsweredIsDueNext DEF Counted

-----------------------------------------------------------------------------
\* The invariant is kept.

\* What the functions on states do not touch.
OtherTypes ==
  /\ site \in [Browsers -> Groups] /\ synthetic \subseteq Browsers
  /\ open \subseteq Browsers /\ selected \in Browsers
  /\ inited \in BOOLEAN /\ initial \subseteq Browsers /\ missed \subseteq Browsers
  /\ siteSpecific \in BOOLEAN /\ updateBackground \in BOOLEAN /\ internal \in BOOLEAN
  /\ stored \in [Groups -> Values] /\ known \subseteq Groups
  /\ overlooked \subseteq Groups /\ steps \in Nat /\ flips \in Nat

LEMMA InvParts == IInv <=> Counted /\ OtherTypes /\ NoReads
BY DEF IInv, Counted, OtherTypes, TypeInv

\* Every step that does not serve an access.
LEMMA WindowCounted ==
  ASSUME IInv, [Next]_vars, ~Serve
  PROVE  Counted' /\ Len(queue') >= Len(queue)
<1>1. /\ Counted /\ turns \in [Browsers -> Nat] /\ Fresh(queue, turns)
  BY InvParts DEF Counted
<1>2. CASE Start \/ SetPref \/ (\E b \in Browsers : Close(b)) \/ UNCHANGED vars
  <2>1. UNCHANGED <<zoom, queue, soon, global, unanswered, turns>>
    BY <1>2 DEF Start, SetPref, Close, vars
  <2> QED
    BY <1>1, <2>1, NothingPosted
<1>3. CASE Reset
  BY <1>3, ResetCounted
<1>4. ASSUME NEW b \in Browsers, Navigate(b) PROVE Counted' /\ Len(queue') >= Len(queue)
  BY <1>4, NavigateCounted
<1>5. ASSUME NEW b \in Browsers, Select(b) PROVE Counted' /\ Len(queue') >= Len(queue)
  BY <1>5, SelectCounted
<1>6. ASSUME NEW b \in Browsers, Notify(b) PROVE Counted' /\ Len(queue') >= Len(queue)
  BY <1>6, NotifyCounted
<1>7. ASSUME NEW v \in Zooms, ZoomBy(v) PROVE Counted' /\ Len(queue') >= Len(queue)
  BY <1>7, ZoomByCounted
<1>8. ASSUME NEW g \in Groups \ {Blank}, NEW v \in Foreign, ChangeElsewhere(g, v)
      PROVE  Counted' /\ Len(queue') >= Len(queue)
  BY <1>8, ChangeElsewhereCounted
<1>9. CASE \E b \in Browsers : Navigate(b) \/ Select(b) \/ Notify(b)
  BY <1>4, <1>5, <1>6, <1>9
<1>10. CASE \E v \in Zooms : ZoomBy(v)
  BY <1>7, <1>10
<1>11. CASE \E g \in Groups \ {Blank}, v \in Foreign : ChangeElsewhere(g, v)
  BY <1>8, <1>11
<1> QED
  BY <1>2, <1>3, <1>9, <1>10, <1>11 DEF Next

LEMMA ServeCounted ==
  ASSUME IInv, Serve
  PROVE  Counted'
<1>1. queue # <<>> /\ turns' = turns /\ unanswered' = unanswered
  BY DEF Serve
<1>2. Read(Head(queue)) \/ Changed(Head(queue))
  BY DEF Serve
<1> QED
  BY <1>1, <1>2, ReadCounted, ChangedCounted

LEMMA NextNoReads ==
  ASSUME IInv, [Next]_vars
  PROVE  NoReads'
<1> DEFINE Changes(q) == \A i \in DOMAIN q : Change(q[i])
<1>1. queue \in Seq(Accesses) /\ State \in States /\ State.queue = queue
      /\ selected \in Browsers
  BY StateFields DEF IInv, TypeInv, States
<1>2. CASE inited'
  BY <1>2 DEF NoReads
<1>3. CASE ~inited'
  <2>1. ~inited
    BY <1>3 DEF Next, vars, startup, Start, Reset, SetPref, Serve, Navigate,
                LocationChange, Select, Close, Notify, ZoomBy, ChangeElsewhere
  <2>2. Changes(queue)
    BY <2>1 DEF IInv, NoReads
  <2>3. ASSUME NEW q \in Seq(Accesses), Changes(q), NEW a, Change(a) PROVE Changes(Append(q, a))
    <3>1. \A i \in DOMAIN Append(q, a) :
            Append(q, a)[i] = a \/ (i \in DOMAIN q /\ Append(q, a)[i] = q[i])
      BY <2>3
    <3> QED
      BY <2>3, <3>1
  <2>4. Changes(queue) => Changes(queue')
    <3>1. CASE queue' = queue
      BY <3>1
    <3>2. CASE Serve
      <4>1. queue # <<>> /\ Head(queue) = queue[1] /\ 1 \in DOMAIN queue
        BY <1>1, <3>2 DEF Serve
      <4>2. Changed(Head(queue))
        BY <2>2, <3>2, <4>1 DEF Serve, Read
      <4>3. queue' = Tail(queue)
        BY <2>1, <4>2 DEF Changed, Becomes, State
      <4>4. \A i \in DOMAIN Tail(queue) : i + 1 \in DOMAIN queue /\ Tail(queue)[i] = queue[i + 1]
        BY <1>1, <4>1
      <4> QED
        BY <2>2, <4>3, <4>4
    <3>3. ASSUME NEW v \in Zooms, ZoomBy(v) PROVE Changes(queue')
      <4> DEFINE b == selected
                 mid == [State EXCEPT !.zoom[b] = v]
                 set == SetZoom(State, b, v)
                 a == Access("set", b, site[b], set.zoom[b], FALSE)
      <4>1. mid \in States /\ mid.queue = queue /\ set = IgnorePending(mid, b)
        BY <1>1, ZoomCarries DEF Carries, SetZoom
      <4>2. DOMAIN set.queue = DOMAIN queue /\ \A i \in DOMAIN queue : set.queue[i].kind = queue[i].kind
        <5>1. \A i \in DOMAIN queue : queue[i] \in Accesses
          BY <1>1
        <5> HIDE DEF mid
        <5> QED
          BY <4>1, <5>1 DEF IgnorePending, States, Accesses
      <4>3. Changes(set.queue)
        BY <2>2, <4>2 DEF Change
      <4>4. set.queue \in Seq(Accesses) /\ set \in States
        BY <1>1, <3>3, SetZoomCarries DEF Carries, States
      <4>5. Change(a)
        BY DEF Change, Access
      <4>6. Changes(Append(set.queue, a))
        <5> HIDE DEF set, a, Changes
        <5> QED
          BY <2>3, <4>3, <4>4, <4>5
      <4>7. queue' = set.queue \/ queue' = Append(set.queue, a)
        <5>1. Becomes(set) \/ Becomes(Post(set, a))
          BY <3>3 DEF ZoomBy, ApplyZoomToPref
        <5> HIDE DEF set, a
        <5>2. Post(set, a).queue = Append(set.queue, a)
          BY <4>4 DEF Post, States
        <5> QED
          BY <5>1, <5>2 DEF Becomes
      <4> QED
        BY <4>3, <4>6, <4>7
    <3>4. ASSUME NEW g \in Groups, NEW v \in Foreign, ChangeElsewhere(g, v) PROVE Changes(queue')
      <4> DEFINE a == [kind |-> IF v = None THEN "remove" ELSE "set",
                       browser |-> None, site |-> g, value |-> v,
                       notify |-> FALSE, current |-> FALSE, turn |-> 0]
      <4>1. Change(a) /\ queue' = Append(queue, a)
        BY <3>4 DEF Change, ChangeElsewhere
      <4> HIDE DEF a, Changes
      <4> QED
        BY <1>1, <2>2, <2>3, <4>1
    <3>5. CASE Start \/ Reset \/ SetPref \/ UNCHANGED vars
               \/ (\E b \in Browsers : Close(b) \/ Notify(b) \/ Navigate(b) \/ Select(b))
      <4>1. queue' = queue
        BY <1>1, <1>3, <2>1, <3>5 DEF Start, Reset, SetPref, Close, Notify, Navigate, Select,
                      LocationChange, Becomes, vars
      <4> QED
        BY <4>1
    <3>6. CASE \E v \in Zooms : ZoomBy(v)
      BY <3>3, <3>6
    <3>7. CASE \E g \in Groups \ {Blank}, v \in Foreign : ChangeElsewhere(g, v)
      BY <3>4, <3>7
    <3> QED
      BY <3>2, <3>5, <3>6, <3>7 DEF Next
  <2> QED
    BY <2>2, <2>4 DEF NoReads, Change
<1> QED
  BY <1>2, <1>3

LEMMA NextOtherTypes ==
  ASSUME IInv, [Next]_vars
  PROVE  OtherTypes'
<1>1. OtherTypes
  BY InvParts
<1>2. CASE Start
  BY <1>1, <1>2 DEF OtherTypes, Start, docs, service, bounds
<1>3. ASSUME NEW b \in Browsers, Navigate(b) PROVE OtherTypes'
  <2>1. LocationChange(b, FALSE)
    BY <1>3 DEF Navigate
  <2>2. inited' = inited /\ initial' \subseteq Browsers /\ missed' \subseteq Browsers
    BY <1>1, <2>1 DEF OtherTypes, LocationChange
  <2>3. site' \in [Browsers -> Groups] /\ synthetic' \subseteq Browsers
    BY <1>1, <1>3 DEF OtherTypes, Navigate, Groups
  <2> QED
    BY <1>1, <1>3, <2>2, <2>3 DEF OtherTypes, Navigate, Step, prefVars, service
<1>4. ASSUME NEW b \in Browsers, Select(b) PROVE OtherTypes'
  <2>1. LocationChange(b, TRUE) \/ UNCHANGED startup
    BY <1>4 DEF Select
  <2>2. inited' = inited /\ initial' \subseteq Browsers /\ missed' \subseteq Browsers
    BY <1>1, <2>1 DEF OtherTypes, LocationChange, startup
  <2> QED
    BY <1>1, <1>4, <2>2 DEF OtherTypes, Select, Step, prefVars, service
<1>5. ASSUME NEW b \in Browsers, Close(b) PROVE OtherTypes'
  BY <1>1, <1>5 DEF OtherTypes, Close, Step, startup, prefVars, service
<1>6. CASE Reset
  BY <1>1, <1>6 DEF OtherTypes, Reset, Step, docs, startup, prefVars, service
<1>7. ASSUME NEW v \in Zooms, ZoomBy(v) PROVE OtherTypes'
  BY <1>1, <1>7 DEF OtherTypes, ZoomBy, Step, docs, startup, prefVars, service
<1>8. CASE SetPref
  <2>1. siteSpecific' \in BOOLEAN /\ updateBackground' \in BOOLEAN
    BY <1>1, <1>8, Zenon DEF OtherTypes, SetPref
  <2> QED
    BY <1>1, <1>8, <2>1 DEF OtherTypes, SetPref, docs, startup, service
<1>9. ASSUME NEW g \in Groups, NEW v \in Foreign, ChangeElsewhere(g, v) PROVE OtherTypes'
  BY <1>1, <1>9 DEF OtherTypes, ChangeElsewhere, Step, docs, startup, prefVars, service
<1>10. ASSUME NEW b \in Browsers, Notify(b) PROVE OtherTypes'
  BY <1>1, <1>10 DEF OtherTypes, Notify, docs, startup, prefVars, service, bounds
<1>11. CASE Serve
  <2> DEFINE a == Head(queue)
  <2>1. a \in Accesses /\ a.site \in Groups /\ a.value \in Values
    BY <1>11, Served, InvParts DEF Serve, Accesses
  <2>2. UNCHANGED <<docs, startup, prefVars, bounds>>
    BY <1>11 DEF Serve
  <2>3. CASE Read(a)
    BY <1>1, <2>1, <2>2, <2>3 DEF OtherTypes, Read, docs, startup, prefVars, bounds
  <2>4. CASE Changed(a)
    BY <1>1, <2>1, <2>2, <2>4 DEF OtherTypes, Changed, docs, startup, prefVars, bounds
  <2> QED
    BY <1>11, <2>3, <2>4 DEF Serve
<1>12. CASE UNCHANGED vars
  BY <1>1, <1>12 DEF OtherTypes, vars, docs, startup, prefVars, service, bounds
<1>13. CASE \E b \in Browsers : Navigate(b) \/ Select(b) \/ Close(b) \/ Notify(b)
  BY <1>3, <1>4, <1>5, <1>10, <1>13
<1>14. CASE (\E v \in Zooms : ZoomBy(v))
             \/ (\E g \in Groups \ {Blank}, v \in Foreign : ChangeElsewhere(g, v))
  BY <1>7, <1>9, <1>14
<1> QED
  BY <1>2, <1>6, <1>8, <1>11, <1>12, <1>13, <1>14 DEF Next

LEMMA InitInv == Init => IInv
<1> SUFFICES ASSUME Init PROVE IInv
  OBVIOUS
<1>1. queue = <<>> /\ queue \in Seq(Accesses) /\ DOMAIN queue = {}
  BY DEF Init
<1>2. State \in States
  BY <1>1, ConstantsAssumption DEF Init, State, States, Globals
<1>3. OtherTypes
  <2>1. MaxZoom \in Values /\ None \in Values /\ Blank \in Groups
    BY ConstantsAssumption DEF Values, Groups
  <2> QED
    BY <2>1 DEF Init, OtherTypes
<1>4. ASSUME NEW b \in Browsers PROVE unanswered[b] = Due(State, b)
  <2>1. Answering(queue, b) = {}
    BY <1>1 DEF Answering
  <2>2. unanswered[b] = 0 /\ soon[b] = 0
    BY DEF Init
  <2> QED
    BY <2>1, <2>2, StateFields, FS_EmptySet DEF Due
<1>5. unanswered \in [Browsers -> Int] /\ turns \in [Browsers -> Nat]
  BY DEF Init
<1>6. Fresh(queue, turns) /\ AllProper(queue) /\ NoReads
  BY <1>1 DEF Fresh, AllProper, NoReads
<1> QED
  BY <1>2, <1>3, <1>4, <1>5, <1>6, AnsweredIsDue, InvParts DEF Counted

LEMMA NextInv ==
  ASSUME IInv, [Next]_vars
  PROVE  IInv'
<1>1. Counted'
  BY WindowCounted, ServeCounted
<1>2. OtherTypes' /\ NoReads'
  BY NextOtherTypes, NextNoReads
<1> QED
  BY <1>1, <1>2 DEF IInv, Counted, OtherTypes, TypeInv

\* A read that counts was posted for the page and the zoom the tab still has.
LEMMA OldReadStep ==
  ASSUME IInv, [Next]_vars
  PROVE  \A b \in Browsers :
           (Serve /\ ~Change(Head(queue)) /\ zoom'[b] # zoom[b])
             => Head(queue).browser = b /\ Head(queue).turn = turns[b]
<1> SUFFICES ASSUME Serve, ~Change(Head(queue)), NEW b \in Browsers, zoom'[b] # zoom[b]
             PROVE  Head(queue).browser = b /\ Head(queue).turn = turns[b]
  OBVIOUS
<1>1. queue # <<>> /\ Read(Head(queue)) /\ turns' = turns /\ unanswered' = unanswered
  BY DEF Serve, Changed
<1> QED
  BY <1>1, ReadCounted

-----------------------------------------------------------------------------
\* What the selected tab is going to show.

\* A read for b of one of these kinds that will count when it is answered.
Counts(a, b, kinds) == a.kind \in kinds /\ a.browser = b /\ a.current
Awaits(q, b, kinds) == \E i \in DOMAIN q : Counts(q[i], b, kinds)
Full == {"location", "global", "reset"}
Reads == {"location", "site", "global", "reset"}

\* A change of s this window has made, which is not yet served.
IsOwn(a, s) == Change(a) /\ a.browser # None /\ a.site = s
Owns(q, s) == \E i \in DOMAIN q : IsOwn(q[i], s)

\* The preference of s once the changes of this window are served.
Promised(q, sto, s, v) ==
  \/ ~Owns(q, s) /\ v = sto[s]
  \/ \E i \in DOMAIN q : /\ IsOwn(q[i], s) /\ q[i].value = v
                         /\ \A j \in DOMAIN q : IsOwn(q[j], s) => j <= i

\* The reads of b that count do not undo what is promised.  A read of the page is
\* of the page that is shown, and comes after every change of it this window made;
AfterOwn(q, b, s) ==
  \A i, j \in DOMAIN q :
    Counts(q[i], b, {"location", "site"}) => q[i].site = s /\ (IsOwn(q[j], s) => j < i)
\* ... the read of a reset comes before the removal that makes it right;
BeforeOwn(q, sto, b, s) ==
  \A i \in DOMAIN q : Counts(q[i], b, {"reset"}) =>
    Promised(q, sto, s, None) /\ \E j \in DOMAIN q : i < j /\ IsOwn(q[j], s)
\* ... and the global preference is read for a page only when the page has none
\* and none is promised.
Harmless(q, sto, b, s) ==
  /\ AfterOwn(q, b, s) /\ BeforeOwn(q, sto, b, s)
  /\ Awaits(q, b, {"global"}) => ~Owns(q, s) /\ sto[s] = None

\* The zoom for a preference v of the site.
Wish(v, sto) == EnsureValid(IF v # None THEN v ELSE sto[Global])

\* The zoom is about to be set, or is the one for what is promised.
Shows(q, z, sto, b, s) ==
  \/ Awaits(q, b, Full)
  \/ \E v \in Values : /\ Promised(q, sto, s, v)
                       /\ z = Wish(v, sto) \/ (v = None /\ Awaits(q, b, {"site"}))

\* The zoom z of b will be right for the page s.
Sure(q, z, sto, b, s) == Harmless(q, sto, b, s) /\ Shows(q, z, sto, b, s)

\* No read of b counts.
Quiet(q, b) == ~Awaits(q, b, Reads)

-----------------------------------------------------------------------------
\* Queues that grow and shrink.

\* A queue with one access more,
LEMMA Appended ==
  ASSUME NEW q \in Seq(Accesses), NEW a \in Accesses
  PROVE  /\ Append(q, a) \in Seq(Accesses)
         /\ DOMAIN Append(q, a) = DOMAIN q \cup {Len(q) + 1} /\ Len(q) + 1 \notin DOMAIN q
         /\ Append(q, a)[Len(q) + 1] = a
         /\ \A i \in DOMAIN q : Append(q, a)[i] = q[i] /\ i \in Nat /\ i < Len(q) + 1
         /\ Len(q) \in Nat
OBVIOUS

\* ... and with its first taken.
LEMMA Shortened ==
  ASSUME NEW q \in Seq(Accesses), q # <<>>
  PROVE  /\ Tail(q) \in Seq(Accesses) /\ Head(q) \in Accesses
         /\ Head(q) = q[1] /\ 1 \in DOMAIN q /\ DOMAIN q \subseteq Nat \ {0}
         /\ \A i \in DOMAIN Tail(q) : i + 1 \in DOMAIN q /\ Tail(q)[i] = q[i + 1] /\ i \in Nat
         /\ \A i \in DOMAIN q : i # 1 => i - 1 \in DOMAIN Tail(q) /\ Tail(q)[i - 1] = q[i]
<1>1. /\ Tail(q) \in Seq(Accesses) /\ DOMAIN q = 1..Len(q) /\ Len(q) \in Nat \ {0}
      /\ DOMAIN Tail(q) = 1..(Len(q) - 1) /\ Head(q) = q[1] /\ Head(q) \in Accesses
      /\ \A i \in DOMAIN Tail(q) : Tail(q)[i] = q[i + 1]
  OBVIOUS
<1> QED BY <1>1

\* What a new access adds and the first takes away: the reads that count,
LEMMA AwaitsAppend ==
  ASSUME NEW q \in Seq(Accesses), NEW a \in Accesses, NEW b, NEW K
  PROVE  Awaits(Append(q, a), b, K) <=> Awaits(q, b, K) \/ Counts(a, b, K)
BY Appended DEF Awaits

\* ... the changes of this window,
LEMMA OwnsAppend ==
  ASSUME NEW q \in Seq(Accesses), NEW a \in Accesses, NEW s
  PROVE  Owns(Append(q, a), s) <=> Owns(q, s) \/ IsOwn(a, s)
BY Appended DEF Owns

\* ... the reads that count,
LEMMA AwaitsTail ==
  ASSUME NEW q \in Seq(Accesses), q # <<>>, NEW b, NEW K
  PROVE  Awaits(q, b, K) <=> Counts(Head(q), b, K) \/ Awaits(Tail(q), b, K)
BY Shortened DEF Awaits

\* ... the changes of this window,
LEMMA OwnsTail ==
  ASSUME NEW q \in Seq(Accesses), q # <<>>, NEW s
  PROVE  Owns(q, s) <=> IsOwn(Head(q), s) \/ Owns(Tail(q), s)
BY Shortened DEF Owns

\* ... and what is promised, which a new change of this window alters.
LEMMA PromisedAppend ==
  ASSUME NEW q \in Seq(Accesses), NEW a \in Accesses, NEW sto, NEW s
  PROVE  /\ ~IsOwn(a, s) =>
              \A v : Promised(q, sto, s, v) => Promised(Append(q, a), sto, s, v)
         /\ IsOwn(a, s) => Promised(Append(q, a), sto, s, a.value)
<1>1. ASSUME ~IsOwn(a, s), NEW v, Promised(q, sto, s, v)
      PROVE  Promised(Append(q, a), sto, s, v)
  <2>1. CASE ~Owns(q, s) /\ v = sto[s]
    BY <1>1, <2>1, OwnsAppend DEF Promised
  <2>2. ASSUME NEW i \in DOMAIN q, IsOwn(q[i], s), q[i].value = v,
               \A j \in DOMAIN q : IsOwn(q[j], s) => j <= i
        PROVE  Promised(Append(q, a), sto, s, v)
    BY <1>1, <2>2, Appended DEF Promised
  <2> QED BY <1>1, <2>1, <2>2 DEF Promised
<1>2. ASSUME IsOwn(a, s) PROVE Promised(Append(q, a), sto, s, a.value)
  <2>1. \A j \in DOMAIN Append(q, a) : j <= Len(q) + 1 BY Appended
  <2> QED BY <1>2, <2>1, Appended DEF Promised
<1> QED BY <1>1, <1>2

\* A change that is served fulfils what it promised.
LEMMA PromisedTail ==
  ASSUME NEW q \in Seq(Accesses), q # <<>>, NEW sto, NEW new, NEW s, NEW v,
         Promised(q, sto, s, v),
         IF IsOwn(Head(q), s) THEN new[s] = Head(q).value
         ELSE Owns(q, s) \/ new[s] = sto[s]
  PROVE  Promised(Tail(q), new, s, v)
<1>1. CASE ~Owns(q, s) /\ v = sto[s]
  BY <1>1, OwnsTail DEF Promised
<1>2. ASSUME NEW i \in DOMAIN q, IsOwn(q[i], s), q[i].value = v,
             \A j \in DOMAIN q : IsOwn(q[j], s) => j <= i
      PROVE  Promised(Tail(q), new, s, v)
  <2>1. CASE i = 1
    <3>1. \A j \in DOMAIN Tail(q) : ~IsOwn(Tail(q)[j], s) BY <1>2, <2>1, Shortened
    <3>2. new[s] = v BY <1>2, <2>1, Shortened
    <3> QED BY <3>1, <3>2 DEF Promised, Owns
  <2>2. CASE i # 1
    <3>1. i - 1 \in DOMAIN Tail(q) /\ Tail(q)[i - 1] = q[i] BY <2>2, Shortened
    <3>2. \A j \in DOMAIN Tail(q) : IsOwn(Tail(q)[j], s) => j <= i - 1 BY <1>2, Shortened
    <3> QED BY <1>2, <3>1, <3>2 DEF Promised
  <2> QED BY <2>1, <2>2
<1> QED BY <1>1, <1>2 DEF Promised

\* Where no read counts, none does of any kind.
LEMMA QuietCounts ==
  ASSUME NEW q, NEW b, Quiet(q, b)
  PROVE  /\ \A i \in DOMAIN q, K \in SUBSET Reads : ~Counts(q[i], b, K)
         /\ \A K \in SUBSET Reads : ~Awaits(q, b, K)
BY DEF Quiet, Awaits, Counts

\* The kinds of reads that are told apart.
LEMMA KindSets == /\ Full \in SUBSET Reads /\ {"location", "site"} \in SUBSET Reads
                  /\ {"reset"} \in SUBSET Reads /\ {"global"} \in SUBSET Reads
                  /\ {"site"} \in SUBSET Reads
BY DEF Full, Reads

\* Nothing is awaited, and the zoom is what is promised.
LEMMA SureQuiet ==
  ASSUME NEW q, NEW z, NEW sto, NEW b, NEW s, NEW v \in Values,
         Quiet(q, b), Promised(q, sto, s, v), z = Wish(v, sto)
  PROVE  Sure(q, z, sto, b, s)
<1>1. Harmless(q, sto, b, s)
  BY QuietCounts, KindSets DEF Harmless, AfterOwn, BeforeOwn
<1>2. Shows(q, z, sto, b, s) BY DEF Shows
<1> QED BY <1>1, <1>2 DEF Sure

\* An access that is neither a read for b nor a change of s by this window.
LEMMA HarmlessAppend ==
  ASSUME NEW q \in Seq(Accesses), NEW a \in Accesses, NEW sto, NEW b, NEW s,
         Harmless(q, sto, b, s), ~IsOwn(a, s),
         Counts(a, b, {"location", "site"}) => a.site = s,
         ~Counts(a, b, {"reset"}),
         Counts(a, b, {"global"}) => ~Owns(q, s) /\ sto[s] = None
  PROVE  Harmless(Append(q, a), sto, b, s)
<1>1. AfterOwn(Append(q, a), b, s)
  <2>1. ASSUME NEW i \in DOMAIN Append(q, a), NEW j \in DOMAIN Append(q, a),
               Counts(Append(q, a)[i], b, {"location", "site"})
        PROVE  /\ Append(q, a)[i].site = s
               /\ IsOwn(Append(q, a)[j], s) => j < i
    <3>1. CASE i \in DOMAIN q /\ j \in DOMAIN q
      BY <2>1, <3>1, Appended DEF Harmless, AfterOwn
    <3>2. CASE j = Len(q) + 1
      BY <2>1, <3>2, Appended DEF Harmless, AfterOwn
    <3>3. CASE i = Len(q) + 1 /\ j \in DOMAIN q
      BY <2>1, <3>3, Appended
    <3> QED BY <3>1, <3>2, <3>3, Appended
  <2> QED BY <2>1 DEF AfterOwn
<1>2. BeforeOwn(Append(q, a), sto, b, s)
  <2>1. ASSUME NEW i \in DOMAIN Append(q, a), Counts(Append(q, a)[i], b, {"reset"})
        PROVE  /\ Promised(Append(q, a), sto, s, None)
               /\ \E j \in DOMAIN Append(q, a) : i < j /\ IsOwn(Append(q, a)[j], s)
    <3>1. i \in DOMAIN q /\ Counts(q[i], b, {"reset"}) BY <2>1, Appended
    <3>2. PICK j \in DOMAIN q : i < j /\ IsOwn(q[j], s)
      BY <3>1 DEF Harmless, BeforeOwn
    <3>3. Promised(q, sto, s, None) BY <3>1 DEF Harmless, BeforeOwn
    <3> QED BY <3>2, <3>3, PromisedAppend, Appended
  <2> QED BY <2>1 DEF BeforeOwn
<1>3. Awaits(Append(q, a), b, {"global"}) => ~Owns(Append(q, a), s) /\ sto[s] = None
  BY AwaitsAppend, OwnsAppend DEF Harmless
<1> QED BY <1>1, <1>2, <1>3 DEF Harmless

\* Other accesses change nothing.
LEMMA SureAppend ==
  ASSUME NEW q \in Seq(Accesses), NEW a \in Accesses, NEW z, NEW sto, NEW b, NEW s,
         Sure(q, z, sto, b, s), ~IsOwn(a, s), ~Counts(a, b, Reads)
  PROVE  Sure(Append(q, a), z, sto, b, s)
<1>1. \A K \in SUBSET Reads : ~Counts(a, b, K) BY DEF Counts
<1>2. Harmless(Append(q, a), sto, b, s)
  BY <1>1, KindSets, HarmlessAppend DEF Sure
<1>3. Shows(Append(q, a), z, sto, b, s)
  BY AwaitsAppend, PromisedAppend DEF Sure, Shows
<1> QED BY <1>2, <1>3 DEF Sure

\* A read of the site when its page is shown.
LEMMA SureLocation ==
  ASSUME NEW q \in Seq(Accesses), NEW a \in Accesses, NEW z, NEW sto, NEW b, NEW s,
         Harmless(q, sto, b, s), a.kind = "location", a.browser = b, a.current, a.site = s
  PROVE  Sure(Append(q, a), z, sto, b, s)
<1>1. Counts(a, b, Full) /\ ~IsOwn(a, s) BY DEF Counts, Full, IsOwn, Change
<1>2. Harmless(Append(q, a), sto, b, s) BY <1>1, HarmlessAppend DEF Counts
<1>3. Shows(Append(q, a), z, sto, b, s) BY <1>1, AwaitsAppend DEF Shows
<1> QED BY <1>2, <1>3 DEF Sure

\* A read of the global preference, when the site has none.
LEMMA SureGlobal ==
  ASSUME NEW q \in Seq(Accesses), NEW a \in Accesses, NEW z, NEW sto, NEW b, NEW s,
         Harmless(q, sto, b, s), a.kind = "global", a.browser = b, a.current,
         ~Owns(q, s), sto[s] = None
  PROVE  Sure(Append(q, a), z, sto, b, s)
<1>1. Counts(a, b, Full) /\ ~IsOwn(a, s) BY DEF Counts, Full, IsOwn, Change
<1>2. Harmless(Append(q, a), sto, b, s) BY <1>1, HarmlessAppend DEF Counts
<1>3. Shows(Append(q, a), z, sto, b, s) BY <1>1, AwaitsAppend DEF Shows
<1> QED BY <1>2, <1>3 DEF Sure

\* A read of the site after a change of the global preference: it matters if
\* none is promised for the site.
LEMMA SureSite ==
  ASSUME NEW q \in Seq(Accesses), NEW a \in Accesses, NEW z, NEW sto, NEW b, NEW s,
         Harmless(q, sto, b, s), a.kind = "site", a.browser = b, a.current, a.site = s,
         \/ Awaits(q, b, Full)
         \/ \E v \in Values : Promised(q, sto, s, v) /\ (v = None \/ z = Wish(v, sto))
  PROVE  Sure(Append(q, a), z, sto, b, s)
<1>1. Counts(a, b, {"site"}) /\ ~IsOwn(a, s) BY DEF Counts, IsOwn, Change
<1>2. Harmless(Append(q, a), sto, b, s) BY <1>1, HarmlessAppend DEF Counts
<1>3. Awaits(Append(q, a), b, {"site"}) BY <1>1, AwaitsAppend
<1>4. Shows(Append(q, a), z, sto, b, s)
  BY <1>1, <1>3, AwaitsAppend, PromisedAppend DEF Shows
<1> QED BY <1>2, <1>4 DEF Sure

\* A change of s by this window, to the zoom that b shows.
LEMMA SureOwn ==
  ASSUME NEW q \in Seq(Accesses), NEW a \in Accesses, NEW z, NEW sto, NEW b, NEW s,
         Quiet(q, b), IsOwn(a, s), a.value \in Values, z = Wish(a.value, sto)
  PROVE  Sure(Append(q, a), z, sto, b, s)
<1>1. Quiet(Append(q, a), b)
  BY AwaitsAppend DEF Quiet, Counts, IsOwn, Change, Reads
<1>2. Promised(Append(q, a), sto, s, a.value) BY PromisedAppend
<1> QED BY <1>1, <1>2, SureQuiet

\* A reset: the global preference is read, then the one of the site is removed.
LEMMA SureReset ==
  ASSUME NEW q \in Seq(Accesses), NEW r \in Accesses, NEW a \in Accesses,
         NEW z, NEW sto, NEW b, NEW s,
         Quiet(q, b), r.kind = "reset", r.browser = b, r.current,
         IsOwn(a, s), a.value = None
  PROVE  Sure(Append(Append(q, r), a), z, sto, b, s)
<1>1. PICK m \in Seq(Accesses) : m = Append(q, r) BY Appended
<1>2. PICK n \in Seq(Accesses) : n = Append(m, a) BY Appended
<1>3. Promised(n, sto, s, None) BY <1>2, PromisedAppend
<1>4. ~Counts(a, b, Reads) BY DEF Counts, IsOwn, Change, Reads
<1>5. \A i \in DOMAIN q : ~Counts(q[i], b, Reads) BY DEF Quiet, Awaits
<1>6. \A i \in DOMAIN n : Counts(n[i], b, Reads) => i = Len(q) + 1
  BY <1>1, <1>2, <1>4, <1>5, Appended
<1>7. n[Len(q) + 1] = r /\ Len(q) + 1 \in DOMAIN n
  BY <1>1, <1>2, Appended
<1>8. Len(q) + 1 < Len(m) + 1 /\ Len(m) + 1 \in DOMAIN n /\ n[Len(m) + 1] = a
  BY <1>1, <1>2, Appended
<1>9. AfterOwn(n, b, s) BY <1>6, <1>7 DEF AfterOwn, Counts, Reads
<1>10. BeforeOwn(n, sto, b, s)
  BY <1>3, <1>6, <1>8 DEF BeforeOwn, Counts, Reads
<1>11. ~Awaits(n, b, {"global"}) BY <1>6, <1>7 DEF Awaits, Counts, Reads
<1>12. Awaits(n, b, Full) BY <1>7 DEF Awaits, Counts, Full
<1>13. Sure(n, z, sto, b, s) BY <1>9, <1>10, <1>11, <1>12 DEF Sure, Harmless, Shows
<1> QED BY <1>1, <1>2, <1>13

\* The first access is served, and leaves what is harmless so.
LEMMA HarmlessTail ==
  ASSUME NEW q \in Seq(Accesses), q # <<>>, NEW sto, NEW new, NEW b, NEW s,
         Harmless(q, sto, b, s),
         IF IsOwn(Head(q), s) THEN new[s] = Head(q).value
         ELSE Owns(q, s) \/ new[s] = sto[s] \/ new[s] = None
  PROVE  Harmless(Tail(q), new, b, s)
<1>1. AfterOwn(Tail(q), b, s)
  <2>1. ASSUME NEW i \in DOMAIN Tail(q), NEW j \in DOMAIN Tail(q),
               Counts(Tail(q)[i], b, {"location", "site"})
        PROVE  Tail(q)[i].site = s /\ (IsOwn(Tail(q)[j], s) => j < i)
    <3>1. Counts(q[i + 1], b, {"location", "site"}) BY <2>1, Shortened
    <3>2. i + 1 \in DOMAIN q /\ j + 1 \in DOMAIN q /\ i \in Nat /\ j \in Nat BY Shortened
    <3>3. q[i + 1].site = s /\ (IsOwn(q[j + 1], s) => j + 1 < i + 1)
      BY <3>1, <3>2 DEF Harmless, AfterOwn
    <3> QED BY <3>2, <3>3, Shortened
  <2> QED BY <2>1 DEF AfterOwn
<1>2. BeforeOwn(Tail(q), new, b, s)
  <2>1. ASSUME NEW i \in DOMAIN Tail(q), Counts(Tail(q)[i], b, {"reset"})
        PROVE  /\ Promised(Tail(q), new, s, None)
               /\ \E j \in DOMAIN Tail(q) : i < j /\ IsOwn(Tail(q)[j], s)
    <3>1. i + 1 \in DOMAIN q /\ Counts(q[i + 1], b, {"reset"}) /\ i \in Nat
      BY <2>1, Shortened
    <3>2. PICK j \in DOMAIN q : i + 1 < j /\ IsOwn(q[j], s)
      BY <3>1 DEF Harmless, BeforeOwn
    <3>3. j \in Nat /\ j # 1 /\ j - 1 \in DOMAIN Tail(q) /\ Tail(q)[j - 1] = q[j] /\ i < j - 1
      BY <3>1, <3>2, Shortened
    <3>4. Promised(q, sto, s, None) BY <3>1 DEF Harmless, BeforeOwn
    <3>5. Owns(q, s) BY <3>2 DEF Owns
    <3>6. Promised(Tail(q), new, s, None) BY <3>4, <3>5, PromisedTail
    <3> QED BY <3>2, <3>3, <3>6
  <2> QED BY <2>1 DEF BeforeOwn
<1>3. Awaits(Tail(q), b, {"global"}) => ~Owns(Tail(q), s) /\ new[s] = None
  <2>1. ASSUME Awaits(Tail(q), b, {"global"}) PROVE ~Owns(Tail(q), s) /\ new[s] = None
    <3>1. ~Owns(q, s) /\ sto[s] = None BY <2>1, AwaitsTail DEF Harmless
    <3> QED BY <3>1, OwnsTail
  <2> QED BY <2>1
<1> QED BY <1>1, <1>2, <1>3 DEF Harmless

\* What is served is no read of b that counts, and changes neither preference
\* but as this window has asked.
LEMMA SureTail ==
  ASSUME NEW q \in Seq(Accesses), q # <<>>, NEW z, NEW sto, NEW new, NEW b, NEW s,
         Sure(q, z, sto, b, s), ~Counts(Head(q), b, Reads), new[Global] = sto[Global],
         IF IsOwn(Head(q), s) THEN new[s] = Head(q).value ELSE new[s] = sto[s]
  PROVE  Sure(Tail(q), z, new, b, s)
<1>1. Harmless(Tail(q), new, b, s) BY HarmlessTail DEF Sure
<1>2. \A K \in SUBSET Reads : ~Counts(Head(q), b, K) BY DEF Counts
<1>3. \A K \in SUBSET Reads : Awaits(q, b, K) => Awaits(Tail(q), b, K)
  BY <1>2, AwaitsTail
<1>4. CASE Awaits(q, b, Full)
  BY <1>1, <1>3, <1>4, KindSets DEF Sure, Shows
<1>5. ASSUME NEW v \in Values, Promised(q, sto, s, v),
             z = Wish(v, sto) \/ (v = None /\ Awaits(q, b, {"site"}))
      PROVE  Sure(Tail(q), z, new, b, s)
  <2>1. Promised(Tail(q), new, s, v) BY <1>5, PromisedTail
  <2>2. Wish(v, new) = Wish(v, sto) BY DEF Wish
  <2> QED BY <1>1, <1>3, <1>5, <2>1, <2>2, KindSets DEF Sure, Shows
<1> QED BY <1>4, <1>5 DEF Sure, Shows

\* A read that counts is served: nothing of this window's is to come, but the
\* removal that follows a reset.
LEMMA CountsServed ==
  ASSUME NEW q \in Seq(Accesses), q # <<>>, NEW sto, NEW b, NEW s,
         Harmless(q, sto, b, s), Counts(Head(q), b, Reads)
  PROVE  IF Head(q).kind = "reset" THEN Promised(Tail(q), sto, s, None)
         ELSE /\ ~Owns(Tail(q), s) /\ ~Owns(q, s)
              /\ Head(q).kind = "global" => sto[s] = None
              /\ Head(q).kind \in {"location", "site"} => Head(q).site = s
<1>1. Head(q) = q[1] /\ 1 \in DOMAIN q /\ DOMAIN q \subseteq Nat \ {0} BY Shortened
<1>2. ~IsOwn(Head(q), s) BY DEF Counts, Reads, IsOwn, Change
<1>3. CASE Counts(Head(q), b, {"reset"})
  <2>1. Promised(q, sto, s, None) /\ Owns(q, s)
    BY <1>1, <1>3 DEF Harmless, BeforeOwn, Owns
  <2>2. Promised(Tail(q), sto, s, None) BY <1>2, <2>1, PromisedTail
  <2> QED BY <1>3, <2>2 DEF Counts
<1>4. CASE Counts(Head(q), b, {"global"})
  <2>1. ~Owns(q, s) /\ sto[s] = None BY <1>1, <1>4 DEF Harmless, Awaits
  <2> QED BY <1>4, <2>1, OwnsTail DEF Counts
<1>5. CASE Counts(Head(q), b, {"location", "site"})
  <2>1. Head(q).site = s /\ \A j \in DOMAIN q : IsOwn(q[j], s) => j < 1
    BY <1>1, <1>5 DEF Harmless, AfterOwn
  <2>2. ~Owns(q, s) BY <1>1, <2>1 DEF Owns
  <2> QED BY <1>5, <2>1, <2>2, OwnsTail DEF Counts
<1> QED BY <1>3, <1>4, <1>5 DEF Counts, Reads

\* Queues that differ in their tokens only.
SameBut(q, r) ==
  /\ DOMAIN r = DOMAIN q
  /\ \A i \in DOMAIN q : /\ r[i].kind = q[i].kind /\ r[i].browser = q[i].browser
                         /\ r[i].site = q[i].site /\ r[i].value = q[i].value

\* _ignorePendingZoomAccesses takes tokens from c, and nothing else.
LEMMA IgnoredAccesses ==
  ASSUME NEW st \in States, NEW c
  PROVE  LET new == IgnorePending(st, c) IN
         /\ SameBut(st.queue, new.queue)
         /\ \A i \in DOMAIN st.queue :
              new.queue[i].current = (st.queue[i].current /\ st.queue[i].browser # c)
         /\ new.zoom = st.zoom /\ new.global = st.global /\ new.soon = st.soon
<1> DEFINE q == st.queue
           r == [i \in DOMAIN q |-> [q[i] EXCEPT !.current = @ /\ q[i].browser # c]]
<1>1. q \in Seq(Accesses) /\ \A i \in DOMAIN q : q[i] \in Accesses BY DEF States
<1>2. /\ IgnorePending(st, c).queue = r /\ IgnorePending(st, c).zoom = st.zoom
      /\ IgnorePending(st, c).global = st.global /\ IgnorePending(st, c).soon = st.soon
  BY DEF IgnorePending, States
<1>3. DOMAIN r = DOMAIN q OBVIOUS
<1>4. \A i \in DOMAIN q : /\ r[i].kind = q[i].kind /\ r[i].browser = q[i].browser
                          /\ r[i].site = q[i].site /\ r[i].value = q[i].value
                          /\ r[i].current = (q[i].current /\ q[i].browser # c)
  BY <1>1 DEF Accesses
<1> HIDE DEF r
<1> QED BY <1>2, <1>3, <1>4 DEF SameBut

\* Tokens do not matter to what is promised.
LEMMA SamePromised ==
  ASSUME NEW q, NEW r, SameBut(q, r), NEW sto, NEW s
  PROVE  /\ Owns(r, s) <=> Owns(q, s)
         /\ \A v : Promised(q, sto, s, v) <=> Promised(r, sto, s, v)
<1>1. DOMAIN r = DOMAIN q /\ \A i \in DOMAIN q : /\ IsOwn(r[i], s) <=> IsOwn(q[i], s)
                                                 /\ r[i].value = q[i].value
  BY DEF SameBut, IsOwn, Change
<1>2. Owns(r, s) <=> Owns(q, s) BY <1>1 DEF Owns
<1> QED BY <1>1, <1>2 DEF Promised

\* No read of a tab counts once its accesses are ignored.
LEMMA IgnoredQuiet ==
  ASSUME NEW st \in States, NEW b
  PROVE  Quiet(IgnorePending(st, b).queue, b)
<1>1. PICK new : new = IgnorePending(st, b) OBVIOUS
<1>2. SameBut(st.queue, new.queue) BY <1>1, IgnoredAccesses
<1>3. \A i \in DOMAIN st.queue :
        new.queue[i].current = (st.queue[i].current /\ st.queue[i].browser # b)
  BY <1>1, IgnoredAccesses
<1>4. \A i \in DOMAIN new.queue : ~Counts(new.queue[i], b, Reads)
  BY <1>2, <1>3 DEF SameBut, Counts
<1>5. Quiet(new.queue, b) BY <1>4 DEF Quiet, Awaits
<1> QED BY <1>1, <1>5

\* The tokens of another tab do not matter.
LEMMA IgnoredOther ==
  ASSUME NEW st \in States, NEW c, NEW b, b # c, NEW z, NEW sto, NEW s,
         Sure(st.queue, z, sto, b, s)
  PROVE  Sure(IgnorePending(st, c).queue, z, sto, b, s)
<1>1. PICK q, r : q = st.queue /\ r = IgnorePending(st, c).queue OBVIOUS
<1>2. SameBut(q, r) BY <1>1, IgnoredAccesses
<1>3. \A K : \A i \in DOMAIN q : Counts(r[i], b, K) <=> Counts(q[i], b, K)
  <2>1. ASSUME NEW i \in DOMAIN q, NEW K PROVE Counts(r[i], b, K) <=> Counts(q[i], b, K)
    <3>1. r[i].current = (q[i].current /\ q[i].browser # c) BY <1>1, IgnoredAccesses
    <3> QED BY <1>2, <3>1 DEF Counts, SameBut
  <2> QED BY <2>1
<1>4. \A K : Awaits(r, b, K) <=> Awaits(q, b, K) BY <1>2, <1>3 DEF Awaits, SameBut
<1>5. Sure(q, z, sto, b, s) BY <1>1
<1>6. \A i \in DOMAIN q : (IsOwn(r[i], s) <=> IsOwn(q[i], s)) /\ r[i].site = q[i].site
  BY <1>2 DEF SameBut, IsOwn, Change
<1>7. AfterOwn(r, b, s)
  BY <1>2, <1>3, <1>5, <1>6 DEF AfterOwn, Sure, Harmless, SameBut
<1>8. \A v : Promised(q, sto, s, v) <=> Promised(r, sto, s, v) BY <1>2, SamePromised
<1>9. BeforeOwn(r, sto, b, s)
  BY <1>2, <1>3, <1>5, <1>6, <1>8 DEF BeforeOwn, Sure, Harmless, SameBut
<1>10. Awaits(r, b, {"global"}) => ~Owns(r, s) /\ sto[s] = None
  BY <1>2, <1>4, <1>5, SamePromised DEF Sure, Harmless
<1>11. Shows(r, z, sto, b, s) BY <1>4, <1>5, <1>8 DEF Sure, Shows
<1>12. Sure(r, z, sto, b, s) BY <1>7, <1>9, <1>10, <1>11 DEF Sure, Harmless
<1> QED BY <1>1, <1>12

\* What setting a zoom does to the state,
LEMMA SetZoomFields ==
  ASSUME NEW st \in States, NEW c \in Browsers, NEW z \in Zooms
  PROVE  LET new == SetZoom(st, c, z) IN
         /\ new \in States /\ SameBut(st.queue, new.queue) /\ Quiet(new.queue, c)
         /\ new.zoom = [st.zoom EXCEPT ![c] = z] /\ new.global = st.global
<1>1. PICK mid : mid = [st EXCEPT !.zoom[c] = z] OBVIOUS
<1>2. /\ mid \in States /\ mid.queue = st.queue /\ mid.global = st.global
      /\ mid.zoom = [st.zoom EXCEPT ![c] = z]
  BY <1>1 DEF States
<1>3. SetZoom(st, c, z) = IgnorePending(mid, c) BY <1>1 DEF SetZoom
<1>4. IgnorePending(mid, c) \in States BY <1>2, IgnorePendingCarries DEF Carries
<1> QED BY <1>2, <1>3, <1>4, IgnoredAccesses, IgnoredQuiet

\* b gets the zoom that is promised.
LEMMA SetZoomSure ==
  ASSUME NEW st \in States, NEW b \in Browsers, NEW z \in Zooms, NEW sto, NEW s,
         NEW v \in Values, Promised(st.queue, sto, s, v), z = Wish(v, sto)
  PROVE  Sure(SetZoom(st, b, z).queue, SetZoom(st, b, z).zoom[b], sto, b, s)
<1>1. PICK new : new = SetZoom(st, b, z) OBVIOUS
<1>2. SameBut(st.queue, new.queue) /\ Quiet(new.queue, b) BY <1>1, SetZoomFields
<1>3. new.zoom[b] = z
  <2>1. new.zoom = [st.zoom EXCEPT ![b] = z] BY <1>1, SetZoomFields
  <2>2. st.zoom \in [Browsers -> Zooms] BY DEF States
  <2> QED BY <2>1, <2>2
<1>4. Promised(new.queue, sto, s, v) BY <1>2, SamePromised
<1>5. Sure(new.queue, new.zoom[b], sto, b, s) BY <1>2, <1>3, <1>4, SureQuiet
<1> QED BY <1>1, <1>5

\* ... and nothing to another tab.
LEMMA SetZoomOther ==
  ASSUME NEW st \in States, NEW c \in Browsers, NEW z \in Zooms, NEW b \in Browsers, b # c,
         NEW sto, NEW s, Sure(st.queue, st.zoom[b], sto, b, s)
  PROVE  Sure(SetZoom(st, c, z).queue, SetZoom(st, c, z).zoom[b], sto, b, s)
<1>1. PICK mid : mid = [st EXCEPT !.zoom[c] = z] OBVIOUS
<1>2. mid \in States /\ mid.queue = st.queue /\ mid.zoom[b] = st.zoom[b] BY <1>1 DEF States
<1>3. SetZoom(st, c, z) = IgnorePending(mid, c) BY <1>1 DEF SetZoom
<1>4. Sure(IgnorePending(mid, c).queue, st.zoom[b], sto, b, s) BY <1>2, IgnoredOther
<1>5. IgnorePending(mid, c).zoom = mid.zoom BY <1>2, IgnoredAccesses
<1> QED BY <1>2, <1>3, <1>4, <1>5

\* A notification is dispatched, and no more.
LEMMA SoonFields ==
  ASSUME NEW st \in States, NEW c \in Browsers, NEW p \in BOOLEAN
  PROVE  /\ Soon(st, c, p) \in States
         /\ Soon(st, c, p).queue = st.queue /\ Soon(st, c, p).zoom = st.zoom
         /\ Soon(st, c, p).global = st.global
<1>1. Soon(st, c, p) \in States /\ Soon(st, c, p).queue = st.queue /\ Soon(st, c, p).zoom = st.zoom
  BY SoonCarries DEF Carries
<1>2. Soon(st, c, p).global = st.global BY DEF Soon, States
<1> QED BY <1>1, <1>2

\* An access is posted, and no more.
LEMMA PostFields ==
  ASSUME NEW st \in States, NEW a \in Accesses
  PROVE  /\ Post(st, a) \in States /\ Post(st, a).queue = Append(st.queue, a)
         /\ Post(st, a).zoom = st.zoom /\ Post(st, a).global = st.global
<1>1. PICK q \in Seq(Accesses) : q = Append(st.queue, a) BY Appended DEF States
<1>2. Post(st, a) = [st EXCEPT !.queue = q] BY <1>1 DEF Post
<1> QED BY <1>1, <1>2 DEF States

\* What is known of the global preference.
Knows(g, sto) == g # Unread => GlobalZoom(g) = EnsureValid(sto[Global])

\* _applyPrefToZoom gives b the preference v that is promised for its site.
LEMMA ApplyPrefSure ==
  ASSUME NEW st \in States, NEW v \in Values, NEW b \in Browsers, NEW p \in BOOLEAN,
         NEW sto \in [Groups -> Values], NEW s,
         siteSpecific, b \in open', b \notin synthetic', turns' \in [Browsers -> Nat],
         Knows(st.global, sto), Promised(st.queue, sto, s, v),
         v = None => ~Owns(st.queue, s) /\ sto[s] = None /\ Harmless(st.queue, sto, b, s)
  PROVE  Sure(ApplyPref(st, v, b, p).queue, ApplyPref(st, v, b, p).zoom[b], sto, b, s)
<1>1. PICK new : new = ApplyPref(st, v, b, p) OBVIOUS
<1>2. ASSUME NEW z \in Zooms, z = Wish(v, sto), new = Soon(SetZoom(st, b, z), b, p)
      PROVE  Sure(new.queue, new.zoom[b], sto, b, s)
  <2>1. PICK mid \in States : mid = SetZoom(st, b, z) BY SetZoomFields
  <2>2. Sure(mid.queue, mid.zoom[b], sto, b, s) BY <1>2, <2>1, SetZoomSure
  <2>3. new.queue = mid.queue /\ new.zoom = mid.zoom BY <1>2, <2>1, SoonFields
  <2> QED BY <2>2, <2>3
<1>3. sto[Global] \in Values BY DEF Groups
<1>4. CASE v # None
  <2>1. PICK z \in Zooms : z = EnsureValid(v) BY EnsureValidType
  <2>2. z = Wish(v, sto) BY <1>4, <2>1 DEF Wish
  <2>3. new = Soon(SetZoom(st, b, z), b, p) BY <1>1, <1>4, <2>1 DEF ApplyPref
  <2>4. Sure(new.queue, new.zoom[b], sto, b, s) BY <1>2, <2>2, <2>3
  <2> QED BY <1>1, <2>4
<1>5. CASE v = None /\ st.global # Unread
  <2>1. PICK z \in Zooms : z = EnsureValid(sto[Global]) BY <1>3, EnsureValidType
  <2>2. z = Wish(v, sto) BY <1>5, <2>1 DEF Wish
  <2>3. z = GlobalZoom(st.global) BY <1>5, <2>1 DEF Knows
  <2>4. new = Soon(SetZoom(st, b, z), b, p) BY <1>1, <1>5, <2>3 DEF ApplyPref
  <2>5. Sure(new.queue, new.zoom[b], sto, b, s) BY <1>2, <2>2, <2>4
  <2> QED BY <1>1, <2>5
<1>6. CASE v = None /\ st.global = Unread
  <2>1. PICK a : a = Access("global", b, Global, None, p) OBVIOUS
  <2>2. /\ a \in Accesses /\ a.kind = "global" /\ a.browser = b /\ a.current
    BY <2>1 DEF Access, Accesses, Kinds, Groups, Values
  <2>3. new = Post(st, a) BY <1>1, <1>6, <2>1 DEF ApplyPref
  <2>4. PICK q \in Seq(Accesses) : q = st.queue BY DEF States
  <2>5. new.queue = Append(q, a) BY <2>2, <2>3, <2>4, PostFields
  <2>6. Harmless(q, sto, b, s) /\ ~Owns(q, s) /\ sto[s] = None BY <1>6, <2>4
  <2>7. Sure(Append(q, a), new.zoom[b], sto, b, s) BY <2>2, <2>6, SureGlobal
  <2> QED BY <1>1, <2>5, <2>7
<1> QED BY <1>4, <1>5, <1>6

\* What happens to the zoom of another tab does not matter.
LEMMA ApplyPrefOther ==
  ASSUME NEW st \in States, NEW v \in Values, NEW c \in Browsers, NEW p \in BOOLEAN,
         NEW b \in Browsers, b # c, NEW sto, NEW s, turns' \in [Browsers -> Nat],
         Sure(st.queue, st.zoom[b], sto, b, s)
  PROVE  Sure(ApplyPref(st, v, c, p).queue, ApplyPref(st, v, c, p).zoom[b], sto, b, s)
<1>1. PICK new : new = ApplyPref(st, v, c, p) OBVIOUS
<1>2. ASSUME NEW z \in Zooms, new = Soon(SetZoom(st, c, z), c, p)
      PROVE  Sure(new.queue, new.zoom[b], sto, b, s)
  <2>1. PICK mid \in States : mid = SetZoom(st, c, z) BY SetZoomFields
  <2>2. Sure(mid.queue, mid.zoom[b], sto, b, s) BY <2>1, SetZoomOther
  <2>3. new.queue = mid.queue /\ new.zoom = mid.zoom BY <1>2, <2>1, SoonFields
  <2> QED BY <2>2, <2>3
<1>3. CASE new = Soon(st, c, p)
  <2>1. new.queue = st.queue /\ new.zoom = st.zoom BY <1>3, SoonFields
  <2> QED BY <1>1, <2>1
<1>4. CASE new = Soon(SetZoom(st, c, EnsureValid(v)), c, p)
  <2>1. PICK z \in Zooms : z = EnsureValid(v) BY EnsureValidType
  <2>2. Sure(new.queue, new.zoom[b], sto, b, s) BY <1>2, <1>4, <2>1
  <2> QED BY <1>1, <2>2
<1>5. CASE new = Soon(SetZoom(st, c, GlobalZoom(st.global)), c, p) /\ st.global # Unread
  <2>1. PICK z \in Zooms : z = GlobalZoom(st.global)
    BY <1>5, GlobalZoomType DEF States
  <2>2. Sure(new.queue, new.zoom[b], sto, b, s) BY <1>2, <1>5, <2>1
  <2> QED BY <1>1, <2>2
<1>6. CASE new = Post(st, Access("global", c, Global, None, p))
  <2>1. PICK a : a = Access("global", c, Global, None, p) OBVIOUS
  <2>2. a \in Accesses /\ a.kind = "global" /\ a.browser = c
    BY <2>1 DEF Access, Accesses, Kinds, Groups, Values
  <2>3. ~IsOwn(a, s) /\ ~Counts(a, b, Reads) BY <2>2 DEF IsOwn, Change, Counts
  <2>4. new.queue = Append(st.queue, a) /\ new.zoom = st.zoom BY <1>6, <2>1, <2>2, PostFields
  <2>5. st.queue \in Seq(Accesses) BY DEF States
  <2>6. Sure(new.queue, new.zoom[b], sto, b, s) BY <2>2, <2>3, <2>4, <2>5, SureAppend
  <2> QED BY <1>1, <2>6
<1> QED BY <1>1, <1>3, <1>4, <1>5, <1>6 DEF ApplyPref

-----------------------------------------------------------------------------
\* What the functions on states keep besides.

\* A removal carries no value, and this window changes no global preference.
Sane(a) ==
  /\ a.kind = "remove" => a.value = None
  /\ Change(a) /\ a.browser # None => a.site # Global
AllSane(q) == \A i \in DOMAIN q : Sane(q[i])

Mild(st, new) ==
  /\ new \in States /\ new.global = st.global
  /\ AllSane(st.queue) => AllSane(new.queue)

\* Two steps that are mild are one.
LEMMA MildTwice ==
  ASSUME NEW st, NEW mid, NEW new, Mild(st, mid), Mild(mid, new)
  PROVE  Mild(st, new)
BY DEF Mild

\* Tokens do not matter,
LEMMA SameSane ==
  ASSUME NEW q, NEW r, SameBut(q, r), AllSane(q)
  PROVE  AllSane(r)
<1>1. \A i \in DOMAIN q : Sane(r[i]) BY DEF SameBut, AllSane, Sane, Change
<1> QED BY <1>1 DEF SameBut, AllSane

\* ... so ignoring accesses is mild,
LEMMA IgnoredMild ==
  ASSUME NEW st \in States, NEW c \in Browsers PROVE Mild(st, IgnorePending(st, c))
<1>1. PICK new : new = IgnorePending(st, c) OBVIOUS
<1>2. new \in States BY <1>1, IgnorePendingCarries DEF Carries
<1>3. SameBut(st.queue, new.queue) /\ new.global = st.global BY <1>1, IgnoredAccesses
<1> QED BY <1>1, <1>2, <1>3, SameSane DEF Mild

\* ... as are a notification,
LEMMA SoonMild ==
  ASSUME NEW st \in States, NEW c \in Browsers, NEW p \in BOOLEAN
  PROVE  Mild(st, Soon(st, c, p))
BY SoonFields DEF Mild

\* ... setting a zoom,
LEMMA SetZoomMild ==
  ASSUME NEW st \in States, NEW c \in Browsers, NEW z \in Zooms
  PROVE  Mild(st, SetZoom(st, c, z))
<1>1. PICK new : new = SetZoom(st, c, z) OBVIOUS
<1>2. new \in States /\ SameBut(st.queue, new.queue) /\ new.global = st.global
  BY <1>1, SetZoomFields
<1> QED BY <1>1, <1>2, SameSane DEF Mild

\* ... posting an access,
LEMMA PostMild ==
  ASSUME NEW st \in States, NEW a \in Accesses, Sane(a)
  PROVE  Mild(st, Post(st, a))
<1>1. PICK new : new = Post(st, a) OBVIOUS
<1>2. new \in States /\ new.queue = Append(st.queue, a) /\ new.global = st.global
  BY <1>1, PostFields
<1>3. st.queue \in Seq(Accesses) BY DEF States
<1>4. AllSane(st.queue) => AllSane(new.queue)
  <2>1. \A i \in DOMAIN new.queue : i \in DOMAIN st.queue \/ i = Len(st.queue) + 1
    BY <1>2, <1>3, Appended
  <2>2. \A i \in DOMAIN st.queue : new.queue[i] = st.queue[i] BY <1>2, <1>3, Appended
  <2>3. new.queue[Len(st.queue) + 1] = a BY <1>2, <1>3, Appended
  <2> QED BY <2>1, <2>2, <2>3 DEF AllSane
<1> QED BY <1>1, <1>2, <1>4 DEF Mild

\* ... and applying a preference.
LEMMA ApplyPrefMild ==
  ASSUME NEW st \in States, NEW v \in Values, NEW c \in Browsers, NEW p \in BOOLEAN,
         turns' \in [Browsers -> Nat]
  PROVE  Mild(st, ApplyPref(st, v, c, p))
<1>1. PICK new : new = ApplyPref(st, v, c, p) OBVIOUS
<1>2. ASSUME NEW z \in Zooms, new = Soon(SetZoom(st, c, z), c, p) PROVE Mild(st, new)
  <2>1. PICK mid \in States : mid = SetZoom(st, c, z) BY SetZoomFields
  <2>2. Mild(st, mid) /\ Mild(mid, new) BY <1>2, <2>1, SetZoomMild, SoonMild
  <2> QED BY <2>2, MildTwice
<1>3. CASE new = Soon(st, c, p)
  BY <1>1, <1>3, SoonMild
<1>4. CASE new = Soon(SetZoom(st, c, EnsureValid(v)), c, p)
  <2>1. PICK z \in Zooms : z = EnsureValid(v) BY EnsureValidType
  <2>2. Mild(st, new) BY <1>2, <1>4, <2>1
  <2> QED BY <1>1, <2>2
<1>5. CASE new = Soon(SetZoom(st, c, GlobalZoom(st.global)), c, p) /\ st.global # Unread
  <2>1. PICK z \in Zooms : z = GlobalZoom(st.global)
    BY <1>5, GlobalZoomType DEF States
  <2>2. Mild(st, new) BY <1>2, <1>5, <2>1
  <2> QED BY <1>1, <2>2
<1>6. CASE new = Post(st, Access("global", c, Global, None, p))
  <2>1. PICK a : a = Access("global", c, Global, None, p) OBVIOUS
  <2>2. a \in Accesses /\ a.kind = "global"
    BY <2>1 DEF Access, Accesses, Kinds, Groups, Values
  <2>3. Mild(st, new) BY <1>6, <2>1, <2>2, PostMild DEF Sane, Change
  <2> QED BY <1>1, <2>3
<1> QED BY <1>1, <1>3, <1>4, <1>5, <1>6 DEF ApplyPref

-----------------------------------------------------------------------------
\* A location change.

\* Where nothing is awaited there is nothing to undo.
LEMMA QuietHarmless ==
  ASSUME NEW q, NEW sto, NEW b, NEW s, Quiet(q, b)
  PROVE  Harmless(q, sto, b, s)
BY QuietCounts, KindSets DEF Harmless, AfterOwn, BeforeOwn

\* The page that is shown gets the zoom of its site: from the cache, which has no
\* change of the site on its way, or from the read that is posted.
LEMMA LocationChangeSure ==
  ASSUME TypeInv, NEW b \in Browsers, NEW t \in BOOLEAN, LocationChange(b, t), inited,
         siteSpecific, site'[b] \in Groups, site'[b] # Blank, b \notin synthetic',
         b \in open', turns' \in [Browsers -> Nat], Knows(global, stored)
  PROVE  Sure(queue', zoom'[b], stored, b, site'[b])
<1>1. PICK s \in Groups : s = site'[b] OBVIOUS
<1>2. State \in States /\ stored \in [Groups -> Values] BY DEF TypeInv
<1>3. PICK quiet : quiet = IgnorePending(State, b) OBVIOUS
<1>4. quiet \in States BY <1>2, <1>3, IgnorePendingCarries DEF Carries
<1>5. PICK q \in Seq(Accesses) : q = quiet.queue BY <1>4 DEF States
<1>6. Quiet(q, b) /\ SameBut(queue, q) /\ quiet.global = global
  BY <1>2, <1>3, <1>5, StateFields, IgnoredQuiet, IgnoredAccesses
<1>7. Harmless(q, stored, b, s) BY <1>6, QuietHarmless
<1>8. CASE Cached(s) /\ Becomes(ApplyPref(quiet, stored[s], b, TRUE))
  <2>1. PICK v \in Values : v = stored[s] BY <1>2
  <2>2. ~Owns(queue, s) BY <1>8 DEF Cached, Pending, Owns, IsOwn
  <2>3. ~Owns(q, s) BY <1>6, <2>2, SamePromised
  <2>4. Promised(q, stored, s, v) BY <2>1, <2>3 DEF Promised
  <2>5. PICK new : new = ApplyPref(quiet, v, b, TRUE) OBVIOUS
  <2>6. v = None => ~Owns(quiet.queue, s) /\ stored[s] = None
                     /\ Harmless(quiet.queue, stored, b, s)
    BY <1>5, <1>7, <2>1, <2>3
  <2>7. Knows(quiet.global, stored) /\ Promised(quiet.queue, stored, s, v)
    BY <1>5, <1>6, <2>4
  <2>8. Sure(new.queue, new.zoom[b], stored, b, s)
    BY <1>2, <1>4, <2>5, <2>6, <2>7, ApplyPrefSure
  <2>9. Becomes(new) BY <1>8, <2>1, <2>5
  <2> QED BY <1>1, <2>8, <2>9 DEF Becomes
<1>9. CASE Becomes(Post(quiet, Access("location", b, s, None, TRUE)))
  <2>1. PICK a : a = Access("location", b, s, None, TRUE) OBVIOUS
  <2>2. a \in Accesses /\ a.kind = "location" /\ a.browser = b /\ a.current /\ a.site = s
    BY <2>1 DEF Access, Accesses, Kinds, Values
  <2>3. PICK new : new = Post(quiet, a) OBVIOUS
  <2>4. new.queue = Append(q, a) BY <1>4, <1>5, <2>2, <2>3, PostFields
  <2>5. Sure(Append(q, a), new.zoom[b], stored, b, s) BY <1>7, <2>2, SureLocation
  <2>6. Becomes(new) BY <1>9, <2>1, <2>3
  <2> QED BY <1>1, <2>4, <2>5, <2>6 DEF Becomes
<1> QED BY <1>1, <1>3, <1>8, <1>9 DEF LocationChange

\* The states a location change of c leads to.
Lead(c, s, new) ==
  \E mid : mid = IgnorePending(State, c) /\
  \/ new = Soon(mid, c, TRUE)
  \/ new = Soon([mid EXCEPT !.zoom[c] = 1], c, TRUE)
  \/ \E v \in Values : new = ApplyPref(mid, v, c, TRUE)
  \/ new = Post(mid, Access("location", c, s, None, TRUE))

\* A location change leads to one of them.
LEMMA LocationChangeLeads ==
  ASSUME TypeInv, NEW c \in Browsers, NEW t, LocationChange(c, t), inited,
         site'[c] \in Groups
  PROVE  \E new : Lead(c, site'[c], new) /\ Becomes(new)
<1>1. PICK s \in Groups : s = site'[c] OBVIOUS
<1>2. stored[s] \in Values /\ None \in Values BY DEF TypeInv, Values
<1>3. PICK mid : mid = IgnorePending(State, c) OBVIOUS
<1>4. \/ Becomes(Soon(mid, c, TRUE))
      \/ Becomes(Soon([mid EXCEPT !.zoom[c] = 1], c, TRUE))
      \/ Becomes(ApplyPref(mid, None, c, TRUE)) \/ Becomes(ApplyPref(mid, stored[s], c, TRUE))
      \/ Becomes(Post(mid, Access("location", c, s, None, TRUE)))
  BY <1>1, <1>3 DEF LocationChange
<1> QED BY <1>1, <1>2, <1>3, <1>4 DEF Lead

\* It leaves another tab alone, and what is known of the global preference.
LEMMA LeadOther ==
  ASSUME NEW c \in Browsers, NEW s \in Groups, turns' \in [Browsers -> Nat],
         State \in States, NEW new, Lead(c, s, new)
  PROVE  /\ Mild(State, new)
         /\ \A x : \A b \in Browsers :
              b # c /\ Sure(queue, zoom[b], stored, b, x)
                => Sure(new.queue, new.zoom[b], stored, b, x)
<1>1. PICK mid : /\ mid = IgnorePending(State, c)
                 /\ \/ new = Soon(mid, c, TRUE)
                    \/ new = Soon([mid EXCEPT !.zoom[c] = 1], c, TRUE)
                    \/ \E v \in Values : new = ApplyPref(mid, v, c, TRUE)
                    \/ new = Post(mid, Access("location", c, s, None, TRUE))
  BY DEF Lead
<1>2. mid \in States /\ mid.zoom = zoom
  BY <1>1, StateFields, IgnoredAccesses, IgnorePendingCarries DEF Carries
<1>3. Mild(State, mid) BY <1>1, IgnoredMild
<1>4. SUFFICES /\ Mild(mid, new)
               /\ \A x : \A b \in Browsers :
                    b # c /\ Sure(mid.queue, mid.zoom[b], stored, b, x)
                      => Sure(new.queue, new.zoom[b], stored, b, x)
  <2>1. ASSUME NEW b \in Browsers, NEW x, b # c, Sure(queue, zoom[b], stored, b, x)
        PROVE  Sure(mid.queue, mid.zoom[b], stored, b, x)
    <3>1. Sure(State.queue, zoom[b], stored, b, x) BY <2>1, StateFields
    <3> QED BY <1>1, <1>2, <2>1, <3>1, IgnoredOther
  <2> QED BY <1>3, <2>1, MildTwice
<1>5. CASE new = Soon(mid, c, TRUE)
  <2>1. new.queue = mid.queue /\ new.zoom = mid.zoom BY <1>2, <1>5, SoonFields
  <2> QED BY <1>2, <1>5, <2>1, SoonMild
<1>6. CASE new = Soon([mid EXCEPT !.zoom[c] = 1], c, TRUE)
  <2>1. PICK m : m = [mid EXCEPT !.zoom[c] = 1] OBVIOUS
  <2>2. /\ m \in States /\ m.queue = mid.queue /\ m.global = mid.global
        /\ \A b \in Browsers : b # c => m.zoom[b] = mid.zoom[b]
    BY <1>2, <2>1, ConstantsAssumption DEF States
  <2>3. new = Soon(m, c, TRUE) BY <1>6, <2>1
  <2>4. new.queue = m.queue /\ new.zoom = m.zoom BY <2>2, <2>3, SoonFields
  <2>5. Mild(mid, m) /\ Mild(m, new) BY <2>2, <2>3, SoonMild DEF Mild
  <2> QED BY <2>2, <2>4, <2>5, MildTwice
<1>7. ASSUME NEW v \in Values, new = ApplyPref(mid, v, c, TRUE)
      PROVE  /\ Mild(mid, new)
             /\ \A x : \A b \in Browsers :
                  b # c /\ Sure(mid.queue, mid.zoom[b], stored, b, x)
                    => Sure(new.queue, new.zoom[b], stored, b, x)
  BY <1>2, <1>7, ApplyPrefMild, ApplyPrefOther
<1>8. CASE new = Post(mid, Access("location", c, s, None, TRUE))
  <2>1. PICK a : a = Access("location", c, s, None, TRUE) OBVIOUS
  <2>2. a \in Accesses /\ a.kind = "location" /\ a.browser = c
    BY <2>1 DEF Access, Accesses, Kinds, Values
  <2>3. new.queue = Append(mid.queue, a) /\ new.zoom = mid.zoom /\ mid.queue \in Seq(Accesses)
    BY <1>2, <1>8, <2>1, <2>2, PostFields DEF States
  <2>4. Mild(mid, new) BY <1>2, <1>8, <2>1, <2>2, PostMild DEF Sane, Change
  <2>5. ASSUME NEW b \in Browsers, NEW x, b # c, Sure(mid.queue, mid.zoom[b], stored, b, x)
        PROVE  Sure(new.queue, new.zoom[b], stored, b, x)
    <3>1. ~IsOwn(a, x) /\ ~Counts(a, b, Reads) BY <2>2, <2>5 DEF IsOwn, Change, Counts
    <3>2. PICK q \in Seq(Accesses) : q = mid.queue BY <2>3
    <3>3. Sure(Append(q, a), mid.zoom[b], stored, b, x) BY <2>2, <2>5, <3>1, <3>2, SureAppend
    <3> QED BY <2>3, <3>2, <3>3
  <2> QED BY <2>4, <2>5
<1> QED BY <1>1, <1>5, <1>6, <1>7, <1>8

-----------------------------------------------------------------------------
\* The invariant.

\* The zoom of b is what the preferences say: no preference of browser.zoom was
\* flipped, init missed no location of b, and no change of its site was overlooked.
Certain(b) ==
  /\ inited /\ flips = 0 /\ b \notin missed /\ site[b] # Blank /\ b \notin synthetic
  /\ overlooked \cap {site[b], Global} = {}

\* The strengthening of SelectedSettles to a queue that is not empty.
SelectedSure ==
  Certain(selected) => Sure(queue, zoom[selected], stored, selected, site[selected])

\* What it rests on.
Grounds ==
  /\ selected \in open
  /\ inited /\ flips = 0 => siteSpecific /\ updateBackground
  /\ ~inited => global = Unread /\ \A b \in Browsers : site[b] = Blank \/ b \in initial
  /\ \A b \in Browsers : site[b] # Global
  /\ Global \notin overlooked => Knows(global, stored)
  /\ AllSane(queue)

ZoomInv == IInv /\ Grounds /\ SelectedSure

\* The types it includes.
LEMMA ZoomInvTypes ==
  ASSUME ZoomInv
  PROVE  /\ TypeInv /\ Counted /\ State \in States /\ selected \in Browsers
         /\ queue \in Seq(Accesses) /\ site[selected] \in Groups
         /\ stored \in [Groups -> Values] /\ turns \in [Browsers -> Nat]
         /\ zoom \in [Browsers -> Zooms]
BY StateFields DEF ZoomInv, IInv, TypeInv, Counted, States

\* Nothing changes that Sure speaks of.
LEMMA NothingSure ==
  ASSUME ZoomInv, UNCHANGED <<zoom, queue, stored, site, selected, global>>,
         Certain(selected)' => Certain(selected)
  PROVE  /\ SelectedSure' /\ AllSane(queue')
         /\ \A b \in Browsers : site'[b] # Global
         /\ Knows(global, stored) => Knows(global', stored')
BY DEF ZoomInv, Grounds, SelectedSure, Knows

\* A tab that shows a page when init runs is missed, so nothing is certain.
LEMMA StartSure ==
  ASSUME ZoomInv, Start PROVE Grounds' /\ SelectedSure'
<1>1. ~Certain(selected)'
  BY ZoomInvTypes DEF Start, Certain, ZoomInv, Grounds, docs
<1>2. SelectedSure' BY <1>1 DEF SelectedSure
<1>3. Grounds' BY DEF Grounds, ZoomInv, Start, docs, service, bounds, Knows
<1> QED BY <1>2, <1>3

\* Once a preference is flipped, nothing is certain.
LEMMA SetPrefSure ==
  ASSUME ZoomInv, SetPref PROVE Grounds' /\ SelectedSure'
<1>1. flips' # 0 BY DEF ZoomInv, IInv, TypeInv, SetPref
<1>2. SelectedSure' BY <1>1 DEF SelectedSure, Certain
<1>3. Grounds' BY <1>1 DEF Grounds, ZoomInv, SetPref, docs, startup, service, Knows
<1> QED BY <1>2, <1>3

\* Closing another tab, a notification, and a stutter.
LEMMA IdleSure ==
  ASSUME ZoomInv,
         (\E b \in Browsers : Close(b) \/ Notify(b)) \/ UNCHANGED vars
  PROVE  Grounds' /\ SelectedSure'
<1>1. /\ UNCHANGED <<zoom, queue, stored, site, selected, global, synthetic, inited, initial,
                     missed, overlooked, flips, siteSpecific, updateBackground>>
      /\ selected \in open => selected \in open'
  BY DEF Close, Notify, Step, vars, docs, startup, prefVars, service, bounds
<1>2. SelectedSure' /\ AllSane(queue') BY <1>1, NothingSure DEF Certain
<1>3. Grounds' BY <1>1, <1>2 DEF Grounds, ZoomInv, Knows
<1> QED BY <1>2, <1>3

\* A change of another window is only posted.
LEMMA ChangeElsewhereSure ==
  ASSUME ZoomInv, NEW g \in Groups, NEW v \in Foreign, ChangeElsewhere(g, v)
  PROVE  Grounds' /\ SelectedSure'
<1>1. PICK a : a = [kind |-> IF v = None THEN "remove" ELSE "set",
                    browser |-> None, site |-> g, value |-> v,
                    notify |-> FALSE, current |-> FALSE, turn |-> 0]
  OBVIOUS
<1>2. a \in Accesses BY <1>1, ConstantsAssumption DEF Accesses, Kinds, Values
<1>3. ~Counts(a, selected, Reads) /\ ~IsOwn(a, site[selected]) /\ Sane(a)
  BY <1>1 DEF Counts, IsOwn, Sane
<1>4. /\ UNCHANGED <<zoom, stored, site, open, selected, global, synthetic, inited, initial,
                     missed, overlooked, flips, siteSpecific, updateBackground>>
      /\ queue' = Append(queue, a)
  BY <1>1 DEF ChangeElsewhere, Step, docs, startup, prefVars, service
<1>5. ASSUME Certain(selected)
      PROVE  Sure(queue', zoom[selected], stored, selected, site[selected])
  <2>1. Sure(queue, zoom[selected], stored, selected, site[selected])
    BY <1>5 DEF ZoomInv, SelectedSure
  <2> QED BY <1>2, <1>3, <1>4, <2>1, SureAppend, ZoomInvTypes
<1>6. SelectedSure' BY <1>4, <1>5 DEF SelectedSure, Certain
<1>7. Mild(State, Post(State, a)) /\ Post(State, a).queue = queue'
  BY <1>2, <1>3, <1>4, PostMild, PostFields, StateFields, ZoomInvTypes
<1>8. AllSane(queue') BY <1>7, StateFields DEF Mild, ZoomInv, Grounds
<1>9. Grounds' BY <1>4, <1>8 DEF Grounds, ZoomInv, Knows
<1> QED BY <1>6, <1>9

\* A location change of c, which may be of the selected tab.
LEMMA ShownSure ==
  ASSUME ZoomInv, NEW c \in Browsers, NEW t \in BOOLEAN, LocationChange(c, t),
         site' \in [Browsers -> Groups], turns' \in [Browsers -> Nat], c \in open',
         UNCHANGED <<stored, overlooked, flips, siteSpecific, updateBackground, open>>,
         \A b \in Browsers \ {c} : site'[b] = site[b] /\ (b \in synthetic' <=> b \in synthetic),
         selected' = selected \/ selected' = c,
         ~inited => site'[c] = Blank \/ c \in initial',
         site'[c] # Global
  PROVE  Grounds' /\ SelectedSure'
<1>1. CASE ~inited
  <2>1. /\ inited' = inited /\ initial' = initial \cup {c}
        /\ UNCHANGED <<zoom, queue, global>>
    BY <1>1, StateFields DEF LocationChange, Becomes
  <2>2. SelectedSure' BY <1>1, <2>1 DEF SelectedSure, Certain
  <2>3. \A b \in Browsers : site'[b] # Global /\ (site'[b] = Blank \/ b \in initial')
    BY <1>1, <2>1 DEF ZoomInv, Grounds
  <2>4. Grounds' BY <1>1, <2>1, <2>3 DEF Grounds, ZoomInv, Knows
  <2> QED BY <2>2, <2>4
<1>2. CASE inited
  <2>1. inited' = inited /\ initial' = initial /\ missed' = missed \ {c}
    BY <1>2 DEF LocationChange
  <2>2. PICK s \in Groups : s = site'[c] OBVIOUS
  <2>3. PICK new : Lead(c, s, new) /\ Becomes(new)
    BY <1>2, <2>2, LocationChangeLeads, ZoomInvTypes
  <2>4. /\ Mild(State, new)
        /\ \A x : \A b \in Browsers :
             b # c /\ Sure(queue, zoom[b], stored, b, x)
               => Sure(new.queue, new.zoom[b], stored, b, x)
    BY <2>3, LeadOther, ZoomInvTypes
  <2>5. queue' = new.queue /\ zoom' = new.zoom /\ global' = new.global
    BY <2>3 DEF Becomes
  <2>6. AllSane(queue') /\ global' = global
    BY <2>4, <2>5, StateFields DEF Mild, ZoomInv, Grounds
  <2>7. \A b \in Browsers : site'[b] # Global BY DEF ZoomInv, Grounds
  <2>8. Grounds' BY <1>2, <2>1, <2>6, <2>7 DEF Grounds, ZoomInv, Knows
  <2>9. CASE selected' = c
    <3>1. ASSUME Certain(selected)' PROVE Sure(queue', zoom'[c], stored, c, site'[c])
      <4>1. /\ site'[c] # Blank /\ c \notin synthetic' /\ flips = 0 /\ Global \notin overlooked
        BY <2>9, <3>1 DEF Certain
      <4>2. siteSpecific /\ Knows(global, stored) BY <1>2, <4>1 DEF ZoomInv, Grounds
      <4>3. site'[c] \in Groups BY <2>2
      <4> QED BY <1>2, <4>1, <4>2, <4>3, LocationChangeSure, ZoomInvTypes
    <3>2. SelectedSure' BY <2>9, <3>1 DEF SelectedSure
    <3> QED BY <2>8, <3>2
  <2>10. CASE selected' = selected /\ selected # c
    <3>1. Certain(selected)' => Certain(selected)
      BY <1>2, <2>1, <2>10, ZoomInvTypes DEF Certain
    <3>2. site'[selected] = site[selected] BY <2>10, ZoomInvTypes
    <3>3. ASSUME Certain(selected)
          PROVE  Sure(queue', zoom'[selected], stored, selected, site[selected])
      <4>1. Sure(queue, zoom[selected], stored, selected, site[selected])
        BY <3>3 DEF ZoomInv, SelectedSure
      <4>2. Sure(new.queue, new.zoom[selected], stored, selected, site[selected])
        BY <2>4, <2>10, <4>1, ZoomInvTypes
      <4> QED BY <2>5, <4>2
    <3>4. SelectedSure' BY <2>10, <3>1, <3>2, <3>3 DEF SelectedSure
    <3> QED BY <2>8, <3>4
  <2> QED BY <2>9, <2>10
<1> QED BY <1>1, <1>2

\* A page is loaded,
LEMMA NavigateSure ==
  ASSUME ZoomInv, NEW c \in Browsers, Navigate(c) PROVE Grounds' /\ SelectedSure'
<1>1. PICK s \in Sites \cup {Blank} : site' = [site EXCEPT ![c] = s]
  BY DEF Navigate
<1>2. site \in [Browsers -> Groups] BY ZoomInvTypes DEF TypeInv
<1>3. site' \in [Browsers -> Groups] /\ site'[c] # Global
  BY <1>1, <1>2, ConstantsAssumption DEF Groups
<1>4. \A b \in Browsers \ {c} : site'[b] = site[b] /\ (b \in synthetic' <=> b \in synthetic)
  BY <1>1, <1>2 DEF Navigate
<1>5. turns' \in [Browsers -> Nat] BY ZoomInvTypes DEF Navigate
<1>6. LocationChange(c, FALSE) /\ c \in open' BY DEF Navigate
<1>7. ~inited => c \in initial' BY <1>6 DEF LocationChange
<1>8. /\ UNCHANGED <<stored, overlooked, flips, siteSpecific, updateBackground, open>>
      /\ selected' = selected
  BY DEF Navigate, Step, prefVars, service
<1> QED BY <1>3, <1>4, <1>5, <1>6, <1>7, <1>8, ShownSure

\* ... or another tab shown.
LEMMA SelectSure ==
  ASSUME ZoomInv, NEW c \in Browsers, Select(c) PROVE Grounds' /\ SelectedSure'
<1>1. site \in [Browsers -> Groups] /\ turns \in [Browsers -> Nat]
  BY ZoomInvTypes DEF TypeInv
<1>2. /\ UNCHANGED <<stored, overlooked, flips, siteSpecific, updateBackground, open, site,
                     synthetic, turns>>
      /\ selected' = c /\ c \in open
  BY DEF Select, Step, prefVars, service
<1>3. CASE updateBackground
  <2>1. LocationChange(c, TRUE) BY <1>3 DEF Select
  <2>2. ~inited => c \in initial' BY <2>1 DEF LocationChange
  <2>3. site'[c] # Global BY <1>2 DEF ZoomInv, Grounds
  <2> QED BY <1>1, <1>2, <2>1, <2>2, <2>3, ShownSure
<1>4. CASE ~updateBackground
  <2>1. UNCHANGED <<zoom, queue, global, inited, initial, missed>>
    BY <1>4, StateFields DEF Select, startup, Becomes
  <2>2. ~Certain(selected)' BY <1>2, <1>4, <2>1 DEF Certain, ZoomInv, Grounds
  <2>3. SelectedSure' BY <2>2 DEF SelectedSure
  <2>4. Grounds' BY <1>2, <2>1 DEF Grounds, ZoomInv, Knows
  <2> QED BY <2>3, <2>4
<1> QED BY <1>3, <1>4

\* A zoom in range is kept.
LEMMA ZoomKept ==
  ASSUME NEW z \in Zooms, NEW sto PROVE z \in Values /\ EnsureValid(z) = z /\ Wish(z, sto) = z
BY ConstantsAssumption DEF Zooms, Values, EnsureValid, Wish

\* A tab is not taken for another window.
LEMMA BrowserIsNotNone == \A b \in Browsers : b # None
BY ConstantsAssumption

\* The tab shows the zoom that is set, and awaits nothing.
LEMMA SetZoomShows ==
  ASSUME NEW st \in States, NEW c \in Browsers, NEW z \in Zooms
  PROVE  Quiet(SetZoom(st, c, z).queue, c) /\ SetZoom(st, c, z).zoom[c] = z
<1>1. PICK new : new = SetZoom(st, c, z) OBVIOUS
<1>2. Quiet(new.queue, c) /\ new.zoom = [st.zoom EXCEPT ![c] = z] BY <1>1, SetZoomFields
<1>3. st.zoom \in [Browsers -> Zooms] BY DEF States
<1>4. new.zoom[c] = z BY <1>2, <1>3
<1> QED BY <1>1, <1>2, <1>4

\* Zooming and resetting the selected tab leave the rest as it is.
LEMMA ZoomedSure ==
  ASSUME ZoomInv, NEW new, Mild(State, new), Becomes(new),
         UNCHANGED <<stored, site, open, selected, synthetic, inited, initial, missed, flips,
                     siteSpecific, updateBackground>>,
         overlooked \subseteq overlooked',
         Certain(selected)' =>
           Sure(new.queue, new.zoom[selected], stored, selected, site[selected])
  PROVE  Grounds' /\ SelectedSure'
<1>1. queue' = new.queue /\ zoom' = new.zoom /\ global' = new.global BY DEF Becomes
<1>2. global' = global /\ AllSane(queue')
  BY <1>1, StateFields DEF Mild, ZoomInv, Grounds
<1>3. Grounds' BY <1>2 DEF Grounds, ZoomInv, Knows
<1>4. SelectedSure' BY <1>1 DEF SelectedSure
<1> QED BY <1>3, <1>4

\* The user zooms: the page shows the zoom, and the change of the preference is posted.
LEMMA ZoomBySure ==
  ASSUME ZoomInv, NEW v \in Zooms, ZoomBy(v) PROVE Grounds' /\ SelectedSure'
<1>1. PICK b \in Browsers : b = selected BY ZoomInvTypes
<1>2. PICK s \in Groups : s = site[b] BY <1>1, ZoomInvTypes
<1>3. PICK st \in States : st = SetZoom(State, b, v) BY ZoomInvTypes, SetZoomFields
<1>4. Mild(State, st) /\ Quiet(st.queue, b) /\ st.zoom[b] = v
  <2>1. Mild(State, st) BY <1>3, SetZoomMild, ZoomInvTypes
  <2>2. Quiet(st.queue, b) /\ st.zoom[b] = v BY <1>3, SetZoomShows, ZoomInvTypes
  <2> QED BY <2>1, <2>2
<1>5. /\ UNCHANGED <<stored, site, open, selected, synthetic, inited, initial, missed, flips,
                     siteSpecific, updateBackground, overlooked>>
      /\ Becomes(ApplyZoomToPref(st, b)) /\ turns' \in [Browsers -> Nat]
  BY <1>1, <1>3, ZoomInvTypes DEF ZoomBy, Step, docs, startup, prefVars, service
<1>6. CASE ~siteSpecific \/ b \in synthetic
  <2>1. Becomes(st) BY <1>5, <1>6 DEF ApplyZoomToPref
  <2>2. ~Certain(selected)' BY <1>1, <1>5, <1>6 DEF Certain, ZoomInv, Grounds
  <2> QED BY <1>4, <1>5, <2>1, <2>2, ZoomedSure
<1>7. CASE siteSpecific /\ b \notin synthetic
  <2>1. PICK a : a = Access("set", b, s, st.zoom[b], FALSE) OBVIOUS
  <2>2. v \in Values /\ Wish(v, stored) = v BY ZoomKept
  <2>3. a \in Accesses /\ a.kind = "set" /\ a.browser = b /\ a.site = s /\ a.value = v
    BY <1>4, <1>5, <2>1, <2>2 DEF Access, Accesses, Kinds
  <2>4. PICK new : new = Post(st, a) OBVIOUS
  <2>5. Becomes(new) BY <1>2, <1>5, <1>7, <2>1, <2>4 DEF ApplyZoomToPref
  <2>6. s # Global BY <1>2 DEF ZoomInv, Grounds
  <2>7. Mild(State, new) BY <1>4, <2>3, <2>4, <2>6, PostMild, MildTwice DEF Sane
  <2>8. new.queue = Append(st.queue, a) /\ new.zoom = st.zoom
    BY <2>3, <2>4, PostFields
  <2>9. PICK q \in Seq(Accesses) : q = st.queue BY DEF States
  <2>10. IsOwn(a, s) /\ a.value \in Values /\ v = Wish(a.value, stored)
    BY <2>2, <2>3, BrowserIsNotNone DEF IsOwn, Change
  <2>11. Quiet(q, b) BY <1>4, <2>9
  <2>12. Sure(Append(q, a), v, stored, b, s) BY <2>3, <2>10, <2>11, SureOwn
  <2>13. Sure(new.queue, new.zoom[selected], stored, selected, site[selected])
    BY <1>1, <1>2, <1>4, <2>8, <2>9, <2>12
  <2> QED BY <1>5, <2>5, <2>7, <2>13, ZoomedSure
<1> QED BY <1>6, <1>7

\* The user resets: the page shows the global zoom or waits for it, and the removal
\* is posted.  With a read on its way, the site is overlooked.
LEMMA ResetSure ==
  ASSUME ZoomInv, Reset PROVE Grounds' /\ SelectedSure'
<1>1. PICK b \in Browsers : b = selected BY ZoomInvTypes
<1>2. PICK s \in Groups : s = site[b] BY <1>1, ZoomInvTypes
<1>3. s # Global BY <1>2 DEF ZoomInv, Grounds
<1>4. /\ UNCHANGED <<stored, site, open, selected, synthetic, inited, initial, missed, flips,
                     siteSpecific, updateBackground>>
      /\ overlooked \subseteq overlooked' /\ turns' \in [Browsers -> Nat]
  BY ZoomInvTypes DEF Reset, Step, docs, startup, prefVars, service
<1>5. PICK r : r = Access("reset", b, Global, None, FALSE) OBVIOUS
<1>6. PICK a : a = Access("remove", b, s, None, FALSE) OBVIOUS
<1>7. /\ r \in Accesses /\ r.kind = "reset" /\ r.browser = b /\ r.current
      /\ a \in Accesses /\ a.kind = "remove" /\ a.browser = b /\ a.site = s /\ a.value = None
  BY <1>4, <1>5, <1>6 DEF Access, Accesses, Kinds, Groups, Values
<1>8. Sane(a) /\ Sane(r) /\ IsOwn(a, s)
  BY <1>3, <1>7, BrowserIsNotNone DEF Sane, Change, IsOwn
<1>9. ASSUME Certain(selected)'
      PROVE  Quiet(queue, b) /\ b \notin synthetic /\ Knows(global, stored)
  <2>1. s \notin overlooked' /\ Global \notin overlooked' /\ b \notin synthetic
    BY <1>1, <1>2, <1>4, <1>9 DEF Certain
  <2>2. ~\E i \in DOMAIN queue : queue[i].browser = b /\ queue[i].current /\ ~Change(queue[i])
    BY <1>1, <1>2, <2>1 DEF Reset
  <2>3. Quiet(queue, b) BY <2>2 DEF Quiet, Awaits, Counts, Reads, Change
  <2> QED BY <1>4, <2>1, <2>3 DEF ZoomInv, Grounds
<1>10. PICK st \in States :
         /\ st = IF global = Unread THEN Post(State, r) ELSE SetZoom(State, b, GlobalZoom(global))
         /\ Mild(State, st)
  <2>1. CASE global = Unread
    BY <1>7, <1>8, <2>1, PostFields, PostMild, ZoomInvTypes
  <2>2. CASE global # Unread
    <3>1. PICK z \in Zooms : z = GlobalZoom(global)
      BY <2>2, GlobalZoomType, ZoomInvTypes, StateFields DEF States
    <3> QED BY <2>2, <3>1, SetZoomFields, SetZoomMild, ZoomInvTypes
  <2> QED BY <2>1, <2>2
<1>11. Becomes(IF b \in synthetic THEN st ELSE Post(st, a))
  BY <1>1, <1>2, <1>5, <1>6, <1>10 DEF Reset
<1>12. CASE b \in synthetic
  <2>1. Becomes(st) BY <1>11, <1>12
  <2>2. ~Certain(selected)' BY <1>1, <1>4, <1>12 DEF Certain
  <2> QED BY <1>4, <1>10, <2>1, <2>2, ZoomedSure
<1>13. CASE b \notin synthetic
  <2>1. PICK new : new = Post(st, a) OBVIOUS
  <2>2. Becomes(new) BY <1>11, <1>13, <2>1
  <2>3. Mild(State, new) BY <1>7, <1>8, <1>10, <2>1, PostMild, MildTwice
  <2>4. new.queue = Append(st.queue, a) /\ new.zoom = st.zoom BY <1>7, <2>1, PostFields
  <2>5. ASSUME Certain(selected)', global = Unread
        PROVE  Sure(new.queue, new.zoom[b], stored, b, s)
    <3>1. st.queue = Append(queue, r) BY <1>7, <1>10, <2>5, PostFields, ZoomInvTypes, StateFields
    <3>2. Quiet(queue, b) /\ queue \in Seq(Accesses) BY <1>9, <2>5, ZoomInvTypes
    <3>3. Sure(Append(Append(queue, r), a), new.zoom[b], stored, b, s)
      BY <1>7, <1>8, <3>2, SureReset
    <3> QED BY <2>4, <3>1, <3>3
  <2>6. ASSUME Certain(selected)', global # Unread
        PROVE  Sure(new.queue, new.zoom[b], stored, b, s)
    <3>1. PICK z \in Zooms : z = GlobalZoom(global)
      BY <2>6, GlobalZoomType, ZoomInvTypes, StateFields DEF States
    <3>2. z = Wish(None, stored) BY <1>9, <2>6, <3>1 DEF Knows, Wish
    <3>3. st = SetZoom(State, b, z) BY <1>10, <2>6, <3>1
    <3>4. Quiet(st.queue, b) /\ st.zoom[b] = z BY <3>3, SetZoomShows, ZoomInvTypes
    <3>5. PICK q \in Seq(Accesses) : q = st.queue BY DEF States
    <3>6. a.value \in Values /\ z = Wish(a.value, stored) BY <1>7, <3>2 DEF Values
    <3>7. Quiet(q, b) BY <3>4, <3>5
    <3>8. Sure(Append(q, a), z, stored, b, s) BY <1>7, <1>8, <3>6, <3>7, SureOwn
    <3> QED BY <2>4, <3>4, <3>5, <3>8
  <2>7. Certain(selected)' =>
          Sure(new.queue, new.zoom[selected], stored, selected, site[selected])
    BY <1>1, <1>2, <2>5, <2>6
  <2> QED BY <1>4, <2>2, <2>3, <2>7, ZoomedSure
<1> QED BY <1>12, <1>13

-----------------------------------------------------------------------------
\* The service.

\* What is left when the first access is taken.
LEMMA RestFacts ==
  ASSUME ZoomInv, queue # <<>>
  PROVE  LET a == Head(queue) IN
         /\ Rest \in States /\ Rest.queue = Tail(queue) /\ Rest.zoom = zoom
         /\ Rest.global = global /\ AllSane(Rest.queue) /\ Sane(a)
         /\ a \in Accesses /\ (~Change(a) => a.browser \in Browsers)
<1>1. /\ Rest \in States /\ Rest.queue = Tail(queue) /\ Rest.zoom = zoom
      /\ Head(queue) \in Accesses /\ Proper(Head(queue))
  BY ZoomInvTypes, Served
<1>2. Rest.global = global BY ZoomInvTypes, StateFields DEF Rest, States
<1>3. AllSane(queue) BY DEF ZoomInv, Grounds
<1>4. Sane(Head(queue)) BY <1>3, Shortened, ZoomInvTypes DEF AllSane
<1>5. AllSane(Tail(queue)) BY <1>3, Shortened, ZoomInvTypes DEF AllSane
<1> QED BY <1>1, <1>2, <1>4, <1>5 DEF Proper

\* What the next state is to be when a read is served.
Good(new) ==
  /\ new \in States /\ AllSane(new.queue)
  /\ Global \notin overlooked => Knows(new.global, stored)
  /\ Certain(selected) =>
       Sure(new.queue, new.zoom[selected], stored, selected, site[selected])

\* Only the zoom of the selected tab is left to look at.
LEMMA MildGood ==
  ASSUME ZoomInv, queue # <<>>, NEW new, Mild(Rest, new),
         Certain(selected) =>
           Sure(new.queue, new.zoom[selected], stored, selected, site[selected])
  PROVE  Good(new)
BY RestFacts DEF Mild, Good, ZoomInv, Grounds, Knows

\* A read that does not count.
LEMMA RestSure ==
  ASSUME ZoomInv, queue # <<>>, ~Change(Head(queue)), Certain(selected),
         ~Counts(Head(queue), selected, Reads)
  PROVE  Sure(Rest.queue, zoom[selected], stored, selected, site[selected])
<1>1. PICK q \in Seq(Accesses) : q = queue BY ZoomInvTypes
<1>2. PICK z, s : z = zoom[selected] /\ s = site[selected] OBVIOUS
<1>3. Sure(q, z, stored, selected, s) BY <1>1, <1>2 DEF ZoomInv, SelectedSure
<1>4. ~IsOwn(Head(q), s) BY <1>1 DEF IsOwn
<1>5. Sure(Tail(q), z, stored, selected, s) BY <1>1, <1>3, <1>4, SureTail
<1> QED BY <1>1, <1>2, <1>5, RestFacts

\* A read that does.
LEMMA RestCounts ==
  ASSUME ZoomInv, queue # <<>>, Certain(selected), Counts(Head(queue), selected, Reads)
  PROVE  LET a == Head(queue)
             s == site[selected]
             r == Rest.queue
         IN /\ Harmless(r, stored, selected, s)
            /\ a.kind = "reset" => Promised(r, stored, s, None)
            /\ a.kind # "reset" => ~Owns(r, s) /\ ~Owns(queue, s) /\ Promised(r, stored, s, stored[s])
            /\ a.kind = "global" => stored[s] = None
            /\ a.kind \in {"location", "site"} => a.site = s
<1>1. PICK q \in Seq(Accesses) : q = queue BY ZoomInvTypes
<1>2. PICK s : s = site[selected] OBVIOUS
<1>3. Harmless(q, stored, selected, s) BY <1>1, <1>2 DEF ZoomInv, SelectedSure, Sure
<1>4. Counts(Head(q), selected, Reads) /\ q # <<>> /\ Rest.queue = Tail(q)
  BY <1>1, RestFacts
<1>5. ~IsOwn(Head(q), s) BY <1>4 DEF Counts, Reads, IsOwn, Change
<1>6. Harmless(Tail(q), stored, selected, s) BY <1>3, <1>4, <1>5, HarmlessTail
<1>7. /\ Head(q).kind = "reset" => Promised(Tail(q), stored, s, None)
      /\ Head(q).kind # "reset" => ~Owns(Tail(q), s) /\ ~Owns(q, s)
      /\ Head(q).kind = "global" => stored[s] = None
      /\ Head(q).kind \in {"location", "site"} => Head(q).site = s
  BY <1>3, <1>4, CountsServed
<1>8. ~Owns(Tail(q), s) => Promised(Tail(q), stored, s, stored[s]) BY DEF Promised
<1> QED BY <1>1, <1>2, <1>4, <1>6, <1>7, <1>8

\* The preference of a page, or that it has none, is applied.
LEMMA ReadApplied ==
  ASSUME ZoomInv, Serve, queue # <<>>, Head(queue).kind \in {"location", "site"},
         Current(Head(queue)), NEW p \in BOOLEAN, NEW new,
         new = ApplyPref(Rest, stored[Head(queue).site], Head(queue).browser, p)
  PROVE  Good(new)
<1>1. PICK a : a = Head(queue) OBVIOUS
<1>2. ~Change(a) /\ a \in Accesses BY <1>1, RestFacts DEF Change
<1>3. PICK c \in Browsers : c = a.browser BY <1>1, <1>2, RestFacts
<1>4. PICK v \in Values : v = stored[a.site] BY <1>2, ZoomInvTypes DEF Accesses
<1>5. PICK st \in States : st = Rest BY RestFacts
<1>6. new = ApplyPref(st, v, c, p) BY <1>1, <1>3, <1>4, <1>5
<1>7. turns' \in [Browsers -> Nat] /\ open' = open /\ synthetic' = synthetic
  BY ZoomInvTypes DEF Serve, docs
<1>8. Mild(st, new) BY <1>6, <1>7, ApplyPrefMild
<1>9. ASSUME Certain(selected), c = selected
      PROVE  Sure(new.queue, new.zoom[selected], stored, selected, site[selected])
  <2>1. Counts(a, selected, Reads) BY <1>1, <1>3, <1>9 DEF Counts, Reads, Current
  <2>2. PICK s : s = site[selected] OBVIOUS
  <2>3. /\ Harmless(st.queue, stored, c, s) /\ ~Owns(st.queue, s) /\ a.site = s
        /\ Promised(st.queue, stored, s, v)
    BY <1>1, <1>4, <1>5, <1>9, <2>1, <2>2, RestCounts
  <2>4. siteSpecific /\ c \in open' /\ c \notin synthetic' /\ Knows(st.global, stored)
    BY <1>5, <1>7, <1>9, RestFacts DEF Certain, ZoomInv, Grounds
  <2>5. v = None => ~Owns(st.queue, s) /\ stored[s] = None /\ Harmless(st.queue, stored, c, s)
    BY <1>4, <2>3
  <2>6. Sure(ApplyPref(st, v, c, p).queue, ApplyPref(st, v, c, p).zoom[c], stored, c, s)
    BY <1>7, <2>3, <2>4, <2>5, ApplyPrefSure, ZoomInvTypes
  <2> QED BY <1>6, <1>9, <2>2, <2>6
<1>10. ASSUME Certain(selected), c # selected
       PROVE  Sure(new.queue, new.zoom[selected], stored, selected, site[selected])
  <2>1. ~Counts(a, selected, Reads) BY <1>3, <1>10 DEF Counts
  <2>2. st.zoom = zoom BY <1>5, RestFacts
  <2>3. Sure(st.queue, st.zoom[selected], stored, selected, site[selected])
    BY <1>1, <1>2, <1>5, <1>10, <2>1, <2>2, RestSure
  <2> QED BY <1>6, <1>7, <1>10, <2>3, ApplyPrefOther, ZoomInvTypes
<1> QED BY <1>5, <1>8, <1>9, <1>10, MildGood

\* The read is late, or finds that the page has a preference of its own.
LEMMA ReadPassed ==
  ASSUME ZoomInv, queue # <<>>, ~Change(Head(queue)), NEW new, Mild(Rest, new),
         new.queue = Rest.queue, new.zoom = Rest.zoom,
         \/ ~Current(Head(queue))
         \/ Head(queue).kind = "site" /\ stored[Head(queue).site] # None
  PROVE  Good(new)
<1>1. PICK a : a = Head(queue) OBVIOUS
<1>2. PICK s : s = site[selected] OBVIOUS
<1>3. ASSUME Certain(selected) PROVE Sure(new.queue, new.zoom[selected], stored, selected, s)
  <2>1. CASE ~Counts(a, selected, Reads)
    BY <1>1, <1>2, <1>3, <2>1, RestSure, RestFacts
  <2>2. CASE Counts(a, selected, Reads)
    <3>1. a.kind = "site" /\ stored[a.site] # None
      BY <1>1, <2>2 DEF Counts, Current, ZoomInv, Grounds
    <3>2. PICK q \in Seq(Accesses) : q = queue BY ZoomInvTypes
    <3>3. PICK r : r = Tail(q) /\ r = new.queue BY <3>2, RestFacts
    <3>4. Harmless(r, stored, selected, s) /\ ~Owns(q, s) /\ ~Owns(r, s) /\ stored[s] # None
      BY <1>1, <1>2, <1>3, <2>2, <3>1, <3>2, <3>3, RestCounts, RestFacts
    <3>5. Shows(q, zoom[selected], stored, selected, s)
      BY <1>2, <1>3, <3>2 DEF ZoomInv, SelectedSure, Sure
    <3>6. Awaits(q, selected, Full) => Awaits(r, selected, Full)
      <4>1. ~Counts(a, selected, Full) BY <3>1 DEF Counts, Full
      <4> QED BY <1>1, <3>2, <3>3, <4>1, AwaitsTail
    <3>7. ASSUME NEW v \in Values, Promised(q, stored, s, v),
                 zoom[selected] = Wish(v, stored) \/ (v = None /\ Awaits(q, selected, {"site"}))
          PROVE  Shows(r, zoom[selected], stored, selected, s)
      <4>1. v = stored[s] BY <3>4, <3>7 DEF Promised, Owns
      <4>2. Promised(r, stored, s, v) BY <3>4, <4>1 DEF Promised
      <4> QED BY <3>4, <3>7, <4>1, <4>2 DEF Shows
    <3>8. Shows(r, zoom[selected], stored, selected, s)
      BY <3>5, <3>6, <3>7 DEF Shows
    <3> QED BY <3>3, <3>4, <3>8, RestFacts DEF Sure
  <2> QED BY <2>1, <2>2
<1> QED BY <1>2, <1>3, MildGood

\* The global preference is read.
LEMMA ReadGlobal ==
  ASSUME ZoomInv, queue # <<>>, Head(queue).kind \in {"global", "reset"}, NEW new,
         new = GlobalRead(Rest, Head(queue))
  PROVE  Good(new)
<1>1. PICK a : a = Head(queue) OBVIOUS
<1>2. ~Change(a) /\ a \in Accesses /\ a.notify \in BOOLEAN
  BY <1>1, RestFacts DEF Change, Accesses
<1>3. PICK c \in Browsers : c = a.browser BY <1>1, <1>2, RestFacts
<1>4. stored[Global] \in Values BY ZoomInvTypes DEF Groups
<1>5. PICK g \in Zooms : g = EnsureValid(stored[Global]) BY <1>4, EnsureValidType
<1>6. PICK read : read = [Rest EXCEPT !.global = g] OBVIOUS
<1>7. read \in States /\ read.queue = Rest.queue /\ read.zoom = zoom /\ read.global = g
  BY <1>6, RestFacts DEF States, Globals
<1>8. PICK mid : mid = IF Current(a) THEN SetZoom(read, c, g) ELSE read OBVIOUS
<1>9. mid \in States /\ mid.global = g /\ AllSane(mid.queue)
  <2>1. AllSane(read.queue) BY <1>7, RestFacts
  <2>2. Mild(read, SetZoom(read, c, g)) BY <1>7, SetZoomMild
  <2> QED BY <1>7, <1>8, <2>1, <2>2 DEF Mild
<1>10. new = Soon(mid, c, a.notify)
  BY <1>1, <1>3, <1>5, <1>6, <1>8 DEF GlobalRead
<1>11. /\ new \in States /\ new.queue = mid.queue /\ new.zoom = mid.zoom
       /\ new.global = mid.global
  BY <1>2, <1>9, <1>10, SoonFields
<1>12. Knows(g, stored)
  BY <1>5, ConstantsAssumption DEF Knows, GlobalZoom, Zooms
<1>13. PICK s : s = site[selected] OBVIOUS
<1>14. ASSUME Certain(selected) PROVE Sure(mid.queue, mid.zoom[selected], stored, selected, s)
  <2>1. CASE Counts(a, selected, Reads)
    <3>1. c = selected /\ Current(a)
      BY <1>3, <2>1 DEF Counts, Current, ZoomInv, Grounds
    <3>2. Promised(read.queue, stored, s, None)
      BY <1>1, <1>7, <1>13, <1>14, <2>1, RestCounts
    <3>3. g = Wish(None, stored) /\ None \in Values BY <1>5 DEF Wish, Values
    <3>4. Sure(SetZoom(read, c, g).queue, SetZoom(read, c, g).zoom[c], stored, c, s)
      BY <1>7, <3>2, <3>3, SetZoomSure
    <3> QED BY <1>8, <3>1, <3>4
  <2>2. CASE ~Counts(a, selected, Reads)
    <3>1. Sure(read.queue, read.zoom[selected], stored, selected, s)
      BY <1>1, <1>2, <1>7, <1>13, <1>14, <2>2, RestSure
    <3>2. CASE Current(a)
      <4>1. c # selected
        BY <1>1, <1>3, <2>2, <3>2 DEF Counts, Current, Reads
      <4>2. Sure(SetZoom(read, c, g).queue, SetZoom(read, c, g).zoom[selected], stored,
                 selected, s)
        BY <1>7, <3>1, <4>1, SetZoomOther, ZoomInvTypes
      <4> QED BY <1>8, <3>2, <4>2
    <3>3. CASE ~Current(a)
      BY <1>8, <3>1, <3>3
    <3> QED BY <3>2, <3>3
  <2> QED BY <2>1, <2>2
<1> QED BY <1>9, <1>11, <1>12, <1>13, <1>14 DEF Good

\* A read is served.
LEMMA ReadSure ==
  ASSUME ZoomInv, Serve, Read(Head(queue)) PROVE Grounds' /\ SelectedSure'
<1>1. PICK a : a = Head(queue) OBVIOUS
<1>2. queue # <<>> /\ ~Change(a) BY <1>1 DEF Serve, Read
<1>3. PICK c \in Browsers : c = a.browser BY <1>1, <1>2, RestFacts
<1>4. PICK new : Becomes(new) /\ Good(new)
  <2>1. CASE a.kind = "location" /\ Becomes(LocationRead(Rest, a))
    <3>1. CASE Current(a)
      BY <1>1, <1>2, <2>1, <3>1, ReadApplied DEF LocationRead
    <3>2. CASE ~Current(a)
      <4>1. PICK new : new = Soon(Rest, c, TRUE) OBVIOUS
      <4>2. Mild(Rest, new) /\ new.queue = Rest.queue /\ new.zoom = Rest.zoom
        BY <1>2, <4>1, SoonMild, SoonFields, RestFacts
      <4>3. Good(new) BY <1>1, <1>2, <3>2, <4>2, ReadPassed
      <4> QED BY <1>3, <2>1, <3>2, <4>1, <4>3 DEF LocationRead
    <3> QED BY <3>1, <3>2
  <2>2. CASE a.kind = "site" /\ Becomes(SiteRead(Rest, a))
    <3>1. CASE Current(a) /\ stored[a.site] = None
      BY <1>1, <1>2, <2>2, <3>1, ReadApplied DEF SiteRead
    <3>2. CASE ~(Current(a) /\ stored[a.site] = None)
      <4>1. Mild(Rest, Rest) BY <1>2, RestFacts DEF Mild
      <4>2. Good(Rest) BY <1>1, <1>2, <2>2, <3>2, <4>1, ReadPassed
      <4> QED BY <2>2, <3>2, <4>2 DEF SiteRead
    <3> QED BY <3>1, <3>2
  <2>3. CASE a.kind \in {"global", "reset"} /\ Becomes(GlobalRead(Rest, a))
    BY <1>1, <1>2, <2>3, ReadGlobal
  <2> QED BY <1>1, <2>1, <2>2, <2>3 DEF Read, Rest
<1>5. queue' = new.queue /\ zoom' = new.zoom /\ global' = new.global BY <1>4 DEF Becomes
<1>6. UNCHANGED <<stored, overlooked, site, open, selected, synthetic, inited, initial, missed,
                  flips, siteSpecific, updateBackground>>
  BY DEF Read, Serve, docs, startup, prefVars, bounds
<1>7. SelectedSure' BY <1>4, <1>5, <1>6 DEF Good, SelectedSure, Certain
<1>8. inited
  <2>1. 1 \in DOMAIN queue /\ a = queue[1] BY <1>1, <1>2, Shortened, ZoomInvTypes
  <2> QED BY <1>2, <2>1 DEF ZoomInv, IInv, NoReads
<1>9. Grounds' BY <1>4, <1>5, <1>6, <1>8 DEF Good, Grounds, ZoomInv
<1> QED BY <1>7, <1>9

\* A change that the selected tab need not hear of: of this window, or of
\* another site, or of nothing.
LEMMA ChangeUnheard ==
  ASSUME ZoomInv, queue # <<>>, Certain(selected), Change(Head(queue)),
         NEW new, new[Global] = stored[Global],
         IF IsOwn(Head(queue), site[selected]) THEN new[site[selected]] = Head(queue).value
         ELSE new[site[selected]] = stored[site[selected]]
  PROVE  Sure(Rest.queue, zoom[selected], new, selected, site[selected])
<1>1. PICK q \in Seq(Accesses) : q = queue BY ZoomInvTypes
<1>2. PICK z, s : z = zoom[selected] /\ s = site[selected] OBVIOUS
<1>3. Sure(q, z, stored, selected, s) BY <1>1, <1>2 DEF ZoomInv, SelectedSure
<1>4. ~Counts(Head(q), selected, Reads) BY <1>1 DEF Change, Counts, Reads
<1>5. IF IsOwn(Head(q), s) THEN new[s] = Head(q).value ELSE new[s] = stored[s]
  BY <1>1, <1>2
<1>6. Sure(Tail(q), z, new, selected, s) BY <1>1, <1>3, <1>4, <1>5, SureTail
<1> QED BY <1>1, <1>2, <1>6, RestFacts

\* Another window changes the preference of the page that is shown, and this
\* window has no change of it on its way.
LEMMA SiteHeard ==
  ASSUME ZoomInv, queue # <<>>, Certain(selected), Change(Head(queue)),
         NEW new \in [Groups -> Values], new[Global] = stored[Global],
         Head(queue).site = site[selected], new[site[selected]] = Head(queue).value,
         ~Owns(queue, site[selected]),
         open' = open, synthetic' = synthetic, turns' = turns,
         NEW st, st = ApplyPref(Rest, Head(queue).value, selected, FALSE)
  PROVE  Sure(st.queue, st.zoom[selected], new, selected, site[selected])
<1>1. PICK q \in Seq(Accesses) : q = queue BY ZoomInvTypes
<1>2. PICK s \in Groups : s = site[selected] BY ZoomInvTypes
<1>3. PICK v \in Values : v = Head(q).value BY <1>1, RestFacts DEF Accesses
<1>4. PICK b \in Browsers : b = selected BY ZoomInvTypes
<1>5. PICK rest \in States : rest = Rest BY RestFacts
<1>6. /\ rest.queue = Tail(q) /\ rest.global = global /\ ~Owns(q, s) /\ new[s] = v
      /\ q # <<>>
  BY <1>1, <1>2, <1>3, <1>5, RestFacts
<1>7. ~Owns(Tail(q), s) /\ ~IsOwn(Head(q), s) BY <1>6, OwnsTail
<1>8. Promised(rest.queue, new, s, v) BY <1>6, <1>7 DEF Promised
<1>9. ASSUME v = None
      PROVE  ~Owns(rest.queue, s) /\ new[s] = None /\ Harmless(rest.queue, new, b, s)
  <2>1. Harmless(q, stored, b, s)
    BY <1>1, <1>2, <1>4 DEF ZoomInv, SelectedSure, Sure
  <2>2. Harmless(Tail(q), new, b, s) BY <1>6, <1>7, <1>9, <2>1, HarmlessTail
  <2> QED BY <1>6, <1>7, <1>9, <2>2
<1>10. /\ siteSpecific /\ b \in open' /\ b \notin synthetic' /\ Knows(rest.global, new)
       /\ turns' \in [Browsers -> Nat]
  BY <1>4, <1>6, ZoomInvTypes DEF Certain, ZoomInv, Grounds, Knows
<1>11. Sure(ApplyPref(rest, v, b, FALSE).queue, ApplyPref(rest, v, b, FALSE).zoom[b], new, b, s)
  BY <1>8, <1>9, <1>10, ApplyPrefSure
<1> QED BY <1>1, <1>2, <1>3, <1>4, <1>5, <1>11

\* Another window changes the global preference: the page is read again.
LEMMA GlobalHeard ==
  ASSUME ZoomInv, queue # <<>>, Certain(selected), Change(Head(queue)),
         NEW new \in [Groups -> Values], new[site[selected]] = stored[site[selected]],
         ~IsOwn(Head(queue), site[selected]), turns' = turns,
         NEW st \in States, st.queue = Rest.queue, st.zoom = zoom, NEW post,
         post = Post(st, Access("site", selected, site[selected], None, FALSE))
  PROVE  Sure(post.queue, post.zoom[selected], new, selected, site[selected])
<1>1. PICK q \in Seq(Accesses) : q = queue BY ZoomInvTypes
<1>2. PICK s \in Groups : s = site[selected] BY ZoomInvTypes
<1>3. PICK b \in Browsers : b = selected BY ZoomInvTypes
<1>4. PICK z \in Zooms : z = zoom[b] BY ZoomInvTypes
<1>5. PICK a : a = Access("site", b, s, None, FALSE) OBVIOUS
<1>6. a \in Accesses /\ a.kind = "site" /\ a.browser = b /\ a.current /\ a.site = s
  BY <1>5, ZoomInvTypes DEF Access, Accesses, Kinds, Values
<1>7. PICK r \in Seq(Accesses) : r = st.queue BY DEF States
<1>8. r = Tail(q) /\ q # <<>> /\ new[s] = stored[s] /\ ~IsOwn(Head(q), s) /\ Change(Head(q))
  BY <1>1, <1>2, <1>7, RestFacts
<1>9. post.queue = Append(r, a) /\ post.zoom[b] = z
  BY <1>2, <1>3, <1>4, <1>5, <1>6, <1>7, PostFields
<1>10. Harmless(q, stored, b, s) /\ Shows(q, z, stored, b, s)
  BY <1>1, <1>2, <1>3, <1>4 DEF ZoomInv, SelectedSure, Sure
<1>11. Harmless(r, new, b, s) BY <1>8, <1>10, HarmlessTail
<1>12. CASE Awaits(q, b, Full)
  <2>1. ~Counts(Head(q), b, Full) BY <1>8 DEF Change, Counts, Full
  <2>2. Awaits(r, b, Full) BY <1>8, <1>12, <2>1, AwaitsTail
  <2>3. Sure(Append(r, a), z, new, b, s) BY <1>6, <1>11, <2>2, SureSite
  <2> QED BY <1>2, <1>3, <1>9, <2>3
<1>13. ASSUME NEW v \in Values, Promised(q, stored, s, v), z = Wish(v, stored) \/ v = None
       PROVE  Sure(post.queue, post.zoom[selected], new, selected, site[selected])
  <2>1. Promised(r, new, s, v) BY <1>8, <1>13, PromisedTail
  <2>2. v = None \/ z = Wish(v, new) BY <1>13 DEF Wish
  <2>3. Sure(Append(r, a), z, new, b, s) BY <1>6, <1>11, <2>1, <2>2, SureSite
  <2> QED BY <1>2, <1>3, <1>9, <2>3
<1> QED BY <1>10, <1>12, <1>13 DEF Shows

\* A change is served: one of this window fulfils its promise, one of another is
\* heard, or has its site overlooked.
LEMMA ChangedSure ==
  ASSUME ZoomInv, Serve, Changed(Head(queue)) PROVE Grounds' /\ SelectedSure'
<1>1. PICK a \in Accesses : a = Head(queue) BY RestFacts DEF Serve
<1>2. queue # <<>> /\ Change(a) /\ Sane(a) BY <1>1, RestFacts DEF Serve, Changed
<1>3. PICK s \in Groups : s = site[selected] BY ZoomInvTypes
<1>4. PICK new \in [Groups -> Values] : new = [stored EXCEPT ![a.site] = a.value]
  <2>1. a.value \in Values BY DEF Accesses
  <2> QED BY <2>1, ZoomInvTypes
<1>5. a.site \in Groups BY DEF Accesses
<1>6. \A g \in Groups : new[g] = IF g = a.site THEN a.value ELSE stored[g]
  BY <1>4, <1>5, ZoomInvTypes
<1>7. /\ UNCHANGED <<site, open, selected, synthetic, inited, initial, missed, flips, turns,
                     siteSpecific, updateBackground>>
      /\ stored' = new /\ overlooked \subseteq overlooked'
  BY <1>1, <1>4 DEF Serve, Changed, docs, startup, prefVars, bounds
<1>8. Global \in Groups /\ s # Global BY <1>3, ZoomInvTypes DEF Groups, ZoomInv, Grounds
\* What is left to show of the next state.
<1>9. ASSUME NEW st, Becomes(st), AllSane(st.queue),
             ~inited => st.global = global,
             Global \notin overlooked' => Knows(st.global, new),
             Certain(selected)' => Sure(st.queue, st.zoom[selected], new, selected, s)
      PROVE  Grounds' /\ SelectedSure'
  <2>1. queue' = st.queue /\ zoom' = st.zoom /\ global' = st.global BY <1>9 DEF Becomes
  <2>2. SelectedSure' BY <1>3, <1>7, <1>9, <2>1 DEF SelectedSure
  <2>3. Grounds' BY <1>7, <1>9, <2>1 DEF Grounds, ZoomInv
  <2> QED BY <2>2, <2>3
<1>10. Certain(selected)' => Certain(selected) /\ s \notin overlooked' /\ Global \notin overlooked'
  BY <1>3, <1>7 DEF Certain
<1> DEFINE own == a.browser # None
           notifies == inited /\ (a.kind = "set" \/ stored[a.site] # None)
           ignored == internal \/ own
           crossing == \E i \in 2..Len(queue) :
                         Change(queue[i]) /\ queue[i].browser # None /\ queue[i].site = a.site
<1>11. /\ Becomes(IF notifies /\ ~ignored THEN PrefChanged(Rest, a.site, a.value) ELSE Rest)
       /\ ~own /\ notifies /\ (ignored \/ crossing) => a.site \in overlooked'
  BY <1>1, Zenon DEF Changed, Rest
<1>12. CASE own
  <2>1. Becomes(Rest) BY <1>11, <1>12
  <2>2. new[Global] = stored[Global] BY <1>2, <1>6, <1>8, <1>12 DEF Sane
  <2>3. Certain(selected) => Sure(Rest.queue, zoom[selected], new, selected, s)
    <3>1. IF IsOwn(a, s) THEN new[s] = a.value ELSE new[s] = stored[s]
      BY <1>2, <1>6, <1>12 DEF IsOwn
    <3> QED BY <1>1, <1>2, <1>3, <2>2, <3>1, ChangeUnheard
  <2>4. Global \notin overlooked' => Knows(Rest.global, new)
    BY <1>2, <1>7, <2>2, RestFacts DEF Knows, ZoomInv, Grounds
  <2> QED BY <1>2, <1>9, <1>10, <2>1, <2>3, <2>4, RestFacts
<1>13. CASE ~own /\ ~notifies
  <2>1. Becomes(Rest) BY <1>11, <1>13
  <2>2. CASE ~inited
    <3>1. ~Certain(selected)' BY <1>7, <2>2 DEF Certain
    <3>2. Knows(Rest.global, new) BY <1>2, <2>2, RestFacts DEF Knows, ZoomInv, Grounds
    <3> QED BY <1>2, <1>9, <2>1, <3>1, <3>2, RestFacts
  <2>3. CASE inited
    <3>1. a.kind = "remove" /\ stored[a.site] = None BY <1>2, <1>13, <2>3 DEF Change
    <3>2. \A g \in Groups : new[g] = stored[g] BY <1>2, <1>6, <3>1 DEF Sane
    <3>3. ~IsOwn(a, s) BY <1>13 DEF IsOwn
    <3>4. Certain(selected) => Sure(Rest.queue, zoom[selected], new, selected, s)
      BY <1>1, <1>2, <1>3, <1>8, <3>2, <3>3, ChangeUnheard
    <3>5. Global \notin overlooked' => Knows(Rest.global, new)
      BY <1>2, <1>7, <1>8, <3>2, RestFacts DEF Knows, ZoomInv, Grounds
    <3> QED BY <1>2, <1>9, <1>10, <2>1, <3>4, <3>5, RestFacts
  <2> QED BY <2>2, <2>3
<1>14. CASE ~own /\ notifies /\ a.site \notin {s, Global}
  <2>1. Becomes(Rest) BY <1>3, <1>11, <1>14 DEF PrefChanged
  <2>2. new[s] = stored[s] /\ new[Global] = stored[Global] BY <1>6, <1>8, <1>14
  <2>3. ~IsOwn(a, s) BY <1>14 DEF IsOwn
  <2>4. Certain(selected) => Sure(Rest.queue, zoom[selected], new, selected, s)
    BY <1>1, <1>2, <1>3, <2>2, <2>3, ChangeUnheard
  <2>5. Global \notin overlooked' => Knows(Rest.global, new)
    BY <1>2, <1>7, <2>2, RestFacts DEF Knows, ZoomInv, Grounds
  <2> QED BY <1>2, <1>9, <1>10, <2>1, <2>4, <2>5, RestFacts
<1>15. CASE ~own /\ notifies /\ a.site = s
  <2>1. new[Global] = stored[Global] /\ new[s] = a.value BY <1>6, <1>8, <1>15
  <2>2. Global \notin overlooked' => Knows(global, new)
    BY <1>7, <2>1 DEF Knows, ZoomInv, Grounds
  <2>3. CASE ignored
    <3>1. Becomes(Rest) /\ ~Certain(selected)' BY <1>10, <1>11, <1>15, <2>3
    <3> QED BY <1>2, <1>9, <2>2, <3>1, RestFacts
  <2>4. CASE ~ignored
    <3>1. PICK v \in Values : v = a.value BY DEF Accesses
    <3>2. PICK st : st = ApplyPref(Rest, v, selected, FALSE) OBVIOUS
    <3>3. Becomes(st) BY <1>3, <1>8, <1>11, <1>15, <2>4, <3>1, <3>2 DEF PrefChanged
    <3>4. turns' \in [Browsers -> Nat] BY <1>7, ZoomInvTypes
    <3>5. Mild(Rest, st) BY <1>2, <3>2, <3>4, ApplyPrefMild, RestFacts, ZoomInvTypes
    <3>6. st.global = global /\ AllSane(st.queue) BY <1>2, <3>5, RestFacts DEF Mild
    <3>7. ASSUME Certain(selected)' PROVE Sure(st.queue, st.zoom[selected], new, selected, s)
      <4>1. ~crossing BY <1>10, <1>11, <1>15, <3>7
      <4>2. ~Owns(queue, s)
        <5>1. \A i \in DOMAIN queue : i \in 2..Len(queue) \/ queue[i] = a
          BY <1>1, <1>2, ZoomInvTypes
        <5> QED BY <1>15, <4>1, <5>1 DEF Owns, IsOwn
      <4>3. Certain(selected) BY <1>10, <3>7
      <4> QED BY <1>1, <1>2, <1>3, <1>7, <1>15, <2>1, <3>1, <3>2, <4>2, <4>3, SiteHeard
    <3> QED BY <1>9, <2>2, <3>3, <3>6, <3>7
  <2> QED BY <2>3, <2>4
<1>16. CASE ~own /\ notifies /\ a.site = Global
  <2>1. CASE ignored
    <3>1. Becomes(Rest) /\ ~Certain(selected)' /\ Global \in overlooked'
      BY <1>10, <1>11, <1>16, <2>1
    <3> QED BY <1>2, <1>9, <3>1, RestFacts
  <2>2. CASE ~ignored
    <3>1. PICK v \in Values : v = a.value BY DEF Accesses
    <3>2. PICK g \in Globals : g = IF v = None THEN None ELSE EnsureValid(v)
      BY EnsureValidType DEF Globals
    <3>3. PICK mid : mid = [Rest EXCEPT !.global = g] OBVIOUS
    <3>4. /\ mid \in States /\ mid.queue = Rest.queue /\ mid.zoom = zoom /\ mid.global = g
          /\ AllSane(mid.queue)
      BY <1>2, <3>3, RestFacts DEF States
    <3>5. PICK r : r = Access("site", selected, s, None, FALSE) OBVIOUS
    <3>6. PICK st : st = Post(mid, r) OBVIOUS
    <3>7. Becomes(st)
      BY <1>3, <1>11, <1>16, <2>2, <3>1, <3>2, <3>3, <3>5, <3>6 DEF PrefChanged
    <3>8. r \in Accesses /\ r.kind = "site"
      BY <1>7, <3>5, ZoomInvTypes DEF Access, Accesses, Kinds, Values
    <3>9. st.global = g /\ AllSane(st.queue)
      BY <3>4, <3>6, <3>8, PostMild DEF Mild, Sane, Change
    <3>10. Knows(g, new)
      <4>1. new[Global] = v BY <1>6, <1>8, <1>16, <3>1
      <4>2. v # None => EnsureValid(v) \in Zooms BY EnsureValidType
      <4> QED BY <3>2, <4>1, <4>2, ConstantsAssumption
              DEF Knows, GlobalZoom, EnsureValid, Zooms
    <3>11. ASSUME Certain(selected) PROVE Sure(st.queue, st.zoom[selected], new, selected, s)
      <4>1. new[s] = stored[s] BY <1>6, <1>8, <1>16
      <4>2. ~IsOwn(a, s) BY <1>16 DEF IsOwn
      <4> QED BY <1>1, <1>2, <1>3, <1>7, <3>4, <3>5, <3>6, <3>11, <4>1, <4>2, GlobalHeard
    <3>12. inited BY <1>16
    <3> QED BY <1>9, <1>10, <3>7, <3>9, <3>10, <3>11, <3>12
  <2> QED BY <2>1, <2>2
<1> QED BY <1>12, <1>13, <1>14, <1>15, <1>16

-----------------------------------------------------------------------------

\* It holds at first,
LEMMA InitZoom == Init => ZoomInv
<1> SUFFICES ASSUME Init PROVE ZoomInv
  OBVIOUS
<1>1. ~inited /\ queue = <<>> /\ global = Unread /\ selected \in open
      /\ \A b \in Browsers : site[b] = Blank
  BY DEF Init
<1>2. AllSane(queue) BY <1>1 DEF AllSane
<1>3. Grounds BY <1>1, <1>2, ConstantsAssumption DEF Grounds, Knows
<1> QED BY <1>1, <1>3, InitInv DEF ZoomInv, SelectedSure, Certain

\* ... every step keeps it,
LEMMA NextZoom ==
  ASSUME ZoomInv, [Next]_vars PROVE ZoomInv'
<1>1. SUFFICES Grounds' /\ SelectedSure'
  BY NextInv DEF ZoomInv
<1>2. CASE Serve
  BY <1>2, ReadSure, ChangedSure DEF Serve
<1>3. ASSUME NEW b \in Browsers, Navigate(b) \/ Select(b) PROVE Grounds' /\ SelectedSure'
  BY <1>3, NavigateSure, SelectSure
<1>4. ASSUME NEW v \in Zooms, ZoomBy(v) PROVE Grounds' /\ SelectedSure'
  BY <1>4, ZoomBySure
<1>5. ASSUME NEW g \in Groups \ {Blank}, NEW v \in Foreign, ChangeElsewhere(g, v)
      PROVE  Grounds' /\ SelectedSure'
  BY <1>5, ChangeElsewhereSure
<1>6. CASE (\E b \in Browsers : Close(b) \/ Notify(b)) \/ UNCHANGED vars
  BY <1>6, IdleSure
<1>7. CASE \E b \in Browsers : Navigate(b) \/ Select(b) BY <1>3, <1>7
<1>8. CASE \E v \in Zooms : ZoomBy(v) BY <1>4, <1>8
<1>9. CASE \E g \in Groups \ {Blank}, v \in Foreign : ChangeElsewhere(g, v) BY <1>5, <1>9
<1> QED BY <1>2, <1>6, <1>7, <1>8, <1>9, StartSure, SetPrefSure, ResetSure DEF Next

\* ... and with nothing on its way the zoom is the one that is stored.
LEMMA ZoomInvSettles == ZoomInv => SelectedSettles
<1> SUFFICES ASSUME ZoomInv, selected \notin missed, inited, queue = <<>>, flips = 0,
                    site[selected] # Blank, selected \notin synthetic,
                    overlooked \cap {site[selected], Global} = {}
             PROVE  zoom[selected] = Wanted(site[selected])
  BY DEF SelectedSettles, Settled
<1>1. PICK s, z : s = site[selected] /\ z = zoom[selected] OBVIOUS
<1>2. Shows(queue, z, stored, selected, s)
  BY <1>1 DEF ZoomInv, SelectedSure, Certain, Sure
<1>3. \A K : ~Awaits(queue, selected, K) BY DEF Awaits
<1>4. PICK v \in Values : Promised(queue, stored, s, v) /\ z = Wish(v, stored)
  BY <1>2, <1>3 DEF Shows
<1>5. v = stored[s] BY <1>4 DEF Promised
<1> QED BY <1>1, <1>4, <1>5 DEF Wanted, Wish

-----------------------------------------------------------------------------

\* Every location change of a tab is answered by one notification, whatever
\* reads were ignored, chained, or outlived the tab on the way to it.
THEOREM Answered == Spec => []AnsweredOnce
<1>1. IInv => AnsweredOnce
  BY DEF IInv
<1> QED
  BY <1>1, InitInv, NextInv, PTL DEF Spec

\* No read that was posted before the last page or the last zoom of a tab sets
\* its zoom, nor does one that was posted for another tab.
THEOREM NoOldRead == Spec => OldReadIgnored
<1>1. IInv /\ [Next]_vars =>
        [\A b \in Browsers :
           (Serve /\ ~Change(Head(queue)) /\ zoom'[b] # zoom[b])
             => Head(queue).browser = b /\ Head(queue).turn = turns[b]]_vars
  BY OldReadStep
<1> QED
  BY <1>1, InitInv, NextInv, PTL DEF Spec, OldReadIgnored

\* When the service has nothing left to do, the selected tab shows the zoom that
\* is stored for its site, or else the global one, unless one of the cases came
\* that SelectedSettles names: for any number of tabs, reads and other changes.
THEOREM Settles == Spec => []SelectedSettles
<1> QED
  BY InitZoom, NextZoom, ZoomInvSettles, PTL DEF Spec
=============================================================================
