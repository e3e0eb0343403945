------------------------------ MODULE TabRestore ------------------------------
(***************************************************************************)
(* How the tabs of a restored session come to life: restoreWindow marks    *)
(* tabs as waiting, a chain of timeouts gives them their history and puts  *)
(* them into TabRestoreQueue, restoreNextTab starts a limited number of    *)
(* loads, and gRestoreTabsProgressListener hears them end and starts the   *)
(* next, while the user closes, selects, hides and reloads tabs, purges    *)
(* history, and extensions call the API (SessionStore.jsm).                *)
(*                                                                         *)
(* What is abstracted.  A tab is a number, its window is fixed by Home and *)
(* whether it is pinned by Pinned; the state restored into a tab that is   *)
(* reused keeps it shown or hidden as it was.  Whether restoreTab starts a *)
(* load depends on the entries of the tab and on docshell: it may or may   *)
(* not.  Each load ends once; it fires "load" or not.  Preferences do not  *)
(* change.  The main thread runs one action at a time.                     *)
(***************************************************************************)
EXTENDS Integers, Sequences, FiniteSets, SequencesExt, FiniteSetsExt, Lists

CONSTANTS
  Windows,
  TabCount,         \* tabs are numbered; a closed one may be opened again
  Home,             \* the window of each tab
  Pinned,           \* the tabs that are pinned whenever they are open
  NoTab,            \* a window that is closed has no selected tab
  Unset,            \* a counter that is undefined or NaN
  MaxConcurrent,    \* browser.sessionstore.max_concurrent_tabs
  RestoreOnDemand, PinnedOnDemand, RestoreHidden,  \* the other preferences
  Requests,         \* operations of the API that are called
  Hasty,            \* a tab is selected or its window overwritten before the
                    \* chain of timeouts came to the tab
  MaxRequests, MaxRestores  \* bounds: their calls, and calls of restoreWindow

Tabs == 1..TabCount
TabsOf(w) == {t \in Tabs : Home[t] = w}

ASSUME ConstantsAssumption ==
  /\ TabCount \in Nat
  /\ Home \in [Tabs -> Windows] /\ \A w \in Windows : TabsOf(w) # {}
  /\ Pinned \subseteq Tabs
  /\ NoTab \notin Tabs /\ Unset \notin Int
  /\ MaxConcurrent \in 1..10
  /\ {RestoreOnDemand, PinnedOnDemand, RestoreHidden, Hasty} \subseteq BOOLEAN
  /\ {MaxRequests, MaxRestores} \subseteq Nat

VARIABLES
  ss,        \* the restoring state, a record:
             \*   st       __SS_restoreState of each tab
             \*   data     tabs with __SS_data and __SS_tabStillLoading
             \*   history  tabs with a session history listener
             \*   queue    TabRestoreQueue.tabs
             \*   count    _tabsRestoringCount
             \*   left     __SS_tabsToRestore of each window
             \*   on       windows with gRestoreTabsProgressListener
             \*   loads    tabs whose restoring load has not ended
             \*   asked    (history) tabs restored at somebody's request
  open,      \* the open tabs
  hidden,    \* the hidden ones among them
  selected,  \* the selected tab of each window
  chains,    \* calls of restoreHistory waiting in a timeout
  quitting,  \* _loadState == STATE_QUITTING
  requests, restores  \* calls so far

vars == <<ss, open, hidden, selected, chains, quitting, requests, restores>>

InChain == UNION {ToSet(chains[i].tabs) : i \in DOMAIN chains}
Queued == UNION {ToSet(ss.queue[b]) : b \in DOMAIN ss.queue}

\* A new tab has a name that nothing remembers.
Free(w) ==
  TabsOf(w) \ (open \cup InChain \cup Queued \cup {t \in Tabs : ss.st[t] # "none"})
Selectable == IF Hasty THEN open \ hidden ELSE (open \ hidden) \ InChain

NoQueue == [priority |-> <<>>, visible |-> <<>>, hidden |-> <<>>]

\* A falsy counter, and its decrement (undefined and NaN become NaN).
IsZero(n) == n \in {0, Unset}
OneLess(n) == IF n = Unset THEN Unset ELSE n - 1

Init ==
  /\ ss = [st |-> [t \in Tabs |-> "none"], data |-> {}, history |-> {},
           queue |-> NoQueue, count |-> 0, left |-> [w \in Windows |-> Unset],
           on |-> {}, loads |-> {}, asked |-> {}]
  /\ selected = [w \in Windows |-> Min(TabsOf(w))]
  /\ open = {selected[w] : w \in Windows} /\ hidden = {}
  /\ chains = <<>> /\ quitting = FALSE /\ requests = 0 /\ restores = 0

-----------------------------------------------------------------------------
\* TabRestoreQueue.  x is a restoring state.

Bucket(t, hid) ==
  IF t \in Pinned THEN "priority" ELSE IF t \in hid THEN "hidden" ELSE "visible"

Enqueue(x, t, hid) == [x EXCEPT !.queue[Bucket(t, hid)] = Append(@, t)]

\* Wrong: a tab that is restored for another reason stays in the queue.
DequeueNothing(x, t, hid) == x

\* remove: the first entry of t, looked for where it should be.
Dequeue(x, t, hid) ==
  LET b == IF t \in ToSet(x.queue.priority) THEN "priority"
           ELSE IF t \in hid THEN "hidden" ELSE "visible"
  IN IF t \in ToSet(x.queue[b])
     THEN [x EXCEPT !.queue[b] = RemoveFirst(@, t)] ELSE x

\* Wrong: hidden tabs are restored without restore_hidden_tabs.
ShiftFromHiddenToo(x) ==
  LET full(b) == x.queue[b] # <<>>
      first == IF full("priority") THEN "priority"
               ELSE IF full("visible") THEN "visible" ELSE "hidden"
  IN IF full(first) THEN {first} ELSE {}

\* The bucket shift takes from, as a set: there may be none.
ShiftFrom(x) ==
  LET full(b) == x.queue[b] # <<>>
      pinned == ~(RestoreOnDemand /\ PinnedOnDemand) /\ full("priority")
  IN CASE pinned -> {"priority"}
       [] ~pinned /\ ~RestoreOnDemand /\ full("visible") -> {"visible"}
       [] ~pinned /\ ~RestoreOnDemand /\ ~full("visible")
            /\ RestoreHidden /\ full("hidden") -> {"hidden"}
       [] OTHER -> {}

-----------------------------------------------------------------------------
\* The restoring state of a tab.

\* Wrong: the listener goes with the first tab that is done.
UnlistenedAtOnce(on, w, left) == on \ {w}

\* _removeTabsProgressListener
Unlistened(on, w, left) == IF IsZero(left) THEN on \ {w} ELSE on

\* Wrong: the counter is not kept from getting negative.
ReleasedBlindly(n) == n - 1

Released(n) == IF n > 0 THEN n - 1 ELSE n

\* Wrong: a tab that never started to load is not counted off.
ResetOfLoadsOnly(x, t, hid) ==
  LET w == Home[t]
      left == IF x.st[t] = "restoring" THEN OneLess(x.left[w]) ELSE x.left[w]
      y == [x EXCEPT !.st[t] = "none", !.left[w] = left,
                     !.on = Unlistened(@, w, left), !.asked = @ \ {t}]
  IN CASE x.st[t] = "restoring" -> [y EXCEPT !.count = Released(@)]
       [] x.st[t] = "needs" ->
            Dequeue([y EXCEPT !.history = @ \ {t}], t, hid)
       [] OTHER -> y

\* _resetTabRestoringState
Reset(x, t, hid) ==
  LET w == Home[t]
      left == OneLess(x.left[w])
      y == [x EXCEPT !.st[t] = "none", !.left[w] = left,
                     !.on = Unlistened(@, w, left), !.asked = @ \ {t}]
  IN CASE x.st[t] = "restoring" -> [y EXCEPT !.count = Released(@)]
       [] x.st[t] = "needs" ->
            Dequeue([y EXCEPT !.history = @ \ {t}], t, hid)
       [] OTHER -> y

\* What restoreTab does before it tries to load.
Started(x, t, why, hid) ==
  [Dequeue(x, t, hid) EXCEPT
     !.on = @ \cup {Home[t]}, !.count = @ + 1, !.st[t] = "restoring",
     !.history = @ \ {t},
     !.asked = IF why = "asked" THEN @ \cup {t} ELSE @ \ {t}]

\* restoreTab ends in one of three ways: a load starts, none starts and the
\* tab is reset, or the data of the tab is gone and it throws.
Loading(x, t, why, hid) == [Started(x, t, why, hid) EXCEPT !.loads = @ \cup {t}]
NotLoading(x, t, why, hid) == Reset(Started(x, t, why, hid), t, hid)
Restore(x, t, why, hid) ==
  IF t \in x.data
  THEN {Loading(x, t, why, hid), NotLoading(x, t, why, hid)}
  ELSE {Started(x, t, why, hid)}

\* Wrong: the number of loads is not limited.
MayRestoreNextUnlimited(x) == ~quitting /\ ShiftFrom(x) # {}

MayRestoreNext(x) == ~quitting /\ x.count < MaxConcurrent /\ ShiftFrom(x) # {}

NextBucket(x) == CHOOSE b \in ShiftFrom(x) : TRUE
NextTab(x) == Head(x.queue[NextBucket(x)])
Shifted(x) == [x EXCEPT !.queue[NextBucket(x)] = Tail(@)]

\* The states of X after the next tab was shifted and did not load.
Skip(X, hid) ==
  {NotLoading(Shifted(x), NextTab(x), "turn", hid) :
     x \in {x \in X : MayRestoreNext(x) /\ NextTab(x) \in x.data}}

\* The next tab is shifted and loads, or throws.
StartNext(x, hid) ==
  IF ~MayRestoreNext(x) THEN x
  ELSE IF NextTab(x) \in x.data THEN Loading(Shifted(x), NextTab(x), "turn", hid)
  ELSE Started(Shifted(x), NextTab(x), "turn", hid)

\* restoreNextTab: shift tabs until one starts to load or throws, or no tab may
\* be restored.  after[n] holds the states after n tabs that did not load.
RestoreNext(x, hid) ==
  LET length == Len(x.queue.priority) + Len(x.queue.visible) + Len(x.queue.hidden)
      after[n \in 0..length] == IF n = 0 THEN {x} ELSE Skip(after[n - 1], hid)
  IN {StartNext(y, hid) : y \in UNION {after[n] : n \in 0..length}}

\* Wrong: a tab that is closed while it loads is not reset.
RemoveTabUncounted(x, t, hid) ==
  LET y == [x EXCEPT !.data = @ \ {t}, !.loads = @ \ {t}]
  IN CASE x.st[t] = "none" -> {y}
       [] x.st[t] = "needs" -> {Reset(y, t, hid)}
       [] x.st[t] = "restoring" -> RestoreNext([y EXCEPT !.st[t] = "none"], hid)

\* onTabRemove
RemoveTab(x, t, hid) ==
  LET y == [x EXCEPT !.data = @ \ {t}, !.loads = @ \ {t}]
  IN CASE x.st[t] = "none" -> {y}
       [] x.st[t] = "needs" -> {Reset(y, t, hid)}
       [] x.st[t] = "restoring" -> RestoreNext(Reset(y, t, hid), hid)

\* A loop over the tabs of ts resets those that are not done.
ResetEach(x, ts) ==
  LET after[n \in 0..TabCount] ==
        IF n = 0 THEN x
        ELSE IF n \in ts /\ after[n - 1].st[n] # "none"
             THEN Reset(after[n - 1], n, hidden) ELSE after[n - 1]
  IN after[TabCount]

\* restoreHistoryPrecursor: the tabs of ts wait for their history.
Prepared(x, ts) ==
  [x EXCEPT !.st = [t \in Tabs |-> IF t \in ts THEN "needs" ELSE @[t]],
            !.data = @ \cup ts, !.loads = @ \ ts, !.asked = @ \ ts]

\* _canRestoreTabHistory
Restorable(x, t, opn) == t \in opn \cap x.data

\* restoreHistory: tabs that cannot be restored are skipped, the next one gets
\* its history, the others follow in a timeout.  The outcomes are pairs of a
\* restoring state and the chain that is left.
RestoreHistory(x, chain, opn, hid, sel) ==
  LET ready == {i \in DOMAIN chain.tabs : Restorable(x, chain.tabs[i], opn)}
  IN IF ready = {} THEN {<<x, <<>>>>}
     ELSE LET i == Min(ready)
              t == chain.tabs[i]
              y == [x EXCEPT !.history = @ \cup {t}]
              rest == SubSeq(chain.tabs, i + 1, Len(chain.tabs))
              later == IF rest = <<>> THEN <<>> ELSE <<[chain EXCEPT !.tabs = rest]>>
          IN {<<z, later>> :
                z \in IF chain.now \/ sel[Home[t]] = t
                      THEN Restore(y, t, "asked", hid)
                      ELSE RestoreNext(Enqueue(y, t, hid), hid)}

\* _setTabsRestoringOrder: the selected tab, pinned, visible, hidden tabs.
RestoringOrder(ts, hid, first) ==
  LET ordered(S) == Kept([t \in Tabs |-> t], S)
      rest == ts \ first
  IN ordered(first) \o ordered(rest \cap Pinned)
       \o ordered((rest \ Pinned) \ hid) \o ordered((rest \ Pinned) \cap hid)

\* restoreHistoryPrecursor and its first restoreHistory.
RestoreTabs(x, tabs, now, opn, hid, sel) ==
  \E o \in RestoreHistory(Prepared(x, ToSet(tabs)), [tabs |-> tabs, now |-> now],
                          opn, hid, sel) :
    ss' = o[1] /\ chains' = chains \o o[2]

-----------------------------------------------------------------------------
\* Restoring a window.

\* restoreWindow into the open tabs of w: kept tabs are reused, added ones are
\* opened, the others removed, and first is selected.  The windows of gone have
\* been closed before.
Overwrite(x, w, kept, added, hid, first, gone) ==
  LET old == open \cap TabsOf(w)
      ts == kept \cup added
      y == [ResetEach(x, old) EXCEPT !.left[w] = Cardinality(ts),
                         !.data = @ \ (old \ kept), !.loads = @ \ (old \ kept)]
      elsewhere == {t \in open \ old : Home[t] \notin gone}
  IN /\ open' = elsewhere \cup ts
     /\ hidden' = (hidden \cap (elsewhere \cup kept)) \cup hid
     /\ selected' = [v \in Windows |-> IF v = w THEN first
                                       ELSE IF v \in gone THEN NoTab ELSE selected[v]]
     /\ first \notin hidden'
     /\ RestoreTabs(y, RestoringOrder(ts, hidden', {first}), FALSE, open', hidden',
                    selected')

\* The tabs a restored state of w asks for.
Fits(w, kept, added, hid, first) ==
  /\ Hasty \/ kept \cap InChain = {}
  /\ selected[w] \in kept /\ (added # {} => kept = open \cap TabsOf(w))
  /\ hid \subseteq added \ Pinned
  /\ first \in kept \cup added

RestoreWindow(w) ==
  /\ selected[w] # NoTab /\ restores < MaxRestores
  /\ restores' = restores + 1
  /\ \/ \E kept \in SUBSET (open \cap TabsOf(w)), added \in SUBSET Free(w),
           hid \in SUBSET Free(w), first \in TabsOf(w) :
          /\ Fits(w, kept, added, hid, first)
          /\ Overwrite(ss, w, kept, added, hid, first, {})
     \/ \E added \in SUBSET Free(w), hid \in SUBSET (Free(w) \ Pinned) :
          /\ added # {} /\ hid \subseteq added
          /\ open' = open \cup added /\ hidden' = hidden \cup hid
          /\ RestoreTabs([ss EXCEPT !.left[w] =
                            (IF IsZero(@) THEN 0 ELSE @) + Cardinality(added)],
                         RestoringOrder(added, hidden', {}), FALSE,
                         open', hidden', selected)
          /\ UNCHANGED selected
  /\ UNCHANGED <<quitting, requests>>

\* The timeout of restoreHistory.
ContinueHistory ==
  \E i \in DOMAIN chains :
    \E o \in RestoreHistory(ss, chains[i], open, hidden, selected) :
      /\ ss' = o[1] /\ chains' = RemoveAt(chains, i) \o o[2]
      /\ UNCHANGED <<open, hidden, selected, quitting, requests, restores>>

\* Wrong: the end of a load does not start another.
LoadStopsAlone(t) ==
  /\ t \in ss.loads
  /\ \E loaded \in BOOLEAN :
       LET x == [ss EXCEPT !.loads = @ \ {t},
                           !.data = IF loaded /\ ss.st[t] # "needs" THEN @ \ {t} ELSE @]
       IN ss' = IF ss.st[t] = "restoring" /\ Home[t] \in ss.on
                THEN Reset(x, t, hidden) ELSE x
  /\ UNCHANGED <<open, hidden, selected, chains, quitting, requests, restores>>

\* The STOP of a load, heard only where the listener is attached; when the page
\* has loaded, onTabLoad drops the saved data of the tab first.
LoadStops(t) ==
  /\ t \in ss.loads
  /\ \E loaded \in BOOLEAN :
       LET x == [ss EXCEPT !.loads = @ \ {t},
                           !.data = IF loaded /\ ss.st[t] # "needs" THEN @ \ {t} ELSE @]
       IN IF ss.st[t] = "restoring" /\ Home[t] \in ss.on
          THEN ss' \in RestoreNext(Reset(x, t, hidden), hidden)
          ELSE ss' = x
  /\ UNCHANGED <<open, hidden, selected, chains, quitting, requests, restores>>

-----------------------------------------------------------------------------
\* The user.

\* onTabSelect, for tab t of a window that shows it.
Selected(x, t, hid) ==
  IF ~quitting /\ x.st[t] = "needs" THEN Restore(x, t, "asked", hid) ELSE {x}

SelectTab(t) ==
  /\ t \in Selectable /\ selected[Home[t]] # t
  /\ selected' = [selected EXCEPT ![Home[t]] = t]
  /\ ss' \in Selected(ss, t, hidden)
  /\ UNCHANGED <<open, hidden, chains, quitting, requests, restores>>

\* onTabRemove, then onTabSelect for the tab that takes its place.
CloseTab(t) ==
  /\ t \in open
  /\ LET w == Home[t]
         shown == (TabsOf(w) \cap Selectable) \ {t}
     IN /\ shown # {}
        /\ \E x \in RemoveTab(ss, t, hidden) :
             IF selected[w] # t THEN ss' = x /\ UNCHANGED selected
             ELSE \E u \in shown : /\ selected' = [selected EXCEPT ![w] = u]
                                   /\ ss' \in Selected(x, u, hidden)
  /\ open' = open \ {t} /\ hidden' = hidden \ {t}
  /\ UNCHANGED <<chains, quitting, requests, restores>>

\* onTabShow; hiddenToVisible throws for a tab that is not in its bucket.
ShowTab(t) ==
  /\ t \in hidden
  /\ hidden' = hidden \ {t}
  /\ IF ss.st[t] = "needs" /\ t \in ToSet(ss.queue.hidden)
     THEN ss' \in RestoreNext([ss EXCEPT !.queue.hidden = RemoveFirst(@, t),
                                         !.queue.visible = Append(@, t)], hidden')
     ELSE UNCHANGED ss
  /\ UNCHANGED <<open, selected, chains, quitting, requests, restores>>

\* Wrong: a tab that is hidden keeps its place in the queue.
HideTabInPlace(t) ==
  /\ t \in (open \ hidden) \ Pinned /\ selected[Home[t]] # t
  /\ hidden' = hidden \cup {t}
  /\ UNCHANGED <<ss, open, selected, chains, quitting, requests, restores>>

\* onTabHide, in the same way.
HideTab(t) ==
  /\ t \in (open \ hidden) \ Pinned /\ selected[Home[t]] # t
  /\ hidden' = hidden \cup {t}
  /\ ss' = IF ss.st[t] = "needs" /\ t \in ToSet(ss.queue.visible)
           THEN [ss EXCEPT !.queue.visible = RemoveFirst(@, t),
                           !.queue.hidden = Append(@, t)]
           ELSE ss
  /\ UNCHANGED <<open, selected, chains, quitting, requests, restores>>

\* OnHistoryReload of SessionStoreSHistoryListener
ReloadTab(t) ==
  /\ t \in ss.history \cap open
  /\ ss' \in Restore(ss, t, "asked", hidden)
  /\ UNCHANGED <<open, hidden, selected, chains, quitting, requests, restores>>

\* onClose of the windows ws: their listeners go, then their tabs one after
\* another.
Closed(x, ws) ==
  LET after[n \in 0..TabCount] ==
        IF n = 0 THEN {[x EXCEPT !.on = @ \ ws]}
        ELSE IF n \in open /\ Home[n] \in ws
        THEN UNION {RemoveTab(y, n, hidden) : y \in after[n - 1]}
        ELSE after[n - 1]
  IN after[TabCount]

CloseWindow(w) ==
  /\ selected[w] # NoTab /\ \E v \in Windows \ {w} : selected[v] # NoTab
  /\ ss' \in Closed(ss, {w})
  /\ open' = open \ TabsOf(w) /\ hidden' = hidden \ TabsOf(w)
  /\ selected' = [selected EXCEPT ![w] = NoTab]
  /\ UNCHANGED <<chains, quitting, requests, restores>>

\* A new window has one blank tab and no counter.
OpenWindow(w) ==
  /\ selected[w] = NoTab /\ Free(w) # {}
  /\ selected' = [selected EXCEPT ![w] = Min(Free(w))]
  /\ open' = open \cup {selected'[w]}
  /\ ss' = [ss EXCEPT !.left[w] = Unset, !.on = @ \ {w}]
  /\ UNCHANGED <<hidden, chains, quitting, requests, restores>>

\* onPurgeSessionHistory: the saved data of every tab goes, and no tab is
\* restored any more; loads that run go on.
PurgeHistory ==
  /\ ss' = ResetEach([ss EXCEPT !.data = {}], open)
  /\ UNCHANGED <<open, hidden, selected, chains, quitting, requests, restores>>

\* onQuitApplicationGranted
Quit ==
  /\ ~quitting /\ quitting' = TRUE
  /\ UNCHANGED <<ss, open, hidden, selected, chains, requests, restores>>

-----------------------------------------------------------------------------
\* The API.

Called(name) ==
  /\ name \in Requests /\ requests < MaxRequests
  /\ requests' = requests + 1

DuplicateTab(t) ==
  /\ Called("duplicateTab")
  /\ t \in Free(Home[t]) \ Pinned /\ selected[Home[t]] # NoTab
  /\ open' = open \cup {t}
  /\ RestoreTabs(ss, <<t>>, TRUE, open', hidden, selected)
  /\ UNCHANGED <<hidden, selected, quitting, restores>>

UndoCloseTab(t) ==
  /\ Called("undoCloseTab")
  /\ t \in Free(Home[t]) /\ selected[Home[t]] # NoTab
  /\ open' = open \cup {t}
  /\ selected' = [selected EXCEPT ![Home[t]] = t]
  /\ RestoreTabs(ss, <<t>>, FALSE, open', hidden, selected')
  /\ UNCHANGED <<hidden, quitting, restores>>

SetTabState(t) ==
  /\ Called("setTabState")
  /\ t \in open
  /\ RestoreTabs(ss, <<t>>, FALSE, open, hidden, selected)
  /\ UNCHANGED <<open, hidden, selected, quitting, restores>>

\* _resetRestoringState, then the other windows are closed, with a queue that
\* stays empty, and w overwritten.
SetBrowserState(w) ==
  /\ Called("setBrowserState")
  /\ selected[w] # NoTab
  /\ LET others == {v \in Windows \ {w} : selected[v] # NoTab} IN
     \E x \in Closed([ss EXCEPT !.queue = NoQueue, !.count = 0], others),
        kept \in SUBSET (open \cap TabsOf(w)), added \in SUBSET Free(w),
        hid \in SUBSET Free(w), first \in TabsOf(w) :
       /\ Fits(w, kept, added, hid, first)
       /\ Overwrite(x, w, kept, added, hid, first, others)
  /\ UNCHANGED <<quitting, restores>>

Next ==
  \/ \E w \in Windows : \/ RestoreWindow(w) \/ CloseWindow(w) \/ OpenWindow(w)
                        \/ SetBrowserState(w)
  \/ \E t \in Tabs : \/ LoadStops(t) \/ SelectTab(t) \/ CloseTab(t)
                     \/ ShowTab(t) \/ HideTab(t) \/ ReloadTab(t)
                     \/ DuplicateTab(t) \/ UndoCloseTab(t) \/ SetTabState(t)
  \/ ContinueHistory \/ PurgeHistory \/ Quit

\* Timeouts fire and loads end; nobody has to do anything else.
Fairness ==
  /\ WF_vars(ContinueHistory)
  /\ \A t \in Tabs : WF_vars(LoadStops(t))

Spec == Init /\ [][Next]_vars
FairSpec == Spec /\ Fairness
-----------------------------------------------------------------------------
\* Properties.

Restoring == {t \in Tabs : ss.st[t] = "restoring"}
Waiting == {t \in Tabs : ss.st[t] = "needs"}

\* Every variable stays within its type; only open tabs are hidden, and every
\* open window selects one of its visible tabs.
TypeOK ==
  /\ ss.st \in [Tabs -> {"none", "needs", "restoring"}]
  /\ UNION {ss.data, ss.history, ss.loads, ss.asked, Queued} \subseteq Tabs
  /\ ss.count \in Nat /\ ss.left \in [Windows -> Int \cup {Unset}]
  /\ ss.on \subseteq Windows
  /\ hidden \subseteq open /\ open \subseteq Tabs
  /\ \A w \in Windows :
       IF selected[w] = NoTab THEN open \cap TabsOf(w) = {}
       ELSE selected[w] \in (open \cap TabsOf(w)) \ hidden
  /\ \A i \in DOMAIN chains : chains[i].tabs \in Seq(Tabs)

\* _tabsRestoringCount is the number of tabs that are restoring, whatever is
\* closed, selected or restored again meanwhile: a count too large takes a
\* place of max_concurrent_tabs away for the rest of the session.
CountIsRestoring == ss.count = Cardinality(Restoring)

\* __SS_tabsToRestore is the number of tabs of the window that are not
\* restored, once restoreWindow has set it.
LeftIsUnrestored ==
  \A w \in Windows : selected[w] # NoTab /\ ss.left[w] # Unset =>
     ss.left[w] = Cardinality((Restoring \cup Waiting) \cap TabsOf(w))

\* A tab that is marked as restoring does load, for restoreTab never finds its
\* data gone, and while it loads its window has the progress listener: nobody
\* else would hear the end of the load (_removeTabsProgressListener).
HeardWhileLoading == \A t \in Restoring : t \in ss.loads /\ Home[t] \in ss.on

\* The queue holds each tab once that waits for its turn, and no other: not a
\* closed one, none that has been started for another reason, and none that
\* the chain of timeouts has still to reach (restoreTab, onTabRemove).
QueueIsWaiting ==
  /\ Queued = Waiting \ InChain
  /\ Cardinality(Queued)
       = Len(ss.queue.priority) + Len(ss.queue.visible) + Len(ss.queue.hidden)

\* No more than max_concurrent_tabs tabs load at a time besides those somebody
\* asked for, even where the counter is wrong (restoreNextTab).
ConcurrencyLimit == Cardinality(Restoring \ ss.asked) <= MaxConcurrent

\* Unless somebody asks for it, a tab is only started if the preferences let it
\* and nothing that goes first is waiting: pinned tabs, then visible ones, hidden
\* ones with restore_hidden_tabs, however tabs were shown and hidden while they
\* were in the queue (TabRestoreQueue.shift).
StartedInTurn ==
  [][\A t \in (Restoring' \ Restoring) \ ss'.asked :
       \/ t \in Pinned /\ ~(RestoreOnDemand /\ PinnedOnDemand)
       \/ /\ t \notin Pinned /\ ~RestoreOnDemand /\ (Queued \cap Pinned = {})'
          /\ t \in hidden' => RestoreHidden /\ (Queued \subseteq hidden)']_vars

\* With restore_on_demand off every visible tab gets its turn, whatever the
\* user does to the other tabs (restoreNextTab after every end of a load).
AllRestored ==
  \A t \in Tabs : (t \in Waiting \ hidden)
                    ~> (t \notin Waiting \/ t \in hidden \/ quitting)

\* A tab that started to restore comes to an end of it.
RestoringEnds == \A t \in Tabs : (t \in Restoring) ~> (t \notin Restoring)
=============================================================================
