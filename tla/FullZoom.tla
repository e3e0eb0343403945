------------------------------- MODULE FullZoom -------------------------------
(***************************************************************************)
(* Page zoom of one browser window: the FullZoom object of                 *)
(* browser-fullZoom.js, the tabs whose zoom it sets, and the content       *)
(* preference service it reads and writes asynchronously.  Other windows,  *)
(* which share the service, are the foreign changes.                       *)
(*                                                                         *)
(* What is abstracted.  A site stands for the domain of a location.  A     *)
(* token is a mark on the access that holds it: current until the pending  *)
(* accesses of its browser are ignored.  A promise that is resolved runs   *)
(* its reactions in the step that resolves it.  The service serves one     *)
(* access after another and calls the callback of an access and then the   *)
(* observers in one step; its cache answers nothing about a site with a    *)
(* change on its way.  Left out: private windows, print preview, the menu. *)
(***************************************************************************)
EXTENDS Integers, Sequences, FiniteSets

CONSTANTS
  Browsers, Sites,
  Blank,             \* about:blank
  Global,            \* stands for the global preference where a site is expected
  None,              \* undefined: no preference
  Unread,            \* "_globalValue" is not in FullZoom
  MinZoom, MaxZoom,  \* ZoomManager.MIN and MAX
  Foreign,           \* what other windows and add-ons may write
  MaxSteps, MaxFlips, MaxQueue  \* bounds

Zooms == MinZoom..MaxZoom
Groups == Sites \cup {Blank, Global}

ASSUME ConstantsAssumption ==
  /\ Blank \notin Sites /\ Global \notin Sites \cup {Blank}
  /\ MinZoom \in Int /\ MaxZoom \in Int /\ 1 \in Zooms
  /\ None \notin Int \cup Browsers /\ Unread \notin Int \cup {None}
  /\ Foreign \subseteq Int \cup {None}
  /\ {MaxSteps, MaxFlips, MaxQueue} \subseteq Nat

VARIABLES
  site,             \* where the document of each browser is
  synthetic,        \* browsers with a media document
  open, selected,   \* browsers that exist, the one that shows
  zoom,             \* the zoom of each browser
  inited,           \* init has run
  initial,          \* browsers in _initialLocations
  siteSpecific, updateBackground,  \* the two preferences as cached
  global,           \* _globalValue
  internal,         \* _isNextContentPrefChangeInternal
  stored,           \* the preferences in the service, by site, and Global
  known,            \* the sites its cache knows
  queue,            \* accesses posted to the service
  soon,             \* per browser: notifications dispatched, not yet run
  \* History and bounds:
  unanswered,       \* per browser: location changes without a notification
  turns,            \* per browser: navigations, and zooms by the user
  missed,           \* browsers whose location init should have replayed
  overlooked,       \* sites (or Global) changed elsewhere
                    \* while a change of ours was on its way, or ignored as if
                    \* ours, or reset while a read for the page was on its way
  steps, flips

docs == <<site, synthetic, open, selected>>
prefVars == <<siteSpecific, updateBackground>>
startup == <<inited, initial, missed>>
service == <<stored, known>>
bounds == <<steps, flips>>
vars == <<docs, zoom, startup, prefVars, global, internal, service, queue, soon,
          unanswered, turns, overlooked, bounds>>

\* The part of the state the functions below work on.
State == [zoom |-> zoom, queue |-> queue, soon |-> soon, global |-> global]
Becomes(st) ==
  zoom' = st.zoom /\ queue' = st.queue /\ soon' = st.soon /\ global' = st.global

Init ==
  /\ site = [b \in Browsers |-> Blank] /\ synthetic = {}
  /\ open = Browsers /\ selected \in Browsers
  /\ zoom = [b \in Browsers |-> 1]
  /\ inited = FALSE /\ initial = {} /\ missed = {}
  /\ siteSpecific = FALSE /\ updateBackground = FALSE
  /\ global = Unread /\ internal = FALSE
  /\ stored \in {f \in [Groups -> {None, MaxZoom}] : f[Blank] = None /\ f[Global] = None}
  /\ known = {}
  /\ queue = <<>> /\ soon = [b \in Browsers |-> 0]
  /\ unanswered = [b \in Browsers |-> 0]
  /\ turns = [b \in Browsers |-> 0]
  /\ overlooked = {} /\ steps = 0 /\ flips = 0

-----------------------------------------------------------------------------
\* Reading and applying preferences.

\* _ensureValid
EnsureValid(v) ==
  IF v = None THEN 1
  ELSE IF v < MinZoom THEN MinZoom ELSE IF v > MaxZoom THEN MaxZoom ELSE v

\* An access to the service on behalf of browser b; with notify its end answers
\* a location change.
Access(kind, b, s, v, notify) ==
  [kind |-> kind, browser |-> b, site |-> s, value |-> v, notify |-> notify,
   current |-> TRUE, turn |-> turns'[b]]

Post(st, a) == [st EXCEPT !.queue = Append(@, a)]

\* Wrong: pending accesses stay current.
IgnoreNothing(st, b) == st

\* _ignorePendingZoomAccesses
IgnorePending(st, b) ==
  LET q == st.queue IN
  [st EXCEPT !.queue = [i \in DOMAIN q |->
                          [q[i] EXCEPT !.current = @ /\ q[i].browser # b]]]

\* _executeSoon(aCallback), where the callback is _notifyOnLocationChange
Soon(st, b, notify) == IF notify THEN [st EXCEPT !.soon[b] = @ + 1] ELSE st

SetZoom(st, b, v) == IgnorePending([st EXCEPT !.zoom[b] = v], b)

GlobalZoom(g) == IF g = None THEN 1 ELSE g

\* Wrong: without a preference the page keeps its zoom.
ApplyPrefOnly(st, v, b, notify) ==
  IF siteSpecific /\ b \in open' /\ b \notin synthetic' /\ v # None
  THEN Soon(SetZoom(st, b, EnsureValid(v)), b, notify) ELSE Soon(st, b, notify)

\* _applyPrefToZoom: v, or else the global preference.
ApplyPref(st, v, b, notify) ==
  IF ~siteSpecific \/ b \notin open' \/ b \in synthetic' THEN Soon(st, b, notify)
  ELSE IF v # None THEN Soon(SetZoom(st, b, EnsureValid(v)), b, notify)
  ELSE IF st.global = Unread THEN Post(st, Access("global", b, Global, None, notify))
  ELSE Soon(SetZoom(st, b, GlobalZoom(st.global)), b, notify)

Change(a) == a.kind \in {"set", "remove"}
Pending(s) == \E i \in DOMAIN queue : Change(queue[i]) /\ queue[i].site = s

\* getCachedByDomainAndName answers
Cached(s) == s \in known /\ ~Pending(s)

\* onLocationChange for the document b now shows
LocationChange(b, tabSwitch) ==
  LET s == site'[b]
      quiet == IgnorePending(State, b)
  IN IF ~inited
     THEN /\ initial' = initial \cup {b}
          /\ Becomes(State)
          /\ UNCHANGED <<inited, missed, unanswered>>
     ELSE /\ unanswered' = [unanswered EXCEPT ![b] = @ + 1]
          /\ missed' = missed \ {b}
          /\ UNCHANGED <<inited, initial>>
          /\ \/ /\ tabSwitch /\ ~siteSpecific
                /\ Becomes(Soon(quiet, b, TRUE))
             \/ /\ ~(tabSwitch /\ ~siteSpecific) /\ s = Blank
                /\ Becomes(ApplyPref(quiet, None, b, TRUE))
             \/ /\ s # Blank /\ ~tabSwitch /\ b \in synthetic'
                /\ Becomes(Soon([quiet EXCEPT !.zoom[b] = 1], b, TRUE))
             \/ /\ s # Blank /\ (IF tabSwitch THEN siteSpecific ELSE b \notin synthetic')
                /\ IF Cached(s) THEN Becomes(ApplyPref(quiet, stored[s], b, TRUE))
                   ELSE Becomes(Post(quiet, Access("location", b, s, None, TRUE)))

-----------------------------------------------------------------------------
\* The window.

Step == steps < MaxSteps /\ Len(queue) < MaxQueue /\ steps' = steps + 1 /\ UNCHANGED flips

\* init.  The replay calls onLocationChange, which still finds _initialLocations
\* and stores the location again; then the map is dropped.
Start ==
  /\ ~inited /\ inited' = TRUE
  /\ siteSpecific' = TRUE /\ updateBackground' = TRUE
  /\ missed' = initial /\ initial' = {}
  /\ UNCHANGED <<docs, zoom, global, internal, service, queue, soon, unanswered,
                 turns, overlooked, bounds>>

\* A tab loads a page: TabsProgressListener.onLocationChange.
Navigate(b) ==
  /\ Step /\ b \in open
  /\ \E s \in Sites \cup {Blank} : site' = [site EXCEPT ![b] = s]
  /\ synthetic' \in {synthetic \ {b}, synthetic \cup {b}}
  /\ turns' = [turns EXCEPT ![b] = @ + 1]
  /\ UNCHANGED <<open, selected>>
  /\ LocationChange(b, FALSE)
  /\ UNCHANGED <<prefVars, internal, service, overlooked>>

\* Another tab is selected: XULBrowserWindow.onUpdateCurrentBrowser.
Select(b) ==
  /\ Step /\ b \in open \ {selected}
  /\ selected' = b
  /\ UNCHANGED <<site, synthetic, open, turns>>
  /\ IF updateBackground THEN LocationChange(b, TRUE)
     ELSE UNCHANGED <<startup, unanswered>> /\ Becomes(State)
  /\ UNCHANGED <<prefVars, internal, service, overlooked>>

\* A tab that is not selected is closed; its accesses stay posted.
Close(b) ==
  /\ Step /\ b \in open \ {selected}
  /\ open' = open \ {b}
  /\ UNCHANGED <<site, synthetic, selected, zoom, startup, prefVars, global,
                 internal, service, queue, soon, unanswered, turns, overlooked>>

\* _applyZoomToPref
ApplyZoomToPref(st, b) ==
  IF ~siteSpecific \/ b \in synthetic THEN st
  ELSE Post(st, Access("set", b, site[b], st.zoom[b], FALSE))

\* reduce, enlarge, setZoom and the mouse wheel, on the selected browser
ZoomBy(v) ==
  /\ Step /\ v # zoom[selected]
  /\ turns' = [turns EXCEPT ![selected] = @ + 1]
  /\ Becomes(ApplyZoomToPref(SetZoom(State, selected, v), selected))
  /\ UNCHANGED <<docs, startup, prefVars, internal, service, unanswered, overlooked>>

\* reset and _removePref.  Until init has run there is no service to call.
Reset ==
  /\ Step /\ inited
  /\ UNCHANGED turns
  /\ LET b == selected
         st == IF global = Unread
               THEN Post(State, Access("reset", b, Global, None, FALSE))
               ELSE SetZoom(State, b, GlobalZoom(global))
     IN Becomes(IF b \in synthetic THEN st
                ELSE Post(st, Access("remove", b, site[b], None, FALSE)))
  /\ overlooked' = IF \E i \in DOMAIN queue :
                         queue[i].browser = selected /\ queue[i].current /\ ~Change(queue[i])
                   THEN overlooked \cup {site[selected]} ELSE overlooked
  /\ UNCHANGED <<docs, startup, prefVars, internal, service, unanswered>>

\* observe, for the two preferences of browser.zoom
SetPref ==
  /\ inited /\ flips < MaxFlips /\ flips' = flips + 1
  /\ \/ siteSpecific' = ~siteSpecific /\ UNCHANGED updateBackground
     \/ updateBackground' = ~updateBackground /\ UNCHANGED siteSpecific
  /\ UNCHANGED <<docs, zoom, startup, global, internal, service, queue, soon,
                 unanswered, turns, overlooked, steps>>

\* Another window or an add-on changes a preference.
ChangeElsewhere(s, v) ==
  /\ Step
  /\ queue' = Append(queue, [kind |-> IF v = None THEN "remove" ELSE "set",
                             browser |-> None, site |-> s, value |-> v,
                             notify |-> FALSE, current |-> FALSE, turn |-> 0])
  /\ UNCHANGED <<docs, zoom, startup, prefVars, global, internal, service, soon,
                 unanswered, turns, overlooked>>

-----------------------------------------------------------------------------
\* The service answers the first access.

Current(a) == a.current /\ a.browser \in open

\* Wrong: a read that comes too late notifies nobody.
LocationReadSilent(st, a) ==
  IF Current(a) THEN ApplyPref(st, stored[a.site], a.browser, TRUE) ELSE st

\* The end of the read in onLocationChange
LocationRead(st, a) ==
  IF Current(a) THEN ApplyPref(st, stored[a.site], a.browser, TRUE)
  ELSE Soon(st, a.browser, TRUE)

\* The end of the read after a change of the global preference
SiteRead(st, a) ==
  IF Current(a) /\ stored[a.site] = None
  THEN ApplyPref(st, None, a.browser, FALSE) ELSE st

\* The end of _getGlobalValue, and its reaction in _applyPrefToZoom or reset
GlobalRead(st, a) ==
  LET g == EnsureValid(stored[Global])
      read == [st EXCEPT !.global = g]
  IN Soon(IF Current(a) THEN SetZoom(read, a.browser, g) ELSE read,
          a.browser, a.notify)

\* _onContentPrefChanged, for a change that is not taken for internal
PrefChanged(st, s, v) ==
  IF s # Global
  THEN IF s = site[selected] THEN ApplyPref(st, v, selected, FALSE) ELSE st
  ELSE Post([st EXCEPT !.global = IF v = None THEN None ELSE EnsureValid(v)],
            Access("site", selected, site[selected], None, FALSE))

Read(a) ==
  /\ ~Change(a)
  /\ LET st == [State EXCEPT !.queue = Tail(@)] IN
       \/ a.kind = "location" /\ Becomes(LocationRead(st, a))
       \/ a.kind = "site" /\ Becomes(SiteRead(st, a))
       \/ a.kind \in {"global", "reset"} /\ Becomes(GlobalRead(st, a))
  /\ known' = known \cup {a.site}
  /\ UNCHANGED <<stored, internal, overlooked>>

\* A completed change: first the callback of the one who made it, then the
\* observers, of which init made this window one; removing what is not there
\* notifies nobody.
Changed(a) ==
  LET own == a.browser # None
      ignored == internal \/ own
      notifies == inited /\ (a.kind = "set" \/ stored[a.site] # None)
      st == [State EXCEPT !.queue = Tail(@)]
      crossing == \E i \in 2..Len(queue) :
                    Change(queue[i]) /\ queue[i].browser # None /\ queue[i].site = a.site
  IN /\ Change(a)
     /\ stored' = [stored EXCEPT ![a.site] = a.value]
     /\ known' = known \cup {a.site}
     /\ internal' = (ignored /\ ~notifies)
     /\ Becomes(IF notifies /\ ~ignored THEN PrefChanged(st, a.site, a.value) ELSE st)
     /\ overlooked' = IF ~own /\ notifies /\ (ignored \/ crossing)
                      THEN overlooked \cup {a.site} ELSE overlooked

Serve ==
  /\ queue # <<>>
  /\ UNCHANGED <<docs, turns>>
  /\ Read(Head(queue)) \/ Changed(Head(queue))
  /\ UNCHANGED <<startup, prefVars, unanswered, bounds>>

\* A dispatched notification runs.
Notify(b) ==
  /\ soon[b] > 0
  /\ soon' = [soon EXCEPT ![b] = @ - 1]
  /\ unanswered' = [unanswered EXCEPT ![b] = @ - 1]
  /\ UNCHANGED <<docs, zoom, startup, prefVars, global, internal, service, queue,
                 turns, overlooked, bounds>>

Next ==
  \/ Start \/ Reset \/ SetPref \/ Serve
  \/ \E b \in Browsers : Navigate(b) \/ Select(b) \/ Close(b) \/ Notify(b)
  \/ \E v \in Zooms : ZoomBy(v)
  \/ \E s \in Groups \ {Blank}, v \in Foreign : ChangeElsewhere(s, v)

Spec == Init /\ [][Next]_vars
-----------------------------------------------------------------------------
\* Properties.

Answers(b) == {i \in DOMAIN queue : queue[i].browser = b /\ queue[i].notify}

\* Every location change is answered by one location-change notification: until
\* then exactly one read or one dispatched call carries it on, though reads are
\* ignored, chained to a read of the global preference, or outlive their tab
\* (onLocationChange, _applyPrefToZoom, _notifyOnLocationChange).
AnsweredOnce ==
  \A b \in Browsers : unanswered[b] = soon[b] + Cardinality(Answers(b))

\* The answer to a read changes the zoom of no tab but the one it was read for, and
\* of that one only if the tab did not load another page and was not zoomed by the
\* user since: also while a newer read or the user's change is still posted
\* (_ignorePendingZoomAccesses, token.isCurrent).
OldReadIgnored ==
  [][\A b \in Browsers :
       (Serve /\ ~Change(Head(queue)) /\ zoom'[b] # zoom[b])
         => Head(queue).browser = b /\ Head(queue).turn = turns[b]]_vars

Wanted(s) ==
  EnsureValid(IF stored[s] # None THEN stored[s] ELSE stored[Global])

Settled(b) ==
  (inited /\ queue = <<>> /\ flips = 0 /\ site[b] # Blank /\ b \notin synthetic
     /\ overlooked \cap {site[b], Global} = {})
   => zoom[b] = Wanted(site[b])

\* When the service has nothing left to do, the selected tab shows the zoom that
\* is stored for its site, or else the global one, if since the start no
\* preference of this site or the global one was
\* - changed elsewhere while a change of it by this window was on its way,
\* - changed elsewhere and taken for a change of this window, since the flag
\*   still stood after a removal that removed nothing,
\* - reset while a read for the page was on its way (overlooked, all three),
\* if neither preference of browser.zoom was switched (flips), and if the tab's
\* location is not one that init should have replayed (missed).  In each of
\* these cases the zoom can go wrong.  Left are the reads that outlive their
\* page, tab or zoom, chained reads, tabs switched meanwhile, and the changes
\* elsewhere that cross reads (onLocationChange, _onContentPrefChanged).
SelectedSettles == selected \notin missed => Settled(selected)
=============================================================================
