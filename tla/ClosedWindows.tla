----------------------------- MODULE ClosedWindows -----------------------------
(***************************************************************************)
(* The list of closed windows of SessionStore.jsm: what onClose puts into  *)
(* it, how _capClosedWindows and the purges shorten it, and which of its   *)
(* windows saveState counts among the open ones, so that windows the user  *)
(* closed one after another to quit come back together.                    *)
(*                                                                         *)
(* What is abstracted.  A window is a name; Popups and Private are fixed.  *)
(* The tabs of a closed window are a sequence of BOOLEANs, whether the tab *)
(* has an entry of the domain that is purged.  Crash recovery is on, and   *)
(* no window is being restored while its state is collected.               *)
(***************************************************************************)
EXTENDS Integers, Sequences, FiniteSets, SequencesExt, FiniteSetsExt, Lists

CONSTANTS
  Windows, Popups, Private,
  Sessions,    \* what a window holds when it is closed: its tabs, the selected
               \* one (from 1), and whether it is worth saving
  MaxUndos,    \* values of browser.sessionstore.max_windows_undo
  NoFile       \* nothing has been saved

ASSUME ConstantsAssumption ==
  /\ Popups \subseteq Windows /\ Private \subseteq Windows
  /\ \A s \in Sessions : s.tabs \in Seq(BOOLEAN) /\ s.selected \in DOMAIN s.tabs
                           /\ s.worth \in BOOLEAN
  /\ MaxUndos \subseteq Nat /\ MaxUndos # {}

VARIABLES
  loadState,  \* _loadState: "running", "quitting", and "over" after the last save
  open,       \* _windows: the windows in the order they were opened
  closed,     \* _closedWindows, the latest first; flag is _shouldRestore
  maxUndo,    \* _max_windows_undo
  file,       \* the windows and closed windows of the latest saved state
  \* History, never read by the program:
  series      \* windows closed since the user last did something else

vars == <<loadState, open, closed, maxUndo, file, series>>

WinsOf(list) == {list[i].win : i \in DOMAIN list}
NotPopup(list) == {i \in DOMAIN list : list[i].win \notin Popups}

Init ==
  /\ loadState = "running"
  /\ open \in {<<w>> : w \in Windows \ Popups}
  /\ closed = <<>> /\ maxUndo \in MaxUndos
  /\ file = NoFile /\ series = {}

\* Wrong: the last window that is no popup is not spared.
CappedHard(list, max) == SubSeq(list, 1, IF max < Len(list) THEN max ELSE Len(list))

\* _capClosedWindows: at most max windows, more if they are all popups, and
\* then up to the first one that is not.
Capped(list, max) ==
  LET normal == NotPopup(list)
      first == IF normal = {} THEN Len(list) + 1 ELSE Min(normal)
      to == IF first > max THEN first ELSE max
  IN IF Len(list) <= max THEN list
     ELSE SubSeq(list, 1, IF to < Len(list) THEN to ELSE Len(list))

\* _clearRestoringWindows
Unflagged(list) == [i \in DOMAIN list |-> [list[i] EXCEPT !.flag = FALSE]]

OpenWindow(w) ==
  /\ loadState = "running"
  /\ w \notin ToSet(open) \cup WinsOf(closed)
  /\ open' = Append(open, w)
  /\ UNCHANGED <<loadState, closed, maxUndo, file, series>>

\* Wrong: a private window is remembered like any other.
ClosePrivateToo(w, s) ==
  /\ loadState = "running" /\ w \in ToSet(open)
  /\ open' = Kept(open, {i \in DOMAIN open : open[i] # w})
  /\ closed' = IF s.worth
               THEN Capped(<<[win |-> w, tabs |-> s.tabs, selected |-> s.selected,
                              flag |-> TRUE]>> \o closed, maxUndo)
               ELSE closed
  /\ series' = (series \cup {w}) \cap WinsOf(closed')
  /\ UNCHANGED <<loadState, maxUndo, file>>

\* onClose while the browser runs; windows that close later stay in _windows.
Close(w, s) ==
  /\ loadState = "running" /\ w \in ToSet(open)
  /\ open' = Kept(open, {i \in DOMAIN open : open[i] # w})
  /\ closed' = IF w \notin Private /\ s.worth
               THEN Capped(<<[win |-> w, tabs |-> s.tabs, selected |-> s.selected,
                              flag |-> TRUE]>> \o closed, maxUndo)
               ELSE closed
  /\ series' = (series \cup {w}) \cap WinsOf(closed')
  /\ UNCHANGED <<loadState, maxUndo, file>>

\* Wrong: an event in a window does not end the series.
HandleEventForgets ==
  /\ loadState = "running" /\ open # <<>>
  /\ series' = {}
  /\ UNCHANGED <<loadState, open, closed, maxUndo, file>>

\* handleEvent and receiveMessage end with _clearRestoringWindows.
HandleEvent ==
  /\ loadState = "running" /\ open # <<>>
  /\ closed' = Unflagged(closed) /\ series' = {}
  /\ UNCHANGED <<loadState, open, maxUndo, file>>

\* Wrong: a smaller preference does not shorten the list.
SetMaxUndoOnly(n) ==
  /\ loadState = "running" /\ n \in MaxUndos \ {maxUndo}
  /\ maxUndo' = n
  /\ UNCHANGED <<loadState, open, closed, file, series>>

\* onPrefChange("sessionstore.max_windows_undo")
SetMaxUndo(n) ==
  /\ loadState = "running" /\ n \in MaxUndos \ {maxUndo}
  /\ maxUndo' = n /\ closed' = Capped(closed, n)
  /\ series' = series \cap WinsOf(closed')
  /\ UNCHANGED <<loadState, open, file>>

\* Wrong: the window that is opened again stays in the list.
UndoCloseWindowKeeps(i) ==
  /\ loadState = "running" /\ i \in DOMAIN closed
  /\ open' = Append(open, closed[i].win)
  /\ series' = series \ {closed[i].win}
  /\ UNCHANGED <<loadState, closed, maxUndo, file>>

\* undoCloseWindow
UndoCloseWindow(i) ==
  /\ loadState = "running" /\ i \in DOMAIN closed
  /\ open' = Append(open, closed[i].win) /\ closed' = RemoveAt(closed, i)
  /\ series' = series \ {closed[i].win}
  /\ UNCHANGED <<loadState, maxUndo, file>>

ForgetClosedWindow(i) ==
  /\ loadState = "running" /\ i \in DOMAIN closed
  /\ closed' = RemoveAt(closed, i)
  /\ series' = series \ {closed[i].win}
  /\ UNCHANGED <<loadState, open, maxUndo, file>>

\* Wrong: the selection is not moved.
SelectedAsBefore(e) == e.selected

\* The selected tab after the tabs of the domain went, from the last to the
\* first: each one at or before it moves it down by one.
SelectedAfter(e) ==
  LET after[j \in 0..Len(e.tabs)] ==
        IF j = Len(e.tabs) THEN e.selected
        ELSE IF e.tabs[j + 1] /\ after[j + 1] > j THEN after[j + 1] - 1
        ELSE after[j + 1]
  IN after[0]

WithoutDomain(e) ==
  [e EXCEPT !.tabs = Kept(e.tabs, {j \in DOMAIN e.tabs : ~e.tabs[j]}),
            !.selected = SelectedAfter(e)]

\* The windows whose title cannot be adjusted, since they lost tabs and their
\* selection went down to 0.
Unselected(list) ==
  {i \in DOMAIN list : /\ WithoutDomain(list[i]).tabs \notin {<<>>, list[i].tabs}
                       /\ WithoutDomain(list[i]).selected = 0}

\* What the loop over the closed windows leaves.  It goes from the last window
\* to the first, and throws at such a window.
PurgedList(list) ==
  LET from == Max({0} \cup Unselected(list))
      seen == [i \in DOMAIN list |-> IF i >= from THEN WithoutDomain(list[i]) ELSE list[i]]
  IN Kept(seen, {i \in DOMAIN seen : seen[i].tabs # <<>>})

\* saveState: the windows that are not private.
PublicOf(wins) == Kept(wins, {i \in DOMAIN wins : wins[i] \notin Private})

\* Wrong: windows of the series are restored and remain closed windows, too.
SavedStateTwice(list, quit) ==
  LET stop == Max({0} \cup {i \in DOMAIN list : ~list[i].flag})
      back == SubSeq(list, stop + 1, Len(list))
  IN [windows |-> [i \in DOMAIN back |-> back[i].win]
                    \o PublicOf(open),
      closed |-> [i \in DOMAIN list |-> list[i].win], unflagged |-> Len(back)]

\* Wrong: only the windows that are still open are restored.
SavedStateOpenOnly(list, quit) ==
  [windows |-> PublicOf(open),
   closed |-> [i \in DOMAIN list |-> list[i].win], unflagged |-> 0]

\* What _getCurrentState and saveState make of the lists, while quitting or
\* not: the windows to restore, the closed ones, and how many of these lost
\* their flag (the copy of the list is shallow).  saveState's second filter, for
\* private closed windows, is left out: PrivateNotSaved is that none is there.
SavedState(list, quit) ==
  LET normal == NotPopup(list)
      taken == IF quit /\ ToSet(open) \subseteq Popups
               THEN IF normal = {} THEN Len(list) ELSE Min(normal)
               ELSE 0
      left == SubSeq(list, taken + 1, Len(list))
      wins == Reverse([i \in 1..taken |-> list[i].win])
                \o PublicOf(open)
      stop == Max({0} \cup {i \in DOMAIN left : ~left[i].flag})
      back == SubSeq(left, stop + 1, Len(left))
  IN [windows |-> [i \in DOMAIN back |-> back[i].win] \o wins,
      closed |-> [i \in 1..stop |-> left[i].win],
      unflagged |-> Len(back)]

\* The list after the save: the last windows of it lost their flag.
AfterSave(list, n) ==
  [i \in DOMAIN list |->
     IF i > Len(list) - n THEN [list[i] EXCEPT !.flag = FALSE] ELSE list[i]]

Save(list, quit) ==
  LET s == SavedState(list, quit)
  IN /\ file' = [windows |-> s.windows, closed |-> s.closed]
     /\ closed' = AfterSave(list, s.unflagged)

\* onTimerCallback
TimerSave ==
  /\ loadState = "running"
  /\ Save(closed, FALSE)
  /\ UNCHANGED <<loadState, open, maxUndo, series>>

\* onPurgeDomainData
PurgeDomain ==
  /\ loadState = "running"
  /\ IF Unselected(closed) # {}  \* it threw: no save follows
     THEN /\ closed' = PurgedList(closed)
          /\ series' = series \cap WinsOf(closed')
          /\ UNCHANGED file
     ELSE /\ LET s == SavedState(PurgedList(closed), FALSE)
             IN file' = [windows |-> s.windows, closed |-> s.closed]
          /\ closed' = Unflagged(PurgedList(closed)) /\ series' = {}
  /\ UNCHANGED <<loadState, open, maxUndo>>

\* onPurgeSessionHistory; the save it schedules is a TimerSave.
PurgeHistory ==
  /\ loadState = "running"
  /\ closed' = <<>> /\ series' = {}
  /\ UNCHANGED <<loadState, open, maxUndo, file>>

\* onQuitApplicationGranted: the windows that are open stay in _windows.
QuitGranted ==
  /\ loadState = "running" /\ loadState' = "quitting"
  /\ UNCHANGED <<open, closed, maxUndo, file, series>>

\* onQuitApplication
QuitSave ==
  /\ loadState = "quitting" /\ loadState' = "over"
  /\ Save(closed, TRUE)
  /\ UNCHANGED <<open, maxUndo, series>>

Next ==
  \/ \E w \in Windows : OpenWindow(w) \/ \E s \in Sessions : Close(w, s)
  \/ HandleEvent \/ \E n \in MaxUndos : SetMaxUndo(n)
  \/ \E i \in DOMAIN closed : UndoCloseWindow(i) \/ ForgetClosedWindow(i)
  \/ TimerSave \/ PurgeDomain \/ PurgeHistory \/ QuitGranted \/ QuitSave

Spec == Init /\ [][Next]_vars
-----------------------------------------------------------------------------
\* Properties.

Entries == [win : Windows, tabs : Seq(BOOLEAN), selected : Nat, flag : BOOLEAN]

\* Every variable stays within its type, and a window is open or closed but not
\* both.
TypeOK ==
  /\ loadState \in {"running", "quitting", "over"}
  /\ open \in Seq(Windows) /\ closed \in Seq(Entries) /\ maxUndo \in MaxUndos
  /\ series \subseteq Windows
  /\ file # NoFile => file.windows \in Seq(Windows) /\ file.closed \in Seq(Windows)
  /\ ToSet(open) \cap WinsOf(closed) = {}
  /\ \A i \in DOMAIN closed : closed[i].tabs # <<>>

\* The tabs up to the selected one that are not of the domain.
LeftUpTo(e) == {j \in 1..e.selected : ~e.tabs[j]}

\* The window d is what a purge makes of c: no tab of the domain, and the
\* selection on the last tab left up to the old one, 0 only where none is left.
Emptied(c, d) ==
  TRUE \notin ToSet(d.tabs) /\ d.selected = Cardinality(LeftUpTo(c))

\* A window whose title cannot be looked up: it lost the selected tab and all
\* before it, but not all.
Throws(c) == ToSet(c.tabs) = BOOLEAN /\ LeftUpTo(c) = {}

\* The list new is what a purge makes of old.
TakenOut(old, new) ==
  /\ \A k \in DOMAIN new : \E i \in DOMAIN old :
       /\ new[k].win = old[i].win
       /\ \/ Emptied(old[i], new[k])
          \/ /\ new[k].tabs = old[i].tabs /\ new[k].selected = old[i].selected
             /\ \E l \in i + 1..Len(old) : Throws(old[l])
  /\ \A i \in DOMAIN old :
       FALSE \in ToSet(old[i].tabs) => old[i].win \in WinsOf(new)

\* onPurgeDomainData takes the domain out of every closed window and moves its
\* selection with the tabs; a window with a tab of another site stays in the
\* list.  The exception is what a throw leaves: the windows closed after one
\* whose title cannot be looked up are not purged.
DomainPurged == [][PurgeDomain => TakenOut(closed, closed')]_vars

\* No private window gets into the list of closed windows nor into the file
\* (onClose, saveState).
PrivateNotSaved ==
  /\ WinsOf(closed) \cap Private = {}
  /\ file # NoFile => (ToSet(file.windows) \cup ToSet(file.closed)) \cap Private = {}

\* The list is longer than the preference only if nothing but popups is before
\* its last window (_capClosedWindows).
CapRespected ==
  Len(closed) > maxUndo => \A i \in 1..Len(closed) - 1 : closed[i].win \in Popups

\* A smaller preference never takes the last window away that is no popup: the
\* session would have nothing left to reopen (_capClosedWindows).
CapKeepsNormal ==
  [][\A n \in MaxUndos : SetMaxUndo(n) /\ NotPopup(closed) # {} => NotPopup(closed') # {}]_vars

\* A window is saved once: to be restored, or as a closed one.
SavedOnce ==
  file # NoFile =>
    /\ ToSet(file.windows) \cap ToSet(file.closed) = {}
    /\ IsInjective(file.windows) /\ IsInjective(file.closed)

\* A session that had a window other than a popup, open or closed, has one to
\* restore after a quit, unless it was private (_getCurrentState).
NormalWindowRestored ==
  (loadState = "over" /\ ToSet(open) \cap Private = {} /\ NotPopup(closed) # {})
     => ToSet(file.windows) \ Popups # {}

\* A quit brings no window back that the user closed before he went on to do
\* something else, except to have one that is no popup.
EarlierNotRestored ==
  (loadState = "over" /\ ~(ToSet(open) \subseteq Popups))
     => ToSet(file.windows) \subseteq ToSet(open) \cup series
=============================================================================
