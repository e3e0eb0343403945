# A TLA+ model of Phantom Satellite

Phantom Satellite is a browser. Its rendering engine and most of what is stored
or sent live in a platform outside this repository; what the repository itself
holds is the application: `src/phantomsatellite/base`, `components` and
`modules`, in JavaScript and XBL. The part of it with the most state, the most
asynchronous steps and the highest price of a mistake is the session store: it
decides whether the pages somebody had open are there after a restart, a crash
or a quit. That part is modelled in most detail. Three more parts keep state across
asynchronous or many small steps and are modelled too: page zoom, the new tab page,
and the tree of bookmarks. The proofs are about the
session store (saving, restoring tabs, closed windows), page zoom, and the new tab
page (its updates, and drops on it).

The directory holds TLA+ modules, `.cfg` files for TLC, and `PROJECT.json`,
which says for every definition of the model which lines of the source it stands
for, for every property which change of the code would break it, and lists the
hazards the properties are for.

    tlc -config SaveSafety.cfg MCSessionSave.tla     # check one run
    tlapm SessionSave_proofs.tla                     # check the proofs about saving,
    tlapm SessionSave_kept.tla                       # ... what the next start gets,
    tlapm TabRestore_proofs.tla                      # ... about restoring tabs,
    tlapm ClosedWindows_proofs.tla                   # ... closed windows,
    tlapm FullZoom_proofs.tla                        # ... page zoom,
    tlapm NewTabGrid_proofs.tla                      # ... the new tab pages,
    tlapm DropPreview_proofs.tla                     # ... drops on them,
    tlapm Lists_proofs.tla                           # ... and sequences, used by these

## 1. Inventory

`P/` is `src/phantomsatellite/`.

### Session store

| part | state | operations | interacts with |
|---|---|---|---|
| saving (`P/components/sessionstore/SessionStore.jsm`) | `_loadState`, `_saveTimer`, `_lastSaveTime`, `_dirtyWindows`, `_windows`, `_recentCrashes`, `_lastSessionState`, `_resume_session_once_on_shutdown`, `_backupSessionFileOnce` | `saveStateDelayed`, `saveState`, `_saveStateObject`, `onTimerCallback`, `onPrefChange`, `onPurgeSessionHistory`, `onPurgeDomainData`, `onQuitApplication*`, `initSession`, `onLoad` | `_SessionFile`, preferences, timers, observers of quit notifications |
| session file (`_SessionFile.jsm`) | `sessionstore.js`, `sessionstore.bak` | `read`, `syncRead`, `write`, `createBackupCopy`, `wipe` | the OS.File worker, one operation at a time, answers through promises |
| startup decision (`nsSessionStartup.js`) | `_initialState`, `_sessionType` | `_onSessionFileRead`, `doRestore` | reads the file before the first window, resets `resume_session_once` |
| quit protocol (`P/components/nsBrowserGlue.js`) | the dialog | `_onQuitRequest`, `_setPrefToSaveSession` | `quit-application-requested`, `-granted`, `quit-application` |
| restoring tabs | `TabRestoreQueue`, `_tabsRestoringCount`, `__SS_restoreState` and `__SS_data` of each tab, `__SS_tabsToRestore` of each window, the progress and history listeners | `restoreWindow`, `restoreHistoryPrecursor`, `restoreHistory`, `restoreTab`, `restoreNextTab`, `_resetTabRestoringState`, tab and window events, the API | tabbrowser, docshell (loads begin and end), a chain of timeouts |
| closed windows | `_closedWindows`, `_shouldRestore` of each | `onClose`, `_capClosedWindows`, `undoCloseWindow`, `forgetClosedWindow`, the purges, `_clearRestoringWindows`, `saveState` | saving: which windows the next start opens |
| closed tabs, values, window data | `_closedTabs` of each window, `__SS_extdata` | `onTabClose`, `undoCloseTab`, `forgetClosedTab`, `setTabValue` ... | saving |
| collection | - | `_collectTabData`, form data, scroll positions, cookies, `SessionStorage.jsm`, `DocumentUtils.jsm`, `XPathGenerator.jsm` | docshell |
| deferred sessions | `_lastSessionState` | `_prepDataForDeferredRestore`, `restoreLastSession` | startup |
| restore page (`aboutSessionRestore.js`) | a session in form data | tree view, restore | saving |

### The other components

| part | state | operations | hard behaviour |
|---|---|---|---|
| page zoom (`P/base/content/browser-fullZoom.js`) | the tokens of pending accesses, `_globalValue`, `_initialLocations`, `_isNextContentPrefChangeInternal` | `init`, `onLocationChange`, `enlarge`, `reduce`, `setZoom`, `reset`, `observe`, the callbacks of reads and the observers of changes | asynchronous reads that end out of order, changes of other windows in between |
| new tab page (`P/components/newtab`) | cells, site nodes, running transitions and updates of each page, `_scheduleUpdateTimeout`, `_undoData`; pinned and blocked links | `updateGrid`, `refresh`, `update`, `block`, `pin`, `unpin`, `drop`, `undo`, `undoAll` | updates that go on in `transitionend` callbacks while other pages change the links; hidden pages that put them off |
| places tree (`P/components/places/content`: `treeView.js`, `tree.xml`, `controller.js`) | `_rows`, the selection, the open folders, the sorting mode | `nodeInserted`, `nodeRemoved`, `nodeMoved`, `invalidateContainer`, `sortingChanged`, `toggleOpenState`, `selectItems`, `remove`, `drop` | rows and selection are patched step by step, never rebuilt; a command takes several steps and moves what it works on |

and, not modelled,

| part | state | hard behaviour |
|---|---|---|
| downloads (`P/components/downloads`) | views, summaries, the panel and indicator state machines | batches of notifications, attention while the panel opens |
| new tab preloader (`P/modules/BrowserNewTabPreloader.jsm`) | hidden browsers by size | a timer, and swaps of documents |
| popup notifications (`P/modules/PopupNotifications.jsm`) | notifications by browser and anchor, the current one | panel events that come after the tab or its location changed |
| network priorities (`P/modules/NetworkPrioritizer.jsm`) | focused window, selected browser, the priority of each load group | increments that have to balance |
| shared frames (`P/modules/SharedFrame.jsm`) | groups of frames with one live document | the live frame may go away |
| sanitizer (`P/base/content/sanitize.js`) | the pending shutdown run | items end one by one |
| tabbed browser, browser window, feeds, preferences, other views of places, helpers | user interface | mostly sequential glue around the platform |

### What is hard here, and what makes it correct

* *Saving* is spread over a timer, a promise made once, promise reactions, a
  worker and its replies, and runs while the user goes on, purges or quits. A
  crash may come between any two of these steps. Correct means: what could be
  read stays readable and does not get older; every change reaches the disk;
  what was purged does not come back; what the user was promised at a quit is
  there at the next start, and what he was not promised is not; a session that
  crashes the browser is not reopened for ever.
* *Restoring* is driven by counters that several handlers change and that
  nobody checks: a count too large stops the restoration for good, a counter too
  small removes the listener that hears loads end. Correct means: the counters
  are what they stand for, the queue holds what waits, and every tab gets its
  turn.
* *Closed windows* double as the record of a quit made by closing windows one
  after another. Correct means: each window is saved once, either as a closed one
  or to be restored; nothing private is; the cap leaves something to reopen.
* *Zoom* is read and written through a service that answers later, while the tab
  goes on to other pages and the user zooms. Correct means: nothing read for an earlier
  page is applied, every location change is announced once, and when all is
  quiet the page has the zoom that is stored for its site.
* *The new tab page* is updated by fading, moving and filling in nodes, on every
  open page, when any page changes the links. Correct means: when everything has come
  to rest all pages show the links; a drop does what its preview showed and unpins
  no link that the grid showed as pinned.
* *The places tree* computes rows from siblings and indentation. Correct means: the
  rows are those of the tree, the selection stays with its nodes, and what is
  dropped ends together where it was dropped.

## 2. Modules

| module | models | proofs |
|---|---|---|
| `DurableSession` | abstract: a store of one session | - |
| `SessionSave` | saving, the session file, startup, quit, shutdown sanitization | `SessionSave_proofs`, `SessionSave_kept` |
| `TabRestore` | restoring tabs | `TabRestore_proofs` |
| `ClosedWindows` | the list of closed windows | `ClosedWindows_proofs` |
| `FullZoom` | page zoom and the content preference service | `FullZoom_proofs` |
| `NewTabGrid` | the new tab pages and their updates | `NewTabGrid_proofs` |
| `DropPreview` | a drop on the new tab page, preview and result | `DropPreview_proofs` |
| `PlacesTree` | rows and selection of the tree of bookmarks, removing, dropping | - |
| `Lists` | what a loop keeps of a list, used by `TabRestore`, `ClosedWindows`, `NewTabGrid` and `DropPreview` | `Lists_proofs` |
| `MCSessionSave`, `MCTabRestore`, `MCClosedWindows`, `MCFullZoom`, `MCNewTabGrid`, `MCPlacesTree` | instances for TLC: samples and symmetry | - |

`SessionSave` names the mapping to `DurableSession` (`Store == INSTANCE DurableSession
WITH ...`); the modules of the session store otherwise share no variable: they
meet in `saveState` (its list of windows is `ClosedWindows`, its way to disk
`SessionSave`) and in `onLoad` (`SessionSave` says what is restored, `TabRestore`
how). `DropPreview` and `NewTabGrid` meet where a drop has pinned its links: one
says what is pinned, the other how the pages follow. In each module, definitions
whose comment begins with "Wrong:" are variants of the definition below them with
a bug in them; they are used only to see that a property would notice it, and no
specification refers to them.

### SessionSave

*State.* `phase` is `_loadState`, and "down" when no process runs. `path` and
`bak` are the two files. A content is two version numbers, for unpinned and
pinned tabs, and whether it is wrapped in the restore page; `clock` is the number
of changes so far, so a larger version is newer. `waiting` holds the writes that
wait for the backup promise, `jobs` the promise reactions that will call
`_SessionFile.write`, `ioq` what has been posted to OS.File, `reply` the answer
to its first operation. The history variables (`failures`, `flips`, `quits`,
`died`, `overtaken`, `landed`, `streak`, `purgeMark`, `owed`) are read by bounds and
properties only; `overtaken` says that `resume_from_crash` was switched off while a
write was still to be posted.

*Actions.* `Activity` is any event that calls `saveStateDelayed`; `TimerFires`
is `onTimerCallback`; `IntervalChanged` and `SetResumeFromCrash` are
`onPrefChange`; `PurgeDomain`, `Purge` and `PurgeSaveFires` are the purge
handlers and their timeout; `QuitRequest`, `QuitAnswer` and `QuitApplication`
are the three quit notifications with the glue that answers them;
`ShutdownPurge` is `Sanitizer.onShutdown` as the store hears it; `Exit`, `Crash`
end the process; `FlushPrefs` writes the preferences; `Startup` is
`_onSessionFileRead` and `initSession`; `FirstWindow` is the first `onLoad`;
`RunJob`, `WorkerStep` and `MainCompletion` are the way of a file operation.

*What the environment is taken to do.* OS.File serves one operation at a time in
the order they were posted, and the shutdown waits for the last of them. An
operation may fail, and then changes nothing. `writeAtomic` is atomic. The
shutdown sanitization is a synchronous part of the shutdown sequence: nsBrowserGlue
calls `Sanitizer.onShutdown` while the profile goes away (nsBrowserGlue.js:237, 1197), and
`sanitize` clears the items before it returns; only the preference that notes its
success is set later. So `Exit` comes after it, and it comes after the event loop has
turned once since `quit-application`. A crash loses memory and everything not yet served.

*Left out.* Observers that change the state data before it is written, the
deferral of saves while a private window is open, `restoreLastSession`, the
sanitization at startup, quitting with the dialog's "never ask again", corrupt
files. Reading the file at startup is one step: nobody writes then.

*The abstract store.* `DurableSession` has one kept session, a count of changes,
and whether a wipe is under way. What is kept is what a start would read
(`Readable`: `sessionstore.js`, else `sessionstore.bak`), so the move to the backup,
the queue of the worker and the backup promise disappear; the first save of a
session and the write that follows it are a stutter and a `Save`. `StoresDurably`
says that `SessionSave` behaves like that.

### TabRestore

*State.* `ss` is everything the store remembers about restoring, a record with
one field per variable of the code; `chains` are the calls of `restoreHistory`
that wait in a timeout. `Unset` is a counter that is undefined or NaN, which the
code treats alike and both as false.

*Actions.* One per handler: `RestoreWindow`, `ContinueHistory` (the timeout),
`LoadStops` (the progress listener, with `onTabLoad`), `SelectTab`, `CloseTab`,
`ShowTab`, `HideTab`, `ReloadTab`, `CloseWindow`, `OpenWindow`, `PurgeHistory`,
`Quit`, and the API calls `DuplicateTab`, `UndoCloseTab`, `SetTabState`,
`SetBrowserState`. Handlers whose result depends on whether loads start return
the set of states they may leave.

*Simplifications.* The window of a tab and whether it is pinned do not change.
Whether a load starts is free. A load ends once. Preferences are constants of a
run. The 100 ms retry while a tabbrowser has no tabs is left out. A new tab gets a
name nothing remembers. Timeouts fire in any order. A tab of a window may be closed as
long as another can be shown; `onTabRemove` may then start a tab that is queued twice
though it is just closing.

*The constant `Hasty`.* When a tab is selected, or its window overwritten, before
the chain of timeouts has come to it, it is restored twice and counted twice
(section 6). With `Hasty = FALSE` this does not happen, and the counters are
exact; with `Hasty = TRUE` the remaining properties are checked.

### ClosedWindows

*State.* `open` is `_windows`, `closed` is `_closedWindows` with the latest
first, `file` what the last `saveState` made of both. The tabs of a closed
window are a sequence of BOOLEANs: whether the tab has an entry of the domain
that is purged.

*Actions.* `OpenWindow`, `Close`, `HandleEvent` (any tab event, which ends a
series of closed windows), `SetMaxUndo`, `UndoCloseWindow`,
`ForgetClosedWindow`, `TimerSave`, `PurgeDomain`, `PurgeHistory`,
`QuitGranted`, `QuitSave`.

*Left out.* `_restoreLastWindow`, windows still being restored while their state
is collected, and the closed tabs of open windows. Crash recovery is on.

### FullZoom

*State.* For each browser (a tab of the window): the site of its document, whether it is a
media document, and its zoom; the caches of the two preferences; `_globalValue`,
`_initialLocations`, `_isNextContentPrefChangeInternal`. The service has what is
`stored`, the sites its cache knows, and the `queue` of accesses posted to it; an
access carries whether its token is still current. `soon` counts the
notifications that were dispatched to run later.

*Actions.* `Start` is `init`; `Navigate` and `Select` are the two ways to
`onLocationChange`; `ZoomBy` is `enlarge`, `reduce` and `setZoom`; `Reset`; `SetPref` is
`observe`; `Serve` is the service answering its first access: the callback, which
for a read goes on to the global one where there is no value, and for a change the
observer (`_onContentPrefChanged`); `ChangeElsewhere` is a change by another window;
`Notify` the dispatched notification; `Close` closes a tab under its accesses.

*History.* `unanswered` and `turns` count location changes and uses of a tab.
`missed` and `overlooked` mark the sites for which the code itself lets the zoom
go wrong (section 6): the property about the resting state is stated for all others.

### NewTabGrid

*State.* For each page: is it registered, ready, hidden, waiting for its timer; its
grid, as the site nodes in each cell, the transitions that run, and the updates with
how many transitions each still waits for. `firing` holds the listeners an event has still
to call, so that promise reactions run between them.

*Actions.* The notifications of `gPage` (`Populated`, `TimerFires`, `BecomesVisible`,
`BecomesHidden`, `Unload`), the clicks (`Block`, `Unpin`, `Pin`, `DropLink`, `Undo`,
`UndoAll` with `Restored`, `HideUndo`), a change of the providers
(`LinksChange`), and the ends of transitions (`FadeEnds`, `SlideEnds`,
`ControlFades` for the transitions of a site's control buttons, whose events bubble to the same
listeners) with `CallListener`.

*The constant `Hasty`.* With `Hasty = FALSE` pages are used, updated, refreshed and
closed only when no site moves. Otherwise updates overlap, and the grid does not
recover (section 6); `Synchronized` is for the former.

### DropPreview

*State.* The links of the providers, `gPinnedLinks.links`, and the sites of the cells,
at rest. `Rearrange` is `gDropPreview.rearrange` (insertion, the pinned sites back to
their places, the one that overflows), `Repinned` what `gDrop` then pins, from the
sites at that time. Initially any links of a prefix of the order are pinned at
any cell, or one beyond.

### PlacesTree

*State.* The children of each container, those open, those stored as open in
`localStore`, the sorting mode, `_rows`, and the selected rows.

*Actions.* `Insert`, `Delete`, `Move`, `Refresh` and `Sort` are what the result notifies of,
each with the whole handler; `Toggle` opens and closes; `Elsewhere` is the same
by another view that shares the store; `Select`, `Reveal` (`selectItems`),
`RemoveSelection` and `Drop` are what the user does, the last two item by item with
the rows and the selection changed at each.

*The constant `Stray`* names three things that the view does not
cope with (section 6). The run has it empty. The drops whose order the controller
reverses do happen; `KeepsOrder` names the others.

*Left out.* Queries, livemarks and the flat list; paste, undo and batches; the menus and
toolbars of `browserPlacesViews.js`.

## 3. Runs

| run | question | result |
|---|---|---|
| `save_safety` | With two crashes, a failing file operation and a quit anywhere: are files, purges and promises right, and is it a durable store? | `TypeOK`, `NoLostSave`, `PurgeSettles`, `CrashLoopStops`, `PromiseKept`, `SavesLandInOrder`, `NeverLoses`, `StoresDurably` hold |
| `save_off` | With crash recovery switched off, and on again, over two quits: what is in the file, and what comes back? | `NotResumedUnasked`, `OnlyPinnedWithoutRecovery`, `RestartKept` hold (2 million states) |
| `save_live` | Do changes and purges come to their end? | `ChangesAreSaved`, `PurgesFinish` hold |
| `restore_windows` | Are counters, listeners and queue right with two windows that are restored, closed, opened and overwritten, and do pinned tabs come before visible ones and these before hidden ones? | `TypeOK`, `CountIsRestoring`, `LeftIsUnrestored`, `HeardWhileLoading`, `QueueIsWaiting`, `StartedInTurn` hold |
| `restore_requests` | What is left of the limit when extensions call the API and users are quick? | `ConcurrencyLimit` holds |
| `restore_live` | Does every tab get its turn, and every load its end, and no hidden tab a start without `restore_hidden_tabs`? | `AllRestored`, `RestoringEnds`, `StartedInTurn` hold |
| `closed_list` | Is the list right over closing, reopening, capping, purging, saving and quitting? | `TypeOK`, `PrivateNotSaved`, `CapRespected`, `CapKeepsNormal`, `SavedOnce`, `NormalWindowRestored`, `EarlierNotRestored`, `DomainPurged` hold |
| `zoom_settles` | Do two tabs get the zoom that is stored while reads, zooming and foreign changes overlap, and where do they not? | `AnsweredOnce`, `OldReadIgnored`, `SelectedSettles` hold (2 million states) |
| `grid_settles` | Do two new tab pages, one hidden, come to show the same links? | `Synchronized` holds (300 thousand states) |
| `drop_keeps` | Does a drop do what it showed, and keep the links pinned that the grid showed as pinned? | `PinsKept`, `ResultAsPreviewed` hold |
| `places_rows` | Do rows and selection follow the tree through everything, and drops end where they should, in which order? | `RowsAreVisible`, `SelectionFollows`, `DroppedInOrder` hold |
| `save_and_quit` | Is Save & Quit honoured with crash recovery off? | violated, section 6 |

### Bounds, and why they are enough

* `SessionSave`: `MaxClock` 2 gives three contents (none, an older, a newer): enough
  for an older state to overtake a newer one, and for a purge between two changes.
  `MaxCrashes` 2 with `MaxResumedCrashes` 1 reaches the restore page; two crashes are
  also what it takes to lose both files, if the code let them be lost.
  `MaxFailures` 1 lets any one operation fail, the first move included. `MaxQuits` 2
  in `save_off` gives a quit that follows a start from a file of an earlier quit.
  `MaxFlips` 2 switches crash recovery off, at any phase of a save, and on again; one
  version (`MaxClock` 1) is enough there, for what counts is whether the file has any
  tab that is not pinned. `MaxQueue` bounds
  only when `IntervalChanged` may be the next to save, for it needs no change.
* `TabRestore`: two windows with two tabs each and `MaxConcurrent` 1 make every tab
  wait for another window's; three tabs in one window make a tab wait behind a
  waiting one. Two calls of `restoreWindow` overwrite a restoration under way.
  `StartedInTurn` has a pinned, a visible and a hidden bucket in `restore_windows`
  (`RestoreHidden`), and hidden tabs that must not start in `restore_live`.
* `ClosedWindows`: four names (two ordinary ones, a private one, a popup) and caps 1
  and 2, so that lists of popups, of series and of older windows all exceed the
  cap; windows of one, two and three tabs, so that a purge takes all tabs, one before the
  selected one, or the selected one with none left before it, where the lookup of the
  title throws.
* `FullZoom`: two tabs and one site besides about:blank, zooms 1 and 2, and a
  foreign value out of range. `MaxSteps` 4 (what users and other windows do) and `MaxQueue` 3 (accesses
  posted at once) allow a read, a zoom and a foreign change to cross each other
  and the answer of the global value to come last. `MaxFlips` 1 changes one preference.
* `NewTabGrid`: two pages, so that one tells the other; two cells and three links,
  so that a link waits for a place; `MaxSteps` 3 is a change, another one while the
  first is put off by a hidden page, and one back.
* `DropPreview`: four cells and up to five links with every choice of pinned ones, one
  beyond the grid included; `MaxDrops` 2 drops onto what an earlier drop pinned.
* `PlacesTree`: two folders, an item and a separator make every tree with a
  folder in a folder, a hidden row, and siblings before and after; no number is
  bounded. One or two rows are selected at a time.

`MaxClock`, `MaxQuits`, `MaxCrashes`, `MaxFailures`, `MaxFlips`, `MaxQueue`,
`MaxRequests`, `MaxRestores`, `MaxSteps`, `MaxLink` and `MaxDrops` are the only
bounds; the others are preferences, sizes or sets of names. The tabs of
`FullZoom`, the pages of `NewTabGrid` and the folders of `PlacesTree` are symmetric: no
definition tells one from another, and these runs check no liveness. Deadlock is
checked for `SessionSave`, whose program can always start again. In `TabRestore`
nothing is left to do after a quit with all loads ended, `ClosedWindows` ends with
its last save, and the other modules stop at their bounds, so these runs set
`CHECK_DEADLOCK FALSE`.

### Fairness

`SessionSave` assumes weak fairness of what goes on by itself: timers fire,
promise reactions run, the worker answers, its answers are handled, the first
window loads, a granted quit proceeds. `nsITimer`, the event loop and OS.File (which
the shutdown waits for) give as much. Nothing is assumed of users, of crashes or of the
preference service. `TabRestore` assumes that timeouts fire and loads end
(docshell ends each load, if only with an error). No strong fairness is used.

## 4. What is proved

`SessionSave_proofs` proves for every value of the constants, the bounds
included:

* `TypeCorrect`, `Spec => []TypeOK`. The types of the queues carry the argument:
  what `saveState` posts is a snapshot, what the worker writes was posted, and a reply
  belongs to an operation that is still queued, so that the queue is not empty
  when its head is taken.
* `InOrder`, `Spec => SavesLandInOrder`, and `Durable`, `Spec => NeverLoses`, both for
  `MaxFlips = 0`: `resume_from_crash` is not changed while the browser runs (with
  a change the property is false, section 6). Crashes, failures, quits and purges
  may be as many as one likes.

Neither property is inductive: a state where an old write waits behind a new one
satisfies both, and the next step does not. `OrderInv` adds what the code relies on:

* `OneStage`: as long as a write waits for the backup, none is on its way to the
  worker, for with crash recovery on every save before the backup waits, and with
  crash recovery off none does;
* `PipeInOrder`: operations, reactions and waiting writes are in the order of the saves;
* `PendingInTime`: nothing pending is newer than the clock or older than a file, and
  while the browser runs all of it says so;
* `FilesInTime` and `Idle`: the same for the files, and that nothing is pending before
  the first window.

`saveState` is the step that matters (`SaveStateInOrder`): what it writes is the newest
of all, and goes to the end of the one stage in use. `MainCompletionInOrder` shows
that the writes released by the backup do not meet others, `WorkerInOrder` that a
write takes the oldest, and that moving the file to its backup leaves what a
start would read as it was. `NextInOrder` collects the actions.

And from the same invariant:

* `Implements`, `Spec => StoresDurably`, again for `MaxFlips = 0`: every step of
  `SessionSave` is a step of `DurableSession` or leaves its variables alone. Two
  more facts are needed. `BackupOlder`: the backup is no newer than the file, so
  that a removal which uncovers it uncovers an older session (`RemovalShowsOlder`).
  `DialogUp`: a quit request waits for its answer only while the browser
  runs, so that the end of a session leaves nothing offered. `StepRefines` has one
  step per action; `WorkerRefines` and `StartRefines` are the two where
  something happens: a write that lands is the abstract `Save`, a move to the backup
  shows nothing, and what `initSession` takes from what was read is one of `Parts`.

`SessionSave_kept` proves, for `MaxFlips = 0`, what the next start gets:

* `NothingLost`, `Spec => []NoLostSave`; `PromisesKept`, `Spec => []PromiseKept`, also
  for `InitCrashPref`; `RestartsKept`, `Spec => []RestartKept`; and `PinnedOnly`,
  `Spec => []OnlyPinnedWithoutRecovery`, the last without any assumption on the
  constants, so for any number of switches. They speak of file
  operations that succeed (`failures = 0` in the properties).

The heart is `Ends(s)`: when everything posted is done, sessionstore.js holds `s`. A
save makes it true of what it saves (`SaveObjectEnds`), wherever the write has to wait;
`RunJobEnds`, `WorkerEnds` and `MainCompletionEnds` carry it through the promise
reactions, the worker and its replies, and once nothing is under way it says what the
file holds (`DrainedEnds`). Around it stand `Flow` (nothing failed, writes wait only
while the backup is made, and it is made once), `UpToDate` (a change without a timer
`Ends`) and `Promised`, which follows a promise from the quit dialog through the last
save, the files and the preferences on disk to the decision of the next start.
`PinsInv` does the same for what is pending with crash recovery off.

From it the last three parts of the module prove what crosses the end of a session:

* `PurgesSettle`, `Spec => []PurgeSettles`, for `MaxFlips = 0`, `InitCrashPref` and
  `~SanitizeOnShutdown`. Purging is three facts (`Purging`, while no file operation has
  failed): everything that can still be saved was collected after the purge
  (`CleanSources`); once the save of the purge is made, sessionstore.js `Ends` clean,
  whatever stale writes are posted before it (`CleanEnd`); and the stale file moves to
  the backup only ahead of the operation that removes it, so that a stale backup
  always has its removal before it (`CleanBackup`). With nothing posted, the three are
  `PurgeSettles`. Each hypothesis is needed, TLC finds the property violated without
  it: with crash recovery off the save of the purge is skipped when no pinned tab is
  left, and a write from before the purge is still posted; the purge of a shutdown does
  not see a write that waits for the backup (section 6); and a recovery that is switched
  off between a purge and its save is the first case again. `save_safety` checks the
  property with crash recovery on and a failing operation.
* `LoopStops`, `Spec => []CrashLoopStops`, for `MaxFlips = 0`. The count of crashes is
  carried by the files only, and a wipe may uncover an older file with an older
  count. `Counted` says why it does not: a recovered session moves what it was
  recovered from to the backup before its first write and before any removal, so what
  is uncovered counts all crashes but the present one. A move that fails breaks
  this, a wipe and three crashes later the older backup is recovered with the older
  count; hence `failures = 0` in the property.
* `NotResumed`, `Spec => []NotResumedUnasked`, without any assumption on the constants.
  `Unasked` follows the value that `resume_session_once` had before a save of pinned
  tabs borrowed it, from the dialog to the next start; `Borrowed` says that the
  preference is on as long as it is borrowed, so that a quit that finds it off has
  nothing to give back.

`OrderInv` was checked with TLC on the instance of `save_safety`, and on one with crash
recovery off from the start, before it was proved; the
invariants of `SessionSave_kept` were checked on instances like these.

`TabRestore_proofs` proves, for any numbers of tabs and windows, all preferences and
any number of restorations and calls:

* `TypeCorrect`, `Spec => []TypeOK`, whatever is called and however impatient the user is:
  `Typed` is inductive alone. It holds the fact that every window with a tab shows an
  open one of its own that is not hidden.
* `CountKept`, `LeftCounted`, `LoadsHeard`, `QueueKept` (`Spec => []CountIsRestoring`,
  `[]LeftIsUnrestored`, `[]HeardWhileLoading`, `[]QueueIsWaiting`) and `TurnsKept`,
  `Spec => StartedInTurn`, under `Patient`: `Hasty` is FALSE, and of the API only
  `setBrowserState` is called. Without these the properties are false (section 6):
  `duplicateTab` and `undoCloseTab` leave the counter of a window unset, so that
  `LeftIsUnrestored` and `HeardWhileLoading` go first; two `setTabState` on one tab queue
  it twice, and hiding it moves only one entry, so that a hidden tab may start out of turn,
  which is against `StartedInTurn`.
* `LimitKept`, `Spec => []ConcurrencyLimit`, under less: either `setBrowserState` is not
  among the calls, and then anything else may happen, or `Patient` holds. With all calls
  and `Hasty` TLC finds the limit exceeded: `setTabState` queues a tab a second time, the
  tab is closed, its second entry is restored and its load never ends,
  `setBrowserState` sets the counter to zero, and one tab more than allowed starts.

None of the five properties under `Patient` is inductive, and none is without the
others: the listener is removed when a counter reaches zero, the counter changes when
a tab of the queue is restored, and what is restored has to be waiting. `Calm` ties
them together. It says that the restoring state is

* `Sound`: both counters count (`CountedOff`), the queue and the history listeners are
  those of the tabs that wait, each in the bucket it belongs to (`Filed`), every load is
  heard (`Heard`), and what loads was asked for, allowed, or loading before (`InTurn`);
* `Fed`: what loads has a load that will end, and what is not done has its data;

that the calls of `restoreHistory` that wait are about different tabs (`Apart`), and
that all of those that are open still wait. Within a handler this is broken for a
while: `restoreWindow` counts tabs before it marks them, `onClose` removes a listener
before the loads it hears, and a chain of timeouts marks tabs long before it puts them
into the queue. Hence the parameters of `Sound`, the tabs and windows for which a
part does not hold yet; each operation is shown to take one such state to the next
(`RestoreSound`, `EnqueueSound`, `HistoryCalm` ...), then each handler from end to end.
`RestoreNext` and the loops over tabs are recursive functions; they are followed by a
set of states that their body does not leave. The limit needs one fact only, that
`_tabsRestoringCount` is never less than the number of tabs that are restoring
(`Limited`), which every step but `setBrowserState` keeps alone. `Calm` was checked
with TLC on the instance of `restore_windows` before it was proved.

`ClosedWindows_proofs` proves, for any windows, sessions and preferences and without
further assumptions, every property of the run `closed_list`:

* `ListTyped`, `PrivateKeptOut`, `ListCapped`, `WindowSavedOnce`, `QuitKeepsNormalWindow`,
  `QuitRestoresNoEarlier` (`Spec => []TypeOK`, `[]PrivateNotSaved`,
  `[]CapRespected`, `[]SavedOnce`, `[]NormalWindowRestored`, `[]EarlierNotRestored`),
  `CapSparesNormal`, `Spec => CapKeepsNormal`, and `DomainTakenOut`, `Spec => DomainPurged`.

`IInv` says of the list what `TypeOK` leaves open (`ListInv`: a window is in it once and
not open, with tabs and a selection within them; the list exceeds the preference only
by popups; only windows of the series have `_shouldRestore`) and that the file is what
a save makes of such a list (`FileInv`). Most steps take windows out of the list and
leave the order of the others: `Thins` is that relation, with the place each window had,
and `ThinsCapped`, `ThinsPurged` and the like say which step does what; `ThinStep` then
gives the invariant for all of them. `SavedStateWell` says what a save does to any such
list. `SelectedFunction` follows the loop of `onPurgeDomainData` that moves the selection:
the tabs removed so far, and the selection among those left; `SelectedIsLeft` says what it
ends with, and `KeptAll` and `WithoutDomainExact` what is left of a window. `PurgedEntries`
says which windows of the list the loop reaches before it throws, `PurgedTaken` and
`UnflaggedTaken` what that makes of `DomainPurged`.

`Lists_proofs` holds what they need about sequences: that what a loop keeps of a list is
in its order and has the elements it should (`KeptFunction`, `KeptPlaces`,
`KeptElements`), and what appending, removing, reversing and concatenating do to the
elements. Its base is induction over an interval (`IntervalInduction`, from
`LeastElement`) and `RecursiveFunction`: a function on `0..n` that is defined by recursion,
which is a CHOOSE to the provers, satisfies its equation.

`FullZoom_proofs` proves, for any number of tabs, sites and steps and without further
assumptions:

* `Answered`, `Spec => []AnsweredOnce`, and `NoOldRead`, `Spec => OldReadIgnored`.

Again neither is inductive. That an answer meets the turn it was posted in follows
from its token being current only if no read of that tab outlives the turn with
a current token; and that nothing is answered twice needs that a read of the site
alone never notifies, although it is served by the same callback. `IInv` adds:

* `TypeInv`: the types of all variables, the accesses in the queue among them;
* `Fresh`: a read whose token is current has the present turn of its tab;
* `AllProper`: a read belongs to a tab, the reads of a location change notify, reads
  of a changed preference and writes do not;
* `NoReads`: before `init` nothing is read. A tab may then load other pages without
  its reads being ignored, which `Fresh` survives only because there are none.

The functions of `FullZoom` work on records of four variables, so the proof first says
what each of them carries over (`Carries`: types, `Fresh`, `AllProper`, what is due to
every tab, the zoom of other tabs), then puts the actions together from that.
What is due is the cardinality of a set of places in a queue; `AnsweringAppend` and
`AnsweringTail` say what posting and serving do to it. `IInv` was checked with TLC
on an instance with two tabs before it was proved.

* `Settles`, `Spec => []SelectedSettles`. The cases in which the code lets the zoom go wrong
  (section 6) are left out of the property, each by name; it is about the others: reads
  that outlive their page, their tab or the zoom they were for, reads that are chained,
  tabs switched meanwhile, and changes elsewhere that cross reads.

The property speaks of an empty queue only, so the invariant has to say what a queue
that is not empty will make of the zoom (`ZoomInv`, of which `Sure` is the heart). The
preference a site will have once the changes of this window are served is
*promised* (`Promised`: the value of the last of them, or what is stored). The
selected tab then shows the zoom for what is promised, or a read that will set it
counts (`Shows`); and no read that counts will undo it (`Harmless`): a read of the page is
of the page that is shown and comes after every change of it, the read of a reset comes
before its removal, and the global preference is read for a page only when the page has
none and none is promised. A change of the global preference by another window is
answered by a read of the page (`_onContentPrefChanged` looks
whether it has a preference of its own), which counts as showing the zoom when nothing is promised for it. `Grounds` adds
what this rests on: the cached global preference is the stored one unless a change
of it was overlooked, the selected tab is open, the two preferences of `browser.zoom` are
as `init` set them until one is flipped, and before `init` every page that is shown is
among those `init` will find. Each function on states keeps `Sure` for every tab
but the one it works on (the lemmas on *other* tabs) and makes it true for that one
where it sets the zoom; selecting a tab therefore needs no history of it, for
`onLocationChange` starts it afresh.

`NewTabGrid_proofs` proves, for any number of pages, cells, links and steps, and any
orders of the links in which none is twice (`ConstantsAssumption`; the updater tells sites
apart by their links, so the code takes this for granted too), under `~Hasty`:

* `PagesSynchronized`, `Spec => []Synchronized`, and `UpdatesEnd`, `Spec => []NoneHangs`: an
  update that is not done has a site that fades or slides, or a listener being called.
  With `Hasty` both are false (section 6).

`Synchronized` speaks of pages at rest only. `GridInv` says what a page is on its way
there, and which pages are on their way:

* *One page* (`PageOk`). The grid is `Sound`: a cell holds at most one node, and no node is
  in two cells. It is in one of three states: at `Rest`, where all updates are done
  and every site is `Settled`; `Fading`, where the latest update waits for
  exactly as many sites as are still legacy, each of which fades with its one listener; or `Sliding`,
  where it waits for exactly the frozen sites, each in its place already and sliding
  there. `RemoveCalledBack` and `SlideCalledBack` take one listener off; when it was
  the last, the update goes on (`MoveAndRearrangeGoesOn`) or ends (`FillEmptyCellsEnds`),
  and has then made the grid that `Shows` the links the update began with. Between them
  stands `_moveSiteNodes`, which moves nodes cell by cell through each other's places
  (`MoveSiteNodesInPlace`: the cells before the present one are as they should be,
  and no remaining site is lost). Two links may not have one site,
  and that is where the assumption on the orders is used (`LinksHavePlaces`, `SitesDiffer`).
* *The pages together* (`Follows`). A page that is not excused shows the present links, or its
  timer is set, or links are being restored, or *some* page has an update in progress
  for the present links, and will tell all the others when it is done. Hence
  `UpdateStep` (whoever changes the links begins an update for the present ones) and
  `CallListenerKeeps` (a page refreshes all the others at the moment when `Follows` no longer
  holds through it), and the condition that no page is refreshed or closed while it
  updates: the others would then wait for nobody.

`GridInv` was checked with TLC on the instance of `grid_settles` before it was proved.

`DropPreview_proofs` proves, for a grid of any size, any links and any number of drops:

* `PinsStay`, `Spec => []PinsKept`;
* `ShownIsDropped`, `Spec => []ResultAsPreviewed`.

The invariant `DropInv` says that no link is pinned at two places and that the grid is the
one `getLinks` gives, from which every pinned site is at its place (`SitesCarry`). A drop
builds an arrangement from the sites in three moves; `Carries` says that an arrangement
holds each pinned site once, and `Moves` that each place holds what some other place
did. So a move needs a map between places: `InsertedArranged` gives that of
`_insertDraggedSite`, `SwappedArranged` that of one step of the loop of
`_repositionPinnedSites`, `OverflowArranged` that of `_repositionOverflowedPinnedSite`,
which leaves out one place only, one whose site is not pinned. The dragged site stays at
the cell through all of them: the loop sends no site into the range of pinned sites
around the cell, and the cell is in it (`CellInRange`). If no place can be left out, the
grid has as many pinned sites as cells (`CrowdedOut`), hence the condition of
`PinsKept` on the pinned sites that are still in the grid, and on a link that was pinned
beyond it (`BeyondKept`). `RepinnedKeeps` then follows the loop of `_repinSitesAfterDrop`: each link
is pinned at a place of its own, and pinning the next empties none of the places before
(`Repinning` says what is pinned then).

For `ShownIsDropped` the links that are not pinned count too. They are numbered in the
order of the providers, and a grid shows them in that order at the places where nothing is
pinned: `Ordered` says so of some places and some links, and that nothing is shown after
the first place left empty. Two grids that are `Ordered` at the same places, for the same
links, are equal there (`OrderedAgree`: look at the least place where they differ). So two
arrangements have to be `Ordered`:

* *What `getLinks` gives* (`GridOrdered`), by counting the open cells up to each cell.
* *What is shown.* `Follows` is a move that keeps the order and leaves behind only
  the last link. Inserting shifts by at most one place (`Slid`, `InsertedOrdered`). A step
  of `_repositionPinnedSites` swaps a pinned site with whatever is at its home, so no
  link that is not pinned may lie between the two: `Stage` is the invariant of that
  loop. After k steps the first k are at home, the later ones where they were, and the next
  is where it was or where a site put back before it has left it, with no unpinned link on
  the way home (`Reached`). `HomeOccupied` and `RangeClosed` say why: a pinned site in
  the range around the cell stays, and one outside moved by at most one place.
  Taking one out takes the last that is not pinned (`OverflowOrdered`).

Both have the same places and links: `PinnedAsShown` says that a drop pins within the
grid, but for the cell, exactly what was shown as pinned, and no link beyond that but
the dropped one, in its two cases, the cell's site pinned or not (`DroppedOnPinned`,
`DroppedOnFree`). `GridAfter` and `DroppedAsPreviewed` put this together, and
`DroppedAtCell` adds the cell itself. The condition `~before.again` of the property, that
a link from elsewhere was not in the grid before, is what `Fetched` says: without it
the link leaves its old place at the drop only, and the rest moves up.
The main lemmas on the order were checked with TLC on the instance of `drop_keeps` before
they were proved.

Only checked with TLC:

* liveness (`ChangesAreSaved`, `PurgesFinish`, `AllRestored`, `RestoringEnds`): fairness
  and ENABLED are beyond the provers;
* `RowsAreVisible`, `SelectionFollows` and `DroppedInOrder` of `PlacesTree`, which is written
  with RECURSIVE operators: the provers do not unfold them. The folds of the
  community modules and SelectSeq are as opaque, which is why `TabRestore`,
  `ClosedWindows`, `NewTabGrid` and `DropPreview` have recursive functions in their place.

## 5. What is not modelled

The components PROJECT.json lists as `not_modelled`, each with its reason: data
conversions (a version number stands for them), user interface over the
platform (most of `base/content`, `preferences`, `feeds`, the menus of places, whose
state is held by the platform and whose handlers run to their end at once), and
what the plan below has still to bring. The modelled components are listed
as `partly`, with what each leaves out; section 2 says it per module.

## 6. Where code and comments disagree

One has a run that ends with the shortest way there.

* *Save & Quit with crash recovery off* (`save_and_quit`).
  `_setPrefToSaveSession` sets `resume_session_once`, then `onQuitApplication` puts
  back the value `saveState` had remembered when it saved pinned tabs: the session
  that was to be saved is not resumed.

Seen in the models, without a run of their own. In `SessionSave`:

* `SavesLandInOrder` fails when `resume_from_crash` is switched off while the
  first write waits for the backup: later saves do not wait (SessionStore.jsm:3844).
* In the same way the removal that switching it off posts does not see a write that waits
  for the backup, or in a promise reaction: that one lands after the removal, so that a
  crash brings back all tabs, and a later restart may find it in place of its own session
  (`overtaken`, left out of `OnlyPinnedWithoutRecovery` and `RestartKept`).
* The wipe of a shutdown sanitization does not know of a write that waits for
  the backup promise, which is then written after it (SessionStore.jsm:1025).
* With crash recovery off, a quit that asks nothing because the session "will
  be restored" is followed by the same reset of `resume_session_once`
  (nsBrowserGlue.js:781).

In `TabRestore`:

* `undoCloseTab` and `duplicateTab` restore tabs that `__SS_tabsToRestore` does not
  count. Where the counter is undefined its decrement is NaN, and the end of the
  first load removes the listener that the second needs. `setTabState` queues a
  waiting tab a second time: hiding it then moves one entry only, so that it may start
  though it is hidden; and closing it takes one entry out, so that the other may be
  restored in the course of its own `onTabRemove`, or after it.
* A tab that is selected between `restoreHistoryPrecursor` and its turn in the chain
  of timeouts, or whose window is overwritten then, counts twice (`Hasty`), and its
  place is lost for good.

In `ClosedWindows`:

* When the selection of a closed window goes down to 0 in `onPurgeDomainData` the
  lookup of its title throws (SessionStore.jsm:1111). The loop goes from the
  oldest window to the latest, so the windows closed after that one keep the
  domain, and no save follows, against the comment at SessionStore.jsm:1085-1086, "remove
  all open & closed tabs containing a reference to the given domain in closed windows".
  It takes a window that loses its selected tab and all tabs before it, but not all;
  `DomainPurged` says which windows a purge then leaves (`Throws`).
* A timer save within a series of closed windows takes `_shouldRestore` from the
  windows themselves, for its copy of the list is shallow: the final save of the
  series restores fewer windows.

In `FullZoom`:

* While `init` replays the locations it has noted, `onLocationChange` still finds
  `_initialLocations` and notes them again; then the map is dropped
  (browser-fullZoom.js:57). The zoom of these pages is set by their next location
  change or selection (`missed`).
* `reset` while the read for the page is on its way is undone by that read (`overlooked`).
* `reset` where nothing is stored leaves `_isNextContentPrefChangeInternal` set, for
  nothing is removed and nobody is told: the next change by another window is taken for
  our own (browser-fullZoom.js:128), though the comment below says that only "changes that
  FullZoom itself makes" are ignored, and that this works because callback and observers
  run in the same turn (`overlooked`).
* A change by another window that is served before a change of ours shows its zoom
  until ours is served, and ours is then ignored as internal (`overlooked`).

In `NewTabGrid` (`Hasty`):

* Two sites blocked within one fade-out: the second update removes nothing the first
  still waits for, the first then finds no `parentNode`, throws, and never goes on
  (newtab/updater.js:137).
* A site blocked and brought back within the fade-out shows twice; a site shown
  again stays frozen.
* A page refreshed or closed while it updates never tells the others.

In `DropPreview`:

* A drop of a link from elsewhere on a grid full of pinned sites pins the site it pushes
  out beyond the grid (newtab/drop.js:70), over whatever is pinned there: with four cells
  and links 1 to 4 pinned, a first such drop on the first cell pins link 4 at the
  fifth place, and a second one pins link 3 there, and link 4 is pinned nowhere.
  `PinsKept` promises links pinned beyond the grid only for grids that are not full.

In `PlacesTree` (the first three in `Stray`):

* `"behind"`: a node inserted next to a separator that is not shown takes its row from
  it: the test for `separatorsAreHidden` (treeView.js:640) comes after an early return
  that makes it always false.
* `"unstored"`: a folder that is open but not stored as open, for another window closed
  it there, is built without its rows (treeView.js:315).
* `"last"`: closing the last row with a child selected selects a row past the end
  (treeView.js:973); the next removal throws and leaves its row.
* Of several nodes dropped before one of themselves, or before a node of their
  container that is not counted as dragged upwards, or from another folder to an index,
  the later go before the earlier: "prevent reversal of dragged items"
  (places/content/controller.js:1782) counts only those above (`KeepsOrder` names the
  other drops). In the same way items cut
  above the insertion point and pasted there are not "consecutive"
  (controller.js:1558), and others are selected.

## 7. Plan

Left, in this order:

1. `DeferredRestore`: `_prepDataForDeferredRestore` as a pure function against a
   reference definition, over bounded sessions.
2. `WindowData`: `_closedTabs`, `undoCloseTab`, values.
3. `NetworkPriorities`: that the deltas balance, against an abstract priority that is a
   function of focus and selection; `PopupNotifications`; `Downloads`; the preloader.
4. Paste and undo in `PlacesTree`.
5. A module that composes `SessionSave` and `ClosedWindows` at `saveState`.
6. The rows of `PlacesTree` as a recursive function, and proofs about them.

Runs are few and each asks one question: a new module brings one run, and an older
one with fewer questions left may make room.
