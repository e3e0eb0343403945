----------------------------- MODULE SessionSave -----------------------------
(***************************************************************************)
(* How a browsing session reaches the disk and comes back: the save        *)
(* scheduler of SessionStore.jsm, the file operations of _SessionFile.jsm, *)
(* the startup decision of nsSessionStartup.js and initSession, and the    *)
(* quit protocol of nsBrowserGlue.js, with crashes, failing file           *)
(* operations and preference changes.                                      *)
(*                                                                         *)
(* What is abstracted.  The content of a session is two version numbers,   *)
(* one for its unpinned tabs and one for its pinned tabs (0: it has none), *)
(* and whether it is wrapped in the about:sessionrestore page.  The clock  *)
(* counts changes, so a larger version is a newer content.  Timers fire at *)
(* any time.  The main thread runs one action at a time; promise reactions *)
(* and the replies of the OS.File worker are actions of their own.         *)
(***************************************************************************)
EXTENDS Integers, Sequences

CONSTANTS
  NoFile,             \* the file does not exist
  StartupPage3,       \* browser.startup.page == 3 (always resume)
  MaxResumedCrashes,  \* browser.sessionstore.max_resumed_crashes
  SanitizeOnShutdown, \* history is cleared when the browser quits
  InitCrashPref,      \* first value of browser.sessionstore.resume_from_crash
  MaxClock, MaxQuits, MaxCrashes, MaxFailures, MaxFlips, MaxQueue  \* bounds

Contents == [tabs : Nat, pins : Nat, page : BOOLEAN]

\* A state object as written to disk: a content, session.state == "running",
\* session.recentCrashes, lastSessionState (0: none), the time of collection.
Snapshots == [tabs : Nat, pins : Nat, page : BOOLEAN, running : BOOLEAN,
              crashes : Nat, last : Nat, at : Nat]

ASSUME ConstantsAssumption ==
  /\ NoFile \notin Snapshots
  /\ {StartupPage3, SanitizeOnShutdown, InitCrashPref} \subseteq BOOLEAN
  /\ MaxResumedCrashes \in Nat \cup {-1}
  /\ {MaxClock, MaxQuits, MaxCrashes, MaxFailures, MaxFlips, MaxQueue} \subseteq Nat

VARIABLES
  phase,      \* "down"; _loadState: "stopped", "running", "granted" and "quit"
              \* are STATE_QUITTING before and after quit-application
  path, bak,  \* sessionstore.js and sessionstore.bak
  prefs,      \* resume_session_once and resume_from_crash, in memory
  diskPrefs,  \* the same in the preferences file
  observed,   \* the lazy getter _resume_from_crash has been evaluated
  live,       \* what the windows of the browser show
  collected,  \* _windows: what was last collected from them
  clock,      \* number of content changes so far
  crashes,    \* _recentCrashes
  last,       \* _lastSessionState (0: null)
  restore,    \* outcome of the startup decision: its kind and what to restore
  timer,      \* _saveTimer is armed
  purgeSave,  \* the setTimeout of onPurgeSessionHistory is pending
  onceOnShutdown, \* _resume_session_once_on_shutdown as a set: {} is null
  backup,     \* _backupSessionFileOnce
  waiting,    \* writes waiting for the backup promise
  jobs,       \* promise reactions ready to post a write
  ioq,        \* operations posted to OS.File; the first is with the worker
  reply,      \* what the worker answered for the first one
  prompt,     \* the quit dialog is open
  quitKind,   \* why the browser quits
  sanitized,  \* the shutdown sanitization has run
  \* History, never read by the program:
  failures, flips, quits, died,  \* failed operations, flipped preferences,
                                 \* quits and crashes so far
  overtaken,  \* crash recovery was switched off while a write was still to be
              \* posted: it lands after the removal of the file
  landed,     \* path holds a snapshot of the present session
  streak,     \* crashes in a row of sessions with landed = TRUE
  purgeMark,  \* versions up to this one were purged by the user
  owed        \* {} or {how the last quit ended, what the next start owes it}

files == <<path, bak>>
prefVars == <<prefs, diskPrefs, observed, onceOnShutdown>>
content == <<live, collected, clock, crashes, last, restore>>
pipe == <<backup, waiting, jobs, ioq, reply>>
quitting == <<prompt, quitKind, sanitized>>
bounds == <<failures, flips, quits, died, overtaken>>
history == <<landed, streak, purgeMark, owed>>
vars == <<phase, files, prefVars, content, timer, purgeSave, pipe, quitting,
          bounds, history>>

Blank == [tabs |-> 0, pins |-> 0, page |-> FALSE]
Nothing == [kind |-> "none", what |-> Blank]

ContentOf(s) == [tabs |-> s.tabs, pins |-> s.pins, page |-> s.page]

\* The pinned tabs a filter on tab.pinned finds: a wrapped session is one
\* unpinned tab.
PinnedPart(c) == IF c.page THEN 0 ELSE c.pins

Op(name) == [op |-> name, data |-> NoFile]
WriteOp(s) == [op |-> "write", data |-> s]

\* Wrong: a start does not fall back to the backup.
ReadableWithoutBackup == path

\* _SessionFile.syncRead and read: the backup is read only without the file.
Readable == IF path # NoFile THEN path ELSE bak

Drained == waiting = <<>> /\ jobs = <<>> /\ ioq = <<>>

\* What a process that ended leaves: nothing in memory.
Fresh ==
  /\ prefs' = diskPrefs' /\ crashes' = 0 /\ last' = 0 /\ restore' = Nothing
  /\ observed' = FALSE /\ onceOnShutdown' = {}
  /\ live' = Blank /\ collected' = Blank
  /\ timer' = FALSE /\ purgeSave' = FALSE
  /\ backup' = "none" /\ waiting' = <<>> /\ jobs' = <<>>
  /\ ioq' = <<>> /\ reply' = "none"
  /\ prompt' = FALSE /\ quitKind' = "none" /\ sanitized' = FALSE
  /\ landed' = FALSE

Init ==
  /\ phase = "down"
  /\ path = NoFile /\ bak = NoFile
  /\ prefs = [once |-> FALSE, crash |-> InitCrashPref] /\ diskPrefs = prefs
  /\ observed = FALSE /\ onceOnShutdown = {}
  /\ live = Blank /\ collected = Blank /\ clock = 0
  /\ crashes = 0 /\ last = 0 /\ restore = Nothing
  /\ timer = FALSE /\ purgeSave = FALSE
  /\ backup = "none" /\ waiting = <<>> /\ jobs = <<>>
  /\ ioq = <<>> /\ reply = "none"
  /\ prompt = FALSE /\ quitKind = "none" /\ sanitized = FALSE
  /\ failures = 0 /\ flips = 0 /\ quits = 0 /\ died = 0 /\ overtaken = FALSE
  /\ landed = FALSE /\ streak = 0 /\ purgeMark = 0 /\ owed = {}

-----------------------------------------------------------------------------
\* Saving.

\* Wrong: recentCrashes is not carried over.
SnapshotForgetsCrashes(c, ph, pinnedOnly, lst) ==
  [tabs |-> IF pinnedOnly THEN 0 ELSE c.tabs,
   pins |-> c.pins,
   page |-> ~pinnedOnly /\ c.page,
   running |-> ph = "running", crashes |-> 0, last |-> lst, at |-> clock']

\* The state object _getCurrentState and saveState build.
Snapshot(c, ph, pinnedOnly, lst) ==
  [tabs |-> IF pinnedOnly THEN 0 ELSE c.tabs,
   pins |-> c.pins,
   page |-> ~pinnedOnly /\ c.page,
   running |-> ph = "running", crashes |-> crashes, last |-> lst, at |-> clock']

\* Wrong: only the first save waits for the backup.
SaveStateObjectOvertakes(s, q, crash) ==
  IF crash /\ backup = "none"
  THEN /\ backup' = "pending" /\ ioq' = Append(q, Op("move"))
       /\ waiting' = Append(waiting, s)
       /\ UNCHANGED jobs
  ELSE /\ jobs' = Append(jobs, s) /\ ioq' = q
       /\ UNCHANGED <<backup, waiting>>

\* Wrong: a save is dropped while the backup is being made.
SaveStateObjectFirstOnly(s, q, crash) ==
  \/ /\ crash /\ backup = "none"
     /\ backup' = "pending" /\ ioq' = Append(q, Op("move"))
     /\ waiting' = Append(waiting, s)
     /\ UNCHANGED jobs
  \/ /\ crash /\ backup \in {"pending", "failed"}
     /\ ioq' = q
     /\ UNCHANGED <<backup, waiting, jobs>>
  \/ /\ crash => backup = "ok"
     /\ jobs' = Append(jobs, s) /\ ioq' = q
     /\ UNCHANGED <<backup, waiting>>

\* _saveStateObject: post the write after the backup, or at once.  q is the
\* queue of OS.File when it is called.
SaveStateObject(s, q, crash) ==
  \/ /\ ~crash
     /\ jobs' = Append(jobs, s) /\ ioq' = q
     /\ UNCHANGED <<backup, waiting>>
  \/ /\ crash /\ backup = "none"
     /\ backup' = "pending" /\ ioq' = Append(q, Op("move"))
     /\ waiting' = Append(waiting, s)
     /\ UNCHANGED jobs
  \/ /\ crash /\ backup = "pending"
     /\ waiting' = Append(waiting, s) /\ ioq' = q
     /\ UNCHANGED <<backup, jobs>>
  \/ /\ crash /\ backup = "ok"
     /\ jobs' = Append(jobs, s) /\ ioq' = q
     /\ UNCHANGED <<backup, waiting>>
  \/ /\ crash /\ backup = "failed"  \* the rejected promise drops the write
     /\ ioq' = q
     /\ UNCHANGED <<backup, waiting, jobs>>

\* saveState, called in load state ph with windows showing c, preferences p,
\* _resume_session_once_on_shutdown os, _lastSessionState lst and queue q.
SaveState(ph, c, p, os, lst, q) ==
  LET pinnedOnly == ph = "running" /\ ~p.crash IN
  /\ observed' = TRUE
  /\ \/ /\ pinnedOnly /\ PinnedPart(c) = 0
        /\ prefs' = p /\ onceOnShutdown' = os /\ ioq' = q
        /\ UNCHANGED <<diskPrefs, backup, waiting, jobs>>
     \/ /\ pinnedOnly /\ PinnedPart(c) # 0
        /\ IF os = {}
           THEN /\ onceOnShutdown' = {p.once}
                /\ prefs' = [p EXCEPT !.once = TRUE]
                /\ diskPrefs' = prefs'
           ELSE /\ onceOnShutdown' = os /\ prefs' = p
                /\ UNCHANGED diskPrefs
        /\ SaveStateObject(Snapshot(c, ph, TRUE, lst), q, p.crash)
     \/ /\ ~pinnedOnly
        /\ onceOnShutdown' = os /\ prefs' = p
        /\ SaveStateObject(Snapshot(c, ph, FALSE, lst), q, p.crash)
        /\ UNCHANGED diskPrefs
  /\ UNCHANGED reply

\* Wrong: a delayed save does not collect the dirty windows.
CollectStale(ph, c) == collected

\* _getCurrentState collects the windows only while the browser runs.
Collect(ph, c) == IF ph = "running" THEN c ELSE collected

SaveNow(c) ==
  /\ collected' = Collect(phase, c)
  /\ SaveState(phase, Collect(phase, c), prefs, onceOnShutdown, last, ioq)

\* A tab or window event: saveStateDelayed arms the timer unless it is armed.
Activity ==
  /\ phase = "running" /\ clock < MaxClock
  /\ clock' = clock + 1
  /\ \E p \in {0, clock + 1} :
        live' = [tabs |-> clock + 1, pins |-> p, page |-> FALSE]
  /\ timer' = TRUE
  /\ UNCHANGED <<phase, files, prefVars, collected, crashes, last, restore,
                 purgeSave, pipe, quitting, bounds, history>>

\* onTimerCallback
TimerFires ==
  /\ timer /\ phase \in {"running", "granted"}
  /\ timer' = FALSE
  /\ UNCHANGED <<live, clock>>
  /\ SaveNow(live)
  /\ UNCHANGED <<phase, files, crashes, last, restore, purgeSave, quitting,
                 bounds, history>>

\* onPrefChange("sessionstore.interval"): the delay that is left decides
\* between a new timer and an immediate save.
IntervalChanged ==
  /\ phase \in {"running", "granted"} /\ Len(waiting) + Len(jobs) + Len(ioq) < MaxQueue
  /\ UNCHANGED <<live, clock>>
  /\ \/ /\ ~timer /\ timer' = TRUE
        /\ UNCHANGED <<prefVars, collected, pipe>>
     \/ timer' = FALSE /\ SaveNow(live)
  /\ UNCHANGED <<phase, files, crashes, last, restore, purgeSave, quitting,
                 bounds, history>>

\* onPurgeDomainData: tabs leave the closed lists and the state is saved.
PurgeDomain ==
  /\ phase = "running" /\ clock < MaxClock
  /\ clock' = clock + 1
  /\ live' = [live EXCEPT !.tabs = clock + 1]
  /\ SaveNow(live')
  /\ UNCHANGED <<phase, files, crashes, last, restore, timer, purgeSave,
                 quitting, bounds, history>>

\* Wrong: the file stays when crash recovery is switched off.
SetResumeFromCrashKeepsFile ==
  /\ phase \in {"stopped", "running", "granted"} /\ flips < MaxFlips
  /\ flips' = flips + 1
  /\ UNCHANGED <<live, clock>>
  /\ LET crash == ~prefs.crash
         once == IF onceOnShutdown = {} THEN prefs.once
                 ELSE CHOOSE o \in onceOnShutdown : TRUE
     IN /\ overtaken' = (overtaken \/ (observed /\ ~crash /\ <<waiting, jobs>> # <<<<>>, <<>>>>))
        /\ IF observed
           THEN /\ collected' = Collect(phase, live)
                /\ SaveState(phase, Collect(phase, live),
                             [once |-> once, crash |-> crash], {}, last, ioq)
           ELSE /\ prefs' = [prefs EXCEPT !.crash = crash]
                /\ UNCHANGED <<diskPrefs, observed, onceOnShutdown, collected, pipe>>
  /\ UNCHANGED <<phase, files, crashes, last, restore, timer, purgeSave,
                 quitting, failures, quits, died, history>>

\* onPrefChange("sessionstore.resume_from_crash").  The preference is not
\* observed before the first save reads it.
SetResumeFromCrash ==
  /\ phase \in {"stopped", "running", "granted"} /\ flips < MaxFlips
  /\ flips' = flips + 1
  /\ UNCHANGED <<live, clock>>
  /\ LET crash == ~prefs.crash
         once == IF onceOnShutdown = {} THEN prefs.once
                 ELSE CHOOSE o \in onceOnShutdown : TRUE
         p == [once |-> once, crash |-> crash]
         q == IF crash THEN ioq ELSE Append(ioq, Op("removePath"))
     IN /\ overtaken' = (overtaken \/ (observed /\ ~crash /\ <<waiting, jobs>> # <<<<>>, <<>>>>))
        /\ IF observed
           THEN /\ collected' = Collect(phase, live)
                /\ SaveState(phase, Collect(phase, live), p, {}, last, q)
           ELSE /\ prefs' = [prefs EXCEPT !.crash = crash]
                /\ UNCHANGED <<diskPrefs, observed, onceOnShutdown, collected, pipe>>
  /\ UNCHANGED <<phase, files, crashes, last, restore, timer, purgeSave,
                 quitting, failures, quits, died, history>>

-----------------------------------------------------------------------------
\* Purging.

\* Wrong: a purge does not save again after its wipe.
PurgeWithoutSave ==
  /\ phase = "running" /\ ~prompt /\ clock < MaxClock
  /\ ioq' = Append(ioq, Op("removePath"))
  /\ last' = 0
  /\ clock' = clock + 1
  /\ live' = IF live.page THEN live
             ELSE [tabs |-> clock + 1, page |-> FALSE,
                   pins |-> IF live.pins = 0 THEN 0 ELSE clock + 1]
  /\ purgeMark' = IF live.page THEN purgeMark ELSE clock
  /\ UNCHANGED <<phase, files, prefVars, collected, crashes, restore, timer,
                 purgeSave, backup, waiting, jobs, reply, quitting, bounds,
                 landed, streak, owed>>

\* onPurgeSessionHistory while the browser runs.  The tabs stay open without
\* their history, and that is a new content; a restore page keeps the session
\* it shows in its form data.
Purge ==
  /\ phase = "running" /\ ~prompt /\ clock < MaxClock
  /\ ioq' = Append(ioq, Op("removePath"))
  /\ last' = 0
  /\ clock' = clock + 1
  /\ live' = IF live.page THEN live
             ELSE [tabs |-> clock + 1, page |-> FALSE,
                   pins |-> IF live.pins = 0 THEN 0 ELSE clock + 1]
  /\ purgeSave' = TRUE
  /\ purgeMark' = IF live.page THEN purgeMark ELSE clock
  /\ UNCHANGED <<phase, files, prefVars, collected, crashes, restore, timer,
                 backup, waiting, jobs, reply, quitting, bounds, landed, streak,
                 owed>>

\* The timeout of onPurgeSessionHistory.
PurgeSaveFires ==
  /\ purgeSave /\ phase \in {"running", "granted"}
  /\ purgeSave' = FALSE
  /\ UNCHANGED <<live, clock>>
  /\ SaveNow(live)
  /\ UNCHANGED <<phase, files, crashes, last, restore, timer, quitting, bounds,
                 history>>

\* Sanitizer.onShutdown, called by nsBrowserGlue while the profile goes away
\* (places-shutdown): sanitize clears the history items before it returns, and
\* with them notifies onPurgeSessionHistory, whose observer onQuitApplication
\* removed before a restart.  The event loop has turned since quit-application.
ShutdownPurge ==
  /\ phase = "quit" /\ SanitizeOnShutdown /\ ~sanitized /\ jobs = <<>>
  /\ sanitized' = TRUE
  /\ ioq' = IF quitKind = "restart" THEN ioq ELSE Append(ioq, Op("removePath"))
  /\ purgeMark' = IF quitKind = "restart" THEN purgeMark ELSE clock
  /\ UNCHANGED <<phase, files, prefVars, content, timer, purgeSave, backup,
                 waiting, jobs, reply, prompt, quitKind, bounds, landed, streak,
                 owed>>

-----------------------------------------------------------------------------
\* Quitting.

SessionWillBeRestored == StartupPage3 \/ prefs.once

\* quit-application-granted: _setPrefToSaveSession, and the data is frozen.
\* why names the promise the user was given, "plain" if there was none.
Granted(kind, save, why) ==
  /\ phase' = "granted" /\ quitKind' = kind
  /\ prompt' = FALSE
  /\ IF save THEN /\ prefs' = [prefs EXCEPT !.once = TRUE]
                 /\ diskPrefs' = prefs'
             ELSE UNCHANGED <<prefs, diskPrefs>>
  /\ owed' = {[why |-> why, what |-> Blank, last |-> 0]}

\* quit-application-requested: SessionStore collects, then _onQuitRequest
\* opens the dialog, or stays silent: because the session will be restored,
\* or because of a restart, a single page or a switched-off warning.
QuitRequest ==
  /\ phase = "running" /\ ~prompt /\ quits < MaxQuits
  /\ quits' = quits + 1
  /\ collected' = live
  /\ \/ Granted("restart", FALSE, "restart")
     \/ Granted("quit", FALSE,
                IF SessionWillBeRestored THEN "noPrompt" ELSE "plain")
     \/ /\ ~SessionWillBeRestored
        /\ prompt' = TRUE
        /\ UNCHANGED <<phase, prefs, diskPrefs, quitKind, owed>>
  /\ UNCHANGED <<files, observed, onceOnShutdown, live, clock, crashes, last,
                 restore, timer, purgeSave, pipe, sanitized, failures, flips, died,
                 overtaken, landed, streak, purgeMark>>

\* The user answers the dialog: Quit, Save and Quit, Cancel.
QuitAnswer ==
  /\ prompt
  /\ \/ Granted("quit", FALSE, "plain")
     \/ Granted("quit", TRUE, "saveAndQuit")
     \/ /\ prompt' = FALSE
        /\ UNCHANGED <<phase, prefs, diskPrefs, quitKind, owed>>
  /\ UNCHANGED <<files, observed, onceOnShutdown, content, timer, purgeSave,
                 pipe, sanitized, bounds, landed, streak, purgeMark>>

\* Wrong: a restart does not ask for the session.
QuitApplicationForgets ==
  /\ phase = "granted"
  /\ phase' = "quit"
  /\ LET once == IF onceOnShutdown = {} THEN prefs.once
                 ELSE CHOOSE o \in onceOnShutdown : TRUE
     IN /\ last' = IF quitKind = "restart" THEN last ELSE 0
        /\ UNCHANGED clock
        /\ SaveState("quit", collected, [prefs EXCEPT !.once = once],
                     onceOnShutdown, last', ioq)
        /\ owed' = {[o EXCEPT !.what = collected, !.last = last'] : o \in owed}
  /\ timer' = FALSE /\ purgeSave' = FALSE
  /\ UNCHANGED <<files, live, collected, crashes, restore, quitting, bounds,
                 landed, streak, purgeMark>>

\* Wrong: a restart drops the deferred session as a quit does.
QuitApplicationDropsLast ==
  /\ phase = "granted"
  /\ phase' = "quit"
  /\ last' = 0
  /\ LET once == IF quitKind = "restart" THEN TRUE
                 ELSE IF onceOnShutdown = {} THEN prefs.once
                 ELSE CHOOSE o \in onceOnShutdown : TRUE
     IN /\ UNCHANGED clock
        /\ SaveState("quit", collected, [prefs EXCEPT !.once = once],
                     onceOnShutdown, last', ioq)
        /\ owed' = {[o EXCEPT !.what = collected, !.last = last] : o \in owed}
  /\ timer' = FALSE /\ purgeSave' = FALSE
  /\ UNCHANGED <<files, live, collected, crashes, restore, quitting, bounds,
                 landed, streak, purgeMark>>

\* Wrong: resume_session_once keeps the value saveState gave it.
QuitApplicationKeepsOnce ==
  /\ phase = "granted"
  /\ phase' = "quit"
  /\ LET once == IF quitKind = "restart" THEN TRUE ELSE prefs.once
     IN /\ last' = IF quitKind = "restart" THEN last ELSE 0
        /\ UNCHANGED clock
        /\ SaveState("quit", collected, [prefs EXCEPT !.once = once],
                     onceOnShutdown, last', ioq)
        /\ owed' = {[o EXCEPT !.what = collected, !.last = last'] : o \in owed}
  /\ timer' = FALSE /\ purgeSave' = FALSE
  /\ UNCHANGED <<files, live, collected, crashes, restore, quitting, bounds,
                 landed, streak, purgeMark>>

\* onQuitApplication and _uninit
QuitApplication ==
  /\ phase = "granted"
  /\ phase' = "quit"
  /\ LET once == IF quitKind = "restart" THEN TRUE
                 ELSE IF onceOnShutdown = {} THEN prefs.once
                 ELSE CHOOSE o \in onceOnShutdown : TRUE
     IN /\ last' = IF quitKind = "restart" THEN last ELSE 0
        /\ UNCHANGED clock
        /\ SaveState("quit", collected, [prefs EXCEPT !.once = once],
                     onceOnShutdown, last', ioq)
        /\ owed' = {[o EXCEPT !.what = collected, !.last = last'] : o \in owed}
  /\ timer' = FALSE /\ purgeSave' = FALSE
  /\ UNCHANGED <<files, live, collected, crashes, restore, quitting, bounds,
                 landed, streak, purgeMark>>

\* The process ends: OS.File has served its queue, the preferences are saved.
\* The sanitization is a synchronous part of the shutdown sequence before it
\* (nsBrowserGlue.js 237-243, 1197-1198); only the note that it was done, a
\* preference, is set later.
Exit ==
  /\ phase = "quit" /\ Drained /\ (SanitizeOnShutdown => sanitized)
  /\ phase' = "down"
  /\ diskPrefs' = prefs
  /\ streak' = 0
  /\ owed' = IF purgeMark = clock \/ backup = "failed" THEN {} ELSE owed
  /\ Fresh
  /\ UNCHANGED <<files, clock, bounds, purgeMark>>

Crash ==
  /\ phase # "down" /\ died < MaxCrashes
  /\ phase' = "down" /\ died' = died + 1
  /\ streak' = IF landed THEN streak + 1 ELSE streak
  /\ purgeMark' = IF Drained /\ ~purgeSave THEN purgeMark ELSE 0
  /\ owed' = {}
  /\ UNCHANGED <<files, diskPrefs, clock, failures, flips, quits, overtaken>>
  /\ Fresh

\* The preference service writes its file at times of its own.
FlushPrefs ==
  /\ phase # "down" /\ diskPrefs # prefs
  /\ diskPrefs' = prefs
  /\ UNCHANGED <<phase, files, prefs, observed, onceOnShutdown, content, timer,
                 purgeSave, pipe, quitting, bounds, history>>

-----------------------------------------------------------------------------
\* Starting.

\* _needsRestorePage; old: six hours have passed since the last update, or
\* the browser is in Safe Mode.
NeedsRestorePage(s, n, old) ==
  /\ ~s.page
  /\ old \/ (MaxResumedCrashes # -1 /\ n > MaxResumedCrashes)

\* _onSessionFileRead and initSession.
Startup ==
  /\ phase = "down" /\ phase' = "stopped"
  /\ prefs' = [diskPrefs EXCEPT !.once = FALSE]
  /\ IF Readable = NoFile
     THEN restore' = Nothing /\ last' = 0 /\ crashes' = 0
     ELSE LET s == Readable
              resume == StartupPage3 \/ diskPrefs.once
              recent == IF s.running THEN s.crashes + 1 ELSE 0
              lastState == IF diskPrefs.once THEN s.last ELSE 0
          IN \/ /\ s.running /\ diskPrefs.crash
                /\ \E old \in BOOLEAN :
                     restore' = [kind |-> "recover",
                                 what |-> IF NeedsRestorePage(s, recent, old)
                                          THEN [ContentOf(s) EXCEPT !.page = TRUE]
                                          ELSE ContentOf(s)]
                /\ crashes' = recent /\ last' = lastState
             \/ /\ ~s.running /\ resume
                /\ restore' = [kind |-> "resume", what |-> ContentOf(s)]
                /\ crashes' = 0 /\ last' = lastState
             \/ /\ ~(s.running /\ diskPrefs.crash) /\ ~(~s.running /\ resume)
                /\ restore' = [kind |-> IF PinnedPart(s) = 0 THEN "none" ELSE "defer",
                               what |-> [Blank EXCEPT !.pins = PinnedPart(s)]]
                /\ crashes' = 0 /\ last' = s.tabs
  /\ streak' = IF restore'.kind = "recover" THEN streak ELSE 0
  /\ UNCHANGED <<files, diskPrefs, observed, onceOnShutdown, live, collected,
                 clock, timer, purgeSave, pipe, quitting, bounds, landed,
                 purgeMark, owed>>

\* onLoad of the first window, and the forced save when it restored something.
FirstWindow ==
  /\ phase = "stopped" /\ phase' = "running"
  /\ live' = restore.what
  /\ owed' = {}
  /\ UNCHANGED clock
  /\ IF restore.kind = "none"
     THEN UNCHANGED <<prefVars, collected, pipe>>
     ELSE /\ collected' = restore.what
          /\ SaveState("running", restore.what, prefs, onceOnShutdown, last, ioq)
  /\ UNCHANGED <<files, crashes, last, restore, timer, purgeSave, quitting,
                 bounds, landed, streak, purgeMark>>

-----------------------------------------------------------------------------
\* Files.

\* A promise reaction calls _SessionFile.write.
RunJob ==
  /\ jobs # <<>>
  /\ ioq' = Append(ioq, WriteOp(Head(jobs))) /\ jobs' = Tail(jobs)
  /\ UNCHANGED <<phase, files, prefVars, content, timer, purgeSave, backup,
                 waiting, reply, quitting, bounds, history>>

\* The worker serves the first operation: writeAtomic, move or remove.  A
\* missing file is no failure for move and remove.
WorkerStep ==
  /\ ioq # <<>> /\ reply = "none"
  /\ \/ /\ reply' = "ok"
        /\ \/ /\ Head(ioq).op = "write"
              /\ path' = Head(ioq).data /\ landed' = TRUE
              /\ UNCHANGED bak
           \/ /\ Head(ioq).op = "move"
              /\ path' = NoFile /\ landed' = FALSE
              /\ bak' = IF path = NoFile THEN bak ELSE path
           \/ /\ Head(ioq).op = "removePath"
              /\ path' = NoFile /\ landed' = FALSE
              /\ UNCHANGED bak
           \/ /\ Head(ioq).op = "removeBak"
              /\ bak' = NoFile
              /\ UNCHANGED <<path, landed>>
        /\ UNCHANGED failures
     \/ /\ reply' = "failed" /\ failures < MaxFailures
        /\ failures' = failures + 1
        /\ UNCHANGED <<files, landed>>
  /\ UNCHANGED <<phase, prefVars, content, timer, purgeSave, backup, waiting,
                 jobs, ioq, quitting, flips, quits, died, overtaken, streak,
                 purgeMark, owed>>

\* Wrong: the reply is not consumed.
MainCompletionKeepsReply ==
  /\ reply # "none" /\ ioq' = Tail(ioq)
  /\ UNCHANGED <<phase, files, prefVars, content, timer, purgeSave, backup,
                 waiting, jobs, reply, quitting, bounds, history>>

\* Wrong: a wipe forgets the backup.
MainCompletionHalfWipes ==
  /\ reply # "none" /\ reply' = "none" /\ ioq' = Tail(ioq)
  /\ IF Head(ioq).op = "move"
     THEN /\ waiting' = <<>>
          /\ IF reply = "ok" THEN backup' = "ok" /\ jobs' = jobs \o waiting
                            ELSE backup' = "failed" /\ UNCHANGED jobs
     ELSE UNCHANGED <<backup, waiting, jobs>>
  /\ UNCHANGED <<phase, files, prefVars, content, timer, purgeSave, quitting,
                 bounds, history>>

\* The main thread resumes the task that posted the first operation.
MainCompletion ==
  /\ reply # "none" /\ reply' = "none"
  /\ ioq' = IF Head(ioq).op = "removePath" /\ reply = "ok"
            THEN Append(Tail(ioq), Op("removeBak")) ELSE Tail(ioq)
  /\ IF Head(ioq).op = "move"
     THEN /\ waiting' = <<>>
          /\ IF reply = "ok" THEN backup' = "ok" /\ jobs' = jobs \o waiting
                            ELSE backup' = "failed" /\ UNCHANGED jobs
     ELSE UNCHANGED <<backup, waiting, jobs>>
  /\ UNCHANGED <<phase, files, prefVars, content, timer, purgeSave, quitting,
                 bounds, history>>

-----------------------------------------------------------------------------
Next ==
  \/ Activity \/ TimerFires \/ IntervalChanged \/ PurgeDomain
  \/ SetResumeFromCrash \/ Purge \/ PurgeSaveFires \/ ShutdownPurge
  \/ QuitRequest \/ QuitAnswer \/ QuitApplication \/ Exit \/ Crash
  \/ FlushPrefs \/ Startup \/ FirstWindow
  \/ RunJob \/ WorkerStep \/ MainCompletion

\* What goes on by itself: timers, promise reactions, the worker and its
\* replies, the start of the first window and the end of a quit.  A user, a
\* crash and the preference service are not fair.
Fairness ==
  /\ WF_vars(TimerFires) /\ WF_vars(PurgeSaveFires)
  /\ WF_vars(RunJob) /\ WF_vars(WorkerStep) /\ WF_vars(MainCompletion)
  /\ WF_vars(FirstWindow) /\ WF_vars(QuitApplication)
  /\ WF_vars(ShutdownPurge) /\ WF_vars(Exit)

Spec == Init /\ [][Next]_vars
FairSpec == Spec /\ Fairness
-----------------------------------------------------------------------------
\* Properties.

OnceValues == {{}, {TRUE}, {FALSE}}
BackupStates == {"none", "pending", "ok", "failed"}
PrefValues == [once : BOOLEAN, crash : BOOLEAN]
Ops == [op : {"move", "removePath", "removeBak"}, data : {NoFile}]
         \cup [op : {"write"}, data : Snapshots]
Promises == [why : {"restart", "noPrompt", "saveAndQuit", "plain"}, what : Contents, last : Nat]

Kinds == {"none", "recover", "resume", "defer"}

FilesType ==
  /\ path \in Snapshots \cup {NoFile} /\ bak \in Snapshots \cup {NoFile}
  /\ landed \in BOOLEAN
PrefsType ==
  /\ prefs \in PrefValues /\ diskPrefs \in PrefValues
  /\ observed \in BOOLEAN /\ onceOnShutdown \in OnceValues
ContentType ==
  /\ live \in Contents /\ collected \in Contents /\ clock \in Nat
  /\ crashes \in Nat /\ last \in Nat
  /\ restore \in [kind : Kinds, what : Contents]
PipeType ==
  /\ backup \in BackupStates
  /\ waiting \in Seq(Snapshots) /\ jobs \in Seq(Snapshots) /\ ioq \in Seq(Ops)
  /\ reply \in {"none", "ok", "failed"}
  /\ reply # "none" => ioq # <<>>
ControlType ==
  /\ phase \in {"down", "stopped", "running", "granted", "quit"}
  /\ timer \in BOOLEAN /\ purgeSave \in BOOLEAN
  /\ prompt \in BOOLEAN /\ quitKind \in {"none", "quit", "restart"}
  /\ sanitized \in BOOLEAN
HistoryType ==
  /\ failures \in Nat /\ flips \in Nat /\ quits \in Nat /\ died \in Nat
  /\ overtaken \in BOOLEAN
  /\ streak \in Nat /\ purgeMark \in Nat
  /\ owed \subseteq Promises

\* Every variable stays within its type, and a reply of the worker belongs to an
\* operation that is still queued (OS.File answers one operation at a time).
TypeOK ==
  /\ FilesType /\ PrefsType /\ ContentType /\ PipeType /\ ControlType
  /\ HistoryType

\* s is no newer than t, and t does not take a stopped session back to running.
Precedes(s, t) == s.at <= t.at /\ (t.running => s.running)

\* Writes land in the order of the saves: what sessionstore.js holds is never
\* replaced by an older state of the same session, nor the final "stopped"
\* state by a "running" one, however the backup, the promise reactions and the
\* worker interleave (saveState, _saveStateObject, _SessionFile.write).
SavesLandInOrder == [][landed /\ landed' => Precedes(path, path')]_vars

Removing == ioq # <<>> /\ reply = "none" /\ Head(ioq).op \in {"removePath", "removeBak"}

\* Whatever a start would read stays readable and never gets older, in one
\* session and across crashes and restarts; only the removals of a wipe may
\* take it away (createBackupCopy before the first write, writeAtomic).
NeverLoses ==
  [][Readable # NoFile /\ Readable' # Readable
       => \/ Removing
          \/ Readable' # NoFile /\ Readable'.at >= Readable.at]_vars

\* The file is up to date whenever nothing is under way: no change of the
\* session is left without a timer or a save (saveStateDelayed, saveState),
\* while crash recovery is on and file operations succeed.
NoLostSave ==
  (/\ phase = "running" /\ prefs.crash /\ failures = 0
   /\ Drained /\ ~timer /\ ~purgeSave /\ live.tabs = clock /\ clock > 0)
     => path # NoFile /\ path.at = clock /\ ContentOf(path) = live

\* The abstract store as this module implements it.
Wiping == \E i \in DOMAIN ioq : ioq[i].op \in {"removePath", "removeBak"}
Offered == IF restore.kind = "none" THEN NoFile ELSE restore.what

Store == INSTANCE DurableSession WITH
           None <- NoFile, Sessions <- Snapshots,
           up <- (phase # "down"), now <- clock, kept <- Readable,
           wiping <- Wiping, offered <- Offered

\* The two files, the backup, the timers and the worker together behave as one
\* store of one session: it only gets newer unless a wipe is under way, a crash
\* or a quit leaves it alone, and a start offers it or a part of it.
StoresDurably == Store!Spec

Purged(f) ==
  f = NoFile \/ \A v \in {f.tabs, f.pins, f.last} : v = 0 \/ v > purgeMark

\* Once a purge has settled no file holds purged history, whatever saves were
\* on their way when the user purged (onPurgeSessionHistory, wipe).  A purge
\* made while the browser shows a restore page does not count: the page keeps
\* the session in its form data.
PurgeSettles ==
  (phase = "running" /\ Drained /\ ~purgeSave /\ failures = 0)
     => Purged(path) /\ Purged(bak)

\* After MaxResumedCrashes crashes in a row the session is offered on a
\* restore page: no start recovers by itself a session that keeps crashing,
\* if its forced first save had landed each time (initSession, onLoad).  While
\* file operations succeed: behind a backup that failed a wipe leaves an older
\* one, and with it an older count.
CrashLoopStops ==
  (phase = "stopped" /\ failures = 0 /\ restore.kind = "recover" /\ ~restore.what.page
     /\ MaxResumedCrashes # -1)
    => streak <= MaxResumedCrashes

Keeps(o) ==
  (phase = "stopped" /\ failures = 0)
     => /\ restore = [kind |-> "resume", what |-> o.what]
        /\ o.why = "restart" => last = o.last

\* After a restart, a Save & Quit, or a quit that asked nothing because the
\* session will be restored, the next start resumes exactly the session that
\* was saved, while crash recovery is on (onQuitApplication,
\* _setPrefToSaveSession, _onSessionFileRead).
PromiseKept == \A o \in owed : o.why # "plain" => Keeps(o)

\* A restart keeps the session and the deferred session of an earlier start,
\* with crash recovery on or off, and switched on or off at any time before the
\* final save (onQuitApplication, initSession, onPrefChange).  Not when it was
\* switched off while a write waited to be posted: that write is of a running
\* session and lands after the final one.
RestartKept == \A o \in owed : (o.why = "restart" /\ ~overtaken) => Keeps(o)

\* A quit that promised nothing is not followed by a resumed session, though
\* saving pinned tabs sets resume_session_once for the case of a crash
\* (saveState, onPrefChange, onQuitApplication).
NotResumedUnasked ==
  \A o \in owed : (o.why = "plain" /\ phase = "stopped" /\ ~StartupPage3)
                     => restore.kind # "resume"

\* With crash recovery off the file of the running session holds only pinned
\* tabs, so a crash brings back no other tab: also where recovery was on before,
\* as soon as the removal that switching it off posted is done, whatever saves
\* were with OS.File by then and whatever is saved after (onPrefChange,
\* saveState, wipe).  Not when a write was still to be posted at that time, behind
\* the backup or in a promise reaction: it lands after the removal, with all tabs.
OnlyPinnedWithoutRecovery ==
  (phase = "running" /\ ~prefs.crash /\ landed /\ ~Wiping
     /\ failures = 0 /\ ~overtaken)
    => path.tabs = 0 /\ ~path.page

\* Save & Quit is honoured at the next start (_setPrefToSaveSession,
\* onQuitApplication).
SaveAndQuitResumes == \A o \in owed : o.why = "saveAndQuit" => Keeps(o)

\* A change of the running session is saved, or overtaken by the end of the
\* process: the timer, the backup, the reaction, the worker each take their
\* turn (saveStateDelayed to write).
ChangesAreSaved ==
  \A v \in 1..MaxClock :
    (phase = "running" /\ clock = v /\ timer /\ prefs.crash)
      ~> (phase = "down" \/ failures > 0 \/ (path # NoFile /\ path.at >= v))

\* A purge ends with no purged history on disk, unless the process ends first.
PurgesFinish ==
  (phase = "running" /\ purgeSave)
    ~> (phase = "down" \/ failures > 0 \/ (Purged(path) /\ Purged(bak)))
=============================================================================
