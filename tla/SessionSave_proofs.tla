-------------------------- MODULE SessionSave_proofs --------------------------
(***************************************************************************)
(* Proofs about SessionSave, for every value of its constants: the type    *)
(* invariant, and, while the preference resume_from_crash stays as it is,  *)
(* that the writes of a session land in order, that what a start would     *)
(* read is not lost, and that SessionSave implements DurableSession.       *)
(***************************************************************************)
EXTENDS SessionSave, SequenceTheorems, TLAPS

-----------------------------------------------------------------------------
\* Type correctness.

\* The state object that is saved is a snapshot.
LEMMA SnapshotType ==
  ASSUME NEW c \in Contents, NEW ph, NEW pinnedOnly \in BOOLEAN, NEW lst \in Nat,
         crashes \in Nat, clock' \in Nat
  PROVE  Snapshot(c, ph, pinnedOnly, lst) \in Snapshots
BY DEF Snapshot, Snapshots, Contents

\* Posting an operation keeps the queue of OS.File a queue of operations.
LEMMA OpType ==
  /\ \A name \in {"move", "removePath", "removeBak"} : Op(name) \in Ops
  /\ \A s \in Snapshots : WriteOp(s) \in Ops
BY DEF Op, WriteOp, Ops

\* The types of what saveState writes.
SavedType ==
  /\ observed' \in BOOLEAN
  /\ prefs' \in PrefValues /\ diskPrefs' \in PrefValues
  /\ onceOnShutdown' \in OnceValues
  /\ backup' \in BackupStates
  /\ waiting' \in Seq(Snapshots) /\ jobs' \in Seq(Snapshots)
  /\ ioq' \in Seq(Ops)
  /\ reply' = reply
  /\ reply # "none" => ioq' # <<>>

LEMMA SaveStateType ==
  ASSUME TypeOK, clock' \in Nat,
         NEW ph, NEW c \in Contents, NEW p \in PrefValues,
         NEW os \in OnceValues, NEW lst \in Nat, NEW q \in Seq(Ops),
         reply # "none" => q # <<>>,
         SaveState(ph, c, p, os, lst, q)
  PROVE  SavedType
<1> DEFINE pinnedOnly == ph = "running" /\ ~p.crash
<1>1. pinnedOnly \in BOOLEAN
  OBVIOUS
<1>2. /\ observed' \in BOOLEAN
      /\ prefs' \in PrefValues /\ diskPrefs' \in PrefValues
      /\ onceOnShutdown' \in OnceValues
      /\ reply' = reply
  <2>1. diskPrefs \in PrefValues
    BY DEF TypeOK, PrefsType, ContentType, PipeType
  <2>2. [p EXCEPT !.once = TRUE] \in PrefValues
    BY DEF PrefValues
  <2>3. {p.once} \in OnceValues
    <3>1. p.once \in BOOLEAN
      BY DEF PrefValues
    <3> QED
      BY <3>1, Zenon DEF OnceValues
  <2>4. observed' = TRUE /\ reply' = reply
    BY DEF SaveState
  <2>5. \/ prefs' = p /\ onceOnShutdown' = os /\ UNCHANGED diskPrefs
        \/ /\ onceOnShutdown' = {p.once}
           /\ prefs' = [p EXCEPT !.once = TRUE] /\ diskPrefs' = prefs'
    BY Zenon DEF SaveState
  <2> QED
    BY <2>1, <2>2, <2>3, <2>4, <2>5
<1>3. \A b \in BOOLEAN : Snapshot(c, ph, b, lst) \in Snapshots
  BY SnapshotType DEF TypeOK, PrefsType, ContentType, PipeType
<1>4. ASSUME NEW s \in Snapshots, SaveStateObject(s, q, p.crash)
      PROVE  /\ backup' \in BackupStates
             /\ waiting' \in Seq(Snapshots) /\ jobs' \in Seq(Snapshots)
             /\ ioq' \in Seq(Ops)
             /\ reply # "none" => ioq' # <<>>
  <2>1. Op("move") \in Ops
    BY OpType
  <2>2. /\ waiting \in Seq(Snapshots) /\ jobs \in Seq(Snapshots)
        /\ backup \in BackupStates
    BY DEF TypeOK, PrefsType, ContentType, PipeType
  <2>3. /\ Append(waiting, s) \in Seq(Snapshots)
        /\ Append(jobs, s) \in Seq(Snapshots)
        /\ Append(q, Op("move")) \in Seq(Ops) /\ Append(q, Op("move")) # <<>>
    BY <2>1, <2>2
  <2> QED
    BY <1>4, <2>2, <2>3 DEF SaveStateObject, BackupStates
<1>5. /\ backup' \in BackupStates
      /\ waiting' \in Seq(Snapshots) /\ jobs' \in Seq(Snapshots)
      /\ ioq' \in Seq(Ops)
      /\ reply # "none" => ioq' # <<>>
  <2>1. CASE pinnedOnly /\ PinnedPart(c) = 0
    BY <2>1 DEF SaveState, TypeOK, PipeType
  <2>2. CASE pinnedOnly /\ PinnedPart(c) # 0
    BY <2>2, <1>3, <1>4 DEF SaveState
  <2>3. CASE ~pinnedOnly
    BY <2>3, <1>3, <1>4 DEF SaveState
  <2> QED
    BY <2>1, <2>2, <2>3
<1> QED
  BY <1>2, <1>5 DEF SavedType

\* The same for a save of what the windows show.
LEMMA SaveNowType ==
  ASSUME TypeOK, clock' \in Nat, NEW c \in Contents, SaveNow(c)
  PROVE  SavedType /\ collected' \in Contents
<1>1. Collect(phase, c) \in Contents
  BY DEF Collect, TypeOK, ContentType
<1>2. SaveState(phase, Collect(phase, c), prefs, onceOnShutdown, last, ioq)
  BY DEF SaveNow
<1>3. /\ prefs \in PrefValues /\ onceOnShutdown \in OnceValues
      /\ last \in Nat /\ ioq \in Seq(Ops)
      /\ reply # "none" => ioq # <<>>
  BY DEF TypeOK, PrefsType, ContentType, PipeType
<1>4. collected' \in Contents
  BY <1>1 DEF SaveNow
<1> QED
  BY <1>1, <1>2, <1>3, <1>4, SaveStateType

\* Every initial state has the types.
LEMMA InitTypeOK == Init => TypeOK
<1> SUFFICES ASSUME Init PROVE TypeOK
  OBVIOUS
<1>1. FilesType
  BY DEF Init, FilesType
<1>2. PrefsType
  <2>1. InitCrashPref \in BOOLEAN
    BY ConstantsAssumption
  <2> QED
    BY <2>1 DEF Init, PrefsType, PrefValues, OnceValues
<1>3. ContentType
  BY DEF Init, ContentType, Contents, Blank, Nothing, Kinds
<1>4. PipeType
  BY DEF Init, PipeType, BackupStates
<1>5. ControlType /\ HistoryType
  BY DEF Init, ControlType, HistoryType
<1> QED
  BY <1>1, <1>2, <1>3, <1>4, <1>5 DEF TypeOK

\* A process that ended leaves variables of the right type.
LEMMA FreshType ==
  ASSUME Fresh, diskPrefs' \in PrefValues, phase' = "down", UNCHANGED <<path, bak>>,
         clock' \in Nat, FilesType
  PROVE  FilesType' /\ PrefsType' /\ ContentType' /\ PipeType' /\ ControlType'
<1>1. FilesType'
  BY DEF Fresh, FilesType
<1>2. PrefsType'
  BY DEF Fresh, PrefsType, OnceValues
<1>3. ContentType'
  BY DEF Fresh, ContentType, Contents, Blank, Nothing, Kinds
<1>4. PipeType'
  BY DEF Fresh, PipeType, BackupStates
<1>5. ControlType'
  BY DEF Fresh, ControlType
<1> QED
  BY <1>1, <1>2, <1>3, <1>4, <1>5

\* What quit-application-granted leaves.
LEMMA GrantedType ==
  ASSUME TypeOK, NEW kind, NEW save \in BOOLEAN,
         NEW why \in {"restart", "noPrompt", "saveAndQuit", "plain"},
         Granted(kind, save, why)
  PROVE  /\ phase' = "granted" /\ quitKind' = kind /\ prompt' = FALSE
         /\ prefs' \in PrefValues /\ diskPrefs' \in PrefValues
         /\ owed' \subseteq Promises
<1>1. phase' = "granted" /\ quitKind' = kind /\ prompt' = FALSE
  BY DEF Granted
<1>2. prefs' \in PrefValues /\ diskPrefs' \in PrefValues
  BY DEF Granted, TypeOK, PrefsType, PrefValues
<1>3. owed' \subseteq Promises
  BY DEF Granted, Promises, Contents, Blank
<1> QED
  BY <1>1, <1>2, <1>3

\* What the startup decision leaves.
LEMMA StartupType ==
  ASSUME TypeOK, Startup
  PROVE  /\ crashes' \in Nat /\ last' \in Nat
         /\ restore' \in [kind : Kinds, what : Contents]
<1>1. CASE Readable = NoFile
  <2>1. restore' = Nothing /\ last' = 0 /\ crashes' = 0
    BY <1>1 DEF Startup
  <2>2. Nothing \in [kind : Kinds, what : Contents]
    BY DEF Nothing, Blank, Contents, Kinds
  <2> QED
    BY <2>1, <2>2
<1>2. CASE Readable # NoFile
  <2>1. Readable \in Snapshots
    BY <1>2 DEF Readable, TypeOK, FilesType
  <2>2. PICK s \in Snapshots : s = Readable
    BY <2>1
  <2> DEFINE recent == IF s.running THEN s.crashes + 1 ELSE 0
             lastState == IF diskPrefs.once THEN s.last ELSE 0
  <2>3. /\ ContentOf(s) \in Contents
        /\ [ContentOf(s) EXCEPT !.page = TRUE] \in Contents
        /\ [Blank EXCEPT !.pins = PinnedPart(s)] \in Contents
        /\ recent \in Nat /\ lastState \in Nat /\ s.tabs \in Nat
    <3>1. /\ s.tabs \in Nat /\ s.pins \in Nat /\ s.page \in BOOLEAN
          /\ s.running \in BOOLEAN /\ s.crashes \in Nat /\ s.last \in Nat
      BY DEF Snapshots
    <3>2. ContentOf(s) \in Contents
      BY <3>1 DEF ContentOf, Contents
    <3>3. [ContentOf(s) EXCEPT !.page = TRUE] \in Contents
      BY <3>2 DEF Contents
    <3>4. PinnedPart(s) \in Nat
      BY <3>1 DEF PinnedPart
    <3>5. [Blank EXCEPT !.pins = PinnedPart(s)] \in Contents
      BY <3>4 DEF Blank, Contents
    <3>6. recent \in Nat /\ lastState \in Nat
      BY <3>1
    <3> QED
      BY <3>1, <3>2, <3>3, <3>5, <3>6
  <2>4. /\ crashes' \in {recent, 0} /\ last' \in {lastState, s.tabs}
        /\ restore'.what \in {ContentOf(s), [ContentOf(s) EXCEPT !.page = TRUE],
                             [Blank EXCEPT !.pins = PinnedPart(s)]}
        /\ restore' = [kind |-> restore'.kind, what |-> restore'.what]
        /\ restore'.kind \in Kinds
    BY <1>2, <2>2 DEF Startup, Kinds
  <2> HIDE DEF recent, lastState
  <2>5. restore'.what \in Contents
    BY <2>3, <2>4
  <2>6. crashes' \in Nat /\ last' \in Nat
    BY <2>3, <2>4
  <2> QED
    BY <2>4, <2>5, <2>6
<1> QED
  BY <1>1, <1>2

\* Every step preserves the types.
LEMMA NextTypeOK == TypeOK /\ [Next]_vars => TypeOK'
<1> SUFFICES ASSUME TypeOK, [Next]_vars
             PROVE  TypeOK'
  OBVIOUS
<1> USE DEF TypeOK, FilesType, PrefsType, ContentType, PipeType, ControlType,
            HistoryType, files, prefVars, content, pipe, quitting, bounds, history
<1>1. CASE Activity
  <2>1. live' \in Contents
    BY <1>1 DEF Activity, Contents
  <2> QED
    BY <1>1, <2>1 DEF Activity
<1>2. CASE TimerFires
  <2>1. live \in Contents /\ clock' \in Nat /\ SaveNow(live)
    BY <1>2 DEF TimerFires
  <2>2. SavedType /\ collected' \in Contents
    BY <2>1, SaveNowType
  <2>3. FilesType' /\ ControlType' /\ HistoryType'
    BY <1>2 DEF TimerFires
  <2>4. PrefsType' /\ PipeType'
    BY <2>2 DEF SavedType
  <2>5. ContentType'
    BY <1>2, <2>2 DEF TimerFires
  <2> QED
    BY <2>3, <2>4, <2>5
<1>3. CASE IntervalChanged
  <2>1. live \in Contents /\ clock' \in Nat
    BY <1>3 DEF IntervalChanged
  <2>2. CASE SaveNow(live) /\ timer' = FALSE
    <3>1. SavedType /\ collected' \in Contents
      BY <2>1, <2>2, SaveNowType
    <3>2. FilesType' /\ ControlType' /\ HistoryType'
      BY <1>3, <2>2 DEF IntervalChanged
    <3>3. PrefsType' /\ PipeType'
      BY <3>1 DEF SavedType
    <3>4. ContentType'
      BY <1>3, <3>1 DEF IntervalChanged
    <3> QED
      BY <3>2, <3>3, <3>4
  <2>3. CASE UNCHANGED <<prefVars, collected, pipe>> /\ timer' = TRUE
    BY <1>3, <2>3 DEF IntervalChanged
  <2> QED
    BY <1>3, <2>2, <2>3 DEF IntervalChanged
<1>4. CASE PurgeDomain
  <2>1. live' \in Contents /\ clock' \in Nat
    <3>1. live' = [live EXCEPT !.tabs = clock + 1] /\ clock' = clock + 1
      BY <1>4 DEF PurgeDomain
    <3>2. live \in Contents /\ clock \in Nat
      OBVIOUS
    <3> QED
      BY ONLY <3>1, <3>2 DEF Contents
  <2>2. PICK c \in Contents : c = live'
    BY <2>1
  <2>3. SaveNow(c)
    BY <1>4, <2>2 DEF PurgeDomain, SaveNow, Collect
  <2>4. SavedType /\ collected' \in Contents
    BY <2>1, <2>3, SaveNowType
  <2> QED
    BY <1>4, <2>1, <2>4 DEF PurgeDomain, SavedType
<1>5. CASE SetResumeFromCrash
  <2> DEFINE once == IF onceOnShutdown = {} THEN prefs.once
                     ELSE CHOOSE o \in onceOnShutdown : TRUE
             p == [once |-> once, crash |-> ~prefs.crash]
             q == IF ~prefs.crash THEN ioq ELSE Append(ioq, Op("removePath"))
  <2>1. /\ p \in PrefValues
        /\ [prefs EXCEPT !.crash = ~prefs.crash] \in PrefValues
    <3>1. prefs.once \in BOOLEAN /\ prefs.crash \in BOOLEAN
      BY DEF PrefValues
    <3>2. once \in BOOLEAN
      BY <3>1 DEF OnceValues
    <3> HIDE DEF once
    <3> QED
      BY <3>1, <3>2 DEF PrefValues
  <2>2. q \in Seq(Ops) /\ (reply # "none" => q # <<>>)
    BY OpType
  <2>3. CASE observed
    <3>1. /\ SaveState(phase, Collect(phase, live), p, {}, last, q)
          /\ collected' = Collect(phase, live)
      BY <1>5, <2>3 DEF SetResumeFromCrash
    <3>2. Collect(phase, live) \in Contents /\ {} \in OnceValues /\ clock' \in Nat
      BY <1>5 DEF SetResumeFromCrash, Collect, OnceValues
    <3> HIDE DEF p, q
    <3>3. SavedType
      BY <2>1, <2>2, <3>1, <3>2, SaveStateType
    <3>4. FilesType' /\ ControlType' /\ HistoryType'
      BY <1>5 DEF SetResumeFromCrash
    <3>5. PrefsType' /\ PipeType'
      BY <3>3 DEF SavedType
    <3>6. ContentType'
      BY <1>5, <3>1, <3>2 DEF SetResumeFromCrash
    <3> QED
      BY <3>4, <3>5, <3>6
  <2>4. CASE ~observed
    <3>1. /\ prefs' = [prefs EXCEPT !.crash = ~prefs.crash]
          /\ UNCHANGED <<diskPrefs, observed, onceOnShutdown, collected, pipe>>
      BY <1>5, <2>4 DEF SetResumeFromCrash
    <3> HIDE DEF p, q
    <3> QED
      BY <1>5, <2>1, <3>1 DEF SetResumeFromCrash
  <2> QED
    BY <2>3, <2>4
<1>6. CASE Purge
  <2>1. live' \in Contents
    BY <1>6 DEF Purge, Contents
  <2>2. ioq' \in Seq(Ops) /\ ioq' # <<>>
    BY <1>6, OpType DEF Purge
  <2> QED
    BY <1>6, <2>1, <2>2 DEF Purge
<1>7. CASE PurgeSaveFires
  <2>1. live \in Contents /\ clock' \in Nat /\ SaveNow(live)
    BY <1>7 DEF PurgeSaveFires
  <2>2. SavedType /\ collected' \in Contents
    BY <2>1, SaveNowType
  <2>3. FilesType' /\ ControlType' /\ HistoryType'
    BY <1>7 DEF PurgeSaveFires
  <2>4. PrefsType' /\ PipeType'
    BY <2>2 DEF SavedType
  <2>5. ContentType'
    BY <1>7, <2>2 DEF PurgeSaveFires
  <2> QED
    BY <2>3, <2>4, <2>5
<1>8. CASE ShutdownPurge
  <2>1. ioq' \in Seq(Ops) /\ (reply # "none" => ioq' # <<>>)
    BY <1>8, OpType DEF ShutdownPurge
  <2> QED
    BY <1>8, <2>1 DEF ShutdownPurge
<1>9. CASE QuitRequest
  <2>1. ASSUME NEW kind \in {"quit", "restart"}, NEW save \in BOOLEAN,
               NEW why \in {"restart", "noPrompt", "saveAndQuit", "plain"},
               Granted(kind, save, why)
        PROVE  /\ phase' = "granted" /\ quitKind' = kind /\ prompt' = FALSE
               /\ prefs' \in PrefValues /\ diskPrefs' \in PrefValues
               /\ owed' \subseteq Promises
    BY <2>1, GrantedType
  <2>2. \/ /\ phase' = "granted" /\ quitKind' \in {"quit", "restart"}
           /\ prompt' = FALSE
           /\ prefs' \in PrefValues /\ diskPrefs' \in PrefValues
           /\ owed' \subseteq Promises
        \/ prompt' = TRUE /\ UNCHANGED <<phase, prefs, diskPrefs, quitKind, owed>>
    BY <1>9, <2>1 DEF QuitRequest
  <2>3. /\ UNCHANGED <<path, bak, landed, observed, onceOnShutdown, live, clock,
                     crashes, last, restore, timer, purgeSave, pipe, sanitized>>
        /\ UNCHANGED <<failures, flips, died, overtaken, streak, purgeMark>>
        /\ collected' = live /\ quits' = quits + 1
    BY <1>9 DEF QuitRequest
  <2>4. FilesType' /\ ContentType' /\ PipeType'
    BY <2>3
  <2>5. PrefsType' /\ ControlType' /\ HistoryType'
    <3>1. PrefsType'
      BY <2>2, <2>3
    <3>2. ControlType'
      BY <2>2, <2>3
    <3>3. HistoryType'
      BY <2>2, <2>3
    <3> QED
      BY <3>1, <3>2, <3>3
  <2> QED
    BY <2>4, <2>5
<1>10. CASE QuitAnswer
  <2>1. \/ /\ phase' = "granted" /\ quitKind' = "quit" /\ prompt' = FALSE
           /\ prefs' \in PrefValues /\ diskPrefs' \in PrefValues
           /\ owed' \subseteq Promises
        \/ prompt' = FALSE /\ UNCHANGED <<phase, prefs, diskPrefs, quitKind, owed>>
    BY <1>10, GrantedType DEF QuitAnswer
  <2>2. UNCHANGED <<files, observed, onceOnShutdown, content, timer, purgeSave,
                    pipe, sanitized, bounds, landed, streak, purgeMark>>
    BY <1>10 DEF QuitAnswer
  <2>3. FilesType' /\ ContentType' /\ PipeType'
    BY <2>2
  <2>4. PrefsType' /\ ControlType' /\ HistoryType'
    BY <2>1, <2>2
  <2> QED
    BY <2>3, <2>4
<1>11. CASE QuitApplication
  <2> DEFINE once == IF quitKind = "restart" THEN TRUE
                     ELSE IF onceOnShutdown = {} THEN prefs.once
                     ELSE CHOOSE o \in onceOnShutdown : TRUE
             p == [prefs EXCEPT !.once = once]
             lst == IF quitKind = "restart" THEN last ELSE 0
  <2>1. p \in PrefValues
    <3>1. prefs.once \in BOOLEAN
      BY DEF PrefValues
    <3>2. once \in BOOLEAN
      BY <3>1 DEF OnceValues
    <3> HIDE DEF once
    <3> QED
      BY <3>2 DEF PrefValues
  <2>2. lst \in Nat /\ last' = lst /\ clock' \in Nat
    BY <1>11 DEF QuitApplication
  <2>3. SaveState("quit", collected, p, onceOnShutdown, lst, ioq)
    BY <1>11, <2>2, Zenon DEF QuitApplication
  <2>4. owed' \subseteq Promises
    <3>1. owed' = {[o EXCEPT !.what = collected, !.last = last'] : o \in owed}
      BY <1>11 DEF QuitApplication
    <3>2. collected \in Contents /\ last' \in Nat /\ owed \subseteq Promises
      BY <2>2
    <3> QED
      BY ONLY <3>1, <3>2 DEF Promises
  <2> HIDE DEF p, lst
  <2>5. SavedType
    BY <2>1, <2>2, <2>3, SaveStateType
  <2> QED
    BY <1>11, <2>2, <2>4, <2>5 DEF QuitApplication, SavedType
<1>12. CASE Exit
  <2>1. /\ Fresh /\ diskPrefs' \in PrefValues /\ phase' = "down"
        /\ UNCHANGED <<path, bak>> /\ clock' \in Nat
    BY <1>12 DEF Exit
  <2>2. FilesType' /\ PrefsType' /\ ContentType' /\ PipeType' /\ ControlType'
    BY <2>1, FreshType
  <2>3. HistoryType'
    BY <1>12 DEF Exit
  <2> QED
    BY ONLY <2>2, <2>3 DEF TypeOK
<1>13. CASE Crash
  <2>1. /\ Fresh /\ diskPrefs' \in PrefValues /\ phase' = "down"
        /\ UNCHANGED <<path, bak>> /\ clock' \in Nat
    BY <1>13 DEF Crash
  <2>2. FilesType' /\ PrefsType' /\ ContentType' /\ PipeType' /\ ControlType'
    BY <2>1, FreshType
  <2>3. HistoryType'
    BY <1>13 DEF Crash
  <2> QED
    BY ONLY <2>2, <2>3 DEF TypeOK
<1>14. CASE FlushPrefs
  BY <1>14 DEF FlushPrefs
<1>15. CASE Startup
  <2>1. /\ prefs' \in PrefValues
        /\ UNCHANGED <<files, diskPrefs, observed, onceOnShutdown, live, collected,
                      clock, timer, purgeSave, pipe, quitting, bounds, landed,
                      purgeMark, owed>>
        /\ phase' = "stopped"
    BY <1>15 DEF Startup, PrefValues
  <2>2. crashes' \in Nat /\ last' \in Nat /\ restore' \in [kind : Kinds, what : Contents]
    BY <1>15, StartupType
  <2>3. streak' \in Nat
    BY <1>15 DEF Startup
  <2> QED
    BY <2>1, <2>2, <2>3
<1>16. CASE FirstWindow
  <2>1. restore.what \in Contents /\ clock' \in Nat /\ prefs \in PrefValues
    BY <1>16 DEF FirstWindow
  <2>2. CASE restore.kind = "none"
    BY <1>16, <2>1, <2>2 DEF FirstWindow
  <2>3. CASE restore.kind # "none"
    <3>1. /\ SaveState("running", restore.what, prefs, onceOnShutdown, last, ioq)
          /\ collected' = restore.what
      BY <1>16, <2>3 DEF FirstWindow
    <3>2. SavedType
      BY <2>1, <3>1, SaveStateType
    <3> QED
      BY <1>16, <2>1, <3>1, <3>2 DEF FirstWindow, SavedType
  <2> QED
    BY <2>2, <2>3
<1>17. CASE RunJob
  <2>1. Head(jobs) \in Snapshots /\ Tail(jobs) \in Seq(Snapshots)
    BY <1>17 DEF RunJob
  <2>2. WriteOp(Head(jobs)) \in Ops
    BY <2>1, OpType
  <2>3. ioq' \in Seq(Ops) /\ ioq' # <<>> /\ jobs' \in Seq(Snapshots)
    BY <1>17, <2>1, <2>2 DEF RunJob
  <2> QED
    BY <1>17, <2>3 DEF RunJob
<1>18. CASE WorkerStep
  <2>1. Head(ioq) \in Ops
    BY <1>18 DEF WorkerStep
  <2>2. Head(ioq).op = "write" => Head(ioq).data \in Snapshots
    BY <2>1 DEF Ops
  <2>3. path' \in Snapshots \cup {NoFile} /\ bak' \in Snapshots \cup {NoFile}
    BY <1>18, <2>2 DEF WorkerStep
  <2>4. /\ landed' \in BOOLEAN /\ failures' \in Nat
        /\ reply' \in {"none", "ok", "failed"} /\ ioq' # <<>>
    <3>1. landed' = TRUE \/ landed' = FALSE \/ landed' = landed
      BY <1>18, Zenon DEF WorkerStep
    <3>2. failures' \in {failures, failures + 1}
      BY <1>18 DEF WorkerStep
    <3>3. reply' \in {"ok", "failed"} /\ ioq' = ioq /\ ioq # <<>>
      BY <1>18 DEF WorkerStep
    <3>4. landed \in BOOLEAN
      OBVIOUS
    <3>5. landed' \in BOOLEAN
      BY ONLY <3>1, <3>4, Zenon
    <3> QED
      BY <3>2, <3>3, <3>5
  <2>5. UNCHANGED <<phase, prefVars, content, timer, purgeSave, backup, waiting, jobs,
                    ioq, quitting, flips, quits, died, overtaken, streak, purgeMark,
                    owed>>
    BY <1>18 DEF WorkerStep
  <2> QED
    BY <2>3, <2>4, <2>5
<1>19. CASE MainCompletion
  <2>1. ioq # <<>> /\ Tail(ioq) \in Seq(Ops)
    BY <1>19 DEF MainCompletion
  <2>2. ioq' \in Seq(Ops) /\ reply' = "none"
    BY <1>19, <2>1, OpType DEF MainCompletion
  <2>3. jobs \o waiting \in Seq(Snapshots)
    OBVIOUS
  <2>4. /\ backup' \in BackupStates
        /\ waiting' \in Seq(Snapshots) /\ jobs' \in Seq(Snapshots)
    <3>1. CASE Head(ioq).op = "move"
      <4>1. waiting' = <<>>
        BY <1>19, <3>1 DEF MainCompletion
      <4>2. \/ backup' = "ok" /\ jobs' = jobs \o waiting
            \/ backup' = "failed" /\ jobs' = jobs
        <5>1. CASE reply = "ok"
          BY <1>19, <3>1, <5>1 DEF MainCompletion
        <5>2. CASE reply # "ok"
          BY <1>19, <3>1, <5>2 DEF MainCompletion
        <5> QED
          BY <5>1, <5>2
      <4>3. backup' \in BackupStates
        BY <4>2 DEF BackupStates
      <4>4. waiting' \in Seq(Snapshots)
        BY <4>1
      <4>5. jobs' \in Seq(Snapshots)
        BY <2>3, <4>2
      <4> QED
        BY <4>3, <4>4, <4>5
    <3>2. CASE Head(ioq).op # "move"
      BY <1>19, <3>2 DEF MainCompletion
    <3> QED
      BY <3>1, <3>2
  <2> QED
    BY <1>19, <2>2, <2>4 DEF MainCompletion
<1>20. CASE UNCHANGED vars
  BY <1>20 DEF vars
<1> QED
  BY <1>1, <1>2, <1>3, <1>4, <1>5, <1>6, <1>7, <1>8, <1>9, <1>10, <1>11, <1>12,
     <1>13, <1>14, <1>15, <1>16, <1>17, <1>18, <1>19, <1>20 DEF Next

\* Every state SessionStore, _SessionFile and nsSessionStartup can reach has the
\* types, for all values of the preferences and bounds.
THEOREM TypeCorrect == Spec => []TypeOK
<1>1. Init => TypeOK
  BY InitTypeOK
<1>2. TypeOK /\ [Next]_vars => TypeOK'
  BY NextTypeOK
<1> QED
  BY <1>1, <1>2, PTL DEF Spec
-----------------------------------------------------------------------------
\* The writes of a session land in order, while resume_from_crash stays as it
\* is.  The invariant: writes are pending in one of two places, either waiting
\* for the backup or on their way to the worker, and in the order of the saves;
\* none is older than what the files hold; and while the browser runs nothing of
\* the session says that it was stopped.

Posted(q) == {i \in DOMAIN q : q[i].op = "write"}
Pending == {ioq[i].data : i \in Posted(ioq)}
             \cup {jobs[i] : i \in DOMAIN jobs} \cup {waiting[i] : i \in DOMAIN waiting}

\* Nothing is pending before the first window, and nothing has landed.
Idle ==
  phase \in {"down", "stopped"}
    => ioq = <<>> /\ jobs = <<>> /\ waiting = <<>> /\ landed = FALSE

\* No write is on its way while others wait for the backup.
OneStage ==
  /\ waiting # <<>> => prefs.crash /\ backup = "pending"
  /\ (prefs.crash /\ backup \in {"none", "pending"})
       => jobs = <<>> /\ Posted(ioq) = {}

Ordered(s) == \A i, k \in DOMAIN s : i < k => Precedes(s[i], s[k])
OrderedOps(q) == \A i, k \in Posted(q) : i < k => Precedes(q[i].data, q[k].data)
OpsBefore(q, s) == \A i \in Posted(q), k \in DOMAIN s : Precedes(q[i].data, s[k])

PipeInOrder ==
  OrderedOps(ioq) /\ Ordered(jobs) /\ Ordered(waiting) /\ OpsBefore(ioq, jobs)

\* s may be written over what the files hold, and something collected now over s.
InTime(s) ==
  /\ s.at <= clock
  /\ phase = "running" => s.running
  /\ landed => Precedes(path, s)
  /\ path # NoFile => path.at <= s.at
  /\ bak # NoFile => bak.at <= s.at

PendingInTime == \A s \in Pending : InTime(s)

FilesInTime ==
  /\ path # NoFile => path.at <= clock
  /\ bak # NoFile => bak.at <= clock
  /\ landed => path # NoFile /\ (phase = "running" => path.running)

OrderInv == Idle /\ OneStage /\ PipeInOrder /\ PendingInTime /\ FilesInTime

\* Pending writes are snapshots.
LEMMA PendingType == ASSUME TypeOK PROVE Pending \subseteq Snapshots
<1> SUFFICES ASSUME NEW s \in Pending PROVE s \in Snapshots
  OBVIOUS
<1>1. jobs \in Seq(Snapshots) /\ waiting \in Seq(Snapshots) /\ ioq \in Seq(Ops)
  BY DEF TypeOK, PipeType
<1>2. CASE \E i \in Posted(ioq) : s = ioq[i].data
  BY <1>1, <1>2 DEF Posted, Ops
<1>3. CASE \E i \in DOMAIN jobs : s = jobs[i]
  BY <1>1, <1>3
<1>4. CASE \E i \in DOMAIN waiting : s = waiting[i]
  BY <1>1, <1>4
<1> QED
  BY <1>2, <1>3, <1>4 DEF Pending

\* A step that leaves the pipeline and the files alone preserves the invariant.
LEMMA Undisturbed ==
  ASSUME TypeOK, OrderInv, clock' \in Nat, clock' >= clock,
         UNCHANGED <<ioq, jobs, waiting, backup, path, bak, landed>>,
         prefs'.crash = prefs.crash \/ phase' \in {"down", "stopped"},
         phase' = "running" => phase \in {"running", "stopped"},
         phase' \in {"down", "stopped"} => phase \in {"down", "stopped"}
  PROVE  OrderInv'
<1>1. Idle'
  BY DEF OrderInv, Idle
<1>2. OneStage'
  <2>1. CASE prefs'.crash = prefs.crash
    BY <2>1 DEF OrderInv, OneStage, Posted
  <2>2. CASE phase' \in {"down", "stopped"}
    BY <2>2, <1>1 DEF OneStage, Posted, Idle
  <2> QED
    BY <2>1, <2>2
<1>3. PipeInOrder'
  BY DEF OrderInv, PipeInOrder, Ordered, OrderedOps, OpsBefore, Posted
<1>4. Pending' = Pending /\ Pending \subseteq Snapshots
  BY PendingType DEF Pending, Posted
<1>5. clock \in Nat /\ path \in Snapshots \cup {NoFile} /\ bak \in Snapshots \cup {NoFile}
  BY DEF TypeOK, ContentType, FilesType
<1>6. CASE phase = "stopped"
  <2>1. Pending = {} /\ landed = FALSE
    BY <1>6 DEF OrderInv, Idle, Pending, Posted
  <2>2. PendingInTime'
    BY <2>1, <1>4 DEF PendingInTime
  <2>3. FilesInTime'
    BY <2>1, <1>5 DEF OrderInv, FilesInTime, Snapshots
  <2> QED
    BY <1>1, <1>2, <1>3, <2>2, <2>3 DEF OrderInv
<1>7. CASE phase # "stopped"
  <2>1. phase' = "running" => phase = "running"
    BY <1>7
  <2>2. PendingInTime'
    <3> SUFFICES ASSUME NEW s \in Pending' PROVE InTime(s)'
      BY DEF PendingInTime
    <3>1. InTime(s) /\ s \in Snapshots
      BY <1>4 DEF OrderInv, PendingInTime
    <3> QED
      BY <3>1, <2>1, <1>5 DEF InTime, Precedes, Snapshots
  <2>3. FilesInTime'
    BY <2>1, <1>5 DEF OrderInv, FilesInTime, Snapshots
  <2> QED
    BY <1>1, <1>2, <1>3, <2>2, <2>3 DEF OrderInv
<1> QED
  BY <1>6, <1>7

\* Removals may be posted at any time after the first window.
LEMMA RemovalPosted ==
  ASSUME TypeOK, OrderInv, clock' \in Nat, clock' >= clock,
         UNCHANGED <<jobs, waiting, backup, path, bak, landed, prefs, phase>>,
         phase \in {"running", "granted", "quit"},
         ioq' = Append(ioq, Op("removePath"))
  PROVE  OrderInv'
<1>1. Idle'
  BY DEF Idle
<1>2. ioq \in Seq(Ops) /\ clock \in Nat /\ Op("removePath").op # "write"
  BY DEF TypeOK, PipeType, ContentType, Op
<1>3. /\ Posted(ioq') = Posted(ioq)
      /\ \A i \in Posted(ioq) : ioq'[i] = ioq[i]
  BY <1>2 DEF Posted
<1>4. OneStage'
  BY <1>3 DEF OrderInv, OneStage, Posted
<1>5. PipeInOrder'
  <2>1. OrderedOps(ioq') /\ OpsBefore(ioq', jobs)
    BY <1>3 DEF OrderInv, PipeInOrder, OrderedOps, OpsBefore
  <2> QED
    BY <2>1 DEF OrderInv, PipeInOrder, Ordered, OrderedOps, OpsBefore, Posted
<1>6. Pending' = Pending /\ Pending \subseteq Snapshots
  <2>1. {ioq'[i].data : i \in Posted(ioq')} = {ioq[i].data : i \in Posted(ioq)}
    BY <1>3
  <2> QED
    BY <2>1, PendingType DEF Pending, Posted
<1>7. path \in Snapshots \cup {NoFile} /\ bak \in Snapshots \cup {NoFile}
  BY DEF TypeOK, FilesType
<1>8. PendingInTime'
  <2> SUFFICES ASSUME NEW s \in Pending' PROVE InTime(s)'
    BY DEF PendingInTime
  <2>1. InTime(s) /\ s \in Snapshots
    BY <1>6 DEF OrderInv, PendingInTime
  <2> QED
    BY <2>1, <1>2, <1>7 DEF InTime, Precedes, Snapshots
<1>9. FilesInTime'
  BY <1>2, <1>7 DEF OrderInv, FilesInTime, Snapshots
<1> QED
  BY <1>1, <1>4, <1>5, <1>8, <1>9 DEF OrderInv

\* saveState, called in load state ph, preserves the invariant: what it writes
\* is the newest, and goes where nothing can overtake it.
LEMMA SaveStateInOrder ==
  ASSUME TypeOK, OrderInv, clock' \in Nat, clock' >= clock,
         NEW ph \in {"running", "granted", "quit"}, NEW c \in Contents,
         NEW p \in PrefValues, NEW os, NEW lst \in Nat,
         SaveState(ph, c, p, os, lst, ioq), p.crash = prefs.crash,
         phase' = ph, ph = "running" => phase \in {"running", "stopped"},
         UNCHANGED <<path, bak, landed>>
  PROVE  OrderInv'
<1>1. prefs'.crash = prefs.crash
  BY DEF SaveState, PrefValues
<1>2. CASE UNCHANGED <<ioq, jobs, waiting, backup>>
  BY <1>1, <1>2, Undisturbed
<1>3. ASSUME NEW n \in Snapshots, SaveStateObject(n, ioq, p.crash),
             n.at = clock', n.running = (ph = "running")
      PROVE  OrderInv'
  <2>1. /\ ioq \in Seq(Ops) /\ jobs \in Seq(Snapshots) /\ waiting \in Seq(Snapshots)
        /\ clock \in Nat
        /\ path \in Snapshots \cup {NoFile} /\ bak \in Snapshots \cup {NoFile}
    BY DEF TypeOK, PipeType, ContentType, FilesType
  <2>2. ph = "running" => phase = "running" \/ (Pending = {} /\ landed = FALSE)
    BY DEF OrderInv, Idle, Pending, Posted
  <2>3. \A s \in Pending : Precedes(s, n)
    <3> SUFFICES ASSUME NEW s \in Pending PROVE Precedes(s, n)
      OBVIOUS
    <3>1. InTime(s) /\ s \in Snapshots
      BY PendingType DEF OrderInv, PendingInTime
    <3> QED
      <4>1. s.at <= clock /\ s.at \in Nat /\ (phase = "running" => s.running)
        BY <3>1 DEF InTime, Snapshots
      <4>2. s.at <= n.at
        BY <4>1, <2>1, <1>3
      <4>3. n.running => s.running
        BY <4>1, <2>2, <1>3
      <4> QED
        BY <4>2, <4>3 DEF Precedes
  <2>4. FilesInTime'
    <3>1. landed => (phase' = "running" => phase = "running")
      BY <2>2
    <3>2. /\ path # NoFile => path.at \in Nat
          /\ bak # NoFile => bak.at \in Nat
      BY <2>1 DEF Snapshots
    <3>3. FilesInTime
      BY DEF OrderInv
    <3> QED
      BY <3>1, <3>2, <3>3, <2>1 DEF FilesInTime
  <2>5. InTime(n)'
    <3>1. n' = n
      OBVIOUS
    <3>2. landed' => Precedes(path', n)
      <4> SUFFICES ASSUME landed PROVE Precedes(path, n)
        OBVIOUS
      <4>1. path \in Snapshots /\ path.at <= clock /\ (ph = "running" => path.running)
        BY <2>1, <2>2 DEF OrderInv, FilesInTime
      <4> QED
        BY <4>1, <2>1, <1>3 DEF Precedes, Snapshots
    <3> QED
      BY <3>2, <2>1, <1>3, <2>4 DEF InTime, Snapshots, OrderInv, FilesInTime
  <2>6. \A s \in Pending : InTime(s)'
    <3> SUFFICES ASSUME NEW s \in Pending PROVE InTime(s)'
      OBVIOUS
    <3>1. InTime(s) /\ s \in Snapshots /\ Precedes(s, n)
      BY <2>3, PendingType DEF OrderInv, PendingInTime
    <3> QED
      BY <3>1, <2>1, <2>2, <1>3 DEF InTime, Precedes, Snapshots
  <2>7. Idle'
    BY DEF Idle
  \* The two places where the write may go.
  <2>8. CASE /\ jobs' = Append(jobs, n) /\ UNCHANGED <<ioq, waiting>>
             /\ backup' = backup /\ (prefs.crash => backup = "ok")
    <3>1. waiting = <<>>
      BY <2>8 DEF OrderInv, OneStage
    <3>2. OneStage'
      BY <2>8, <3>1, <1>1 DEF OneStage
    <3>3. \A s \in Pending' : s \in Pending \/ s = n
      BY <2>8, <2>1 DEF Pending, Posted
    <3>4. PendingInTime'
      BY <3>3, <2>5, <2>6 DEF PendingInTime
    <3>5. Ordered(jobs')
      <4>1. \A i \in DOMAIN jobs : jobs[i] \in Pending
        BY DEF Pending
      <4> QED
        BY <4>1, <2>8, <2>1, <2>3 DEF OrderInv, PipeInOrder, Ordered
    <3>6. OpsBefore(ioq, jobs')
      <4>1. \A i \in Posted(ioq) : ioq[i].data \in Pending
        BY DEF Pending
      <4> QED
        BY <4>1, <2>8, <2>1, <2>3 DEF OrderInv, PipeInOrder, OpsBefore
    <3>7. PipeInOrder'
      BY <2>8, <3>5, <3>6 DEF OrderInv, PipeInOrder, Ordered, OrderedOps, OpsBefore, Posted
    <3> QED
      BY <2>4, <2>7, <3>2, <3>4, <3>7 DEF OrderInv
  <2>9. CASE /\ waiting' = Append(waiting, n) /\ jobs' = jobs
             /\ prefs.crash /\ backup \in {"none", "pending"} /\ backup' = "pending"
             /\ ioq' \in {ioq, Append(ioq, Op("move"))}
    <3>1. jobs = <<>> /\ Posted(ioq) = {}
      BY <2>9 DEF OrderInv, OneStage
    <3>2. Posted(ioq') = {}
      <4>1. Posted(Append(ioq, Op("move"))) = {}
        BY <3>1, <2>1 DEF Posted, Op
      <4> QED
        BY <4>1, <3>1, <2>9
    <3>3. OneStage'
      BY <2>9, <3>1, <3>2, <1>1 DEF OneStage, Posted
    <3>4. \A s \in Pending' : s \in Pending \/ s = n
      BY <2>9, <3>1, <3>2, <2>1 DEF Pending, Posted
    <3>5. PendingInTime'
      BY <3>4, <2>5, <2>6 DEF PendingInTime
    <3>6. Ordered(waiting')
      <4>1. \A i \in DOMAIN waiting : waiting[i] \in Pending
        BY DEF Pending
      <4> QED
        BY <4>1, <2>9, <2>1, <2>3 DEF OrderInv, PipeInOrder, Ordered
    <3>7. OrderedOps(ioq') /\ Ordered(jobs') /\ OpsBefore(ioq', jobs')
      BY <2>9, <3>1, <3>2 DEF OrderedOps, Ordered, OpsBefore
    <3>8. PipeInOrder'
      BY <3>6, <3>7 DEF PipeInOrder, Ordered, OrderedOps, OpsBefore, Posted
    <3> QED
      BY <2>4, <2>7, <3>3, <3>5, <3>8 DEF OrderInv
  <2>10. CASE UNCHANGED <<ioq, jobs, waiting, backup>>
    BY <2>10, <1>2
  <2> QED
    BY <1>3, <2>8, <2>9, <2>10 DEF SaveStateObject
<1>4. \A b \in BOOLEAN : /\ Snapshot(c, ph, b, lst) \in Snapshots
                         /\ Snapshot(c, ph, b, lst).at = clock'
                         /\ Snapshot(c, ph, b, lst).running = (ph = "running")
  <2>1. crashes \in Nat
    BY DEF TypeOK, ContentType
  <2> QED
    BY <2>1, SnapshotType DEF Snapshot
<1>5. \/ UNCHANGED <<ioq, jobs, waiting, backup>>
      \/ \E b \in BOOLEAN : SaveStateObject(Snapshot(c, ph, b, lst), ioq, p.crash)
  BY DEF SaveState
<1> QED
  BY <1>2, <1>3, <1>4, <1>5

LEMMA SaveNowInOrder ==
  ASSUME TypeOK, OrderInv, clock' \in Nat, clock' >= clock, NEW c \in Contents,
         phase \in {"running", "granted", "quit"}, SaveNow(c),
         UNCHANGED <<phase, path, bak, landed>>
  PROVE  OrderInv'
<1>1. /\ Collect(phase, c) \in Contents /\ prefs \in PrefValues
      /\ last \in Nat
  BY DEF Collect, TypeOK, PrefsType, ContentType
<1>2. SaveState(phase, Collect(phase, c), prefs, onceOnShutdown, last, ioq)
  BY DEF SaveNow
<1> QED
  BY <1>1, <1>2, SaveStateInOrder

\* Of two sequences of which one is empty, the concatenation is the other.
LEMMA ConcatOneEmpty ==
  ASSUME NEW S, NEW s \in Seq(S), NEW t \in Seq(S), s = <<>> \/ t = <<>>
  PROVE  s \o t = (IF s = <<>> THEN t ELSE s)
OBVIOUS

\* The queue after an operation has been handled.
LEMMA QueueHandled ==
  ASSUME TypeOK, MainCompletion, NEW q, q = ioq'
  PROVE  /\ \A i \in Posted(q) : i + 1 \in Posted(ioq) /\ q[i] = ioq[i + 1]
         /\ Posted(q) \subseteq Nat
<1>1. ioq \in Seq(Ops) /\ ioq # <<>>
  BY DEF MainCompletion, TypeOK, PipeType
<1>2. q \in {Tail(ioq), Append(Tail(ioq), Op("removeBak"))}
  BY DEF MainCompletion
<1>3. /\ Tail(ioq) \in Seq(Ops) /\ Len(Tail(ioq)) = Len(ioq) - 1
      /\ \A i \in 1..Len(Tail(ioq)) : Tail(ioq)[i] = ioq[i + 1]
  BY <1>1
<1>4. CASE q = Tail(ioq)
  BY <1>3, <1>4, <1>1 DEF Posted
<1>5. CASE q = Append(Tail(ioq), Op("removeBak"))
  <2>1. /\ q[Len(q)] = Op("removeBak") /\ Len(q) = Len(ioq)
        /\ \A i \in 1..(Len(q) - 1) : q[i] = ioq[i + 1]
        /\ DOMAIN q = 1..Len(q)
    BY <1>3, <1>5, <1>1, OpType
  <2> QED
    BY <2>1, <1>1 DEF Posted, Op
<1> QED
  BY <1>2, <1>4, <1>5

\* What it leaves of the writes that wait for the backup.
LEMMA WaitingHandled ==
  ASSUME TypeOK, OrderInv, MainCompletion
  PROVE  \/ UNCHANGED <<jobs, waiting, backup>>
         \/ waiting' = <<>> /\ backup' = "failed" /\ jobs' = jobs
         \/ /\ waiting' = <<>> /\ backup' = "ok"
            /\ jobs' = IF jobs = <<>> THEN waiting ELSE jobs
<1>1. jobs \in Seq(Snapshots) /\ waiting \in Seq(Snapshots)
  BY DEF TypeOK, PipeType
<1>2. jobs = <<>> \/ waiting = <<>>
  BY DEF OrderInv, OneStage
<1>3. jobs \o waiting = IF jobs = <<>> THEN waiting ELSE jobs
  BY <1>1, <1>2, ConcatOneEmpty
<1> QED
  BY <1>3 DEF MainCompletion

LEMMA MainCompletionPending ==
  ASSUME TypeOK, OrderInv, MainCompletion
  PROVE  \A s \in Pending' : s \in Pending
<1>1. PICK q : q = ioq'
  OBVIOUS
<1> QED
  BY <1>1, QueueHandled, WaitingHandled DEF Pending, Posted

\* When an operation has been handled nothing moves past another write.
LEMMA MainCompletionInOrder ==
  ASSUME TypeOK, OrderInv, MainCompletion
  PROVE  OrderInv'
<1>1. /\ ioq \in Seq(Ops) /\ ioq # <<>> /\ jobs \in Seq(Snapshots)
      /\ waiting \in Seq(Snapshots) /\ clock \in Nat
  BY DEF MainCompletion, TypeOK, PipeType, ContentType
<1>2. UNCHANGED <<phase, path, bak, landed, prefs, clock>>
  BY DEF MainCompletion, files, prefVars, content, history
<1>3. PICK q : q = ioq'
  OBVIOUS
<1>4. /\ \A i \in Posted(q) : i + 1 \in Posted(ioq) /\ q[i] = ioq[i + 1]
      /\ Posted(q) \subseteq Nat
  BY <1>3, QueueHandled
<1>5. OrderedOps(q)
  BY <1>4 DEF OrderInv, PipeInOrder, OrderedOps
<1>6. \/ UNCHANGED <<jobs, waiting, backup>>
      \/ waiting' = <<>> /\ backup' = "failed" /\ jobs' = jobs
      \/ /\ waiting' = <<>> /\ backup' = "ok"
         /\ jobs' = IF jobs = <<>> THEN waiting ELSE jobs
  BY WaitingHandled
<1>7. \A s \in Pending' : s \in Pending
  BY MainCompletionPending
<1>8. PendingInTime'
  <2> SUFFICES ASSUME NEW s \in Pending' PROVE InTime(s)'
    BY DEF PendingInTime
  <2>1. InTime(s)
    BY <1>7 DEF OrderInv, PendingInTime
  <2> QED
    BY <2>1, <1>2 DEF InTime, Precedes
<1>9. FilesInTime'
  BY <1>2 DEF OrderInv, FilesInTime
<1>10. Idle'
  <2>1. phase \notin {"down", "stopped"}
    BY <1>1 DEF OrderInv, Idle
  <2> QED
    BY <2>1, <1>2 DEF Idle
<1>11. OneStage'
  <2>1. Posted(ioq) = {} => Posted(q) = {}
    BY <1>4
  <2> QED
    BY <2>1, <1>2, <1>3, <1>6 DEF OrderInv, OneStage, Posted
<1>12. PipeInOrder'
  <2>1. waiting # <<>> => Posted(ioq) = {}
    BY DEF OrderInv, OneStage
  <2>2. Ordered(jobs') /\ Ordered(waiting')
    BY <1>6 DEF OrderInv, PipeInOrder, Ordered
  <2>3. OpsBefore(q, jobs')
    BY <2>1, <1>4, <1>6 DEF OrderInv, PipeInOrder, OpsBefore
  <2> QED
    BY <2>2, <2>3, <1>3, <1>5 DEF PipeInOrder, Ordered, OrderedOps, OpsBefore, Posted
<1> QED
  BY <1>8, <1>9, <1>10, <1>11, <1>12 DEF OrderInv

\* A promise reaction writes nothing that was not pending.
LEMMA RunJobPending ==
  ASSUME TypeOK, RunJob
  PROVE  \A s \in Pending' : s \in Pending
<1> DEFINE h == Head(jobs)
<1>1. /\ ioq \in Seq(Ops) /\ jobs \in Seq(Snapshots) /\ jobs # <<>>
      /\ h \in Snapshots /\ h = jobs[1] /\ 1 \in DOMAIN jobs
      /\ WriteOp(h) \in Ops /\ WriteOp(h).data = h
  BY OpType DEF RunJob, TypeOK, PipeType, WriteOp
<1>2. /\ ioq' = Append(ioq, WriteOp(h)) /\ jobs' = Tail(jobs)
      /\ UNCHANGED <<phase, path, bak, landed, prefs, clock, backup, waiting>>
  BY DEF RunJob, files, prefVars, content, history
<1>3. /\ Tail(jobs) \in Seq(Snapshots) /\ Len(Tail(jobs)) = Len(jobs) - 1
      /\ \A i \in DOMAIN Tail(jobs) : i + 1 \in DOMAIN jobs /\ Tail(jobs)[i] = jobs[i + 1]
  BY <1>1
<1>4. PICK q : q = ioq'
  OBVIOUS
<1>5. /\ \A i \in Posted(q) : \/ i \in Posted(ioq) /\ q[i] = ioq[i]
                              \/ i = Len(ioq) + 1 /\ q[i].data = h
      /\ Posted(q) \subseteq 1..(Len(ioq) + 1) /\ Posted(ioq) \subseteq 1..Len(ioq)
      /\ Len(ioq) \in Nat
  BY <1>1, <1>2, <1>4 DEF Posted
<1>6. \A i \in DOMAIN jobs : jobs[i] \in Pending
  BY DEF Pending
<1>7. \A i \in Posted(ioq) : ioq[i].data \in Pending
  BY DEF Pending
<1>8. \A i \in DOMAIN waiting : waiting[i] \in Pending
  BY DEF Pending
<1> HIDE DEF h
<1>9. \A i \in Posted(q) : q[i].data \in Pending
  BY <1>1, <1>5, <1>6, <1>7
<1>10. \A i \in DOMAIN Tail(jobs) : Tail(jobs)[i] \in Pending
  BY <1>3, <1>6
<1>11. Pending' = {q[i].data : i \in Posted(q)}
         \cup {Tail(jobs)[i] : i \in DOMAIN Tail(jobs)}
         \cup {waiting[i] : i \in DOMAIN waiting}
  BY <1>2, <1>4 DEF Pending, Posted
<1> QED
  BY <1>8, <1>9, <1>10, <1>11

\* A promise reaction posts the oldest write that is not posted.
LEMMA RunJobInOrder ==
  ASSUME TypeOK, OrderInv, RunJob
  PROVE  OrderInv'
<1> DEFINE h == Head(jobs)
<1>1. /\ ioq \in Seq(Ops) /\ jobs \in Seq(Snapshots) /\ jobs # <<>>
      /\ h \in Snapshots /\ h = jobs[1] /\ 1 \in DOMAIN jobs
      /\ WriteOp(h) \in Ops /\ WriteOp(h).data = h
  BY OpType DEF RunJob, TypeOK, PipeType, WriteOp
<1>2. /\ ioq' = Append(ioq, WriteOp(h)) /\ jobs' = Tail(jobs)
      /\ UNCHANGED <<phase, path, bak, landed, prefs, clock, backup, waiting>>
  BY DEF RunJob, files, prefVars, content, history
<1>3. /\ Tail(jobs) \in Seq(Snapshots) /\ Len(Tail(jobs)) = Len(jobs) - 1
      /\ \A i \in DOMAIN Tail(jobs) : i + 1 \in DOMAIN jobs /\ Tail(jobs)[i] = jobs[i + 1]
  BY <1>1
<1>4. PICK q : q = ioq'
  OBVIOUS
<1>5. /\ \A i \in Posted(q) : \/ i \in Posted(ioq) /\ q[i] = ioq[i]
                              \/ i = Len(ioq) + 1 /\ q[i].data = h
      /\ Posted(q) \subseteq 1..(Len(ioq) + 1) /\ Posted(ioq) \subseteq 1..Len(ioq)
      /\ Len(ioq) \in Nat
  BY <1>1, <1>2, <1>4 DEF Posted
<1>6. \A s \in Pending' : s \in Pending
  BY RunJobPending
<1>7. PendingInTime'
  <2> SUFFICES ASSUME NEW s \in Pending' PROVE InTime(s)'
    BY DEF PendingInTime
  <2>1. InTime(s)
    BY <1>6 DEF OrderInv, PendingInTime
  <2> QED
    BY <2>1, <1>2 DEF InTime, Precedes
<1>8. FilesInTime'
  BY <1>2 DEF OrderInv, FilesInTime
<1>9. Idle'
  BY <1>1, <1>2 DEF OrderInv, Idle
<1>10. OneStage'
  BY <1>1, <1>2 DEF OrderInv, OneStage
<1>11. PipeInOrder'
  <2> HIDE DEF h
  <2>1. OrderedOps(q)
    BY <1>1, <1>5 DEF OrderInv, PipeInOrder, OrderedOps, OpsBefore
  <2>2. Ordered(Tail(jobs))
    BY <1>1, <1>3 DEF OrderInv, PipeInOrder, Ordered
  <2>3. OpsBefore(q, Tail(jobs))
    <3> SUFFICES ASSUME NEW i \in Posted(q), NEW k \in DOMAIN Tail(jobs)
                 PROVE  Precedes(q[i].data, Tail(jobs)[k])
      BY DEF OpsBefore
    <3>1. k + 1 \in DOMAIN jobs /\ Tail(jobs)[k] = jobs[k + 1] /\ 1 < k + 1
      BY <1>1, <1>3
    <3>2. CASE i \in Posted(ioq) /\ q[i] = ioq[i]
      BY <3>1, <3>2 DEF OrderInv, PipeInOrder, OpsBefore
    <3>3. CASE q[i].data = h
      BY <3>1, <3>3, <1>1 DEF OrderInv, PipeInOrder, Ordered
    <3> QED
      BY <1>5, <3>2, <3>3
  <2> QED
    BY <2>1, <2>2, <2>3, <1>2, <1>4
       DEF OrderInv, PipeInOrder, Ordered, OrderedOps, OpsBefore, Posted
<1> QED
  BY <1>7, <1>8, <1>9, <1>10, <1>11 DEF OrderInv

\* What the worker may do to the files.
LEMMA WorkerCases ==
  ASSUME TypeOK, WorkerStep
  PROVE  /\ 1 \in DOMAIN ioq /\ Head(ioq) = ioq[1]
         /\ UNCHANGED <<phase, prefs, clock, backup, waiting, jobs, ioq>>
         /\ \/ /\ Head(ioq).op = "write"
               /\ path' = Head(ioq).data /\ landed' = TRUE /\ bak' = bak
            \/ /\ Head(ioq).op = "move"
               /\ path' = NoFile /\ landed' = FALSE
               /\ bak' = IF path = NoFile THEN bak ELSE path
            \/ /\ Head(ioq).op = "removePath"
               /\ path' = NoFile /\ landed' = FALSE /\ bak' = bak
            \/ /\ Head(ioq).op = "removeBak"
               /\ bak' = NoFile /\ UNCHANGED <<path, landed>>
            \/ UNCHANGED <<path, bak, landed>>
<1>1. 1 \in DOMAIN ioq /\ Head(ioq) = ioq[1]
  BY DEF WorkerStep, TypeOK, PipeType
<1>2. UNCHANGED <<phase, prefs, clock, backup, waiting, jobs, ioq>>
  BY DEF WorkerStep, prefVars, content
<1> QED
  BY <1>1, <1>2 DEF WorkerStep, files

LEMMA WorkerInOrder ==
  ASSUME TypeOK, OrderInv, WorkerStep
  PROVE  /\ OrderInv'
         /\ landed /\ landed' => Precedes(path, path')
         /\ Readable # NoFile /\ Readable' # Readable
              => Removing \/ (Readable' # NoFile /\ Readable'.at >= Readable.at)
<1>1. /\ 1 \in DOMAIN ioq /\ Head(ioq) = ioq[1]
      /\ UNCHANGED <<phase, prefs, clock, backup, waiting, jobs, ioq>>
  BY WorkerCases
<1>2. /\ path \in Snapshots \cup {NoFile} /\ bak \in Snapshots \cup {NoFile}
      /\ clock \in Nat /\ landed \in BOOLEAN /\ NoFile \notin Snapshots
  BY ConstantsAssumption DEF TypeOK, FilesType, ContentType
<1>3. Pending' = Pending /\ Pending \subseteq Snapshots
  BY <1>1, PendingType DEF Pending, Posted
<1>4. Idle' /\ OneStage' /\ PipeInOrder'
  <2>1. phase \notin {"down", "stopped"}
    BY <1>1 DEF OrderInv, Idle
  <2>2. Idle'
    BY <2>1, <1>1 DEF Idle
  <2>3. OneStage'
    BY <1>1 DEF OrderInv, OneStage, Posted
  <2>4. PipeInOrder'
    BY <1>1 DEF OrderInv, PipeInOrder, Ordered, OrderedOps, OpsBefore, Posted
  <2> QED
    BY <2>2, <2>3, <2>4
<1>5. CASE /\ Head(ioq).op = "write"
           /\ path' = Head(ioq).data /\ landed' = TRUE /\ bak' = bak
  <2> DEFINE h == Head(ioq).data
  <2>1. 1 \in Posted(ioq) /\ h = ioq[1].data
    BY <1>1, <1>5 DEF Posted
  <2>2. h \in Pending /\ h \in Snapshots /\ InTime(h)
    <3>1. h \in Pending
      BY <2>1 DEF Pending
    <3> QED
      BY <3>1, <1>3 DEF OrderInv, PendingInTime
  <2>3. \A s \in Pending : Precedes(h, s)
    <3>1. ASSUME NEW i \in Posted(ioq) PROVE Precedes(h, ioq[i].data)
      <4>1. CASE i = 1
        BY <4>1, <2>1, <2>2 DEF Precedes, Snapshots
      <4>2. CASE i # 1
        <5>1. i \in Nat /\ 1 < i
          BY <4>2 DEF Posted, TypeOK, PipeType
        <5> QED
          BY <5>1, <2>1 DEF OrderInv, PipeInOrder, OrderedOps
      <4> QED
        BY <4>1, <4>2
    <3>2. \A i \in DOMAIN jobs : Precedes(h, jobs[i])
      BY <2>1 DEF OrderInv, PipeInOrder, OpsBefore
    <3>3. DOMAIN waiting = {}
      <4>1. waiting = <<>>
        BY <2>1 DEF OrderInv, OneStage
      <4> QED
        BY <4>1
    <3> HIDE DEF h
    <3> QED
      BY <3>1, <3>2, <3>3 DEF Pending
  <2> HIDE DEF h
  <2>4. path' = h
    BY <1>5 DEF h
  <2>5. PendingInTime'
    <3> SUFFICES ASSUME NEW s \in Pending PROVE InTime(s)'
      BY <1>3 DEF PendingInTime
    <3>1. InTime(s) /\ s \in Snapshots /\ Precedes(h, s)
      BY <1>3, <2>3 DEF OrderInv, PendingInTime
    <3> QED
      BY <3>1, <2>2, <2>4, <1>1, <1>2, <1>5 DEF InTime, Precedes, Snapshots
  <2>6. FilesInTime'
    BY <2>2, <2>4, <1>1, <1>2, <1>5 DEF OrderInv, FilesInTime, InTime
  <2>7. landed => Precedes(path, path')
    BY <2>2, <2>4 DEF InTime
  <2>8. Readable # NoFile => Readable' # NoFile /\ Readable'.at >= Readable.at
    BY <2>2, <2>4, <1>2 DEF Readable, InTime, Snapshots
  <2> QED
    BY <1>4, <2>5, <2>6, <2>7, <2>8 DEF OrderInv
<1>6. CASE \/ /\ Head(ioq).op = "move"
              /\ path' = NoFile /\ landed' = FALSE
              /\ bak' = IF path = NoFile THEN bak ELSE path
           \/ /\ Head(ioq).op = "removePath"
              /\ path' = NoFile /\ landed' = FALSE /\ bak' = bak
           \/ /\ Head(ioq).op = "removeBak"
              /\ bak' = NoFile /\ UNCHANGED <<path, landed>>
           \/ UNCHANGED <<path, bak, landed>>
  <2>1. /\ path' \in {path, NoFile} /\ bak' \in {path, bak, NoFile}
        /\ landed' => landed /\ path' = path
    BY <1>6
  <2>2. PendingInTime'
    <3> SUFFICES ASSUME NEW s \in Pending PROVE InTime(s)'
      BY <1>3 DEF PendingInTime
    <3>1. InTime(s)
      BY DEF OrderInv, PendingInTime
    <3> QED
      BY <3>1, <2>1, <1>1 DEF InTime, Precedes
  <2>3. FilesInTime'
    BY <2>1, <1>1 DEF OrderInv, FilesInTime
  <2>4. landed /\ landed' => Precedes(path, path')
    <3> SUFFICES ASSUME landed, landed' PROVE Precedes(path, path')
      OBVIOUS
    <3>1. path' = path /\ path \in Snapshots
      BY <2>1, <1>2 DEF OrderInv, FilesInTime
    <3> QED
      BY <3>1 DEF Precedes, Snapshots
  <2>5. Readable # NoFile /\ Readable' # Readable => Removing
    BY <1>6 DEF Readable, Removing, WorkerStep
  <2> QED
    BY <1>4, <2>2, <2>3, <2>4, <2>5 DEF OrderInv
<1> QED
  BY <1>5, <1>6, WorkerCases

\* Every step of the program preserves the invariant.
LEMMA NextInOrder ==
  ASSUME TypeOK, OrderInv, [Next]_vars, MaxFlips = 0
  PROVE  /\ OrderInv'
         /\ ~WorkerStep => UNCHANGED files
<1>1. clock \in Nat /\ live \in Contents /\ prefs \in PrefValues /\ flips \in Nat
  BY DEF TypeOK, ContentType, PrefsType, HistoryType
<1> USE DEF files, prefVars, content, pipe, quitting, bounds, history
<1>2. CASE Activity
  <2>1. clock' \in Nat /\ clock' >= clock
    BY <1>1, <1>2 DEF Activity
  <2>2. UNCHANGED <<ioq, jobs, waiting, backup, files, landed, prefs, phase>>
    BY <1>2 DEF Activity
  <2> QED
    BY <2>1, <2>2, Undisturbed
<1>3. CASE TimerFires
  <2>1. /\ phase \in {"running", "granted"} /\ SaveNow(live)
        /\ UNCHANGED <<clock, phase, files, landed>>
    BY <1>3 DEF TimerFires
  <2> QED
    BY <1>1, <2>1, SaveNowInOrder
<1>4. CASE IntervalChanged
  <2>1. phase \in {"running", "granted"} /\ UNCHANGED <<clock, phase, files, landed>>
    BY <1>4 DEF IntervalChanged
  <2>2. SaveNow(live) \/ UNCHANGED <<prefVars, collected, pipe>>
    BY <1>4 DEF IntervalChanged
  <2>3. CASE SaveNow(live)
    BY <1>1, <2>1, <2>3, SaveNowInOrder
  <2>4. CASE UNCHANGED <<prefVars, collected, pipe>>
    BY <1>1, <2>1, <2>4, Undisturbed
  <2> QED
    BY <2>2, <2>3, <2>4
<1>5. CASE PurgeDomain
  <2>1. /\ phase = "running" /\ clock' = clock + 1
        /\ live' = [live EXCEPT !.tabs = clock + 1]
        /\ UNCHANGED <<phase, files, landed>>
    BY <1>5 DEF PurgeDomain
  <2>2. live' \in Contents
    BY ONLY <1>1, <2>1 DEF Contents
  <2>3. PICK c \in Contents : c = live'
    BY <2>2
  <2>4. SaveNow(c)
    BY <1>5, <2>3 DEF PurgeDomain, SaveNow, Collect
  <2>5. clock' \in Nat /\ clock' >= clock
    BY <1>1, <2>1
  <2> QED
    BY <2>1, <2>4, <2>5, SaveNowInOrder
<1>6. CASE SetResumeFromCrash
  BY <1>1, <1>6 DEF SetResumeFromCrash
<1>7. CASE Purge
  <2>1. /\ phase = "running" /\ ioq' = Append(ioq, Op("removePath"))
        /\ clock' = clock + 1
        /\ UNCHANGED <<jobs, waiting, backup, files, landed, prefs, phase>>
    BY <1>7 DEF Purge
  <2> QED
    BY <1>1, <2>1, RemovalPosted
<1>8. CASE PurgeSaveFires
  <2>1. /\ phase \in {"running", "granted"} /\ SaveNow(live)
        /\ UNCHANGED <<clock, phase, files, landed>>
    BY <1>8 DEF PurgeSaveFires
  <2> QED
    BY <1>1, <2>1, SaveNowInOrder
<1>9. CASE ShutdownPurge
  <2>1. /\ phase = "quit"
        /\ UNCHANGED <<clock, jobs, waiting, backup, files, landed, prefs, phase>>
        /\ ioq' \in {ioq, Append(ioq, Op("removePath"))}
    BY <1>9 DEF ShutdownPurge
  <2>2. CASE ioq' = ioq
    BY <1>1, <2>1, <2>2, Undisturbed
  <2>3. CASE ioq' = Append(ioq, Op("removePath"))
    BY <1>1, <2>1, <2>3, RemovalPosted
  <2> QED
    BY <2>1, <2>2, <2>3
<1>10. CASE QuitRequest \/ QuitAnswer
  <2>1. /\ UNCHANGED <<clock, ioq, jobs, waiting, backup, files, landed>>
    BY <1>10 DEF QuitRequest, QuitAnswer
  <2>2. prefs'.crash = prefs.crash /\ phase' \in {phase, "granted"}
    BY <1>1, <1>10 DEF QuitRequest, QuitAnswer, Granted, PrefValues
  <2> QED
    BY <1>1, <2>1, <2>2, Undisturbed
<1>11. CASE QuitApplication
  <2> DEFINE once == IF quitKind = "restart" THEN TRUE
                     ELSE IF onceOnShutdown = {} THEN prefs.once
                     ELSE CHOOSE o \in onceOnShutdown : TRUE
             p == [prefs EXCEPT !.once = once]
             lst == IF quitKind = "restart" THEN last ELSE 0
  <2>1. p \in PrefValues /\ p.crash = prefs.crash
    <3>1. prefs.once \in BOOLEAN /\ onceOnShutdown \in OnceValues
      BY DEF PrefValues, TypeOK, PrefsType
    <3>2. once \in BOOLEAN
      BY <3>1 DEF OnceValues
    <3> HIDE DEF once
    <3> QED
      BY <1>1, <3>2 DEF PrefValues
  <2>2. /\ lst \in Nat /\ last' = lst /\ collected \in Contents
        /\ phase = "granted" /\ phase' = "quit" /\ UNCHANGED <<clock, files, landed>>
    BY <1>11 DEF QuitApplication, TypeOK, ContentType
  <2>3. SaveState("quit", collected, p, onceOnShutdown, lst, ioq)
    BY <1>11, <2>2, Zenon DEF QuitApplication
  <2> HIDE DEF p, lst
  <2> QED
    BY <1>1, <2>1, <2>2, <2>3, SaveStateInOrder
<1>12. CASE Exit \/ Crash
  <2>1. /\ phase' = "down" /\ UNCHANGED <<clock, files>>
        /\ ioq' = <<>> /\ jobs' = <<>> /\ waiting' = <<>> /\ landed' = FALSE
    BY <1>12 DEF Exit, Crash, Fresh
  <2>2. Idle' /\ OneStage' /\ PipeInOrder'
    BY <2>1 DEF Idle, OneStage, PipeInOrder, Posted, Ordered, OrderedOps, OpsBefore
  <2>3. PendingInTime'
    BY <2>1 DEF PendingInTime, Pending, Posted
  <2>4. FilesInTime'
    BY <2>1 DEF OrderInv, FilesInTime
  <2> QED
    BY <2>1, <2>2, <2>3, <2>4 DEF OrderInv
<1>13. CASE FlushPrefs
  <2>1. UNCHANGED <<ioq, jobs, waiting, backup, files, landed, prefs, phase, clock>>
    BY <1>13 DEF FlushPrefs
  <2> QED
    BY <1>1, <2>1, Undisturbed
<1>14. CASE Startup
  <2>1. /\ UNCHANGED <<ioq, jobs, waiting, backup, files, landed, clock>>
        /\ phase = "down" /\ phase' = "stopped"
    BY <1>14 DEF Startup
  <2> QED
    BY <1>1, <2>1, Undisturbed
<1>15. CASE FirstWindow
  <2>1. /\ phase = "stopped" /\ phase' = "running" /\ UNCHANGED <<clock, files, landed>>
        /\ restore.what \in Contents /\ last \in Nat
    BY <1>15 DEF FirstWindow, TypeOK, ContentType
  <2>2. CASE restore.kind = "none"
    <3>1. UNCHANGED <<prefVars, collected, pipe>>
      BY <1>15, <2>2 DEF FirstWindow
    <3> QED
      BY <1>1, <2>1, <3>1, Undisturbed
  <2>3. CASE restore.kind # "none"
    <3>1. SaveState("running", restore.what, prefs, onceOnShutdown, last, ioq)
      BY <1>15, <2>3 DEF FirstWindow
    <3> QED
      BY <1>1, <2>1, <3>1, SaveStateInOrder
  <2> QED
    BY <2>2, <2>3
<1>16. CASE RunJob
  BY <1>16, RunJobInOrder DEF RunJob
<1>17. CASE WorkerStep
  BY <1>17, WorkerInOrder
<1>18. CASE MainCompletion
  BY <1>18, MainCompletionInOrder DEF MainCompletion
<1>19. CASE UNCHANGED vars
  <2>1. UNCHANGED <<ioq, jobs, waiting, backup, files, landed, prefs, phase, clock>>
    BY <1>19 DEF vars
  <2> QED
    BY <1>1, <2>1, Undisturbed
<1> QED
  BY <1>2, <1>3, <1>4, <1>5, <1>6, <1>7, <1>8, <1>9, <1>10, <1>11, <1>12, <1>13,
     <1>14, <1>15, <1>16, <1>17, <1>18, <1>19 DEF Next

LEMMA InitInOrder == Init => OrderInv
BY DEF Init, OrderInv, Idle, OneStage, PipeInOrder, PendingInTime, FilesInTime,
       Pending, Posted, Ordered, OrderedOps, OpsBefore

\* The quit dialog belongs to a running browser.
DialogUp == prompt => phase = "running"

LEMMA NextDialogUp ==
  ASSUME DialogUp, [Next]_vars
  PROVE  DialogUp'
<1>1. CASE Exit \/ Crash
  BY <1>1 DEF Exit, Crash, Fresh, DialogUp
<1>2. CASE QuitRequest \/ QuitAnswer
  BY <1>2 DEF QuitRequest, QuitAnswer, Granted, DialogUp
<1>3. CASE Startup \/ FirstWindow \/ QuitApplication
  BY <1>3 DEF Startup, FirstWindow, QuitApplication, quitting, DialogUp
<1>4. CASE UNCHANGED <<phase, prompt>>
  BY <1>4 DEF DialogUp
<1> QED
  BY <1>1, <1>2, <1>3, <1>4
     DEF Next, vars, quitting, Activity, TimerFires, IntervalChanged, PurgeDomain,
         SetResumeFromCrash, Purge, PurgeSaveFires, ShutdownPurge, FlushPrefs,
         RunJob, WorkerStep, MainCompletion

\* What a step may do to the files, given the invariant.
LEMMA StepKeepsFiles ==
  ASSUME TypeOK, OrderInv, [Next]_vars, MaxFlips = 0
  PROVE  /\ landed /\ landed' => Precedes(path, path')
         /\ Readable # NoFile /\ Readable' # Readable
              => Removing \/ (Readable' # NoFile /\ Readable'.at >= Readable.at)
<1>1. CASE WorkerStep
  BY <1>1, WorkerInOrder
<1>2. CASE ~WorkerStep
  <2>1. path' = path /\ bak' = bak
    BY <1>2, NextInOrder DEF files
  <2>2. landed => path \in Snapshots
    BY DEF TypeOK, FilesType, OrderInv, FilesInTime
  <2> QED
    BY <2>1, <2>2 DEF Readable, Precedes, Snapshots
<1> QED
  BY <1>1, <1>2

\* While resume_from_crash stays as it is, and whatever else is saved, purged,
\* quit, crashes or fails, sessionstore.js is never overwritten with an older
\* state of the session, nor its final state with a running one.
THEOREM InOrder ==
  ASSUME MaxFlips = 0 PROVE Spec => SavesLandInOrder
<1>1. Init => TypeOK /\ OrderInv
  BY InitTypeOK, InitInOrder
<1>2. TypeOK /\ OrderInv /\ [Next]_vars => (TypeOK /\ OrderInv)'
  BY NextTypeOK, NextInOrder
<1>3. TypeOK /\ OrderInv /\ [Next]_vars
        => [landed /\ landed' => Precedes(path, path')]_vars
  BY StepKeepsFiles
<1> QED
  BY <1>1, <1>2, <1>3, PTL DEF Spec, SavesLandInOrder

\* What a start would read is there, and not older, after any step that is no
\* removal of a wipe: over saves, crashes, failures and any number of sessions.
THEOREM Durable ==
  ASSUME MaxFlips = 0 PROVE Spec => NeverLoses
<1>1. Init => TypeOK /\ OrderInv
  BY InitTypeOK, InitInOrder
<1>2. TypeOK /\ OrderInv /\ [Next]_vars => (TypeOK /\ OrderInv)'
  BY NextTypeOK, NextInOrder
<1>3. TypeOK /\ OrderInv /\ [Next]_vars
        => [Readable # NoFile /\ Readable' # Readable
              => \/ Removing
                 \/ Readable' # NoFile /\ Readable'.at >= Readable.at]_vars
  BY StepKeepsFiles
<1> QED
  BY <1>1, <1>2, <1>3, PTL DEF Spec, NeverLoses
-----------------------------------------------------------------------------
\* The refinement: SessionSave implements DurableSession, with the mapping Store.

Removals == {"removePath", "removeBak"}

\* What a start would read is a snapshot no later than now.
LEMMA ReadableType ==
  ASSUME TypeOK, OrderInv
  PROVE  /\ Readable \in Snapshots \cup {NoFile}
         /\ Readable # NoFile => Readable.at <= clock
         /\ NoFile \notin Snapshots /\ clock \in Nat
BY ConstantsAssumption
   DEF TypeOK, FilesType, ContentType, OrderInv, FilesInTime, Readable

\* A write or a move that is posted is no removal.
LEMMA PostedWiping ==
  ASSUME TypeOK, NEW o \in Ops, ioq' = Append(ioq, o)
  PROVE  /\ o.op \notin Removals => Wiping' = Wiping
         /\ o.op \in Removals => Wiping'
<1>1. PICK q \in Seq(Ops) : q = ioq
  BY DEF TypeOK, PipeType
<1>2. PICK r : r = ioq'
  OBVIOUS
<1>3. /\ DOMAIN r = DOMAIN q \cup {Len(q) + 1}
      /\ r[Len(q) + 1] = o
      /\ \A i \in DOMAIN q : r[i] = q[i]
  BY <1>1, <1>2
<1>4. /\ Wiping = \E i \in DOMAIN q : q[i].op \in Removals
      /\ Wiping' = \E i \in DOMAIN r : r[i].op \in Removals
  BY <1>1, <1>2 DEF Wiping, Removals
<1>5. (\E i \in DOMAIN r : r[i].op \in Removals)
        <=> (\E i \in DOMAIN q : q[i].op \in Removals) \/ o.op \in Removals
  BY <1>3
<1> QED
  BY <1>4, <1>5

\* saveState posts no removal.
LEMMA SaveStateWiping ==
  ASSUME TypeOK, NEW ph, NEW c, NEW p, NEW os, NEW lst,
         SaveState(ph, c, p, os, lst, ioq)
  PROVE  Wiping' = Wiping
<1>1. ioq' = ioq \/ ioq' = Append(ioq, Op("move"))
  BY DEF SaveState, SaveStateObject
<1>2. Op("move") \in Ops /\ Op("move").op \notin Removals
  BY OpType DEF Op, Removals
<1>3. CASE ioq' = ioq
  BY <1>3 DEF Wiping
<1> QED
  BY <1>1, <1>2, <1>3, PostedWiping

\* An operation that has been handled ends a wipe or does not, but asks for none.
LEMMA CompletionWiping ==
  ASSUME TypeOK, MainCompletion
  PROVE  Wiping' => Wiping
<1>1. PICK q \in Seq(Ops) : q = ioq /\ q # <<>>
  BY DEF MainCompletion, TypeOK, PipeType
<1>2. PICK r : r = ioq'
  OBVIOUS
<1>3. \/ r = Tail(q)
      \/ q[1].op = "removePath" /\ r = Append(Tail(q), Op("removeBak"))
  BY <1>1, <1>2 DEF MainCompletion
<1>4. /\ Tail(q) \in Seq(Ops) /\ DOMAIN Tail(q) = 1..(Len(q) - 1)
      /\ \A i \in DOMAIN Tail(q) : i + 1 \in DOMAIN q /\ Tail(q)[i] = q[i + 1]
  BY <1>1
<1>5. (\E i \in DOMAIN r : r[i].op \in Removals)
        => (\E i \in DOMAIN q : q[i].op \in Removals)
  <2>1. CASE r = Tail(q)
    BY <2>1, <1>4
  <2>2. CASE q[1].op = "removePath"
    BY <2>2, <1>1 DEF Removals
  <2> QED
    BY <1>3, <2>1, <2>2
<1> QED
  BY <1>1, <1>2, <1>5 DEF Wiping, Removals

\* A save, or any step that leaves the files, the wipe and the offer alone, is a
\* stutter of the abstract store, or a change of the session.
LEMMA QuietStep ==
  ASSUME TypeOK, UNCHANGED <<path, bak, restore>>, Wiping' = Wiping,
         (phase' # "down") = (phase # "down"),
         (phase # "down" /\ clock' = clock + 1) \/ clock' = clock
  PROVE  Store!Next \/ UNCHANGED Store!vars
<1>1. Readable' = Readable /\ Offered' = Offered
  BY DEF Readable, Offered
<1>2. CASE clock' = clock
  BY <1>1, <1>2 DEF Store!vars
<1>3. CASE phase # "down" /\ clock' = clock + 1
  BY <1>1, <1>3 DEF Store!Next, Store!Change
<1> QED
  BY <1>2, <1>3

\* What a wipe uncovers is older than what it takes away.
BackupOlder == path # NoFile /\ bak # NoFile => bak.at <= path.at

LEMMA NextBackupOlder ==
  ASSUME TypeOK, OrderInv, BackupOlder, [Next]_vars, MaxFlips = 0
  PROVE  BackupOlder'
<1>1. CASE ~WorkerStep
  BY <1>1, NextInOrder DEF BackupOlder, files
<1>2. CASE WorkerStep
  <2>1. CASE /\ Head(ioq).op = "write"
             /\ path' = Head(ioq).data /\ landed' = TRUE /\ bak' = bak
    <3>1. Head(ioq).data \in Pending
      BY <1>2, <2>1, WorkerCases DEF Pending, Posted
    <3>2. InTime(Head(ioq).data)
      BY <3>1 DEF OrderInv, PendingInTime
    <3> QED
      BY <2>1, <3>2 DEF InTime, BackupOlder
  <2>2. CASE path' = NoFile \/ bak' = NoFile \/ UNCHANGED <<path, bak>>
    BY <2>2 DEF BackupOlder
  <2> QED
    BY <1>2, <2>1, <2>2, WorkerCases
<1> QED
  BY <1>1, <1>2

LEMMA RemovalShowsOlder ==
  ASSUME TypeOK, OrderInv, BackupOlder, WorkerStep, Removing,
         Readable # NoFile, Readable' # Readable
  PROVE  Readable' = NoFile \/ (Readable' \in Snapshots /\ Readable'.at <= Readable.at)
<1>1. bak \in Snapshots \cup {NoFile}
  BY DEF TypeOK, FilesType
<1>2. \/ path' = NoFile /\ bak' = bak
      \/ path' = path /\ bak' = NoFile
      \/ UNCHANGED <<path, bak>>
  BY WorkerCases DEF Removing
<1> QED
  BY <1>1, <1>2 DEF Readable, BackupOlder

\* What the worker does to the files is a save, a step of a wipe, or unseen.
LEMMA WorkerRefines ==
  ASSUME TypeOK, OrderInv, BackupOlder, WorkerStep, MaxFlips = 0
  PROVE  Store!Next \/ UNCHANGED Store!vars
<1>1. /\ 1 \in DOMAIN ioq /\ Head(ioq) = ioq[1]
      /\ UNCHANGED <<phase, clock, ioq, restore>>
  BY WorkerCases DEF WorkerStep, content
<1>2. Wiping' = Wiping /\ Offered' = Offered
  BY <1>1 DEF Wiping, Offered
<1>3. phase # "down" /\ phase' # "down"
  BY <1>1 DEF OrderInv, Idle
<1>4. /\ Readable' \in Snapshots \cup {NoFile}
      /\ Readable' # NoFile => Readable'.at <= clock'
  <2>1. TypeOK' /\ OrderInv'
    BY NextTypeOK, WorkerInOrder DEF Next
  <2> QED
    BY <2>1 DEF TypeOK, FilesType, OrderInv, FilesInTime, Readable
<1>5. CASE Readable' = Readable
  BY <1>1, <1>2, <1>3, <1>5 DEF Store!vars
<1>6. CASE Readable' # Readable /\ ~Removing
  <2>1. Readable' # NoFile /\ (Readable # NoFile => Readable'.at >= Readable.at)
    BY <1>6, StepKeepsFiles DEF Next
  <2>2. Readable' \in Snapshots
    BY <2>1, <1>4
  <2>3. Readable'.at <= clock
    BY <2>1, <1>1, <1>4
  <2>4. Readable # NoFile => Readable \in Snapshots
    BY ReadableType
  <2>5. Readable # NoFile => Readable.at <= Readable'.at
    BY <2>1, <2>2, <2>4 DEF Snapshots
  <2> QED
    BY <2>2, <2>3, <2>5, <1>1, <1>2, <1>3 DEF Store!Next, Store!Save
<1>7. CASE Readable' # Readable /\ Removing
  <2>1. Wiping
    BY <1>1, <1>7 DEF Removing, Wiping
  <2>2. Readable # NoFile
    BY <1>1, <1>7, WorkerCases DEF Removing, Readable
  <2>3. Readable' = NoFile \/ (Readable' \in Snapshots /\ Readable'.at <= Readable.at)
    BY <2>2, <1>7, RemovalShowsOlder
  <2> QED
    BY <2>1, <2>2, <2>3, <1>1, <1>2, <1>3 DEF Store!Next, Store!Wipe
<1> QED
  BY <1>5, <1>6, <1>7

\* A content with one field changed.
LEMMA PageSet ==
  ASSUME NEW r \in Contents
  PROVE  [r EXCEPT !.page = TRUE] = [tabs |-> r.tabs, pins |-> r.pins, page |-> TRUE]
<1>1. PICK w \in Contents : w = [r EXCEPT !.page = TRUE]
  BY DEF Contents
<1>2. w.page = TRUE /\ w.tabs = r.tabs /\ w.pins = r.pins
  BY <1>1 DEF Contents
<1>3. w = [tabs |-> w.tabs, pins |-> w.pins, page |-> w.page]
  BY DEF Contents
<1> QED
  BY <1>1, <1>2, <1>3

LEMMA PinsSet ==
  ASSUME NEW r \in Contents, NEW n \in Nat
  PROVE  [r EXCEPT !.pins = n] = [tabs |-> r.tabs, pins |-> n, page |-> r.page]
BY DEF Contents

\* A start offers what is kept, or a part of it.
LEMMA StartRefines ==
  ASSUME TypeOK, OrderInv, Startup
  PROVE  Store!Next
<1>1. /\ phase = "down" /\ phase' = "stopped"
      /\ UNCHANGED <<path, bak, clock, ioq>>
  BY DEF Startup, files, pipe
<1>2. Readable' = Readable /\ Wiping' = Wiping
  BY <1>1 DEF Readable, Wiping
<1>3. CASE Readable = NoFile
  <2>1. Offered' = NoFile
    BY <1>3 DEF Startup, Offered, Nothing
  <2> QED
    BY <2>1, <1>1, <1>2, <1>3 DEF Store!Next, Store!Start, Store!Parts
<1>4. CASE Readable # NoFile
  <2>1. PICK s \in Snapshots : s = Readable
    BY <1>4, ReadableType
  <2>2. Offered' \in {NoFile,
                     [tabs |-> s.tabs, pins |-> s.pins, page |-> s.page],
                     [tabs |-> s.tabs, pins |-> s.pins, page |-> TRUE],
                     [tabs |-> 0, pins |-> s.pins, page |-> FALSE]}
    <3>1. \/ restore'.kind = "none"
          \/ restore'.what \in {ContentOf(s), [ContentOf(s) EXCEPT !.page = TRUE]}
          \/ /\ restore'.what = [Blank EXCEPT !.pins = PinnedPart(s)]
             /\ PinnedPart(s) # 0
      BY <1>4, <2>1 DEF Startup
    <3>2. /\ s.tabs \in Nat /\ s.pins \in Nat /\ s.page \in BOOLEAN
          /\ PinnedPart(s) \in Nat
          /\ PinnedPart(s) # 0 => PinnedPart(s) = s.pins
      BY DEF Snapshots, PinnedPart
    <3>3. ContentOf(s) = [tabs |-> s.tabs, pins |-> s.pins, page |-> s.page]
      BY DEF ContentOf
    <3>4. ContentOf(s) \in Contents /\ Blank \in Contents
      BY <3>2, <3>3 DEF Contents, Blank
    <3>5. [ContentOf(s) EXCEPT !.page = TRUE]
            = [tabs |-> s.tabs, pins |-> s.pins, page |-> TRUE]
      BY <3>3, <3>4, PageSet
    <3>6. [Blank EXCEPT !.pins = PinnedPart(s)]
            = [tabs |-> 0, pins |-> PinnedPart(s), page |-> FALSE]
      BY <3>2, <3>4, PinsSet DEF Blank
    <3> QED
      BY <3>1, <3>2, <3>3, <3>5, <3>6 DEF Offered
  <2>3. Offered' \in Store!Parts(Readable)
    BY <2>1, <2>2, <1>4 DEF Store!Parts
  <2> QED
    BY <2>3, <1>1, <1>2 DEF Store!Next, Store!Start
<1> QED
  BY <1>3, <1>4

\* Every step is a step of the abstract store or a stutter of it.
LEMMA StepRefines ==
  ASSUME TypeOK, OrderInv, BackupOlder, DialogUp, [Next]_vars, MaxFlips = 0
  PROVE  Store!Next \/ UNCHANGED Store!vars
<1>1. clock \in Nat /\ flips \in Nat /\ clock + 1 # clock
  BY DEF TypeOK, ContentType, HistoryType
<1> USE DEF files, prefVars, content, pipe, quitting, bounds, history
<1>2. CASE Activity
  <2>1. Wiping' = Wiping
    BY <1>2 DEF Activity, Wiping
  <2> QED
    BY <1>2, <2>1, QuietStep DEF Activity
<1>3. CASE TimerFires
  <2>1. Wiping' = Wiping
    BY <1>3, SaveStateWiping DEF TimerFires, SaveNow
  <2> QED
    BY <1>3, <2>1, QuietStep DEF TimerFires
<1>4. CASE IntervalChanged
  <2>1. Wiping' = Wiping
    BY <1>4, SaveStateWiping DEF IntervalChanged, SaveNow, Wiping
  <2> QED
    BY <1>4, <2>1, QuietStep DEF IntervalChanged
<1>5. CASE PurgeDomain
  <2>1. Wiping' = Wiping
    BY <1>5, SaveStateWiping DEF PurgeDomain, SaveNow
  <2> QED
    BY <1>5, <2>1, QuietStep DEF PurgeDomain
<1>6. CASE SetResumeFromCrash
  BY <1>1, <1>6 DEF SetResumeFromCrash
<1>7. CASE Purge \/ ShutdownPurge
  <2>1. /\ phase # "down" /\ phase' = phase
        /\ UNCHANGED <<path, bak, restore>> /\ clock' \in {clock, clock + 1}
    BY <1>7 DEF Purge, ShutdownPurge
  <2>2. CASE ioq' = Append(ioq, Op("removePath"))
    <3>1. Op("removePath") \in Ops /\ Op("removePath").op \in Removals
      BY OpType DEF Op, Removals
    <3>2. Wiping'
      BY <3>1, <2>2, PostedWiping
    <3>3. Readable' = Readable /\ Offered' = Offered
      BY <2>1 DEF Readable, Offered
    <3> QED
      BY <3>2, <3>3, <2>1 DEF Store!Next, Store!AskWipe
  <2>3. CASE ioq' = ioq
    <3>1. Wiping' = Wiping
      BY <2>3 DEF Wiping
    <3> QED
      BY <3>1, <2>1, QuietStep
  <2> QED
    BY <1>7, <2>2, <2>3 DEF Purge, ShutdownPurge
<1>8. CASE PurgeSaveFires
  <2>1. Wiping' = Wiping
    BY <1>8, SaveStateWiping DEF PurgeSaveFires, SaveNow
  <2> QED
    BY <1>8, <2>1, QuietStep DEF PurgeSaveFires
<1>9. CASE QuitRequest \/ QuitAnswer
  <2>1. Wiping' = Wiping
    BY <1>9 DEF QuitRequest, QuitAnswer, Wiping
  <2>2. (phase' # "down") = (phase # "down")
    BY <1>9 DEF QuitRequest, QuitAnswer, Granted, DialogUp
  <2> QED
    BY <1>9, <2>1, <2>2, QuietStep DEF QuitRequest, QuitAnswer
<1>10. CASE QuitApplication
  <2>1. PICK ph, c, p, os, lst : SaveState(ph, c, p, os, lst, ioq)
    BY <1>10, Zenon DEF QuitApplication
  <2>2. Wiping' = Wiping
    BY <2>1, SaveStateWiping
  <2> QED
    BY <1>10, <2>2, QuietStep DEF QuitApplication
<1>11. CASE Exit \/ Crash
  <2>1. /\ phase # "down" /\ phase' = "down" /\ UNCHANGED <<clock, path, bak>>
        /\ ioq' = <<>> /\ restore' = Nothing
    BY <1>11 DEF Exit, Crash, Fresh
  <2>2. Readable' = Readable /\ ~Wiping' /\ Offered' = NoFile
    BY <2>1 DEF Readable, Wiping, Offered, Nothing
  <2> QED
    BY <2>1, <2>2 DEF Store!Next, Store!End
<1>12. CASE FlushPrefs
  <2>1. Wiping' = Wiping
    BY <1>12 DEF FlushPrefs, Wiping
  <2> QED
    BY <1>12, <2>1, QuietStep DEF FlushPrefs
<1>13. CASE Startup
  BY <1>13, StartRefines
<1>14. CASE FirstWindow
  <2>1. Wiping' = Wiping
    BY <1>14, SaveStateWiping DEF FirstWindow, Wiping
  <2> QED
    BY <1>14, <2>1, QuietStep DEF FirstWindow
<1>15. CASE RunJob
  <2>1. jobs \in Seq(Snapshots) /\ jobs # <<>>
    BY <1>15 DEF RunJob, TypeOK, PipeType
  <2>2. Head(jobs) \in Snapshots
    BY <2>1
  <2>3. WriteOp(Head(jobs)) \in Ops /\ WriteOp(Head(jobs)).op \notin Removals
    BY <2>2, OpType DEF WriteOp, Removals
  <2>4. Wiping' = Wiping
    BY <1>15, <2>3, PostedWiping DEF RunJob
  <2> QED
    BY <1>15, <2>4, QuietStep DEF RunJob
<1>16. CASE WorkerStep
  BY <1>16, WorkerRefines
<1>17. CASE MainCompletion
  <2>1. phase # "down"
    BY <1>17 DEF MainCompletion, OrderInv, Idle, TypeOK, PipeType
  <2>2. UNCHANGED <<phase, path, bak, restore, clock>>
    BY <1>17 DEF MainCompletion
  <2>3. CASE Wiping' = Wiping
    BY <2>2, <2>3, QuietStep
  <2>4. CASE Wiping' # Wiping
    <3>1. Wiping /\ ~Wiping'
      BY <1>17, <2>4, CompletionWiping DEF Wiping
    <3>2. Readable' = Readable /\ Offered' = Offered
      BY <2>2 DEF Readable, Offered
    <3> QED
      BY <3>1, <3>2, <2>1, <2>2 DEF Store!Next, Store!EndWipe
  <2> QED
    BY <2>3, <2>4
<1>18. CASE UNCHANGED vars
  <2>1. Wiping' = Wiping
    BY <1>18 DEF vars, Wiping
  <2> QED
    BY <1>18, <2>1, QuietStep DEF vars
<1> QED
  BY <1>2, <1>3, <1>4, <1>5, <1>6, <1>7, <1>8, <1>9, <1>10, <1>11, <1>12, <1>13,
     <1>14, <1>15, <1>16, <1>17, <1>18 DEF Next

LEMMA InitRefines == Init => Store!Init /\ BackupOlder /\ DialogUp
BY DEF DialogUp, Init, Store!Init, Readable, Wiping, Offered, Nothing, BackupOlder

\* The save protocol implements the abstract store: what is kept only gets newer
\* unless a wipe is under way, a crash or a quit leaves it alone, a start offers
\* it or a part of it; over any number of saves, purges, failures and sessions.
THEOREM Implements ==
  ASSUME MaxFlips = 0 PROVE Spec => StoresDurably
<1> DEFINE IInv == TypeOK /\ OrderInv /\ BackupOlder /\ DialogUp
<1>1. Init => IInv /\ Store!Init
  BY InitTypeOK, InitInOrder, InitRefines
<1>2. IInv /\ [Next]_vars => IInv'
  BY NextTypeOK, NextInOrder, NextBackupOlder, NextDialogUp
<1>3. IInv /\ [Next]_vars => [Store!Next]_(Store!vars)
  BY StepRefines
<1> QED
  BY <1>1, <1>2, <1>3, PTL DEF Spec, StoresDurably, Store!Spec
=============================================================================
