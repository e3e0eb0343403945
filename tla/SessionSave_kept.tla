--------------------------- MODULE SessionSave_kept ---------------------------
(***************************************************************************)
(* What is saved is what the next start gets, while resume_from_crash      *)
(* stays as it is and file operations succeed: no change is left without   *)
(* a save, and a restart and a promised quit resume the session that was   *)
(* saved.                                                                  *)
(*                                                                         *)
(* The heart is Ends(s): when everything posted is done, sessionstore.js   *)
(* holds s.  A save makes it true of what it saves, and the promise        *)
(* reactions, the worker and its replies keep it.                          *)
(*                                                                         *)
(* The last four parts are about what crosses the end of a session, or a   *)
(* switch of resume_from_crash:                                            *)
(*                                                                         *)
(* 1. A purge settles: nothing older than the purge is left in a file.     *)
(* 2. A session that keeps crashing is not recovered without asking: the   *)
(*    count of crashes that the files carry is never behind the crashes    *)
(*    that happened, through the move to the backup, wipes and crashes.    *)
(* 3. A quit that promised nothing is not followed by a resumed session:   *)
(*    the value of resume_session_once that saving pinned tabs borrows is  *)
(*    given back before the process ends, also when resume_from_crash is   *)
(*    switched on and off around it, or a file operation fails.            *)
(* 4. With crash recovery off the file holds pinned tabs only, however     *)
(*    often recovery was switched: the removal that switching it off posts *)
(*    comes behind every write with other tabs.                            *)
(***************************************************************************)
EXTENDS SessionSave_proofs

\* The operations the worker has not done.
Undone == {i \in DOMAIN ioq : i > 1 \/ reply = "none"}

Ends(s) ==
  /\ waiting # <<>> => waiting[Len(waiting)] = s
  /\ waiting = <<>> /\ jobs # <<>> => jobs[Len(jobs)] = s
  /\ waiting = <<>> /\ jobs = <<>> =>
       \/ \E i \in Undone : /\ ioq[i] = WriteOp(s)
                            /\ \A k \in DOMAIN ioq : k > i => ioq[k].op = "removeBak"
       \/ path = s /\ \A k \in Undone : ioq[k].op = "removeBak"

Moves(q) == {i \in DOMAIN q : q[i].op = "move"}

\* Nothing failed, writes wait as long as the backup is being made, and it is
\* made once.
Flow ==
  /\ reply # "failed" /\ backup # "failed"
  /\ waiting # <<>> => backup = "pending"
  /\ Moves(ioq) # {} => waiting # <<>>
  /\ \A i, k \in Moves(ioq) : i = k

-----------------------------------------------------------------------------
\* Saving.

LEMMA SaveObjectEnds ==
  ASSUME TypeOK, OrderInv, Flow, NEW s \in Snapshots,
         SaveStateObject(s, ioq, prefs.crash), reply' = reply
  PROVE  Flow' /\ Ends(s)'
<1>1. ioq \in Seq(Ops) /\ jobs \in Seq(Snapshots) /\ waiting \in Seq(Snapshots)
  BY DEF TypeOK, PipeType
<1>2. prefs.crash \/ waiting = <<>>
  BY DEF OrderInv, OneStage
<1>3. CASE jobs' = Append(jobs, s) /\ ioq' = ioq /\ waiting = <<>>
             /\ UNCHANGED <<backup, waiting>>
  <2>1. jobs' # <<>> /\ jobs'[Len(jobs')] = s
    BY <1>1, <1>3
  <2>2. Flow'
    BY <1>3 DEF Flow, Moves
  <2> QED
    BY <1>3, <2>1, <2>2 DEF Ends
<1>4. CASE waiting' = Append(waiting, s) /\ ioq' = ioq /\ backup = "pending"
             /\ UNCHANGED <<backup, jobs>>
  <2>1. waiting' # <<>> /\ waiting'[Len(waiting')] = s
    BY <1>1, <1>4
  <2>2. Flow'
    BY <1>4, <2>1 DEF Flow, Moves
  <2> QED
    BY <2>1, <2>2 DEF Ends
<1>5. CASE waiting' = Append(waiting, s) /\ ioq' = Append(ioq, Op("move"))
             /\ backup = "none" /\ backup' = "pending"
  <2>1. waiting' # <<>> /\ waiting'[Len(waiting')] = s
    BY <1>1, <1>5
  <2>2. Moves(ioq) = {}
    BY <1>5 DEF Flow
  <2>3. Moves(ioq') \subseteq {Len(ioq) + 1}
    BY <2>2, <1>1, <1>5 DEF Moves
  <2>4. Flow'
    BY <2>1, <2>3, <1>5 DEF Flow
  <2> QED
    BY <2>1, <2>4 DEF Ends
<1> QED
  BY <1>2, <1>3, <1>4, <1>5 DEF SaveStateObject, Flow

\* A save of everything is what the file will hold.  With crash recovery off
\* a running browser saves its pinned tabs only.
LEMMA SaveStateEnds ==
  ASSUME TypeOK, OrderInv, Flow, clock' \in Nat, NEW ph, NEW c \in Contents,
         NEW p, NEW os, NEW lst \in Nat,
         SaveState(ph, c, p, os, lst, ioq), p.crash = prefs.crash
  PROVE  /\ Flow'
         /\ ph # "running" \/ prefs.crash
              => \E n \in Snapshots : n = Snapshot(c, ph, FALSE, lst) /\ Ends(n)'
<1>1. crashes \in Nat /\ reply' = reply
  BY DEF TypeOK, ContentType, SaveState
<1>2. \A b \in BOOLEAN : Snapshot(c, ph, b, lst) \in Snapshots
  BY <1>1, SnapshotType
<1>3. CASE ph = "running" /\ ~prefs.crash
  <2>1. CASE UNCHANGED <<ioq, jobs, waiting, backup>>
    <3>1. Flow'
      BY <2>1, <1>1 DEF Flow, Moves
    <3> QED
      BY <3>1, <1>3
  <2>2. CASE SaveStateObject(Snapshot(c, ph, TRUE, lst), ioq, prefs.crash)
    <3>1. PICK n \in Snapshots : n = Snapshot(c, ph, TRUE, lst)
      BY <1>2
    <3> QED
      BY <3>1, <2>2, <1>1, <1>3, SaveObjectEnds
  <2> QED
    BY <1>3, <2>1, <2>2 DEF SaveState
<1>4. CASE ~(ph = "running" /\ ~prefs.crash)
  <2>1. SaveStateObject(Snapshot(c, ph, FALSE, lst), ioq, prefs.crash)
    BY <1>4 DEF SaveState
  <2>2. PICK n \in Snapshots : n = Snapshot(c, ph, FALSE, lst)
    BY <1>2
  <2> QED
    BY <2>1, <2>2, <1>1, SaveObjectEnds
<1> QED
  BY <1>3, <1>4

-----------------------------------------------------------------------------
\* Promise reactions, the worker, its replies.

LEMMA RunJobEnds ==
  ASSUME TypeOK, Flow, RunJob
  PROVE  Flow' /\ \A s : Ends(s) => Ends(s)'
<1>1. /\ ioq \in Seq(Ops) /\ jobs \in Seq(Snapshots) /\ jobs # <<>>
      /\ waiting \in Seq(Snapshots) /\ (reply # "none" => ioq # <<>>)
      /\ Head(jobs) = jobs[1]
  BY DEF TypeOK, PipeType, RunJob
<1>2. /\ ioq' = Append(ioq, WriteOp(Head(jobs))) /\ jobs' = Tail(jobs)
      /\ UNCHANGED <<waiting, backup, reply, path>>
  BY DEF RunJob, files
<1>3. WriteOp(Head(jobs)) \in Ops /\ WriteOp(Head(jobs)).op = "write"
  BY <1>1, OpType DEF WriteOp
<1>4. /\ Len(ioq') = Len(ioq) + 1 /\ DOMAIN ioq' = 1..(Len(ioq) + 1)
      /\ ioq'[Len(ioq) + 1] = WriteOp(Head(jobs))
      /\ \A i \in 1..Len(ioq) : ioq'[i] = ioq[i]
      /\ DOMAIN ioq = 1..Len(ioq) /\ Len(ioq) \in Nat
  BY <1>1, <1>2, <1>3
<1>5. Moves(ioq') = Moves(ioq)
  BY <1>3, <1>4 DEF Moves
<1>6. Flow'
  BY <1>2, <1>5 DEF Flow
<1>7. ASSUME NEW s, Ends(s) PROVE Ends(s)'
  <2>1. CASE waiting # <<>>
    BY <2>1, <1>2, <1>7 DEF Ends
  <2>2. CASE waiting = <<>> /\ Tail(jobs) # <<>>
    <3>1. jobs[Len(jobs)] = s
      BY <2>2, <1>1, <1>7 DEF Ends
    <3>2. Tail(jobs)[Len(Tail(jobs))] = s
      BY <3>1, <2>2, <1>1
    <3>3. waiting' = <<>> /\ jobs' # <<>> /\ jobs'[Len(jobs')] = s
      BY <3>2, <2>2, <1>2
    <3> QED
      BY <3>3 DEF Ends
  <2>3. CASE waiting = <<>> /\ Tail(jobs) = <<>>
    <3>1. Len(jobs) = 1
      <4>1. Len(Tail(jobs)) = Len(jobs) - 1 /\ Len(jobs) \in Nat
        BY <1>1
      <4>2. Len(<<>>) = 0
        OBVIOUS
      <4>3. Len(Tail(jobs)) = 0
        BY ONLY <4>2, <2>3, Zenon
      <4> QED
        BY <4>1, <4>3
    <3>2. Head(jobs) = s
      BY <3>1, <2>3, <1>1, <1>7 DEF Ends
    <3>3. Len(ioq) + 1 \in Undone'
      <4>1. reply' # "none" => Len(ioq) > 0
        BY <1>1, <1>2
      <4> QED
        BY <4>1, <1>4 DEF Undone
    <3>4. \E i \in Undone' : /\ ioq'[i] = WriteOp(s)
                             /\ \A k \in DOMAIN ioq' : k > i => ioq'[k].op = "removeBak"
      BY <3>2, <3>3, <1>4
    <3>5. waiting' = <<>> /\ jobs' = <<>>
      BY <2>3, <1>2
    <3> QED
      BY <3>4, <3>5 DEF Ends, WriteOp
  <2> QED
    BY <2>1, <2>2, <2>3
<1> QED
  BY <1>6, <1>7

LEMMA WorkerEnds ==
  ASSUME TypeOK, Flow, WorkerStep, failures = 0, failures' = 0
  PROVE  Flow' /\ \A s : Ends(s) => Ends(s)'
<1>1. /\ ioq \in Seq(Ops) /\ ioq # <<>> /\ 1 \in DOMAIN ioq /\ Head(ioq) = ioq[1]
      /\ UNCHANGED <<backup, waiting, jobs, ioq>>
  BY DEF WorkerStep, TypeOK, PipeType
<1>2. reply = "none" /\ reply' = "ok"
  BY DEF WorkerStep
<1>3. /\ Head(ioq).op = "write" => path' = Head(ioq).data
      /\ Head(ioq).op = "removeBak" => path' = path
  BY <1>2 DEF WorkerStep
<1>4. Flow'
  BY <1>1, <1>2 DEF Flow, Moves
<1>5. ASSUME NEW s, Ends(s) PROVE Ends(s)'
  <2>1. CASE waiting # <<>> \/ jobs # <<>>
    BY <2>1, <1>1, <1>5 DEF Ends
  <2>2. CASE waiting = <<>> /\ jobs = <<>>
    <3>1. Undone' = Undone \ {1} /\ 1 \in Undone
      BY <1>1, <1>2 DEF Undone
    <3>2. CASE path = s /\ \A k \in Undone : ioq[k].op = "removeBak"
      BY <3>1, <3>2, <2>2, <1>1, <1>3 DEF Ends
    <3>3. ASSUME NEW i \in Undone, ioq[i] = WriteOp(s),
                 \A k \in DOMAIN ioq : k > i => ioq[k].op = "removeBak"
          PROVE  Ends(s)'
      <4>1. CASE i = 1
        <5>1. path' = s
          BY <4>1, <3>3, <1>1, <1>3 DEF WriteOp
        <5>2. \A k \in Undone' : ioq'[k].op = "removeBak"
          BY <4>1, <3>3, <1>1, <1>2 DEF Undone
        <5> QED
          BY <5>1, <5>2, <2>2, <1>1 DEF Ends
      <4>2. CASE i # 1
        <5>1. i \in Undone'
          BY <4>2, <3>1
        <5>2. \E j \in Undone' : /\ ioq'[j] = WriteOp(s)
                                 /\ \A k \in DOMAIN ioq' : k > j => ioq'[k].op = "removeBak"
          BY <5>1, <3>3, <1>1
        <5> QED
          BY <5>2, <2>2, <1>1 DEF Ends, WriteOp
      <4> QED
        BY <4>1, <4>2
    <3> QED
      BY <3>2, <3>3, <2>2, <1>5 DEF Ends
  <2> QED
    BY <2>1, <2>2
<1> QED
  BY <1>4, <1>5

LEMMA MainCompletionEnds ==
  ASSUME TypeOK, Flow, MainCompletion
  PROVE  Flow' /\ \A s : Ends(s) => Ends(s)'
<1>1. /\ ioq \in Seq(Ops) /\ ioq # <<>> /\ 1 \in DOMAIN ioq /\ Head(ioq) = ioq[1]
      /\ jobs \in Seq(Snapshots) /\ waiting \in Seq(Snapshots)
      /\ path' = path /\ reply = "ok" /\ reply' = "none"
  BY DEF MainCompletion, TypeOK, PipeType, Flow, files
<1>2. PICK q : q = ioq'
  OBVIOUS
<1>3. /\ q \in Seq(Ops) /\ DOMAIN q = 1..Len(q) /\ Len(q) \in Nat
      /\ \A i \in DOMAIN q : \/ i + 1 \in DOMAIN ioq /\ q[i] = ioq[i + 1]
                             \/ q[i].op = "removeBak" /\ i + 1 \notin DOMAIN ioq
      /\ \A i \in DOMAIN ioq : i > 1 => i - 1 \in DOMAIN q /\ q[i - 1] = ioq[i]
  <2>1. q = Tail(ioq) \/ q = Append(Tail(ioq), Op("removeBak"))
    BY <1>2 DEF MainCompletion
  <2>2. /\ Tail(ioq) \in Seq(Ops) /\ Len(Tail(ioq)) = Len(ioq) - 1
        /\ \A i \in 1..Len(Tail(ioq)) : Tail(ioq)[i] = ioq[i + 1]
        /\ DOMAIN ioq = 1..Len(ioq) /\ Len(ioq) \in Nat /\ Len(ioq) > 0
    BY <1>1
  <2>3. CASE q = Tail(ioq)
    BY <2>2, <2>3
  <2>4. CASE q = Append(Tail(ioq), Op("removeBak"))
    <3>1. /\ q \in Seq(Ops) /\ q[Len(q)] = Op("removeBak") /\ Len(q) = Len(ioq)
          /\ \A i \in 1..(Len(q) - 1) : q[i] = ioq[i + 1]
          /\ DOMAIN q = 1..Len(q)
      BY <2>2, <2>4, OpType
    <3> QED
      BY <3>1, <2>2 DEF Op
  <2> QED
    BY <2>1, <2>3, <2>4
<1>4. /\ \A i \in Moves(q) : i + 1 \in Moves(ioq)
      /\ Moves(q) \subseteq Nat \ {0}
  BY <1>3 DEF Moves
<1>5. CASE Head(ioq).op = "move"
  <2>1. waiting' = <<>> /\ backup' = "ok" /\ jobs' = jobs \o waiting
    BY <1>1, <1>5 DEF MainCompletion
  <2>2. 1 \in Moves(ioq) /\ waiting # <<>>
    BY <1>1, <1>5 DEF Moves, Flow
  <2>3. Moves(q) = {}
    BY <2>2, <1>3, <1>4 DEF Flow
  <2>4. Flow'
    BY <2>1, <2>3, <1>1, <1>2 DEF Flow
  <2>5. (jobs \o waiting) # <<>>
        /\ (jobs \o waiting)[Len(jobs \o waiting)] = waiting[Len(waiting)]
    BY <2>2, <1>1
  <2>6. ASSUME NEW s, Ends(s) PROVE Ends(s)'
    BY <2>1, <2>2, <2>5, <2>6 DEF Ends
  <2> QED
    BY <2>4, <2>6
<1>6. CASE Head(ioq).op # "move"
  <2>1. UNCHANGED <<waiting, backup, jobs>>
    BY <1>6 DEF MainCompletion
  <2>2. Flow'
    <3>1. \A i, k \in Moves(q) : i = k
      BY <1>4 DEF Flow
    <3> QED
      BY <3>1, <2>1, <1>1, <1>2, <1>4 DEF Flow
  <2>3. ASSUME NEW s, Ends(s) PROVE Ends(s)'
    <3>1. CASE waiting # <<>> \/ jobs # <<>>
      BY <3>1, <2>1, <2>3 DEF Ends
    <3>2. CASE waiting = <<>> /\ jobs = <<>>
      <4>1. Undone' = DOMAIN q
        BY <1>1, <1>2, <1>3 DEF Undone
      <4>2. CASE path = s /\ \A k \in Undone : ioq[k].op = "removeBak"
        <5>1. \A k \in DOMAIN q : q[k].op = "removeBak"
          BY <4>2, <1>3 DEF Undone
        <5> QED
          BY <5>1, <4>1, <4>2, <3>2, <2>1, <1>1, <1>2 DEF Ends
      <4>3. ASSUME NEW i \in Undone, ioq[i] = WriteOp(s),
                   \A k \in DOMAIN ioq : k > i => ioq[k].op = "removeBak"
            PROVE  Ends(s)'
        <5>1. i > 1 /\ i - 1 \in DOMAIN q /\ q[i - 1] = WriteOp(s)
          BY <4>3, <1>1, <1>3 DEF Undone
        <5>2. \A k \in DOMAIN q : k > i - 1 => q[k].op = "removeBak"
          BY <4>3, <1>1, <1>3 DEF Undone
        <5>3. \E j \in Undone' : /\ ioq'[j] = WriteOp(s)
                                 /\ \A k \in DOMAIN ioq' : k > j => ioq'[k].op = "removeBak"
          BY <5>1, <5>2, <4>1, <1>2
        <5> QED
          BY <5>3, <3>2, <2>1 DEF Ends, WriteOp
      <4> QED
        BY <4>2, <4>3, <3>2, <2>3 DEF Ends
    <3> QED
      BY <3>1, <3>2
  <2> QED
    BY <2>2, <2>3
<1> QED
  BY <1>5, <1>6

\* What purging posts disturbs no order of saves.
LEMMA RemovalFlows ==
  ASSUME TypeOK, Flow, ioq' = Append(ioq, Op("removePath")),
         UNCHANGED <<reply, backup, waiting>>
  PROVE  Flow'
<1>1. ioq \in Seq(Ops)
  BY DEF TypeOK, PipeType
<1>2. Moves(ioq') = Moves(ioq)
  BY <1>1 DEF Moves, Op
<1> QED
  BY <1>2 DEF Flow

\* When nothing is posted any more the file holds what it ends with.
LEMMA DrainedEnds ==
  ASSUME NEW s, Ends(s), Drained PROVE path = s
BY DEF Ends, Drained, Undone

-----------------------------------------------------------------------------
\* The invariant.

\* resume_from_crash stays as it is; then resume_session_once is borrowed only
\* with crash recovery off.
CrashPref ==
  /\ prefs.crash = InitCrashPref /\ diskPrefs.crash = InitCrashPref
  /\ InitCrashPref => onceOnShutdown = {}

NothingOffered == restore.kind = "none" => restore.what.tabs = 0

\* A running browser whose last change has no timer and no purge before it
\* ends with this change in the file.
UpToDate ==
  (phase = "running" /\ prefs.crash /\ ~timer /\ ~purgeSave /\ live.tabs = clock /\ clock > 0)
    => \E s \in Snapshots : Ends(s) /\ s.at = clock /\ ContentOf(s) = live

\* The promises that are kept, and what they ask of the preferences and of the
\* state that is saved.
Due(o) == o.why = "restart" \/ (InitCrashPref /\ o.why # "plain")
Asked(o, p) == (Due(o) => StartupPage3 \/ p.once) /\ (o.why = "restart" => p.once)
Holds(o, s) == ContentOf(s) = o.what /\ s.last = o.last /\ ~s.running

\* A promise on its way from the quit to the next start.
Promised ==
  /\ phase = "running" => owed = {}
  /\ phase = "granted" => \A o \in owed :
        IF o.why = "restart" THEN quitKind = "restart" ELSE Asked(o, prefs)
  /\ phase = "quit" => \A o \in owed :
        /\ Asked(o, prefs)
        /\ purgeMark # clock => \E s \in Snapshots : Ends(s) /\ Holds(o, s)
  /\ phase = "down" => \A o \in owed :
        Asked(o, diskPrefs) /\ path # NoFile /\ Holds(o, path)
  /\ phase = "stopped" => \A o \in owed : Due(o) => Keeps(o)

Kept == Flow /\ NothingOffered /\ UpToDate /\ Promised
KeepInv == CrashPref /\ (failures = 0 => Kept)

-----------------------------------------------------------------------------

LEMMA SaveNowEnds ==
  ASSUME TypeOK, OrderInv, Flow, clock' \in Nat, NEW c \in Contents, SaveNow(c)
  PROVE  /\ Flow'
         /\ phase = "running" /\ prefs.crash
              => \E n \in Snapshots : Ends(n)' /\ n.at = clock' /\ ContentOf(n) = c
<1>1. /\ SaveState(phase, Collect(phase, c), prefs, onceOnShutdown, last, ioq)
      /\ last \in Nat /\ collected \in Contents
  BY DEF SaveNow, TypeOK, ContentType
<1>2. CASE phase = "running"
  <2>1. SaveState(phase, c, prefs, onceOnShutdown, last, ioq)
    BY <1>1, <1>2 DEF Collect
  <2>2. Flow' /\ (prefs.crash => \E n \in Snapshots :
                                   n = Snapshot(c, phase, FALSE, last) /\ Ends(n)')
    BY <1>1, <2>1, SaveStateEnds
  <2>3. \A n \in Snapshots : n = Snapshot(c, phase, FALSE, last)
                              => ContentOf(n) = c /\ n.at = clock'
    BY DEF Snapshot, ContentOf, Contents
  <2> QED
    BY <2>2, <2>3
<1>3. CASE phase # "running"
  <2>1. SaveState(phase, collected, prefs, onceOnShutdown, last, ioq)
    BY <1>1, <1>3 DEF Collect
  <2>2. Flow'
    BY <1>1, <2>1, SaveStateEnds
  <2> QED
    BY <2>2, <1>3
<1> QED
  BY <1>2, <1>3

\* What a save does to the preferences.
LEMMA SaveStatePrefs ==
  ASSUME NEW ph, NEW c, NEW p \in PrefValues, NEW os, NEW lst, NEW q,
         SaveState(ph, c, p, os, lst, q)
  PROVE  /\ prefs'.crash = p.crash
         /\ diskPrefs' = diskPrefs \/ diskPrefs' = prefs'
         /\ ph # "running" \/ p.crash
              => prefs' = p /\ diskPrefs' = diskPrefs /\ onceOnShutdown' = os
<1>1. [p EXCEPT !.once = TRUE].crash = p.crash
  BY DEF PrefValues
<1> QED
  BY <1>1 DEF SaveState

LEMMA NextCrashPref ==
  ASSUME TypeOK, CrashPref, [Next]_vars, MaxFlips = 0
  PROVE  CrashPref'
<1>1. prefs \in PrefValues /\ diskPrefs \in PrefValues /\ flips \in Nat
  BY DEF TypeOK, PrefsType, HistoryType
<1>2. ASSUME NEW ph, NEW c, NEW p \in PrefValues, NEW lst, p.crash = InitCrashPref,
             SaveState(ph, c, p, onceOnShutdown, lst, ioq)
      PROVE  CrashPref'
  BY <1>2, SaveStatePrefs DEF CrashPref
<1>3. ASSUME NEW c, SaveNow(c) PROVE CrashPref'
  BY <1>1, <1>2, <1>3 DEF SaveNow, CrashPref
<1>4. ASSUME UNCHANGED <<prefs, diskPrefs, onceOnShutdown>> PROVE CrashPref'
  BY <1>4 DEF CrashPref
<1>5. ~SetResumeFromCrash
  BY <1>1 DEF SetResumeFromCrash
<1>6. CASE TimerFires \/ PurgeDomain \/ PurgeSaveFires \/ IntervalChanged
  <2>1. PurgeDomain => CrashPref'
    <3> SUFFICES ASSUME PurgeDomain PROVE CrashPref'
      OBVIOUS
    <3>1. PICK c : c = live'
      OBVIOUS
    <3>2. SaveNow(c)
      BY <3>1 DEF PurgeDomain, SaveNow, Collect
    <3> QED
      BY <3>2, <1>3
  <2> QED
    BY <1>3, <1>4, <1>6, <2>1 DEF TimerFires, PurgeSaveFires, IntervalChanged, prefVars
<1>7. CASE Activity \/ Purge \/ ShutdownPurge \/ RunJob \/ WorkerStep \/ MainCompletion
  BY <1>4, <1>7 DEF Activity, Purge, ShutdownPurge, RunJob, WorkerStep, MainCompletion, prefVars
<1>8. CASE QuitRequest \/ QuitAnswer
  <2>1. ASSUME NEW kind, NEW save, NEW why, Granted(kind, save, why)
        PROVE  prefs'.crash = prefs.crash
               /\ (diskPrefs' = diskPrefs \/ diskPrefs' = prefs')
    BY <2>1, <1>1 DEF Granted, PrefValues
  <2>2. /\ onceOnShutdown' = onceOnShutdown
        /\ prefs'.crash = prefs.crash
        /\ diskPrefs' = diskPrefs \/ diskPrefs' = prefs'
    BY <1>8, <2>1 DEF QuitRequest, QuitAnswer
  <2> QED
    BY <2>2 DEF CrashPref
<1>9. CASE QuitApplication
  <2>1. PICK once : SaveState("quit", collected, [prefs EXCEPT !.once = once],
                              onceOnShutdown, last', ioq)
                    /\ once \in BOOLEAN
    <3> DEFINE once == IF quitKind = "restart" THEN TRUE
                       ELSE IF onceOnShutdown = {} THEN prefs.once
                       ELSE CHOOSE o \in onceOnShutdown : TRUE
    <3>1. SaveState("quit", collected, [prefs EXCEPT !.once = once],
                    onceOnShutdown, last', ioq)
      BY <1>9, Zenon DEF QuitApplication
    <3>2. once \in BOOLEAN
      BY <1>1 DEF TypeOK, PrefsType, OnceValues, PrefValues
    <3> QED
      BY <3>1, <3>2
  <2>2. PICK p : p = [prefs EXCEPT !.once = once]
    OBVIOUS
  <2>3. p \in PrefValues /\ p.crash = prefs.crash
    BY <1>1, <2>1, <2>2 DEF PrefValues
  <2>4. PICK lst : lst = last'
    OBVIOUS
  <2>5. SaveState("quit", collected, p, onceOnShutdown, lst, ioq)
    BY <2>1, <2>2, <2>4
  <2> QED
    BY <2>3, <2>5, <1>2 DEF CrashPref
<1>10. CASE Exit \/ Crash
  BY <1>10 DEF Exit, Crash, Fresh, CrashPref
<1>11. CASE FlushPrefs
  BY <1>11 DEF FlushPrefs, CrashPref
<1>12. CASE Startup
  <2>1. prefs' = [diskPrefs EXCEPT !.once = FALSE] /\ UNCHANGED <<diskPrefs, onceOnShutdown>>
    BY <1>12 DEF Startup
  <2> QED
    BY <2>1, <1>1 DEF CrashPref, PrefValues
<1>13. CASE FirstWindow
  <2>1. \/ UNCHANGED prefVars
        \/ SaveState("running", restore.what, prefs, onceOnShutdown, last, ioq)
    BY <1>13 DEF FirstWindow
  <2> QED
    BY <2>1, <1>1, <1>2, <1>4 DEF CrashPref, prefVars
<1>14. CASE UNCHANGED vars
  BY <1>4, <1>14 DEF vars, prefVars
<1> QED
  BY <1>5, <1>6, <1>7, <1>8, <1>9, <1>10, <1>11, <1>12, <1>13, <1>14 DEF Next

\* What a quit saves is all that is collected, and says that the session was
\* stopped.
LEMMA QuitSaves ==
  ASSUME TypeOK, OrderInv, Flow, QuitApplication
  PROVE  /\ Flow'
         /\ \E n \in Snapshots : /\ Ends(n)' /\ ContentOf(n) = collected
                                 /\ n.last = last' /\ ~n.running
<1>1. /\ collected \in Contents /\ clock' \in Nat /\ last' \in Nat /\ prefs \in PrefValues
  BY DEF QuitApplication, TypeOK, ContentType, PrefsType
<1>2. PICK once : SaveState("quit", collected, [prefs EXCEPT !.once = once],
                            onceOnShutdown, last', ioq)
  BY DEF QuitApplication
<1>3. PICK p, lst : p = [prefs EXCEPT !.once = once] /\ lst = last'
  OBVIOUS
<1>4. p.crash = prefs.crash
  BY <1>1, <1>3 DEF PrefValues
<1>5. PICK c \in Contents : c = collected
  BY <1>1
<1>6. SaveState("quit", c, p, onceOnShutdown, lst, ioq)
  BY <1>2, <1>3, <1>5
<1>7. Flow' /\ \E n \in Snapshots : n = Snapshot(c, "quit", FALSE, lst) /\ Ends(n)'
  BY <1>1, <1>3, <1>4, <1>6, SaveStateEnds
<1>8. \A n \in Snapshots : n = Snapshot(c, "quit", FALSE, lst)
                            => ContentOf(n) = c /\ n.last = lst /\ ~n.running
  <2> SUFFICES ASSUME NEW n \in Snapshots, n = Snapshot(c, "quit", FALSE, lst)
               PROVE  ContentOf(n) = c /\ n.last = lst /\ ~n.running
    OBVIOUS
  <2>1. ContentOf(n) = c
    BY DEF Snapshot, ContentOf, Contents
  <2>2. n.last = lst /\ n.running = ("quit" = "running")
    BY Zenon DEF Snapshot
  <2> QED
    BY <2>1, <2>2
<1>9. PICK n \in Snapshots : n = Snapshot(c, "quit", FALSE, lst) /\ Ends(n)'
  BY <1>7
<1>10. ContentOf(n) = collected /\ n.last = last' /\ ~n.running
  <2>1. ContentOf(n) = c /\ n.last = lst /\ ~n.running
    BY <1>8, <1>9
  <2> QED
    BY <2>1, <1>3, <1>5
<1> QED
  BY <1>7, <1>9, <1>10, Zenon

LEMMA FirstWindowSaves ==
  ASSUME TypeOK, OrderInv, Flow, FirstWindow
  PROVE  \/ UNCHANGED <<pipe, prefVars>> /\ restore.kind = "none"
         \/ /\ Flow'
            /\ prefs.crash => \E n \in Snapshots :
                                Ends(n)' /\ n.at = clock' /\ ContentOf(n) = restore.what
<1>1. restore.what \in Contents /\ clock' \in Nat /\ last \in Nat
  BY DEF FirstWindow, TypeOK, ContentType
<1>2. CASE UNCHANGED <<pipe, prefVars>> /\ restore.kind = "none"
  BY <1>2
<1>3. CASE SaveState("running", restore.what, prefs, onceOnShutdown, last, ioq)
  <2>1. PICK c \in Contents : c = restore.what
    BY <1>1
  <2>2. SaveState("running", c, prefs, onceOnShutdown, last, ioq)
    BY <2>1, <1>3
  <2>3. Flow' /\ (prefs.crash => \E n \in Snapshots :
                                   n = Snapshot(c, "running", FALSE, last) /\ Ends(n)')
    BY <1>1, <2>2, SaveStateEnds
  <2>4. \A n \in Snapshots : n = Snapshot(c, "running", FALSE, last)
                              => ContentOf(n) = c /\ n.at = clock'
    BY DEF Snapshot, ContentOf, Contents
  <2> QED
    BY <2>1, <2>3, <2>4
<1> QED
  BY <1>2, <1>3 DEF FirstWindow

\* A step that leaves the pipeline alone keeps it, and what it ends with.
LEMMA StillFlows == ASSUME UNCHANGED pipe, Flow PROVE Flow'
BY DEF pipe, Flow, Moves

LEMMA StillEnds == ASSUME UNCHANGED pipe, path' = path PROVE \A s : Ends(s) => Ends(s)'
BY DEF pipe, Ends, Undone

\* The steps of files.
FileStep == RunJob \/ WorkerStep \/ MainCompletion

LEMMA FileStepEnds ==
  ASSUME TypeOK, Flow, FileStep, failures = 0, failures' = 0
  PROVE  Flow' /\ \A s : Ends(s) => Ends(s)'
BY RunJobEnds, WorkerEnds, MainCompletionEnds DEF FileStep

LEMMA NextFlow ==
  ASSUME TypeOK, OrderInv, Flow, [Next]_vars, MaxFlips = 0, failures = 0, failures' = 0
  PROVE  Flow'
<1>1. clock \in Nat /\ live \in Contents /\ flips \in Nat
  BY DEF TypeOK, ContentType, HistoryType
<1>2. ASSUME NEW c \in Contents, SaveNow(c), clock' \in Nat PROVE Flow'
  BY <1>2, SaveNowEnds
<1>3. CASE TimerFires \/ PurgeSaveFires
  BY <1>1, <1>2, <1>3 DEF TimerFires, PurgeSaveFires
<1>4. CASE IntervalChanged
  BY <1>1, <1>2, <1>4, StillFlows DEF IntervalChanged
<1>5. CASE PurgeDomain
  <2>1. PICK c : c = live'
    OBVIOUS
  <2>2. c \in Contents /\ clock' \in Nat
    <3>1. live' = [live EXCEPT !.tabs = clock + 1] /\ clock' = clock + 1
      BY <1>5 DEF PurgeDomain
    <3> QED
      BY ONLY <2>1, <3>1, <1>1 DEF Contents
  <2>3. SaveNow(c)
    BY <2>1, <1>5 DEF PurgeDomain, SaveNow, Collect
  <2> QED
    BY <2>2, <2>3, <1>2
<1>6. CASE Purge \/ ShutdownPurge
  <2>1. ioq' = ioq \/ ioq' = Append(ioq, Op("removePath"))
    BY <1>6 DEF Purge, ShutdownPurge
  <2>2. UNCHANGED <<backup, waiting, jobs, reply>>
    BY <1>6 DEF Purge, ShutdownPurge
  <2>3. CASE ioq' = ioq
    BY <2>2, <2>3, StillFlows DEF pipe
  <2> QED
    BY <2>1, <2>2, <2>3, RemovalFlows
<1>7. CASE QuitApplication
  BY <1>7, QuitSaves
<1>8. CASE Exit \/ Crash
  BY <1>8 DEF Exit, Crash, Fresh, Flow, Moves
<1>9. CASE FirstWindow
  BY <1>9, FirstWindowSaves, StillFlows
<1>10. CASE RunJob \/ WorkerStep \/ MainCompletion
  BY <1>10, FileStepEnds DEF FileStep
<1>11. CASE Activity \/ QuitRequest \/ QuitAnswer \/ FlushPrefs \/ Startup \/ UNCHANGED vars
  <2>1. UNCHANGED pipe
    BY <1>11 DEF Activity, QuitRequest, QuitAnswer, FlushPrefs, Startup, vars
  <2> QED
    BY <2>1, StillFlows
<1>12. ~SetResumeFromCrash
  BY <1>1 DEF SetResumeFromCrash
<1> QED
  BY <1>3, <1>4, <1>5, <1>6, <1>7, <1>8, <1>9, <1>10, <1>11, <1>12 DEF Next

LEMMA NextNothingOffered ==
  ASSUME TypeOK, NothingOffered, [Next]_vars
  PROVE  NothingOffered'
<1>1. CASE UNCHANGED restore
  BY <1>1 DEF NothingOffered
<1>2. CASE restore' = Nothing
  BY <1>2 DEF NothingOffered, Nothing, Blank
<1>3. CASE Startup
  <2>1. CASE Readable = NoFile
    BY <2>1, <1>2, <1>3 DEF Startup
  <2>2. CASE Readable # NoFile
    <3>1. \/ restore'.kind \in {"recover", "resume"}
          \/ \E k, n : restore' = [kind |-> k, what |-> [Blank EXCEPT !.pins = n]]
      BY <2>2, <1>3 DEF Startup
    <3> QED
      BY <3>1 DEF NothingOffered, Blank
  <2> QED
    BY <2>1, <2>2
<1>4. UNCHANGED restore \/ restore' = Nothing \/ Startup
  BY DEF Next, vars, content, Fresh, Activity, TimerFires, IntervalChanged, PurgeDomain,
         SetResumeFromCrash, Purge, PurgeSaveFires, ShutdownPurge, QuitRequest, QuitAnswer,
         QuitApplication, Exit, Crash, FlushPrefs, FirstWindow, RunJob, WorkerStep,
         MainCompletion
<1> QED
  BY <1>1, <1>2, <1>3, <1>4

\* Every change of a running session ends in the file, unless a timer is armed
\* or a purge has still to save.
LEMMA NextUpToDate ==
  ASSUME TypeOK, OrderInv, CrashPref, Kept, [Next]_vars, MaxFlips = 0,
         failures = 0, failures' = 0
  PROVE  UpToDate'
<1> SUFFICES ASSUME phase' = "running", prefs'.crash, ~timer', ~purgeSave',
                    live'.tabs = clock', clock' > 0
             PROVE  \E s \in Snapshots : Ends(s)' /\ s.at = clock' /\ ContentOf(s) = live'
  BY DEF UpToDate
<1>1. /\ clock \in Nat /\ live \in Contents /\ flips \in Nat /\ prefs.crash
      /\ Flow /\ NothingOffered
  BY NextCrashPref DEF TypeOK, ContentType, HistoryType, CrashPref, Kept
\* The actions that save.
<1>2. ASSUME NEW c \in Contents, SaveNow(c), clock' \in Nat, phase = "running", live' = c
      PROVE  \E s \in Snapshots : Ends(s)' /\ s.at = clock' /\ ContentOf(s) = live'
  BY <1>1, <1>2, SaveNowEnds
<1>3. CASE TimerFires \/ PurgeSaveFires
  BY <1>1, <1>2, <1>3 DEF TimerFires, PurgeSaveFires
<1>4. CASE IntervalChanged
  BY <1>1, <1>2, <1>4 DEF IntervalChanged
<1>5. CASE PurgeDomain
  <2>1. PICK c : c = live'
    OBVIOUS
  <2>2. c \in Contents /\ clock' \in Nat /\ phase = "running"
    BY <2>1, <1>1, <1>5 DEF PurgeDomain, Contents
  <2>3. SaveNow(c)
    BY <2>1, <1>5 DEF PurgeDomain, SaveNow, Collect
  <2> QED
    BY <2>1, <2>2, <2>3, <1>2
<1>6. CASE FirstWindow
  <2>1. live' = restore.what /\ clock' = clock
    BY <1>6 DEF FirstWindow
  <2>2. restore.kind # "none"
    BY <2>1, <1>1 DEF NothingOffered
  <2> QED
    BY <2>1, <2>2, <1>1, <1>6, FirstWindowSaves
\* The actions that leave a timer, or no running browser.
<1>7. CASE Activity \/ Purge
  BY <1>7 DEF Activity, Purge
<1>8. CASE QuitApplication \/ Exit \/ Crash \/ Startup \/ ShutdownPurge
  BY <1>8 DEF QuitApplication, Exit, Crash, Startup, ShutdownPurge
\* The others change nothing of this.
<1>9. ASSUME UNCHANGED <<phase, live, clock, timer, purgeSave>>,
             \A s : Ends(s) => Ends(s)'
      PROVE  \E s \in Snapshots : Ends(s)' /\ s.at = clock' /\ ContentOf(s) = live'
  <2>1. \E s \in Snapshots : Ends(s) /\ s.at = clock /\ ContentOf(s) = live
    BY <1>1, <1>9 DEF Kept, UpToDate
  <2> QED
    BY <2>1, <1>9
<1>10. CASE QuitRequest \/ QuitAnswer
  <2>1. phase' # "granted" /\ UNCHANGED <<live, clock, timer, purgeSave, pipe, path>>
    BY <1>10 DEF QuitRequest, QuitAnswer, content, files
  <2>2. phase' = phase
    BY <2>1, <1>10 DEF QuitRequest, QuitAnswer, Granted
  <2> QED
    BY <2>1, <2>2, <1>9, StillEnds
<1>11. CASE FlushPrefs \/ UNCHANGED vars
  <2>1. UNCHANGED <<phase, live, clock, timer, purgeSave, pipe, path>>
    BY <1>11 DEF FlushPrefs, vars, content, files
  <2> QED
    BY <2>1, <1>9, StillEnds
<1>12. CASE RunJob \/ WorkerStep \/ MainCompletion
  <2>1. UNCHANGED <<phase, live, clock, timer, purgeSave>>
    BY <1>12 DEF RunJob, WorkerStep, MainCompletion, content
  <2> QED
    BY <2>1, <1>1, <1>9, <1>12, FileStepEnds DEF FileStep
<1>13. ~SetResumeFromCrash
  BY <1>1 DEF SetResumeFromCrash
<1> QED
  BY <1>3, <1>4, <1>5, <1>6, <1>7, <1>8, <1>10, <1>11, <1>12, <1>13 DEF Next

-----------------------------------------------------------------------------
\* Promises.

\* What quit-application-granted promises is asked of the preferences.
LEMMA GrantedPromise ==
  ASSUME TypeOK, NEW kind, NEW save \in BOOLEAN, NEW why, Granted(kind, save, why),
         why = "restart" => kind = "restart",
         why = "noPrompt" => SessionWillBeRestored, why = "saveAndQuit" => save,
         why \in {"restart", "noPrompt", "saveAndQuit", "plain"}
  PROVE  Promised'
<1>1. phase' = "granted" /\ quitKind' = kind /\ prefs \in PrefValues
  BY DEF Granted, TypeOK, PrefsType
<1>2. \A o \in owed' : o.why = why
  BY DEF Granted
<1>3. why = "noPrompt" => StartupPage3 \/ prefs'.once
  BY <1>1 DEF Granted, SessionWillBeRestored, PrefValues
<1>4. why = "saveAndQuit" => prefs'.once
  BY <1>1 DEF Granted, PrefValues
<1>5. \A o \in owed' : IF o.why = "restart" THEN quitKind' = "restart" ELSE Asked(o, prefs')
  BY <1>1, <1>2, <1>3, <1>4 DEF Asked, Due
<1> QED
  BY <1>1, <1>5 DEF Promised, Asked, Due

\* The last save of a quit holds what the quit owes.
LEMMA QuitPromise ==
  ASSUME TypeOK, OrderInv, CrashPref, Kept, QuitApplication
  PROVE  Promised'
<1> DEFINE once == IF quitKind = "restart" THEN TRUE
                   ELSE IF onceOnShutdown = {} THEN prefs.once
                   ELSE CHOOSE o \in onceOnShutdown : TRUE
<1>1. /\ phase = "granted" /\ phase' = "quit" /\ prefs \in PrefValues
      /\ owed \subseteq Promises
      /\ owed' = {[o EXCEPT !.what = collected, !.last = last'] : o \in owed}
      /\ Flow /\ Promised
  BY DEF QuitApplication, TypeOK, PrefsType, HistoryType, Kept
<1>2. prefs' = [prefs EXCEPT !.once = once]
  BY Zenon DEF QuitApplication, SaveState
<1>3. prefs'.once = once
  BY <1>1, <1>2 DEF PrefValues
<1>4. PICK n \in Snapshots : /\ Ends(n)' /\ ContentOf(n) = collected
                             /\ n.last = last' /\ ~n.running
  BY <1>1, QuitSaves
<1>5. ASSUME NEW o \in owed' PROVE Asked(o, prefs') /\ Holds(o, n)
  <2>1. PICK g \in owed : o = [g EXCEPT !.what = collected, !.last = last']
    BY <1>1
  <2>2. o.why = g.why /\ o.what = collected /\ o.last = last'
    BY <1>1, <2>1 DEF Promises
  <2>3. IF g.why = "restart" THEN quitKind = "restart" ELSE Asked(g, prefs)
    BY <1>1 DEF Promised
  <2>4. Holds(o, n)
    BY <1>4, <2>2 DEF Holds
  <2>5. CASE g.why = "restart"
    <3>1. once = TRUE
      BY <2>3, <2>5
    <3> QED
      BY <3>1, <1>3, <2>4 DEF Asked
  <2>6. CASE g.why # "restart"
    <3>1. CASE Due(o)
      <4>1. InitCrashPref /\ Due(g)
        BY <3>1, <2>2, <2>6 DEF Due
      <4>2. StartupPage3 \/ prefs.once
        BY <4>1, <2>3, <2>6 DEF Asked
      <4>3. StartupPage3 \/ once
        BY <4>1, <4>2 DEF CrashPref
      <4> QED
        BY <4>3, <1>3, <2>2, <2>4, <2>6 DEF Asked
    <3>2. CASE ~Due(o)
      BY <3>2, <2>2, <2>4, <2>6 DEF Asked
    <3> QED
      BY <3>1, <3>2
  <2> QED
    BY <2>5, <2>6
<1>6. \A o \in owed' : \E s \in Snapshots : Ends(s)' /\ Holds(o, s)
  BY <1>4, <1>5
<1> QED
  BY <1>1, <1>5, <1>6 DEF Promised, Asked, Due, Holds

\* The process ends when the last save has landed.
LEMMA ExitPromise ==
  ASSUME Promised, Exit
  PROVE  Promised'
<1>1. phase = "quit" /\ phase' = "down" /\ Drained /\ path' = path /\ diskPrefs' = prefs
  BY DEF Exit, files
<1>2. ASSUME NEW o \in owed' PROVE Asked(o, diskPrefs') /\ path' # NoFile /\ Holds(o, path')
  <2>1. o \in owed /\ purgeMark # clock
    BY <1>2 DEF Exit
  <2>2. PICK s \in Snapshots : Ends(s) /\ Holds(o, s)
    BY <2>1, <1>1 DEF Promised
  <2>3. path = s
    BY <2>2, <1>1, DrainedEnds
  <2> QED
    BY <2>1, <2>2, <2>3, <1>1, ConstantsAssumption DEF Promised
<1> QED
  BY <1>1, <1>2 DEF Promised, Asked, Due, Holds

\* The next start resumes what it finds.
LEMMA StartupPromise ==
  ASSUME TypeOK, Promised, Startup
  PROVE  Promised'
<1>1. phase = "down" /\ phase' = "stopped" /\ owed' = owed
  BY DEF Startup
<1>2. ASSUME NEW o \in owed, Due(o)
      PROVE  restore' = [kind |-> "resume", what |-> o.what]
             /\ (o.why = "restart" => last' = o.last)
  <2>1. /\ path # NoFile /\ ~path.running /\ ContentOf(path) = o.what /\ path.last = o.last
        /\ StartupPage3 \/ diskPrefs.once
        /\ o.why = "restart" => diskPrefs.once
    BY <1>1, <1>2 DEF Promised, Asked, Holds
  <2>2. Readable = path
    BY <2>1 DEF Readable
  <2> QED
    BY <2>1, <2>2 DEF Startup
<1>3. \A o \in owed' : Due(o) => Keeps(o)'
  BY <1>1, <1>2 DEF Keeps
<1> QED
  BY <1>1, <1>3 DEF Promised, Due

LEMMA NextPromised ==
  ASSUME TypeOK, OrderInv, CrashPref, Kept, [Next]_vars, MaxFlips = 0,
         failures = 0, failures' = 0
  PROVE  Promised'
<1>1. flips \in Nat /\ Flow /\ Promised
  BY DEF TypeOK, HistoryType, Kept
\* While the browser runs nothing is owed.
<1>2. ASSUME phase' = "running", owed' = {} PROVE Promised'
  BY <1>2 DEF Promised
<1>3. CASE Activity \/ PurgeDomain \/ Purge \/ FirstWindow
  <2>1. phase' = "running" /\ owed' = {}
    BY <1>1, <1>3 DEF Activity, PurgeDomain, Purge, FirstWindow, history, Promised
  <2> QED
    BY <2>1, <1>2
\* Nothing that a promise is about changes.
<1>4. ASSUME UNCHANGED <<phase, quitKind, owed, purgeMark, clock, path, diskPrefs, restore, last>>,
             prefs' = prefs, \A s : Ends(s) => Ends(s)', failures' = failures
      PROVE  Promised'
  <2>1. phase = "running" => owed = {}
    BY <1>1 DEF Promised
  <2>2. phase = "granted" => \A o \in owed :
          IF o.why = "restart" THEN quitKind = "restart" ELSE Asked(o, prefs)
    BY <1>1 DEF Promised
  <2>3. phase = "quit" => \A o \in owed :
          Asked(o, prefs)
          /\ (purgeMark # clock => \E s \in Snapshots : Ends(s)' /\ Holds(o, s))
    BY <1>1, <1>4 DEF Promised
  <2>4. phase = "down" => \A o \in owed :
          Asked(o, diskPrefs) /\ path # NoFile /\ Holds(o, path)
    BY <1>1 DEF Promised
  <2>5. phase = "stopped" => \A o \in owed : Due(o) => Keeps(o)'
    BY <1>1, <1>4 DEF Promised, Keeps
  <2> QED
    BY <2>1, <2>2, <2>3, <2>4, <2>5, <1>4 DEF Promised, Asked, Due, Holds
<1>5. CASE TimerFires \/ IntervalChanged \/ PurgeSaveFires
  <2>0. /\ phase \in {"running", "granted"} /\ UNCHANGED <<phase, quitKind, owed>>
        /\ SaveNow(live) \/ UNCHANGED prefVars
    BY <1>5 DEF TimerFires, IntervalChanged, PurgeSaveFires, quitting, history
  <2>1. CASE phase = "running"
    BY <2>0, <2>1, <1>1, <1>2 DEF Promised
  <2>2. CASE phase = "granted"
    <3>1. SaveState("granted", collected, prefs, onceOnShutdown, last, ioq) \/ UNCHANGED prefVars
      BY <2>0, <2>2 DEF SaveNow, Collect
    <3>2. prefs' = prefs
      BY <3>1 DEF SaveState, prefVars
    <3>3. phase' = "granted" /\ UNCHANGED <<quitKind, owed>>
      BY <2>0, <2>2
    <3>4. \A o \in owed :
            IF o.why = "restart" THEN quitKind = "restart" ELSE Asked(o, prefs)
      BY <2>2, <1>1 DEF Promised
    <3> QED
      BY <3>2, <3>3, <3>4 DEF Promised, Asked, Due
  <2> QED
    BY <2>0, <2>1, <2>2
<1>6. CASE ShutdownPurge
  <2>1. /\ UNCHANGED <<phase, quitKind, owed, clock, path, diskPrefs, restore, last, prefs>>
        /\ phase = "quit"
    BY <1>6 DEF ShutdownPurge, files, content, prefVars
  <2>2. CASE quitKind = "restart"
    <3>1. UNCHANGED <<pipe, purgeMark>>
      BY <2>2, <1>6 DEF ShutdownPurge, pipe
    <3> QED
      BY <2>1, <3>1, <1>4, StillEnds
  <2>3. CASE quitKind # "restart"
    <3>1. purgeMark' = clock'
      BY <2>1, <2>3, <1>6 DEF ShutdownPurge
    <3>2. \A o \in owed : Asked(o, prefs)
      BY <2>1, <1>1 DEF Promised
    <3> QED
      BY <2>1, <3>1, <3>2 DEF Promised, Asked, Due
  <2> QED
    BY <2>2, <2>3
<1>7. CASE QuitRequest \/ QuitAnswer
  <2>1. phase = "running" \/ prompt
    BY <1>7 DEF QuitRequest, QuitAnswer
  <2>2. \/ \E kind \in {"quit", "restart"}, save \in BOOLEAN,
             why \in {"restart", "noPrompt", "saveAndQuit", "plain"} :
             /\ Granted(kind, save, why) /\ (why = "restart" => kind = "restart")
             /\ (why = "noPrompt" => SessionWillBeRestored) /\ (why = "saveAndQuit" => save)
        \/ UNCHANGED <<phase, prefs, diskPrefs, quitKind, owed>>
    BY <1>7 DEF QuitRequest, QuitAnswer
  <2>3. CASE UNCHANGED <<phase, prefs, diskPrefs, quitKind, owed>>
    <3>1. UNCHANGED <<pipe, purgeMark, clock, path, restore, last>>
      BY <1>7 DEF QuitRequest, QuitAnswer, content, files
    <3> QED
      BY <2>3, <3>1, <1>4, StillEnds
  <2>4. ASSUME NEW kind \in {"quit", "restart"}, NEW save \in BOOLEAN,
               NEW why \in {"restart", "noPrompt", "saveAndQuit", "plain"},
               Granted(kind, save, why), why = "restart" => kind = "restart",
               why = "noPrompt" => SessionWillBeRestored, why = "saveAndQuit" => save
        PROVE  Promised'
    BY <2>4, GrantedPromise
  <2> QED
    BY <2>2, <2>3, <2>4
<1>8. CASE QuitApplication
  BY <1>8, QuitPromise
<1>9. CASE Exit
  BY <1>1, <1>9, ExitPromise
<1>10. CASE Crash
  BY <1>10 DEF Crash, Promised
<1>11. CASE FlushPrefs
  <2>1. /\ UNCHANGED <<phase, quitKind, owed, purgeMark, clock, path, restore, last, prefs, pipe>>
        /\ phase # "down"
    BY <1>11 DEF FlushPrefs, files, content, quitting, history
  <2>2. \A s : Ends(s) => Ends(s)'
    BY <2>1, StillEnds
  <2>3. phase = "quit" => \A o \in owed :
          Asked(o, prefs)
          /\ (purgeMark # clock => \E s \in Snapshots : Ends(s)' /\ Holds(o, s))
    BY <1>1, <2>2 DEF Promised
  <2>4. phase = "stopped" => \A o \in owed : Due(o) => Keeps(o)'
    BY <1>1, <2>1 DEF Promised, Keeps
  <2>5. /\ phase = "running" => owed = {}
        /\ phase = "granted" => \A o \in owed :
             IF o.why = "restart" THEN quitKind = "restart" ELSE Asked(o, prefs)
    BY <1>1 DEF Promised
  <2> QED
    BY <2>1, <2>3, <2>4, <2>5 DEF Promised, Asked, Due, Holds
<1>12. CASE Startup
  BY <1>1, <1>12, StartupPromise
<1>13. CASE RunJob \/ WorkerStep \/ MainCompletion
  <2>1. UNCHANGED <<phase, quitKind, owed, purgeMark, clock, diskPrefs, restore, last, prefs>>
    BY <1>13 DEF RunJob, WorkerStep, MainCompletion, content, prefVars, quitting, history
  <2>2. \A s : Ends(s) => Ends(s)'
    BY <1>1, <1>13, FileStepEnds DEF FileStep
  <2>3. phase \notin {"down", "stopped"}
    BY <1>13 DEF OrderInv, Idle, RunJob, WorkerStep, MainCompletion, TypeOK, PipeType
  <2>4. phase = "quit" => \A o \in owed :
          Asked(o, prefs)
          /\ (purgeMark # clock => \E s \in Snapshots : Ends(s)' /\ Holds(o, s))
    BY <1>1, <2>2 DEF Promised
  <2>5. /\ phase = "running" => owed = {}
        /\ phase = "granted" => \A o \in owed :
             IF o.why = "restart" THEN quitKind = "restart" ELSE Asked(o, prefs)
    BY <1>1 DEF Promised
  <2> QED
    BY <2>1, <2>3, <2>4, <2>5 DEF Promised, Asked, Due, Holds
<1>14. CASE UNCHANGED vars
  <2>1. /\ UNCHANGED <<phase, quitKind, owed, purgeMark, clock, path, diskPrefs, restore, last>>
        /\ prefs' = prefs /\ failures' = failures /\ UNCHANGED pipe
    BY <1>14 DEF vars, files, content, prefVars, quitting, history, bounds
  <2> QED
    BY <2>1, <1>4, StillEnds
<1>15. ~SetResumeFromCrash
  BY <1>1 DEF SetResumeFromCrash
<1> QED
  BY <1>3, <1>5, <1>6, <1>7, <1>8, <1>9, <1>10, <1>11, <1>12, <1>13, <1>14, <1>15 DEF Next

-----------------------------------------------------------------------------
\* What a step adds to the pending writes, and what it lands.

LEMMA AppendElement ==
  ASSUME NEW S, NEW q \in Seq(S), NEW e \in S, NEW i \in DOMAIN Append(q, e)
  PROVE  Append(q, e)[i] = e \/ (i \in DOMAIN q /\ Append(q, e)[i] = q[i])
<1>1. i \in 1..(Len(q) + 1) /\ DOMAIN q = 1..Len(q) /\ Len(q) \in Nat
  OBVIOUS
<1>2. i = Len(q) + 1 \/ i \in 1..Len(q)
  BY <1>1
<1>3. CASE i = Len(q) + 1
  BY <1>3
<1>4. CASE i \in 1..Len(q)
  BY <1>4, <1>1
<1> QED
  BY <1>2, <1>3, <1>4

\* A save posts what it saves and nothing else.
LEMMA SavePending ==
  ASSUME TypeOK, clock' \in Nat, NEW ph, NEW c \in Contents, NEW p, NEW os,
         NEW lst \in Nat, SaveState(ph, c, p, os, lst, ioq),
         NEW s \in Pending'
  PROVE  \/ s \in Pending
         \/ s.crashes = crashes
<1>1. /\ ioq \in Seq(Ops) /\ jobs \in Seq(Snapshots) /\ waiting \in Seq(Snapshots)
      /\ crashes \in Nat
  BY DEF TypeOK, PipeType, ContentType
<1>2. ASSUME NEW n \in Snapshots, SaveStateObject(n, ioq, p.crash)
      PROVE  s \in Pending \/ s = n
  <2>1. /\ jobs' \in {jobs, Append(jobs, n)} /\ waiting' \in {waiting, Append(waiting, n)}
        /\ ioq' \in {ioq, Append(ioq, Op("move"))}
    BY <1>2 DEF SaveStateObject
  <2>2. ASSUME NEW i \in DOMAIN jobs'
        PROVE  jobs'[i] = n \/ (i \in DOMAIN jobs /\ jobs'[i] = jobs[i])
    <3>1. CASE jobs' = jobs
      BY <3>1
    <3>2. CASE jobs' = Append(jobs, n)
      <4>1. i \in DOMAIN Append(jobs, n)
        BY <3>2
      <4>2. Append(jobs, n)[i] = n \/ (i \in DOMAIN jobs /\ Append(jobs, n)[i] = jobs[i])
        BY <4>1, <1>1, AppendElement
      <4> QED
        BY <3>2, <4>2
    <3> QED
      BY <3>1, <3>2, <2>1
  <2>3. ASSUME NEW i \in DOMAIN waiting'
        PROVE  waiting'[i] = n \/ (i \in DOMAIN waiting /\ waiting'[i] = waiting[i])
    <3>1. CASE waiting' = waiting
      BY <3>1
    <3>2. CASE waiting' = Append(waiting, n)
      <4>1. i \in DOMAIN Append(waiting, n)
        BY <3>2
      <4>2. Append(waiting, n)[i] = n \/ (i \in DOMAIN waiting /\ Append(waiting, n)[i] = waiting[i])
        BY <4>1, <1>1, AppendElement
      <4> QED
        BY <3>2, <4>2
    <3> QED
      BY <3>1, <3>2, <2>1
  <2>4. ASSUME NEW i \in Posted(ioq') PROVE i \in Posted(ioq) /\ ioq'[i] = ioq[i]
    <3>1. CASE ioq' = ioq
      BY <3>1
    <3>2. CASE ioq' = Append(ioq, Op("move"))
      <4>1. i \in DOMAIN Append(ioq, Op("move")) /\ ioq'[i].op = "write"
        BY <3>2 DEF Posted
      <4>2. Op("move") \in Ops
        BY OpType
      <4>3. \/ Append(ioq, Op("move"))[i] = Op("move")
            \/ i \in DOMAIN ioq /\ Append(ioq, Op("move"))[i] = ioq[i]
        BY <4>1, <4>2, <1>1, AppendElement
      <4> QED
        BY <3>2, <4>1, <4>3 DEF Posted, Op
    <3> QED
      BY <3>1, <3>2, <2>1
  <2> QED
    BY <2>2, <2>3, <2>4 DEF Pending, Posted
<1>3. CASE UNCHANGED <<ioq, jobs, waiting>>
  BY <1>3 DEF Pending, Posted
<1>4. CASE ph = "running" /\ ~p.crash /\ SaveStateObject(Snapshot(c, ph, TRUE, lst), ioq, p.crash)
  <2>1. PICK n \in Snapshots : n = Snapshot(c, ph, TRUE, lst)
    BY <1>1, SnapshotType
  <2>2. n.crashes = crashes
    BY <2>1 DEF Snapshot
  <2> QED
    BY <2>1, <2>2, <1>2, <1>4
<1>5. CASE ~(ph = "running" /\ ~p.crash)
             /\ SaveStateObject(Snapshot(c, ph, FALSE, lst), ioq, p.crash)
  <2>1. PICK n \in Snapshots : n = Snapshot(c, ph, FALSE, lst)
    BY <1>1, SnapshotType
  <2>2. n.crashes = crashes
    BY <2>1 DEF Snapshot
  <2> QED
    BY <2>1, <2>2, <1>2, <1>5
<1> QED
  BY <1>3, <1>4, <1>5 DEF SaveState

LEMMA SaveNowPending ==
  ASSUME TypeOK, clock' \in Nat, NEW c \in Contents, SaveNow(c), NEW s \in Pending'
  PROVE  \/ s \in Pending
         \/ s.crashes = crashes
<1>1. PICK k \in Contents : k = Collect(phase, c)
  BY DEF Collect, TypeOK, ContentType
<1>2. SaveState(phase, k, prefs, onceOnShutdown, last, ioq) /\ last \in Nat
  BY <1>1 DEF SaveNow, TypeOK, ContentType
<1> QED
  BY <1>2, SavePending

\* Every pending write is older than the step, or collected by it.
LEMMA NextPending ==
  ASSUME TypeOK, OrderInv, CrashPref, [Next]_vars, MaxFlips = 0, NEW s \in Pending'
  PROVE  \/ s \in Pending
         \/ s.crashes = crashes
<1>1. /\ clock \in Nat /\ live \in Contents /\ flips \in Nat /\ ioq \in Seq(Ops)
      /\ prefs \in PrefValues /\ prefs.crash = InitCrashPref
  BY DEF TypeOK, ContentType, HistoryType, PipeType, PrefsType, CrashPref
<1>2. CASE UNCHANGED <<ioq, jobs, waiting>>
  BY <1>2 DEF Pending, Posted
<1>3. CASE TimerFires \/ PurgeSaveFires \/ IntervalChanged
  <2>1. /\ phase' = phase /\ clock' \in Nat
        /\ SaveNow(live) \/ UNCHANGED <<ioq, jobs, waiting>>
    BY <1>1, <1>3 DEF TimerFires, PurgeSaveFires, IntervalChanged, pipe
  <2> QED
    BY <2>1, <1>1, <1>2, SaveNowPending
<1>4. CASE PurgeDomain
  <2>1. PICK c : c = live'
    OBVIOUS
  <2>2. c \in Contents /\ clock' \in Nat
    <3>1. live' = [live EXCEPT !.tabs = clock + 1] /\ clock' = clock + 1
      BY <1>4 DEF PurgeDomain
    <3> QED
      BY ONLY <2>1, <3>1, <1>1 DEF Contents
  <2>3. SaveNow(c) /\ phase' = phase
    BY <2>1, <1>4 DEF PurgeDomain, SaveNow, Collect
  <2> QED
    BY <2>2, <2>3, <1>1, SaveNowPending
<1>5. CASE Purge \/ ShutdownPurge
  <2>1. ioq' \in {ioq, Append(ioq, Op("removePath"))} /\ UNCHANGED <<jobs, waiting>>
    BY <1>5 DEF Purge, ShutdownPurge
  <2>2. \A i \in Posted(ioq') : i \in Posted(ioq) /\ ioq'[i] = ioq[i]
    BY <2>1, <1>1 DEF Posted, Op
  <2> QED
    BY <2>1, <2>2 DEF Pending, Posted
<1>6. CASE QuitApplication
  <2>1. PICK once : SaveState("quit", collected, [prefs EXCEPT !.once = once],
                              onceOnShutdown, last', ioq)
    BY <1>6 DEF QuitApplication
  <2>2. last' \in Nat /\ collected \in Contents
    BY <1>6 DEF QuitApplication, TypeOK, ContentType
  <2>3. PICK lst \in Nat, c \in Contents : lst = last' /\ c = collected
    BY <2>2
  <2>4. SaveState("quit", c, [prefs EXCEPT !.once = once], onceOnShutdown, lst, ioq)
    BY <2>1, <2>3
  <2>5. clock' \in Nat
    BY <1>1, <1>6 DEF QuitApplication
  <2>6. phase' = "quit"
    BY <1>6 DEF QuitApplication
  <2>7. PICK p : p = [prefs EXCEPT !.once = once]
    OBVIOUS
  <2>8. s \in Pending \/ s.crashes = crashes
    BY <2>4, <2>5, <2>7, SavePending
  <2> QED
    BY <2>6, <2>8
<1>7. CASE FirstWindow
  <2>1. CASE SaveState("running", restore.what, prefs, onceOnShutdown, last, ioq)
    <3>1. PICK c \in Contents : c = restore.what
      BY DEF TypeOK, ContentType
    <3>2. /\ SaveState("running", c, prefs, onceOnShutdown, last, ioq)
          /\ last \in Nat /\ clock' \in Nat
      BY <2>1, <3>1, <1>1, <1>7 DEF FirstWindow, TypeOK, ContentType
    <3> QED
      BY <3>2, <1>1, SavePending
  <2>2. CASE UNCHANGED pipe
    BY <2>2, <1>2 DEF pipe
  <2> QED
    BY <2>1, <2>2, <1>7 DEF FirstWindow
<1>8. CASE RunJob \/ MainCompletion
  BY <1>8, RunJobPending, MainCompletionPending
<1>9. CASE Exit \/ Crash
  BY <1>9 DEF Exit, Crash, Fresh, Pending, Posted
<1>10. CASE Activity \/ QuitRequest \/ QuitAnswer \/ FlushPrefs \/ Startup \/ WorkerStep
              \/ UNCHANGED vars
  BY <1>2, <1>10 DEF Activity, QuitRequest, QuitAnswer, FlushPrefs, Startup, WorkerStep, vars, pipe
<1>11. ~SetResumeFromCrash
  BY <1>1 DEF SetResumeFromCrash
<1> QED
  BY <1>3, <1>4, <1>5, <1>6, <1>7, <1>8, <1>9, <1>10, <1>11 DEF Next

\* What the file holds of a session was pending in it.
LEMMA NextLanded ==
  ASSUME TypeOK, OrderInv, [Next]_vars, MaxFlips = 0
  PROVE  landed' => \/ UNCHANGED <<path, landed>>
                    \/ path' \in Pending /\ phase' = phase
<1>1. CASE WorkerStep
  <2> DEFINE h == Head(ioq)
  <2>1. /\ UNCHANGED phase /\ 1 \in DOMAIN ioq /\ h = ioq[1]
        /\ \/ path' = h.data /\ h.op = "write"
           \/ landed' = FALSE
           \/ path' = path /\ landed' = landed
    BY <1>1, WorkerCases
  <2> HIDE DEF h
  <2>2. h.op = "write" => h.data \in Pending
    BY <2>1 DEF Pending, Posted
  <2> QED
    BY <2>1, <2>2
<1>2. CASE ~WorkerStep
  <2>1. path' = path
    BY <1>2, NextInOrder DEF files
  <2>2. landed' = landed \/ landed' = FALSE
    BY <1>2 DEF Next, vars, history, Fresh, Activity, TimerFires, IntervalChanged,
         PurgeDomain, SetResumeFromCrash, Purge, PurgeSaveFires, ShutdownPurge, QuitRequest,
         QuitAnswer, QuitApplication, Exit, Crash, FlushPrefs, Startup, FirstWindow, RunJob,
         MainCompletion
  <2> QED
    BY <2>1, <2>2
<1> QED
  BY <1>1, <1>2

\* The phases of a process, and what a session keeps of its start.
LEMMA NextPhase ==
  ASSUME DialogUp, [Next]_vars
  PROVE  /\ phase' = "running" => phase \in {"running", "stopped"}
         /\ phase' # "down" => \/ phase = "down" /\ Startup
                               \/ phase # "down" /\ UNCHANGED <<crashes, restore, streak>>
<1>1. ASSUME phase' # "down", ~Startup PROVE phase # "down"
  BY <1>1 DEF DialogUp, Next, vars, Activity, TimerFires, IntervalChanged, PurgeDomain,
         SetResumeFromCrash, Purge, PurgeSaveFires, ShutdownPurge, QuitRequest, QuitAnswer,
         QuitApplication, Exit, Crash, FlushPrefs, FirstWindow, RunJob, WorkerStep, MainCompletion
<1>3. ASSUME phase' # "down", ~Startup PROVE UNCHANGED <<crashes, restore>>
  BY <1>3 DEF Next, vars, content, Activity, TimerFires, IntervalChanged, PurgeDomain,
         SetResumeFromCrash, Purge, PurgeSaveFires, ShutdownPurge, QuitRequest, QuitAnswer,
         QuitApplication, Exit, Crash, FlushPrefs, FirstWindow, RunJob, WorkerStep, MainCompletion
<1>4. ASSUME phase' # "down", ~Startup PROVE UNCHANGED streak
  BY <1>4 DEF Next, vars, history, Activity, TimerFires, IntervalChanged, PurgeDomain,
         SetResumeFromCrash, Purge, PurgeSaveFires, ShutdownPurge, QuitRequest, QuitAnswer,
         QuitApplication, Exit, Crash, FlushPrefs, FirstWindow, RunJob, WorkerStep, MainCompletion
<1>5. Startup => phase = "down"
  BY DEF Startup
<1>2. phase' = "running" => phase \in {"running", "stopped"}
  BY DEF Next, vars, Granted, Activity, TimerFires, IntervalChanged, PurgeDomain,
         SetResumeFromCrash, Purge, PurgeSaveFires, ShutdownPurge, QuitRequest, QuitAnswer,
         QuitApplication, Exit, Crash, FlushPrefs, Startup, FirstWindow, RunJob, WorkerStep,
         MainCompletion
<1> QED
  BY <1>1, <1>2, <1>3, <1>4, <1>5

-----------------------------------------------------------------------------
\* Operations that failed stay failed.
LEMMA FailuresCount ==
  ASSUME TypeOK, [Next]_vars, failures' = 0
  PROVE  failures = 0
<1>1. failures \in Nat
  BY DEF TypeOK, HistoryType
<1>2. failures' = failures \/ failures' = failures + 1
  BY DEF Next, vars, bounds, Activity, TimerFires, IntervalChanged, PurgeDomain,
         SetResumeFromCrash, Purge, PurgeSaveFires, ShutdownPurge, QuitRequest, QuitAnswer,
         QuitApplication, Exit, Crash, FlushPrefs, Startup, FirstWindow, RunJob, WorkerStep,
         MainCompletion
<1> QED
  BY <1>1, <1>2

AllInv == TypeOK /\ OrderInv /\ DialogUp /\ KeepInv

LEMMA InitAllInv == Init => AllInv
<1> SUFFICES ASSUME Init PROVE AllInv
  OBVIOUS
<1>1. TypeOK /\ OrderInv
  BY InitTypeOK, InitInOrder
<1>2. CrashPref /\ DialogUp
  BY DEF Init, CrashPref, DialogUp
<1>3. Flow /\ NothingOffered
  BY DEF Init, Flow, Moves, NothingOffered, Nothing, Blank
<1>4. UpToDate /\ Promised
  BY DEF Init, UpToDate, Promised
<1> QED
  BY <1>1, <1>2, <1>3, <1>4 DEF AllInv, KeepInv, Kept

LEMMA NextAllInv == ASSUME MaxFlips = 0 PROVE AllInv /\ [Next]_vars => AllInv'
<1> SUFFICES ASSUME AllInv, [Next]_vars PROVE AllInv'
  OBVIOUS
<1>1. TypeOK /\ OrderInv /\ DialogUp /\ CrashPref
  BY DEF AllInv, KeepInv
<1>2. TypeOK' /\ OrderInv' /\ DialogUp' /\ CrashPref'
  BY <1>1, NextTypeOK, NextInOrder, NextDialogUp, NextCrashPref
<1>3. ASSUME failures' = 0 PROVE Kept'
  <2>1. failures = 0 /\ Kept
    BY <1>1, <1>3, FailuresCount DEF AllInv, KeepInv
  <2> QED
    BY <1>1, <1>3, <2>1, NextFlow, NextNothingOffered, NextUpToDate, NextPromised DEF Kept
<1> QED
  BY <1>2, <1>3 DEF AllInv, KeepInv

\* While resume_from_crash stays as it is and no file operation has failed, a
\* running browser whose last change has no timer and nothing under way holds
\* it in sessionstore.js: no change is left without a save.
THEOREM NothingLost == ASSUME MaxFlips = 0 PROVE Spec => []NoLostSave
<1>1. AllInv => NoLostSave
  <2> SUFFICES ASSUME AllInv, phase = "running", prefs.crash, failures = 0, Drained,
                      ~timer, ~purgeSave, live.tabs = clock, clock > 0
               PROVE  path # NoFile /\ path.at = clock /\ ContentOf(path) = live
    BY DEF NoLostSave
  <2>1. PICK s \in Snapshots : Ends(s) /\ s.at = clock /\ ContentOf(s) = live
    BY DEF AllInv, KeepInv, Kept, UpToDate
  <2> QED
    BY <2>1, DrainedEnds, ConstantsAssumption
<1> QED
  BY <1>1, InitAllInv, NextAllInv, PTL DEF Spec

\* With crash recovery on, a restart, a Save & Quit and a quit that asked nothing
\* are followed by a start that resumes what was saved last, through crashes of
\* earlier sessions, purges and shutdown sanitization, if no file operation fails.
THEOREM PromisesKept ==
  ASSUME MaxFlips = 0, InitCrashPref PROVE Spec => []PromiseKept
<1>1. AllInv => PromiseKept
  BY DEF AllInv, KeepInv, Kept, Promised, Due, PromiseKept, Keeps
<1> QED
  BY <1>1, InitAllInv, NextAllInv, PTL DEF Spec

\* A restart does so with crash recovery on or off, and keeps the deferred
\* session of an earlier start.
THEOREM RestartsKept == ASSUME MaxFlips = 0 PROVE Spec => []RestartKept
<1>1. AllInv => RestartKept
  BY DEF AllInv, KeepInv, Kept, Promised, Due, RestartKept, Keeps
<1> QED
  BY <1>1, InitAllInv, NextAllInv, PTL DEF Spec

-----------------------------------------------------------------------------
\* 1. Purges.

\* A version that is not purged: none, or newer than the purge.
Clean(v) == v = 0 \/ v > purgeMark
CleanTabs(c) == Clean(c.tabs) /\ Clean(c.pins)

\* What can still be saved is clean, in each phase of the session.
CleanSources ==
  /\ purgeMark <= clock
  /\ phase = "running" => CleanTabs(live) /\ Clean(last)
  /\ phase = "stopped" => CleanTabs(restore.what) /\ Clean(last)
  /\ phase = "granted" => CleanTabs(collected) /\ Clean(last)
  /\ prompt => CleanTabs(collected)
  /\ phase \in {"down", "stopped", "quit"} => ~purgeSave

\* Once the save of the purge is made, sessionstore.js ends clean.
CleanEnd == ~purgeSave => \E s \in Snapshots \cup {NoFile} : Ends(s) /\ Purged(s)

Does(op) == \E i \in Undone : ioq[i].op = op

\* A stale file is moved to the backup only ahead of the removal, and a stale
\* backup has its removal before it.
CleanBackup ==
  /\ (backup = "none" \/ Does("move")) /\ ~Purged(path) => Does("removePath")
  /\ ~Purged(bak) => Does("removeBak") \/ \E i \in DOMAIN ioq : ioq[i].op = "removePath"

Purging == CleanSources /\ CleanEnd /\ CleanBackup

\* What an operation that is posted adds to the queue.
LEMMA DoesAppend ==
  ASSUME TypeOK, NEW e \in Ops, ioq' = Append(ioq, e), reply' = reply
  PROVE  /\ Does(e.op)'
         /\ \A op : Does(op) => Does(op)'
         /\ \A op : Does(op)' /\ op # e.op => Does(op)
         /\ \A i \in DOMAIN ioq : i \in DOMAIN ioq' /\ ioq'[i] = ioq[i]
<1>1. ioq \in Seq(Ops) /\ (reply # "none" => ioq # <<>>)
  BY DEF TypeOK, PipeType
<1>2. /\ DOMAIN ioq = 1..Len(ioq) /\ Len(ioq) \in Nat
      /\ DOMAIN ioq' = 1..(Len(ioq) + 1)
      /\ ioq'[Len(ioq) + 1] = e
      /\ \A i \in 1..Len(ioq) : ioq'[i] = ioq[i]
      /\ reply # "none" => Len(ioq) > 0
  BY <1>1
<1>3. Len(ioq) + 1 \in Undone'
  BY <1>2 DEF Undone
<1>4. \A i \in DOMAIN ioq : i \in Undone <=> i \in Undone'
  BY <1>2 DEF Undone
<1> QED
  BY <1>2, <1>3, <1>4 DEF Does, Undone

\* A step that leaves queue, replies and files alone.
LEMMA StillBackup ==
  ASSUME CleanBackup, UNCHANGED <<ioq, reply, backup, path, bak, purgeMark>>
  PROVE  CleanBackup'
BY DEF CleanBackup, Does, Undone, Purged

\* A save of clean content makes the file end clean, and the backup that it
\* asks for takes a stale file only ahead of the removal.
LEMMA SaveClean ==
  ASSUME TypeOK, OrderInv, Flow, prefs.crash, clock' \in Nat, NEW ph, NEW c \in Contents,
         NEW p, NEW os, NEW lst \in Nat,
         SaveState(ph, c, p, os, lst, ioq), p.crash = prefs.crash,
         CleanTabs(c), Clean(lst), CleanBackup, UNCHANGED <<path, bak, purgeMark>>
  PROVE  CleanEnd' /\ CleanBackup'
<1>1. PICK n \in Snapshots : n = Snapshot(c, ph, FALSE, lst) /\ Ends(n)'
  BY SaveStateEnds
<1>2. n.tabs = c.tabs /\ n.pins = c.pins /\ n.last = lst
  BY <1>1 DEF Snapshot
<1>3. Purged(n)'
  BY <1>2 DEF Purged, CleanTabs, Clean
<1>4. CleanEnd'
  BY <1>1, <1>3 DEF CleanEnd
<1>5. reply' = reply /\ ((\E s : SaveStateObject(s, ioq, p.crash)) \/ UNCHANGED <<ioq, backup>>)
  <2>1. SaveStateObject(Snapshot(c, ph, TRUE, lst), ioq, p.crash)
          \/ SaveStateObject(Snapshot(c, ph, FALSE, lst), ioq, p.crash)
          \/ UNCHANGED <<ioq, backup>>
    BY DEF SaveState
  <2>2. reply' = reply
    BY DEF SaveState
  <2> QED
    BY <2>1, <2>2
<1>6. CASE ioq' = ioq /\ backup' = backup
  BY <1>4, <1>5, <1>6, StillBackup
<1>7. CASE backup = "none" /\ ioq' = Append(ioq, Op("move"))
  <2>1. Op("move") \in Ops /\ Op("move").op = "move"
    BY OpType DEF Op
  <2>2. /\ \A op : Does(op) => Does(op)'
        /\ \A i \in DOMAIN ioq : i \in DOMAIN ioq' /\ ioq'[i] = ioq[i]
    <3>1. PICK e \in Ops : e = Op("move")
      BY <2>1
    <3>2. ioq' = Append(ioq, e) /\ reply' = reply
      BY <1>5, <1>7, <3>1
    <3> QED
      BY ONLY TypeOK, <3>2, DoesAppend
  <2>3. CleanBackup'
    BY <1>7, <2>2 DEF CleanBackup, Purged
  <2> QED
    BY <1>4, <2>3
<1>8. (ioq' = ioq /\ backup' = backup) \/ (backup = "none" /\ ioq' = Append(ioq, Op("move")))
  BY <1>5 DEF SaveStateObject
<1> QED
  BY <1>4, <1>6, <1>7, <1>8

\* The same of a save by timer: what it saves is what the windows show while
\* the browser runs, and what was collected last while it quits.
LEMMA SaveNowClean ==
  ASSUME TypeOK, OrderInv, Flow, prefs.crash, clock' \in Nat, NEW c \in Contents, SaveNow(c),
         phase = "running" => CleanTabs(c), phase # "running" => CleanTabs(collected),
         Clean(last), CleanBackup, UNCHANGED <<path, bak, purgeMark>>
  PROVE  CleanEnd' /\ CleanBackup' /\ (phase # "running" => collected' = collected)
<1>1. PICK d \in Contents : d = Collect(phase, c)
  BY DEF Collect, TypeOK, ContentType
<1>2. CleanTabs(d) /\ SaveState(phase, d, prefs, onceOnShutdown, last, ioq)
  BY <1>1 DEF SaveNow, Collect
<1>3. last \in Nat
  BY DEF TypeOK, ContentType
<1>4. CleanEnd' /\ CleanBackup'
  <2> HIDE DEF Collect
  <2> QED
    BY <1>2, <1>3, SaveClean
<1> QED
  BY <1>4 DEF SaveNow, Collect

\* The worker: a stale file goes before its backup can hide it.
LEMMA WorkerClean ==
  ASSUME TypeOK, OrderInv, Flow, prefs.crash, CleanBackup, WorkerStep,
         failures = 0, failures' = 0
  PROVE  CleanBackup'
<1>1. /\ ioq \in Seq(Ops) /\ ioq # <<>> /\ 1 \in DOMAIN ioq /\ Head(ioq) = ioq[1]
      /\ UNCHANGED <<backup, waiting, jobs, ioq, purgeMark>>
  BY DEF WorkerStep, TypeOK, PipeType
<1>2. reply = "none" /\ reply' = "ok" /\ Undone = DOMAIN ioq /\ Undone' = Undone \ {1}
  <2>1. reply = "none" /\ reply' = "ok" /\ ioq' = ioq
    BY <1>1 DEF WorkerStep, TypeOK, HistoryType
  <2>2. \A i \in DOMAIN ioq : i > 1 <=> i # 1
    BY <1>1
  <2> QED
    BY <2>1, <2>2 DEF Undone
<1>3. /\ Head(ioq).op = "write" => bak' = bak
      /\ Head(ioq).op = "move" =>
           path' = NoFile /\ bak' = (IF path = NoFile THEN bak ELSE path)
      /\ Head(ioq).op = "removePath" => path' = NoFile /\ bak' = bak
      /\ Head(ioq).op = "removeBak" => bak' = NoFile /\ path' = path
  BY <1>2 DEF WorkerStep
<1>4. Head(ioq).op \in {"write", "move", "removePath", "removeBak"}
  BY <1>1 DEF Ops
<1>5. Purged(NoFile)' /\ \A f : Purged(f)' <=> Purged(f)
  BY <1>1 DEF Purged
<1>6. \A op : Does(op)' => Does(op)
  BY <1>1, <1>2 DEF Does
<1>7. \A op : Does(op) /\ Head(ioq).op # op => Does(op)'
  BY <1>1, <1>2 DEF Does
<1>8. CASE Head(ioq).op = "write"
  <2>1. Posted(ioq) # {}
    BY <1>1, <1>8 DEF Posted
  <2>2. backup \in {"ok", "failed"}
    BY <2>1 DEF OrderInv, OneStage, TypeOK, PipeType, BackupStates
  <2>3. backup = "ok"
    BY <2>2 DEF Flow
  <2>4. ~Does("move")
    <3>1. Moves(ioq) = {}
      BY <2>3 DEF Flow
    <3> QED
      BY <3>1 DEF Does, Moves, Undone
  <2>5. ~Does("move")' /\ backup' # "none"
    BY <1>1, <1>6, <2>3, <2>4
  <2> QED
    BY <1>1, <1>3, <1>5, <1>7, <1>8, <2>5 DEF CleanBackup
<1>9. CASE Head(ioq).op = "move"
  <2>1. Does("move")
    BY <1>1, <1>2, <1>9 DEF Does
  <2>2. ~Purged(path) => \E i \in DOMAIN ioq : ioq[i].op = "removePath"
    BY <2>1 DEF CleanBackup, Does, Undone
  <2>3. ~Purged(bak)' => ~Purged(bak) \/ ~Purged(path)
    BY <1>3, <1>5, <1>9
  <2>4. Purged(path)'
    BY <1>3, <1>5, <1>9
  <2> QED
    BY <1>1, <1>5, <1>7, <1>9, <2>2, <2>3, <2>4 DEF CleanBackup
<1>10. CASE Head(ioq).op = "removePath"
  <2>1. Purged(path)'
    BY <1>3, <1>5, <1>10
  <2>2. \E i \in DOMAIN ioq : ioq[i].op = "removePath"
    BY <1>1, <1>10
  <2> QED
    BY <1>1, <2>1, <2>2 DEF CleanBackup
<1>11. CASE Head(ioq).op = "removeBak"
  <2>1. Purged(bak)' /\ (Purged(path)' <=> Purged(path))
    BY <1>3, <1>5, <1>11
  <2> QED
    BY <1>1, <1>6, <1>7, <1>11, <2>1 DEF CleanBackup
<1> QED
  BY <1>4, <1>8, <1>9, <1>10, <1>11

\* The reply to a removal posts that of the backup.
LEMMA CompletionClean ==
  ASSUME TypeOK, Flow, CleanBackup, MainCompletion
  PROVE  CleanBackup'
<1>1. /\ ioq \in Seq(Ops) /\ ioq # <<>> /\ 1 \in DOMAIN ioq /\ Head(ioq) = ioq[1]
      /\ reply = "ok" /\ reply' = "none" /\ UNCHANGED <<path, bak, purgeMark>>
  BY DEF MainCompletion, TypeOK, PipeType, Flow, files, history
<1>2. backup' # "none" \/ backup' = backup
  BY DEF MainCompletion
<1>3. PICK q : q = ioq'
  OBVIOUS
<1>4. /\ q \in Seq(Ops) /\ DOMAIN q = 1..Len(q) /\ Len(q) \in Nat
      /\ \A i \in DOMAIN q : \/ i + 1 \in DOMAIN ioq /\ i \in Nat \ {0} /\ q[i] = ioq[i + 1]
                             \/ q[i].op = "removeBak"
      /\ \A i \in DOMAIN ioq : i > 1 => i - 1 \in DOMAIN q /\ q[i - 1] = ioq[i]
      /\ Head(ioq).op = "removePath" => \E i \in DOMAIN q : q[i].op = "removeBak"
  <2>1. /\ Tail(ioq) \in Seq(Ops) /\ Len(Tail(ioq)) = Len(ioq) - 1
        /\ \A i \in 1..Len(Tail(ioq)) : Tail(ioq)[i] = ioq[i + 1]
        /\ DOMAIN ioq = 1..Len(ioq) /\ Len(ioq) \in Nat /\ Len(ioq) > 0
    BY <1>1
  <2>2. CASE Head(ioq).op # "removePath"
    <3>1. q = Tail(ioq)
      BY <2>2, <1>3 DEF MainCompletion
    <3> QED
      BY <2>1, <2>2, <3>1
  <2>3. CASE Head(ioq).op = "removePath"
    <3>1. q = Append(Tail(ioq), Op("removeBak"))
      BY <2>3, <1>1, <1>3 DEF MainCompletion
    <3>2. /\ q \in Seq(Ops) /\ q[Len(q)] = Op("removeBak") /\ Len(q) = Len(ioq)
          /\ \A i \in 1..(Len(q) - 1) : q[i] = ioq[i + 1]
          /\ DOMAIN q = 1..Len(q)
      BY <2>1, <3>1, OpType
    <3>3. Len(q) \in DOMAIN q /\ q[Len(q)].op = "removeBak"
      BY <2>1, <3>2 DEF Op
    <3> QED
      BY <3>2, <3>3, <2>1
  <2> QED
    BY <2>2, <2>3
<1>5. Undone' = DOMAIN q /\ Undone = {i \in DOMAIN ioq : i > 1}
  BY <1>1, <1>3 DEF Undone
<1>6. \A op : Does(op) => Does(op)'
  <2> SUFFICES ASSUME NEW op, NEW i \in Undone, ioq[i].op = op
               PROVE  \E k \in DOMAIN q : q[k].op = op
    BY <1>3, <1>5 DEF Does
  <2> QED
    BY <1>4, <1>5
<1>7. Does("move")' => Does("move")
  <2> SUFFICES ASSUME NEW i \in DOMAIN q, q[i].op = "move"
               PROVE  \E k \in Undone : ioq[k].op = "move"
    BY <1>3, <1>5 DEF Does
  <2>1. i + 1 \in DOMAIN ioq /\ i \in Nat \ {0} /\ q[i] = ioq[i + 1]
    BY <1>4
  <2> QED
    BY <2>1, <1>5
<1>8. (backup' = "none" \/ Does("move")') /\ ~Purged(path)' => Does("removePath")'
  BY <1>1, <1>2, <1>6, <1>7 DEF CleanBackup, Purged
<1>9. ~Purged(bak)' => Does("removeBak")' \/ \E i \in DOMAIN ioq' : ioq'[i].op = "removePath"
  <2> SUFFICES ASSUME ~Purged(bak)
               PROVE  Does("removeBak")' \/ \E i \in DOMAIN q : q[i].op = "removePath"
    BY <1>1, <1>3 DEF Purged
  <2>1. CASE Does("removeBak")
    BY <2>1, <1>6
  <2>2. ASSUME NEW i \in DOMAIN ioq, ioq[i].op = "removePath"
        PROVE  Does("removeBak")' \/ \E k \in DOMAIN q : q[k].op = "removePath"
    <3>1. CASE i = 1
      <4>1. \E k \in DOMAIN q : q[k].op = "removeBak"
        BY <3>1, <2>2, <1>1, <1>4
      <4> QED
        BY <4>1, <1>3, <1>5 DEF Does
    <3>2. CASE i # 1
      BY <3>2, <2>2, <1>1, <1>4
    <3> QED
      BY <3>1, <3>2
  <2> QED
    BY <2>1, <2>2 DEF CleanBackup
<1> QED
  BY <1>8, <1>9 DEF CleanBackup

-----------------------------------------------------------------------------
\* The steps.

\* A step that leaves queue, replies, files and mark alone.
LEMMA StillClean ==
  ASSUME CleanEnd, CleanBackup, UNCHANGED <<pipe, files, purgeMark>>, purgeSave => purgeSave'
  PROVE  CleanEnd' /\ CleanBackup'
<1>1. UNCHANGED pipe /\ UNCHANGED <<ioq, reply, backup, path, bak, purgeMark>>
  BY DEF pipe, files
<1>2. CleanBackup'
  BY <1>1, StillBackup
<1>3. \A s : Ends(s) => Ends(s)'
  BY <1>1, StillEnds
<1>4. \A f : Purged(f) => Purged(f)'
  BY <1>1 DEF Purged
<1> QED
  BY <1>2, <1>3, <1>4 DEF CleanEnd

\* A file and a backup with nothing under way are clean.
LEMMA DrainedClean ==
  ASSUME CleanEnd, CleanBackup, Drained, ~purgeSave
  PROVE  Purged(path) /\ Purged(bak)
<1>1. PICK s : Ends(s) /\ Purged(s)
  BY DEF CleanEnd
<1>2. path = s
  BY <1>1, DrainedEnds
<1>3. DOMAIN ioq = {} /\ Undone = {}
  BY DEF Drained, Undone
<1> QED
  BY <1>1, <1>2, <1>3 DEF CleanBackup, Does

\* What a start offers comes from a clean file.
LEMMA StartupClean ==
  ASSUME TypeOK, OrderInv, Purging, Startup
  PROVE  CleanTabs(restore'.what) /\ Clean(last')
<1>1. Purged(path) /\ Purged(bak)
  <2>1. Drained /\ ~purgeSave
    BY DEF Startup, OrderInv, Idle, Drained, Purging, CleanSources
  <2> QED
    BY <2>1, DrainedClean DEF Purging
<1>2. Clean(0)
  BY DEF Clean
<1>3. CASE Readable = NoFile
  <2>1. restore'.what = Blank /\ last' = 0
    BY <1>3 DEF Startup, Nothing
  <2> QED
    BY <1>2, <2>1 DEF Blank, CleanTabs
<1>4. CASE Readable # NoFile
  <2>1. PICK s : s = Readable
    OBVIOUS
  <2>2. s \in Snapshots /\ Clean(s.tabs) /\ Clean(s.pins) /\ Clean(s.last)
    BY <1>1, <1>4, <2>1 DEF Readable, Purged, Clean, TypeOK, FilesType
  <2>3. last' \in {0, s.last, s.tabs}
    BY <1>4, <2>1 DEF Startup
  <2>4. \/ restore'.what \in {ContentOf(s), [ContentOf(s) EXCEPT !.page = TRUE]}
        \/ restore'.what = [Blank EXCEPT !.pins = PinnedPart(s)]
    BY <1>4, <2>1 DEF Startup
  <2>5. restore'.what.tabs \in {0, s.tabs} /\ restore'.what.pins \in {0, s.pins}
    BY <2>4 DEF ContentOf, Blank, PinnedPart
  <2> QED
    BY <1>2, <2>2, <2>3, <2>5 DEF CleanTabs
<1> QED
  BY <1>3, <1>4

\* Whatever can be saved after a step is clean.
LEMMA NextSources ==
  ASSUME TypeOK, OrderInv, DialogUp, Purging, [Next]_vars, MaxFlips = 0, ~SanitizeOnShutdown
  PROVE  CleanSources'
<1>1. /\ clock \in Nat /\ purgeMark \in Nat /\ flips \in Nat /\ purgeMark <= clock
      /\ live \in Contents /\ CleanSources
  BY DEF TypeOK, ContentType, HistoryType, Purging, CleanSources
<1>2. ASSUME NEW c, SaveNow(c)
      PROVE  collected' = c \/ (phase # "running" /\ collected' = collected)
  BY <1>2 DEF SaveNow, Collect
<1>3. ASSUME phase' = "running", purgeMark' <= clock', CleanTabs(live)', Clean(last)',
             prompt' => CleanTabs(collected)'
      PROVE  CleanSources'
  BY <1>3 DEF CleanSources
<1>4. ASSUME UNCHANGED purgeMark
      PROVE  /\ \A c : CleanTabs(c)' <=> CleanTabs(c)
             /\ \A v : Clean(v)' <=> Clean(v)
  BY <1>4 DEF CleanTabs, Clean
<1>5. CASE Activity
  <2>1. /\ phase = "running" /\ phase' = phase /\ clock' = clock + 1
        /\ UNCHANGED <<purgeMark, last, prompt, collected>>
        /\ live'.tabs = clock + 1 /\ live'.pins \in {0, clock + 1}
    BY <1>5 DEF Activity, history, quitting
  <2>2. CleanTabs(live') /\ purgeMark' <= clock'
    BY <1>1, <2>1 DEF CleanTabs, Clean
  <2> QED
    BY <1>1, <1>3, <1>4, <2>1, <2>2 DEF CleanSources
<1>6. CASE TimerFires \/ PurgeSaveFires \/ IntervalChanged
  <2>1. /\ phase \in {"running", "granted"} /\ phase' = phase
        /\ UNCHANGED <<clock, live, last, purgeMark, prompt>>
        /\ collected' \in {collected, live}
        /\ phase = "granted" => collected' = collected
    <3>1. CASE TimerFires
      <4>1. SaveNow(live) /\ phase \in {"running", "granted"}
            /\ UNCHANGED <<phase, clock, live, last, purgeMark, prompt>>
        BY <3>1 DEF TimerFires, history, quitting
      <4>2. collected' = live \/ collected' = collected
        BY <1>2, <4>1
      <4>3. phase = "granted" => collected' = collected
        BY <4>1 DEF SaveNow, Collect
      <4> QED
        BY <4>1, <4>2, <4>3
    <3>2. CASE PurgeSaveFires \/ IntervalChanged
      <4>1. /\ phase \in {"running", "granted"}
            /\ UNCHANGED <<phase, clock, live, last, purgeMark, prompt>>
            /\ SaveNow(live) \/ collected' = collected
        BY <3>2 DEF PurgeSaveFires, IntervalChanged, history, quitting
      <4>2. collected' = live \/ collected' = collected
        BY <1>2, <4>1
      <4>3. phase = "granted" => collected' = collected
        BY <4>1 DEF SaveNow, Collect
      <4> QED
        BY <4>1, <4>2, <4>3
    <3> QED
      BY <1>6, <3>1, <3>2
  <2> QED
    BY <1>1, <1>4, <2>1 DEF CleanSources
<1>7. CASE PurgeDomain
  <2>1. /\ phase = "running" /\ phase' = phase /\ clock' = clock + 1
        /\ UNCHANGED <<purgeMark, last, prompt>>
        /\ live' = [live EXCEPT !.tabs = clock + 1]
        /\ collected' = live'
    BY <1>2, <1>7 DEF PurgeDomain, history, quitting
  <2>2. live'.tabs = clock + 1 /\ live'.pins = live.pins
    BY <1>1, <2>1 DEF Contents
  <2>3. CleanTabs(live)' /\ purgeMark' <= clock'
    BY <1>1, <2>1, <2>2 DEF CleanTabs, Clean, CleanSources
  <2> QED
    BY <1>1, <1>3, <1>4, <2>1, <2>3 DEF CleanSources
<1>8. CASE Purge
  <2>1. /\ phase = "running" /\ phase' = phase /\ clock' = clock + 1 /\ last' = 0
        /\ ~prompt' /\ purgeMark' \in {purgeMark, clock}
    BY <1>8 DEF Purge, quitting
  <2>2. CASE live.page
    BY <1>1, <1>8, <2>1, <2>2 DEF Purge, CleanSources, CleanTabs, Clean
  <2>3. CASE ~live.page
    <3>1. live'.tabs = clock + 1 /\ live'.pins \in {0, clock + 1} /\ purgeMark' = clock
      BY <1>8, <2>3 DEF Purge
    <3> QED
      BY <1>1, <2>1, <3>1 DEF CleanSources, CleanTabs, Clean
  <2> QED
    BY <2>2, <2>3
<1>9. CASE QuitRequest
  <2>1. /\ phase = "running" /\ phase' \in {"running", "granted"} /\ collected' = live
        /\ UNCHANGED <<clock, live, last, purgeMark>>
    BY <1>9 DEF QuitRequest, Granted
  <2> QED
    BY <1>1, <1>4, <2>1 DEF CleanSources
<1>10. CASE QuitAnswer
  <2>1. /\ prompt /\ phase = "running" /\ phase' \in {"running", "granted"}
        /\ UNCHANGED <<clock, live, last, purgeMark, collected>>
    BY <1>10 DEF QuitAnswer, Granted, content, DialogUp
  <2> QED
    BY <1>1, <1>4, <2>1 DEF CleanSources
<1>11. CASE QuitApplication \/ Exit \/ Crash
  <2>1. /\ phase' \in {"quit", "down"} /\ ~purgeSave' /\ ~prompt' /\ clock' = clock
        /\ purgeMark' \in {purgeMark, 0}
    <3>1. CASE QuitApplication
      BY <3>1 DEF QuitApplication, quitting, DialogUp
    <3>2. CASE Exit \/ Crash
      BY <3>2 DEF Exit, Crash, Fresh
    <3> QED
      BY <1>11, <3>1, <3>2
  <2> QED
    BY <1>1, <2>1 DEF CleanSources
<1>12. CASE Startup
  <2>1. /\ phase' = "stopped" /\ phase = "down" /\ UNCHANGED <<clock, purgeMark, purgeSave, prompt>>
    BY <1>12 DEF Startup, quitting
  <2>2. CleanTabs(restore'.what) /\ Clean(last')
    BY <1>12, StartupClean
  <2> QED
    BY <1>1, <1>4, <2>1, <2>2 DEF CleanSources, DialogUp
<1>13. CASE FirstWindow
  <2>1. /\ phase = "stopped" /\ phase' = "running" /\ live' = restore.what
        /\ UNCHANGED <<clock, last, purgeMark, prompt>>
    BY <1>13 DEF FirstWindow, quitting
  <2> QED
    BY <1>1, <1>4, <2>1 DEF CleanSources, DialogUp
<1>14. CASE FlushPrefs \/ RunJob \/ WorkerStep \/ MainCompletion \/ UNCHANGED vars
  <2>1. UNCHANGED <<phase, clock, live, collected, last, restore, purgeMark, purgeSave, prompt>>
    BY <1>14 DEF FlushPrefs, RunJob, WorkerStep, MainCompletion, vars, content, quitting, history
  <2> QED
    BY <1>1, <1>4, <2>1 DEF CleanSources
<1>15. ~SetResumeFromCrash /\ ~ShutdownPurge
  BY <1>1 DEF SetResumeFromCrash, ShutdownPurge
<1> QED
  BY <1>5, <1>6, <1>7, <1>8, <1>9, <1>10, <1>11, <1>12, <1>13, <1>14, <1>15 DEF Next

\* So are the ends of the file and of the backup.
LEMMA NextClean ==
  ASSUME TypeOK, OrderInv, Flow, CrashPref, Purging, [Next]_vars, CleanSources', TypeOK',
         failures = 0, failures' = 0, MaxFlips = 0, ~SanitizeOnShutdown, InitCrashPref
  PROVE  CleanEnd' /\ CleanBackup'
<1>1. /\ clock \in Nat /\ flips \in Nat /\ prefs.crash /\ prefs \in PrefValues
      /\ live \in Contents /\ collected \in Contents /\ restore.what \in Contents
      /\ clock' \in Nat /\ last \in Nat /\ last' \in Nat /\ live' \in Contents
      /\ CleanSources /\ CleanEnd /\ CleanBackup
  BY DEF TypeOK, ContentType, HistoryType, PrefsType, CrashPref, Purging
<1>2. CASE TimerFires \/ PurgeSaveFires
  <2>1. /\ SaveNow(live) /\ UNCHANGED <<path, bak, purgeMark>> /\ Clean(last)
        /\ phase = "running" => CleanTabs(live)
        /\ phase # "running" => CleanTabs(collected)
    BY <1>1, <1>2 DEF TimerFires, PurgeSaveFires, files, history, CleanSources
  <2> QED
    BY <1>1, <2>1, SaveNowClean
<1>3. CASE IntervalChanged
  <2>1. /\ UNCHANGED <<files, purgeMark, purgeSave>> /\ UNCHANGED <<path, bak, purgeMark>>
        /\ phase = "running" => CleanTabs(live)
        /\ phase # "running" => CleanTabs(collected)
        /\ Clean(last) /\ (UNCHANGED pipe \/ SaveNow(live))
    BY <1>1, <1>3 DEF IntervalChanged, files, history, CleanSources
  <2>2. CASE UNCHANGED pipe
    BY <1>1, <2>1, <2>2, StillClean
  <2>3. CASE SaveNow(live)
    BY <1>1, <2>1, <2>3, SaveNowClean
  <2> QED
    BY <2>1, <2>2, <2>3
<1>4. CASE PurgeDomain
  <2>1. PICK c \in Contents : c = live'
    BY <1>1
  <2>2. SaveNow(c) /\ UNCHANGED <<path, bak, purgeMark>> /\ phase = "running" /\ phase' = "running"
    BY <1>4, <2>1 DEF PurgeDomain, files, history
  <2>3. CleanTabs(c) /\ Clean(last)
    BY <1>1, <2>1, <2>2 DEF CleanSources, CleanTabs, Clean
  <2> QED
    BY <1>1, <2>2, <2>3, SaveNowClean
<1>5. CASE Purge
  <2>1. PICK e : e = Op("removePath")
    OBVIOUS
  <2>2. e \in Ops /\ e.op = "removePath" /\ ioq' = Append(ioq, e) /\ reply' = reply /\ purgeSave'
    BY <1>5, <2>1, OpType DEF Purge, Op
  <2>3. Does("removePath")'
    BY <2>2, DoesAppend
  <2> QED
    BY <2>2, <2>3 DEF CleanEnd, CleanBackup, Does, Undone
<1>6. CASE QuitApplication
  <2>1. PICK once : SaveState("quit", collected, [prefs EXCEPT !.once = once],
                              onceOnShutdown, last', ioq)
    BY <1>6 DEF QuitApplication
  <2>2. PICK p, lst, c : p = [prefs EXCEPT !.once = once] /\ lst = last' /\ c = collected
    OBVIOUS
  <2>3. p.crash = prefs.crash /\ SaveState("quit", c, p, onceOnShutdown, lst, ioq)
    BY <1>1, <2>1, <2>2 DEF PrefValues
  <2>4. c \in Contents /\ lst \in Nat /\ CleanTabs(c) /\ Clean(lst)
        /\ UNCHANGED <<path, bak, purgeMark>>
    BY <1>1, <1>6, <2>2 DEF QuitApplication, CleanSources, files, Clean
  <2> QED
    BY <1>1, <2>3, <2>4, SaveClean
<1>7. CASE Exit \/ Crash
  <2>1. /\ UNCHANGED <<path, bak>>
        /\ waiting' = <<>> /\ jobs' = <<>> /\ ioq' = <<>>
    BY <1>7 DEF Exit, Crash, Fresh, files
  <2>2. (Drained /\ ~purgeSave /\ purgeMark' = purgeMark) \/ purgeMark' = 0
    BY <1>1, <1>7 DEF Exit, Crash, CleanSources
  <2>3. Purged(path)' /\ Purged(bak)'
    <3>1. CASE Drained /\ ~purgeSave /\ purgeMark' = purgeMark
      BY <1>1, <2>1, <3>1, DrainedClean DEF Purged
    <3>2. CASE purgeMark' = 0
      BY <2>1, <3>2 DEF Purged, TypeOK, FilesType, Snapshots
    <3> QED
      BY <2>2, <3>1, <3>2
  <2>4. PICK f \in Snapshots \cup {NoFile} : f = path
    BY DEF TypeOK, FilesType
  <2>5. Ends(f)'
    BY <2>1, <2>4 DEF Ends, Undone
  <2>6. Purged(f)'
    BY <2>1, <2>3, <2>4 DEF Purged
  <2> QED
    BY <2>3, <2>5, <2>6 DEF CleanEnd, CleanBackup
<1>8. CASE Activity \/ QuitRequest \/ QuitAnswer \/ FlushPrefs \/ Startup \/ UNCHANGED vars
  <2>1. UNCHANGED <<pipe, files, purgeMark>> /\ purgeSave' = purgeSave
    BY <1>8 DEF Activity, QuitRequest, QuitAnswer, FlushPrefs, Startup, vars, history
  <2> QED
    BY <1>1, <2>1, StillClean
<1>9. CASE FirstWindow
  <2>1. PICK c \in Contents : c = restore.what
    BY <1>1
  <2>2. /\ UNCHANGED <<files, purgeMark, purgeSave>> /\ UNCHANGED <<path, bak, purgeMark>>
        /\ CleanTabs(c) /\ Clean(last)
        /\ UNCHANGED pipe \/ SaveState("running", c, prefs, onceOnShutdown, last, ioq)
    BY <1>1, <1>9, <2>1 DEF FirstWindow, files, CleanSources
  <2>3. CASE UNCHANGED pipe
    BY <1>1, <2>2, <2>3, StillClean
  <2>4. CASE SaveState("running", c, prefs, onceOnShutdown, last, ioq)
    BY <1>1, <2>2, <2>4, SaveClean
  <2> QED
    BY <2>2, <2>3, <2>4
<1>10. CASE FileStep
  <2>1. UNCHANGED <<purgeSave, purgeMark>>
    BY <1>10 DEF FileStep, RunJob, WorkerStep, MainCompletion, history
  <2>2. CleanEnd'
    <3>1. \A s : Ends(s) => Ends(s)'
      BY <1>10, FileStepEnds
    <3>2. \A s : Purged(s) => Purged(s)'
      BY <2>1 DEF Purged
    <3> QED
      BY <1>1, <2>1, <3>1, <3>2 DEF CleanEnd
  <2>3. CASE RunJob
    <3>1. PICK e : e = WriteOp(Head(jobs))
      OBVIOUS
    <3>2. Head(jobs) \in Snapshots
      BY <2>3 DEF RunJob, TypeOK, PipeType
    <3>3. e \in Ops /\ e.op = "write" /\ ioq' = Append(ioq, e)
          /\ UNCHANGED <<reply, backup, path, bak>>
      BY <2>3, <3>1, <3>2, OpType DEF RunJob, WriteOp, files
    <3>4. /\ \A op : Does(op) => Does(op)'
          /\ Does("move")' => Does("move")
          /\ \A i \in DOMAIN ioq : i \in DOMAIN ioq' /\ ioq'[i] = ioq[i]
      BY <3>3, DoesAppend
    <3> QED
      BY <1>1, <2>1, <2>2, <3>3, <3>4 DEF CleanBackup, Purged
  <2>4. CASE WorkerStep
    BY <1>1, <2>2, <2>4, WorkerClean
  <2>5. CASE MainCompletion
    BY <1>1, <2>2, <2>5, CompletionClean
  <2> QED
    BY <1>10, <2>3, <2>4, <2>5 DEF FileStep
<1>11. ~SetResumeFromCrash /\ ~ShutdownPurge
  BY <1>1 DEF SetResumeFromCrash, ShutdownPurge
<1> QED
  BY <1>2, <1>3, <1>4, <1>5, <1>6, <1>7, <1>8, <1>9, <1>10, <1>11 DEF Next, FileStep

\* With crash recovery on, a purge that settles leaves no purged history in
\* either file, whatever saves, moves, crashes and restarts were on their way,
\* while resume_from_crash stays as it is and no file operation has failed.
\* Two things the theorem does not cover: with crash recovery off a session
\* without pinned tabs is not saved again, and a wipe at shutdown does not wait
\* for the writes that wait for the backup.
THEOREM PurgesSettle ==
  ASSUME MaxFlips = 0, InitCrashPref, ~SanitizeOnShutdown PROVE Spec => []PurgeSettles
<1> DEFINE PurgeInv == failures = 0 => Purging
<1>1. Init => PurgeInv
  <2> SUFFICES ASSUME Init PROVE Purging
    OBVIOUS
  <2>1. Ends(NoFile) /\ Purged(NoFile)
    BY DEF Init, Ends, Undone, Purged
  <2> QED
    BY <2>1 DEF Init, Purging, CleanSources, CleanEnd, CleanBackup
<1>2. AllInv /\ PurgeInv /\ [Next]_vars => PurgeInv'
  <2> SUFFICES ASSUME AllInv, PurgeInv, [Next]_vars, failures' = 0 PROVE Purging'
    OBVIOUS
  <2>1. TypeOK /\ OrderInv /\ DialogUp /\ CrashPref /\ TypeOK'
    BY NextTypeOK DEF AllInv, KeepInv
  <2>2. failures = 0 /\ Flow /\ Purging
    BY <2>1, FailuresCount DEF AllInv, KeepInv, Kept
  <2>3. CleanSources'
    BY <2>1, <2>2, NextSources
  <2> QED
    BY <2>1, <2>2, <2>3, NextClean DEF Purging
<1>3. AllInv /\ PurgeInv => PurgeSettles
  <2> SUFFICES ASSUME PurgeInv, Drained, ~purgeSave, failures = 0
               PROVE  Purged(path) /\ Purged(bak)
    BY DEF PurgeSettles
  <2> QED
    BY DrainedClean DEF Purging
<1> QED
  <2> HIDE DEF PurgeInv
  <2> QED
    BY <1>1, <1>2, <1>3, InitAllInv, NextAllInv, PTL DEF Spec

-----------------------------------------------------------------------------
\* 2. Crashes in a row.

Open == phase \notin {"down", "stopped"}

\* A start that recovers f counts at least the crashes that happened.
Counts(f) == f # NoFile /\ f.running => streak <= f.crashes + 1

\* What a session saves carries its own count.
OwnCount ==
  /\ phase # "down" => \A s \in Pending : s.crashes = crashes
  /\ landed => path.crashes = crashes

\* Only a recovered session continues a streak, and without the restore page
\* only while its count is within the limit.
Recovery ==
  /\ ~Open => backup = "none"
  /\ phase = "stopped" /\ streak # 0 => restore.kind = "recover" /\ prefs.crash
  /\ (phase # "down" /\ restore.kind = "recover" /\ ~restore.what.page
        /\ MaxResumedCrashes # -1) => crashes <= MaxResumedCrashes

\* Nothing a start can find counts less than the streak.  A recovered session
\* moves what it was recovered from behind its first write before it removes
\* anything: until then the older backup does not matter.
Counted ==
  /\ phase # "down" => streak <= crashes
  /\ ~landed => Counts(Readable)
  /\ streak # 0 /\ Open =>
       /\ backup # "none" /\ Moves(ioq) \subseteq {1}
       /\ Moves(ioq) \cap Undone = {} => Counts(bak)

LoopInv == OwnCount /\ Recovery /\ (failures = 0 => Counted)

-----------------------------------------------------------------------------
\* An operation that is no move leaves the moves of a queue.
LEMMA MovesAppend ==
  ASSUME NEW q \in Seq(Ops), NEW e \in Ops, e.op # "move"
  PROVE  Moves(Append(q, e)) = Moves(q)
<1>1. /\ DOMAIN q = 1..Len(q) /\ Len(q) \in Nat
      /\ DOMAIN Append(q, e) = 1..(Len(q) + 1)
      /\ Append(q, e)[Len(q) + 1] = e
      /\ \A i \in 1..Len(q) : Append(q, e)[i] = q[i]
  OBVIOUS
<1> QED
  BY <1>1 DEF Moves

\* Behind the first save of a recovered session no second backup is made.
LEMMA SaveAfterBackup ==
  ASSUME NEW ph, NEW c, NEW p, NEW os, NEW lst, NEW q, SaveState(ph, c, p, os, lst, q),
         backup # "none"
  PROVE  ioq' = q /\ backup' = backup
BY DEF SaveState, SaveStateObject

LEMMA NextOwnCount ==
  ASSUME TypeOK, OrderInv, DialogUp, CrashPref, OwnCount, [Next]_vars, MaxFlips = 0
  PROVE  OwnCount'
<1>1. OrderInv'
  BY NextInOrder
<1>2. CASE phase' \in {"down", "stopped"}
  BY <1>1, <1>2 DEF OwnCount, OrderInv, Idle, Pending, Posted
<1>3. CASE phase' \notin {"down", "stopped"}
  <2>1. phase # "down" /\ crashes' = crashes
    BY <1>3, NextPhase DEF Startup
  <2>2. \A s \in Pending' : s.crashes = crashes
    BY <2>1, NextPending DEF OwnCount
  <2>3. landed' => path'.crashes = crashes
    BY <2>1, NextLanded DEF OwnCount
  <2> QED
    BY <2>1, <2>2, <2>3 DEF OwnCount
<1> QED
  BY <1>2, <1>3

\* Which steps reach the backup, and how.
LEMMA NextBackup ==
  ASSUME TypeOK, OrderInv, DialogUp, CrashPref, [Next]_vars, MaxFlips = 0,
         ~Open => backup = "none"
  PROVE  /\ ~Open' => backup' = "none"
         /\ Open /\ Open' /\ backup # "none" => backup' # "none"
<1>1. flips \in Nat /\ (phase \in {"down", "stopped"} => ioq = <<>>)
  BY DEF TypeOK, HistoryType, OrderInv, Idle
<1>2. CASE TimerFires \/ PurgeSaveFires \/ IntervalChanged \/ PurgeDomain
  <2>1. /\ Open /\ Open'
        /\ (\E c : SaveNow(c)) \/ backup' = backup
    BY <1>2 DEF TimerFires, PurgeSaveFires, IntervalChanged, PurgeDomain, pipe, Open
  <2> QED
    BY <2>1, SaveAfterBackup DEF SaveNow
<1>3. CASE QuitApplication
  <2>1. Open' /\ \E p, lst : SaveState("quit", collected, p, onceOnShutdown, lst, ioq)
    BY <1>3 DEF QuitApplication, Open
  <2> QED
    BY <2>1, SaveAfterBackup
<1>4. CASE FirstWindow
  BY <1>4 DEF FirstWindow, Open
<1>5. CASE Exit \/ Crash
  BY <1>5 DEF Exit, Crash, Fresh, Open
<1>6. CASE MainCompletion
  BY <1>1, <1>6 DEF MainCompletion, Open, TypeOK, PipeType
<1>7. CASE Activity \/ Purge \/ ShutdownPurge \/ FlushPrefs \/ Startup \/ WorkerStep
             \/ RunJob \/ UNCHANGED vars
  BY <1>7 DEF Activity, Purge, ShutdownPurge, FlushPrefs, Startup, WorkerStep, RunJob, vars,
         pipe, Open
<1>8. CASE QuitRequest \/ QuitAnswer
  BY <1>8 DEF QuitRequest, QuitAnswer, Granted, pipe, Open, DialogUp
<1>9. ~SetResumeFromCrash
  BY <1>1 DEF SetResumeFromCrash
<1> QED
  BY <1>2, <1>3, <1>4, <1>5, <1>6, <1>7, <1>8, <1>9 DEF Next

\* What a start counts.
LEMMA StartupCounts ==
  ASSUME TypeOK, OrderInv, Startup
  PROVE  /\ streak' # 0 => restore'.kind = "recover" /\ prefs'.crash
         /\ (restore'.kind = "recover" /\ ~restore'.what.page /\ MaxResumedCrashes # -1)
              => crashes' <= MaxResumedCrashes
         /\ Counts(Readable) => streak' <= crashes'
<1>1. /\ path \in Snapshots \cup {NoFile} /\ bak \in Snapshots \cup {NoFile}
      /\ streak \in Nat /\ diskPrefs \in PrefValues
  BY DEF TypeOK, FilesType, HistoryType, PrefsType
<1>2. Readable \in Snapshots \cup {NoFile}
  BY <1>1 DEF Readable
<1>3. prefs'.crash = diskPrefs.crash
  BY <1>1 DEF Startup, PrefValues
<1>4. CASE restore'.kind = "recover"
  <2>1. /\ Readable # NoFile /\ Readable \in Snapshots
    <3>1. Readable # NoFile
      BY <1>4 DEF Startup, Nothing
    <3> QED
      BY <3>1, <1>2
  <2>2. PICK s \in Snapshots : s = Readable
    BY <2>1
  <2>3. /\ s.running /\ diskPrefs.crash
        /\ \E old \in BOOLEAN :
             restore' = [kind |-> "recover",
                         what |-> IF NeedsRestorePage(s, IF s.running THEN s.crashes + 1 ELSE 0, old)
                                  THEN [ContentOf(s) EXCEPT !.page = TRUE]
                                  ELSE ContentOf(s)]
        /\ crashes' = IF s.running THEN s.crashes + 1 ELSE 0
    BY <1>4, <2>1, <2>2 DEF Startup
  <2>4. ~restore'.what.page /\ MaxResumedCrashes # -1 => crashes' <= MaxResumedCrashes
    BY <2>3, ConstantsAssumption DEF NeedsRestorePage, ContentOf, Snapshots
  <2>5. streak' = streak /\ crashes' = s.crashes + 1
    BY <1>4, <2>3 DEF Startup
  <2>6. Counts(Readable) => streak' <= crashes'
    BY <2>1, <2>2, <2>3, <2>5 DEF Counts
  <2> QED
    BY <1>3, <1>4, <2>3, <2>4, <2>6
<1>5. CASE restore'.kind # "recover"
  <2>1. streak' = 0 /\ crashes' \in Nat
    BY <1>5, StartupType DEF Startup, TypeOK, ContentType
  <2> QED
    BY <1>5, <2>1
<1> QED
  BY <1>4, <1>5

LEMMA NextRecovery ==
  ASSUME TypeOK, OrderInv, DialogUp, CrashPref, Recovery, [Next]_vars, MaxFlips = 0
  PROVE  Recovery'
<1>1. ~Open' => backup' = "none"
  BY NextBackup DEF Recovery
<1>2. CASE phase' = "down"
  BY <1>1, <1>2 DEF Recovery
<1>3. CASE phase' # "down" /\ Startup
  BY <1>1, <1>3, StartupCounts DEF Recovery
<1>4. CASE phase' # "down" /\ phase # "down" /\ UNCHANGED <<crashes, restore, streak>>
  <2>1. phase' = "stopped" => phase = "stopped"
    BY <1>4 DEF Next, vars, Granted, Activity, TimerFires, IntervalChanged, PurgeDomain,
         SetResumeFromCrash, Purge, PurgeSaveFires, ShutdownPurge, QuitRequest, QuitAnswer,
         QuitApplication, Exit, Crash, FlushPrefs, Startup, FirstWindow, RunJob, WorkerStep,
         MainCompletion
  <2>2. prefs'.crash = prefs.crash
    BY NextCrashPref DEF CrashPref
  <2> QED
    BY <1>1, <1>4, <2>1, <2>2 DEF Recovery
<1> QED
  BY <1>2, <1>3, <1>4, NextPhase

-----------------------------------------------------------------------------
\* A queue that grows by nothing or by an operation that is no move.
LEMMA GrowingQueue ==
  ASSUME TypeOK, TypeOK', Counted, NEW e \in Ops, e.op # "move",
         ioq' = ioq \/ ioq' = Append(ioq, e),
         UNCHANGED <<path, bak, landed, streak, crashes, reply>>,
         Open, backup' # "none"
  PROVE  Counted'
<1>1. ioq \in Seq(Ops)
  BY DEF TypeOK, PipeType
<1>2. Moves(ioq') = Moves(ioq) /\ DOMAIN ioq \subseteq DOMAIN ioq'
  <2>1. Moves(Append(ioq, e)) = Moves(ioq) /\ DOMAIN ioq \subseteq DOMAIN Append(ioq, e)
    BY <1>1, MovesAppend
  <2>2. CASE ioq' = ioq
    BY <2>2 DEF Moves
  <2>3. CASE ioq' = Append(ioq, e)
    BY <2>1, <2>3 DEF Moves
  <2> QED
    BY <2>2, <2>3
<1>3. Undone \subseteq Undone'
  BY <1>2 DEF Undone
<1>4. streak <= crashes
  BY DEF Counted, Open
<1>5. ~landed' => Counts(Readable)'
  BY DEF Counted, Counts, Readable
<1>6. ASSUME streak' # 0, Open'
      PROVE  /\ backup' # "none" /\ Moves(ioq') \subseteq {1}
             /\ Moves(ioq') \cap Undone' = {} => Counts(bak)'
  <2>1. /\ backup # "none" /\ Moves(ioq) \subseteq {1}
        /\ Moves(ioq) \cap Undone = {} => Counts(bak)
    BY <1>6 DEF Counted
  <2> QED
    BY <1>2, <1>3, <1>6, <2>1 DEF Counts
<1> QED
  BY <1>4, <1>5, <1>6 DEF Counted

LEMMA WorkerCounts ==
  ASSUME TypeOK, OrderInv, OwnCount, Counted, WorkerStep, failures' = failures
  PROVE  Counted'
<1>1. /\ ioq \in Seq(Ops) /\ 1 \in DOMAIN ioq /\ Head(ioq) = ioq[1]
      /\ path \in Snapshots \cup {NoFile} /\ bak \in Snapshots \cup {NoFile}
      /\ streak \in Nat /\ crashes \in Nat /\ failures \in Nat /\ reply = "none"
  BY DEF TypeOK, PipeType, FilesType, HistoryType, ContentType, WorkerStep
<1>2. /\ Open /\ reply' = "ok"
      /\ UNCHANGED <<phase, ioq, backup, streak, crashes>>
  BY <1>1 DEF WorkerStep, OrderInv, Idle, Open, pipe, content
<1>3. /\ Undone = DOMAIN ioq /\ Undone' = {i \in DOMAIN ioq : i > 1}
      /\ Open' /\ Moves(ioq') = Moves(ioq)
  BY <1>1, <1>2 DEF Undone, Open, Moves
<1>4. streak' <= crashes'
  BY <1>2 DEF Counted, Open
<1>5. streak # 0 => backup # "none" /\ Moves(ioq) \subseteq {1}
  BY <1>2 DEF Counted
<1>6. Counts(NoFile)' /\ (streak = 0 => Counts(path) /\ Counts(bak))
  BY <1>1 DEF Counts, Snapshots
<1>7. landed => path # NoFile /\ path.crashes = crashes
  BY DEF OwnCount, OrderInv, FilesInTime
<1>8. Counts(path) \/ path = NoFile
  <2>1. CASE landed
    BY <2>1, <1>1, <1>4, <1>2, <1>7 DEF Counts
  <2>2. CASE ~landed
    BY <2>2 DEF Counted, Readable
  <2> QED
    BY <2>1, <2>2
<1>9. path = NoFile => Counts(bak)
  BY <1>7 DEF Counted, Readable
<1>10. ioq[1].op # "move" => Counts(bak)
  <2>1. CASE streak = 0
    BY <2>1, <1>6
  <2>2. CASE streak # 0 /\ ioq[1].op # "move"
    <3>1. Moves(ioq) = {}
      BY <2>2, <1>5 DEF Moves
    <3> QED
      BY <3>1, <2>2, <1>2 DEF Counted
  <2> QED
    BY <2>1, <2>2
<1>11. /\ ~landed' => Counts(Readable)'
       /\ Moves(ioq) \cap Undone' = {} => Counts(bak)'
  <2>1. CASE ioq[1].op = "write"
    <3>1. landed' /\ bak' = bak
      BY <2>1, <1>1, <1>2 DEF WorkerStep
    <3> QED
      BY <3>1, <2>1, <1>10, <1>2 DEF Counts
  <2>2. CASE ioq[1].op = "move"
    <3>1. path' = NoFile /\ bak' = IF path = NoFile THEN bak ELSE path
      BY <2>2, <1>1, <1>2 DEF WorkerStep
    <3>2. Counts(bak)'
      BY <3>1, <1>2, <1>8, <1>9 DEF Counts
    <3> QED
      BY <3>1, <3>2 DEF Readable
  <2>3. CASE ioq[1].op = "removePath"
    <3>1. path' = NoFile /\ bak' = bak
      BY <2>3, <1>1, <1>2 DEF WorkerStep
    <3>2. Counts(bak)'
      BY <3>1, <2>3, <1>2, <1>10 DEF Counts
    <3> QED
      BY <3>1, <3>2 DEF Readable
  <2>4. CASE ioq[1].op = "removeBak"
    <3>1. bak' = NoFile /\ path' = path /\ landed' = landed
      BY <2>4, <1>1, <1>2 DEF WorkerStep
    <3>2. ~landed' => Counts(Readable)'
      BY <3>1, <1>8, <1>2, <1>6 DEF Readable, Counts
    <3> QED
      BY <3>1, <3>2, <1>6
  <2> QED
    BY <2>1, <2>2, <2>3, <2>4, <1>1 DEF Ops
<1> QED
  BY <1>2, <1>3, <1>4, <1>5, <1>11 DEF Counted

LEMMA MainCompletionCounts ==
  ASSUME TypeOK, TypeOK', OrderInv, Flow, Counted, MainCompletion
  PROVE  Counted'
<1>1. /\ ioq \in Seq(Ops) /\ ioq # <<>> /\ Head(ioq) = ioq[1] /\ reply = "ok"
  BY DEF TypeOK, PipeType, MainCompletion, Flow
<1>2. /\ Open /\ Open'
      /\ UNCHANGED <<path, bak, landed, streak, crashes>>
  BY <1>1 DEF MainCompletion, OrderInv, Idle, Open, files, content, history
<1>3. ioq' \in {Tail(ioq), Append(Tail(ioq), Op("removeBak"))}
  BY DEF MainCompletion
<1>4. /\ Tail(ioq) \in Seq(Ops) /\ DOMAIN Tail(ioq) = 1..(Len(ioq) - 1)
      /\ Len(ioq) \in Nat \ {0} /\ DOMAIN ioq = 1..Len(ioq)
      /\ \A i \in 1..(Len(ioq) - 1) : Tail(ioq)[i] = ioq[i + 1]
  BY <1>1
<1>5. Moves(ioq) \subseteq {1} => Moves(ioq') = {}
  <2>1. ASSUME Moves(ioq) \subseteq {1} PROVE Moves(Tail(ioq)) = {}
    <3>1. ASSUME NEW i \in Moves(Tail(ioq)) PROVE FALSE
      <4>1. i \in 1..(Len(ioq) - 1) /\ ioq[i + 1].op = "move"
        BY <3>1, <1>4 DEF Moves
      <4>2. i + 1 \in DOMAIN ioq /\ i + 1 # 1
        BY <4>1, <1>4
      <4> QED
        BY <4>1, <4>2, <2>1 DEF Moves
    <3> QED
      BY <3>1
  <2>2. Moves(Append(Tail(ioq), Op("removeBak"))) = Moves(Tail(ioq))
    BY <1>4, OpType, MovesAppend DEF Op
  <2> QED
    BY <1>3, <2>1, <2>2
<1>6. backup # "none" => backup' # "none"
  BY DEF MainCompletion
<1>7. Moves(ioq) \subseteq {1} => Moves(ioq) \cap Undone = {}
  BY <1>1 DEF Undone
<1>8. ASSUME streak' # 0, Open'
      PROVE  backup' # "none" /\ Moves(ioq') \subseteq {1} /\ Counts(bak)'
  <2>1. backup # "none" /\ Moves(ioq) \subseteq {1} /\ Counts(bak)
    BY <1>2, <1>7, <1>8 DEF Counted
  <2> QED
    BY <2>1, <1>2, <1>5, <1>6 DEF Counts
<1>9. ~landed' => Counts(Readable)'
  BY <1>2 DEF Counted, Counts, Readable
<1>10. streak' <= crashes'
  BY <1>2 DEF Counted, Open
<1> QED
  BY <1>8, <1>9, <1>10 DEF Counted

\* The first save of a recovered session posts the move to the backup first.
LEMMA FirstWindowCounts ==
  ASSUME TypeOK, TypeOK', OrderInv, Recovery, Counted, FirstWindow
  PROVE  Counted'
<1>1. /\ phase = "stopped" /\ UNCHANGED <<path, bak, landed, streak, crashes>>
  BY DEF FirstWindow, files
<1>2. streak <= crashes /\ (~landed' => Counts(Readable)')
  BY <1>1 DEF Counted, Counts, Readable
<1>3. ASSUME streak # 0
      PROVE  /\ backup' # "none" /\ Moves(ioq') \subseteq {1}
             /\ Moves(ioq') \cap Undone' # {}
  <2>1. /\ restore.kind = "recover" /\ prefs.crash /\ backup = "none" /\ ioq = <<>>
    BY <1>1, <1>3 DEF Recovery, OrderInv, Idle, Open
  <2>2. SaveState("running", restore.what, prefs, onceOnShutdown, last, ioq)
    BY <2>1 DEF FirstWindow
  <2>3. backup' = "pending" /\ ioq' = Append(ioq, Op("move")) /\ reply' = reply
    BY <2>1, <2>2 DEF SaveState, SaveStateObject
  <2>4. reply = "none"
    BY <2>1 DEF TypeOK, PipeType
  <2>5. DOMAIN ioq' = {1} /\ ioq'[1].op = "move"
    BY <2>1, <2>3 DEF Op
  <2> QED
    BY <2>3, <2>4, <2>5 DEF Moves, Undone
<1> QED
  BY <1>1, <1>2, <1>3 DEF Counted

\* Every other step of a session that has its backup posts at most one
\* operation, and no move.
LEMMA QueueSteps ==
  ASSUME TypeOK, [Next]_vars, backup # "none", ~SetResumeFromCrash,
         ~Startup, ~Exit, ~Crash, ~WorkerStep, ~MainCompletion, ~FirstWindow
  PROVE  \E e \in Ops : /\ e.op # "move" /\ reply' = reply
                        /\ ioq' = ioq \/ ioq' = Append(ioq, e)
<1>1. Op("removePath") \in Ops /\ Op("removePath").op = "removePath"
  BY OpType DEF Op
<1>2. CASE UNCHANGED <<ioq, reply>>
  BY <1>1, <1>2
<1>3. CASE TimerFires \/ PurgeSaveFires \/ IntervalChanged \/ PurgeDomain
  <2>1. (\E c : SaveNow(c)) \/ UNCHANGED <<ioq, reply>>
    BY <1>3 DEF TimerFires, PurgeSaveFires, IntervalChanged, PurgeDomain, pipe
  <2>2. ASSUME NEW c, SaveNow(c) PROVE UNCHANGED <<ioq, reply>>
    BY <2>2, SaveAfterBackup DEF SaveNow, SaveState
  <2> QED
    BY <2>1, <2>2, <1>2
<1>4. CASE QuitApplication
  <2>1. PICK p, lst : SaveState("quit", collected, p, onceOnShutdown, lst, ioq)
    BY <1>4 DEF QuitApplication
  <2>2. UNCHANGED <<ioq, reply>>
    BY <2>1, SaveAfterBackup DEF SaveState
  <2> QED
    BY <2>2, <1>2
<1>5. CASE Purge \/ ShutdownPurge
  BY <1>1, <1>5 DEF Purge, ShutdownPurge
<1>6. CASE RunJob
  <2>1. Head(jobs) \in Snapshots
    BY <1>6 DEF RunJob, TypeOK, PipeType
  <2>2. PICK e \in Ops : e = WriteOp(Head(jobs)) /\ e.op = "write"
    BY <2>1, OpType DEF WriteOp
  <2> QED
    BY <1>6, <2>2 DEF RunJob
<1>7. CASE Activity \/ QuitRequest \/ QuitAnswer \/ FlushPrefs \/ UNCHANGED vars
  BY <1>2, <1>7 DEF Activity, QuitRequest, QuitAnswer, FlushPrefs, vars, pipe
<1> QED
  BY <1>3, <1>4, <1>5, <1>6, <1>7 DEF Next

LEMMA NextCounted ==
  ASSUME AllInv, LoopInv, [Next]_vars, MaxFlips = 0, failures' = 0
  PROVE  Counted'
<1>1. /\ TypeOK /\ OrderInv /\ DialogUp /\ CrashPref /\ OwnCount /\ Recovery
      /\ TypeOK' /\ OrderInv' /\ OwnCount'
  BY NextTypeOK, NextInOrder, NextOwnCount DEF AllInv, KeepInv, LoopInv
<1>2. failures = 0 /\ Flow /\ Counted
  BY <1>1, FailuresCount DEF AllInv, KeepInv, Kept, LoopInv
<1>3. /\ path \in Snapshots \cup {NoFile} /\ bak \in Snapshots \cup {NoFile}
      /\ streak \in Nat /\ crashes \in Nat /\ flips \in Nat
  BY <1>1 DEF TypeOK, FilesType, HistoryType, ContentType
<1>4. CASE Startup
  <2>1. /\ phase = "down" /\ phase' = "stopped" /\ landed = FALSE
        /\ UNCHANGED <<path, bak, landed>> /\ streak' \in {0, streak}
    BY <1>1, <1>4 DEF Startup, files, OrderInv, Idle
  <2>2. Counts(Readable)
    BY <1>2, <2>1 DEF Counted
  <2>3. streak' <= crashes'
    BY <1>1, <1>4, <2>2, StartupCounts
  <2>4. Counts(Readable)'
    BY <1>3, <2>1, <2>2 DEF Counts, Readable, Snapshots
  <2> QED
    BY <2>1, <2>3, <2>4 DEF Counted, Open
<1>5. CASE Exit
  <2>1. phase' = "down" /\ UNCHANGED <<path, bak>> /\ streak' = 0
    BY <1>5 DEF Exit, files
  <2>2. Counts(Readable)'
    BY <1>3, <2>1 DEF Counts, Readable, Snapshots
  <2> QED
    BY <2>1, <2>2 DEF Counted, Open
<1>6. CASE Crash
  <2>1. /\ phase # "down" /\ phase' = "down" /\ UNCHANGED <<path, bak>>
        /\ streak' = IF landed THEN streak + 1 ELSE streak
    BY <1>6 DEF Crash, files
  <2>2. CASE landed
    <3>1. path # NoFile /\ path.crashes = crashes /\ streak <= crashes
      BY <1>1, <1>2, <2>1, <2>2 DEF OwnCount, OrderInv, FilesInTime, Counted
    <3>2. Counts(Readable)'
      BY <1>3, <2>1, <2>2, <3>1 DEF Counts, Readable
    <3> QED
      BY <2>1, <3>2 DEF Counted, Open
  <2>3. CASE ~landed
    <3>1. Counts(Readable)'
      BY <1>2, <2>1, <2>3 DEF Counted, Counts, Readable
    <3> QED
      BY <2>1, <3>1 DEF Counted, Open
  <2> QED
    BY <2>2, <2>3
<1>7. CASE WorkerStep
  <2>1. failures' = failures
    BY <1>2
  <2> QED
    BY <1>1, <1>2, <1>7, <2>1, WorkerCounts
<1>8. CASE MainCompletion
  BY <1>1, <1>2, <1>8, MainCompletionCounts
<1>9. CASE FirstWindow
  BY <1>1, <1>2, <1>9, FirstWindowCounts
<1>10. ASSUME ~Startup, ~Exit, ~Crash, ~WorkerStep, ~MainCompletion, ~FirstWindow
       PROVE  Counted'
  <2>1. ~SetResumeFromCrash
    BY <1>3 DEF SetResumeFromCrash
  <2>2. CASE phase' = "down" \/ phase = "down"
    <3>1. phase' = phase /\ UNCHANGED <<path, bak, landed, streak>>
      BY <1>1, <1>10, <2>2 DEF DialogUp, Next, vars, files, history, Granted, Activity, TimerFires,
           IntervalChanged, PurgeDomain, SetResumeFromCrash, Purge, PurgeSaveFires, ShutdownPurge,
           QuitRequest, QuitAnswer, QuitApplication, FlushPrefs, RunJob
    <3> QED
      BY <1>2, <2>2, <3>1 DEF Counted, Counts, Readable, Open
  <2>3. CASE phase' # "down" /\ phase # "down"
    <3>1. UNCHANGED <<crashes, streak>>
      BY <1>1, <1>10, <2>3, NextPhase
    <3>2. UNCHANGED <<path, bak, landed>>
      BY <1>10, <2>1 DEF Next, vars, files, history, Activity, TimerFires, IntervalChanged,
           PurgeDomain, Purge, PurgeSaveFires, ShutdownPurge, QuitRequest, QuitAnswer,
           QuitApplication, FlushPrefs, RunJob
    <3>3. Open' => Open
      <4>1. phase' = phase \/ phase \in {"running", "granted"}
        BY <1>1, <1>10, <2>1 DEF DialogUp, Next, vars, Granted, Activity, TimerFires, IntervalChanged,
             PurgeDomain, Purge, PurgeSaveFires, ShutdownPurge, QuitRequest, QuitAnswer,
             QuitApplication, FlushPrefs, RunJob
      <4> QED
        BY <4>1 DEF Open
    <3>4. CASE streak = 0 \/ ~Open'
      <4>1. streak' <= crashes' /\ (~landed' => Counts(Readable)')
        BY <1>2, <2>3, <3>1, <3>2 DEF Counted, Counts, Readable
      <4> QED
        BY <3>1, <3>4, <4>1 DEF Counted
    <3>5. CASE streak # 0 /\ Open'
      <4>1. Open /\ backup # "none" /\ backup' # "none"
        BY <1>1, <1>2, <3>3, <3>5, NextBackup DEF Counted, Recovery
      <4>2. \E e \in Ops : /\ e.op # "move" /\ reply' = reply
                           /\ ioq' = ioq \/ ioq' = Append(ioq, e)
        BY <1>1, <1>10, <2>1, <4>1, QueueSteps
      <4> QED
        BY <1>1, <1>2, <3>1, <3>2, <4>1, <4>2, GrowingQueue
    <3> QED
      BY <3>4, <3>5
  <2> QED
    BY <2>2, <2>3
<1> QED
  BY <1>4, <1>5, <1>6, <1>7, <1>8, <1>9, <1>10

\* A session that keeps crashing reaches the restore page: while
\* resume_from_crash stays as it is and no file operation has failed, no start
\* recovers by itself a session with more than MaxResumedCrashes crashes in a
\* row, whatever wipes, quits and crashes came in between.
THEOREM LoopStops == ASSUME MaxFlips = 0 PROVE Spec => []CrashLoopStops
<1>1. Init => LoopInv
  BY DEF Init, LoopInv, OwnCount, Recovery, Counted, Counts, Readable, Open, Pending, Posted, Nothing
<1>2. AllInv /\ LoopInv /\ [Next]_vars => LoopInv'
  <2> SUFFICES ASSUME AllInv, LoopInv, [Next]_vars PROVE LoopInv'
    OBVIOUS
  <2>1. TypeOK /\ OrderInv /\ DialogUp /\ CrashPref /\ OwnCount /\ Recovery
    BY DEF AllInv, KeepInv, LoopInv
  <2>2. OwnCount' /\ Recovery'
    BY <2>1, NextOwnCount, NextRecovery
  <2> QED
    BY <2>2, NextCounted DEF LoopInv
<1>3. AllInv /\ LoopInv => CrashLoopStops
  <2> SUFFICES ASSUME AllInv, LoopInv, phase = "stopped", failures = 0,
                      restore.kind = "recover", ~restore.what.page, MaxResumedCrashes # -1
               PROVE  streak <= MaxResumedCrashes
    BY DEF CrashLoopStops
  <2>1. streak \in Nat /\ crashes \in Nat /\ MaxResumedCrashes \in Nat
    BY ConstantsAssumption DEF AllInv, TypeOK, HistoryType, ContentType
  <2>2. streak <= crashes /\ crashes <= MaxResumedCrashes
    BY DEF LoopInv, Recovery, Counted
  <2> QED
    BY <2>1, <2>2
<1> QED
  BY <1>1, <1>2, <1>3, InitAllInv, NextAllInv, PTL DEF Spec

-----------------------------------------------------------------------------
\* 3. Quits that promised nothing.

\* resume_session_once is off, or was when a save of pinned tabs borrowed it.
Off(once, os) == IF os = {} THEN ~once ELSE os = {FALSE}

\* A borrowed preference is on until the end of the session gives it back.
Borrowed ==
  /\ phase # "quit" /\ onceOnShutdown # {} => prefs.once
  /\ phase \in {"down", "stopped"} => onceOnShutdown = {}

\* The way of an unasked quit, from the dialog to the next start.
Unasked ==
  /\ prompt => Off(prefs.once, onceOnShutdown)
  /\ \A o \in owed : o.why = "plain" =>
       /\ phase = "granted" => quitKind # "restart" /\ Off(prefs.once, onceOnShutdown)
       /\ phase = "quit" => ~prefs.once
       /\ phase = "down" => ~diskPrefs.once
       /\ phase = "stopped" /\ ~StartupPage3 => restore.kind # "resume"

AskInv == TypeOK /\ DialogUp /\ Borrowed /\ Unasked

-----------------------------------------------------------------------------
\* A save borrows the preference, or leaves it as its caller set it.
LEMMA SaveBorrows ==
  ASSUME NEW ph, NEW c, NEW p \in PrefValues, NEW os \in OnceValues, NEW lst, NEW q,
         SaveState(ph, c, p, os, lst, q)
  PROVE  /\ (os # {} => p.once) => (onceOnShutdown' # {} => prefs'.once)
         /\ Off(p.once, os) => Off(prefs'.once, onceOnShutdown')
         /\ ph # "running" => onceOnShutdown' = os /\ prefs' = p
<1>1. CASE onceOnShutdown' = os /\ prefs' = p
  BY <1>1
<1>2. CASE /\ ph = "running" /\ os = {}
           /\ onceOnShutdown' = {p.once} /\ prefs' = [p EXCEPT !.once = TRUE]
  <2>1. prefs'.once /\ p.once \in BOOLEAN
    BY <1>2 DEF PrefValues
  <2> QED
    BY <2>1, <1>2 DEF Off
<1> QED
  BY <1>1, <1>2 DEF SaveState

\* The steps that save, and nothing else.
LEMMA SavesAsk ==
  ASSUME AskInv, NEW c, SaveNow(c), UNCHANGED <<phase, prompt, quitKind, owed>>,
         phase \in {"running", "granted"}
  PROVE  Borrowed' /\ Unasked'
<1>1. prefs \in PrefValues /\ onceOnShutdown \in OnceValues
  BY DEF AskInv, TypeOK, PrefsType
<1>2. /\ (onceOnShutdown # {} => prefs.once) => (onceOnShutdown' # {} => prefs'.once)
      /\ Off(prefs.once, onceOnShutdown) => Off(prefs'.once, onceOnShutdown')
  BY <1>1, SaveBorrows DEF SaveNow
<1> QED
  BY <1>2 DEF AskInv, Borrowed, Unasked

\* A flip of resume_from_crash gives the borrowed value back before it saves.
LEMMA FlipAsks ==
  ASSUME AskInv, SetResumeFromCrash
  PROVE  Borrowed' /\ Unasked'
<1>1. /\ prefs \in PrefValues /\ onceOnShutdown \in OnceValues
      /\ Borrowed /\ Unasked
  BY DEF AskInv, TypeOK, PrefsType
<1>2. /\ UNCHANGED <<phase, prompt, quitKind, owed, restore>>
      /\ phase \in {"stopped", "running", "granted"}
  BY DEF SetResumeFromCrash, quitting, history
<1>3. CASE ~observed
  <2>1. prefs'.once = prefs.once /\ onceOnShutdown' = onceOnShutdown
    BY <1>1, <1>3 DEF SetResumeFromCrash, PrefValues
  <2> QED
    BY <1>1, <1>2, <2>1 DEF Borrowed, Unasked
<1>4. CASE observed
  <2>1. PICK once \in BOOLEAN :
          /\ once = IF onceOnShutdown = {} THEN prefs.once
                    ELSE CHOOSE o \in onceOnShutdown : TRUE
          /\ Off(prefs.once, onceOnShutdown) => ~once
    <3>1. CASE onceOnShutdown = {}
      BY <3>1, <1>1 DEF PrefValues, Off
    <3>2. CASE onceOnShutdown = {TRUE}
      BY <3>2 DEF Off
    <3>3. CASE onceOnShutdown = {FALSE}
      BY <3>3 DEF Off
    <3> QED
      BY <3>1, <3>2, <3>3, <1>1 DEF OnceValues
  <2>2. PICK p \in PrefValues :
          p.once = once /\ \E q : SaveState(phase, Collect(phase, live), p, {}, last, q)
    <3>1. [once |-> once, crash |-> ~prefs.crash] \in PrefValues
      BY <1>1 DEF PrefValues
    <3> QED
      BY <3>1, <1>4, <2>1 DEF SetResumeFromCrash
  <2>3. /\ onceOnShutdown' # {} => prefs'.once
        /\ ~once => Off(prefs'.once, onceOnShutdown')
        /\ phase # "running" => onceOnShutdown' = {} /\ prefs' = p
    BY <2>2, SaveBorrows DEF OnceValues, Off
  <2> QED
    BY <1>1, <1>2, <2>1, <2>3 DEF Borrowed, Unasked
<1> QED
  BY <1>3, <1>4

\* The quit: it is granted with a promise, and the preference is given back.
LEMMA QuitAsks ==
  ASSUME AskInv, QuitRequest \/ QuitAnswer \/ QuitApplication
  PROVE  Borrowed' /\ Unasked'
<1>1. /\ prefs \in PrefValues /\ onceOnShutdown \in OnceValues
      /\ Borrowed /\ Unasked /\ (prompt => phase = "running")
  BY DEF AskInv, TypeOK, PrefsType, DialogUp
<1>2. ASSUME NEW kind, NEW save, NEW why, Granted(kind, save, why),
             phase = "running", onceOnShutdown' = onceOnShutdown,
             why = "plain" => kind # "restart" /\ ~save /\ Off(prefs.once, onceOnShutdown)
      PROVE  Borrowed' /\ Unasked'
  <2>1. /\ phase' = "granted" /\ ~prompt' /\ quitKind' = kind
        /\ \A o \in owed' : o.why = why
    BY <1>2 DEF Granted
  <2>2. prefs.once => prefs'.once
    BY <1>1, <1>2 DEF Granted, PrefValues
  <2>3. ~save => prefs'.once = prefs.once
    BY <1>2 DEF Granted
  <2>4. Borrowed'
    BY <1>1, <1>2, <2>1, <2>2 DEF Borrowed
  <2>5. Unasked'
    BY <1>2, <2>1, <2>3 DEF Unasked, Off
  <2> QED
    BY <2>4, <2>5
<1>3. CASE QuitRequest
  <2>1. phase = "running" /\ onceOnShutdown' = onceOnShutdown
    BY <1>3 DEF QuitRequest
  <2>2. ~SessionWillBeRestored => Off(prefs.once, onceOnShutdown)
    BY <1>1, <2>1 DEF SessionWillBeRestored, Borrowed, Off
  <2>3. CASE prompt' /\ ~SessionWillBeRestored /\ UNCHANGED <<phase, prefs, owed>>
    BY <1>1, <2>1, <2>2, <2>3 DEF Borrowed, Unasked
  <2>4. CASE Granted("restart", FALSE, "restart")
    BY <1>2, <2>1, <2>4
  <2>5. CASE Granted("quit", FALSE, IF SessionWillBeRestored THEN "noPrompt" ELSE "plain")
    BY <1>2, <2>1, <2>2, <2>5
  <2> QED
    BY <1>3, <2>3, <2>4, <2>5 DEF QuitRequest
<1>4. CASE QuitAnswer
  <2>1. phase = "running" /\ onceOnShutdown' = onceOnShutdown
    BY <1>1, <1>4 DEF QuitAnswer
  <2>2. Off(prefs.once, onceOnShutdown)
    BY <1>1, <1>4 DEF QuitAnswer, Unasked
  <2>3. CASE ~prompt' /\ UNCHANGED <<phase, prefs, owed>>
    BY <1>1, <2>1, <2>3 DEF Borrowed, Unasked
  <2>4. CASE Granted("quit", FALSE, "plain")
    BY <1>2, <2>1, <2>2, <2>4
  <2>5. CASE Granted("quit", TRUE, "saveAndQuit")
    BY <1>2, <2>1, <2>5
  <2> QED
    BY <1>4, <2>3, <2>4, <2>5 DEF QuitAnswer
<1>5. CASE QuitApplication
  <2>1. PICK once, lst :
          /\ once = IF quitKind = "restart" THEN TRUE
                    ELSE IF onceOnShutdown = {} THEN prefs.once
                    ELSE CHOOSE o \in onceOnShutdown : TRUE
          /\ SaveState("quit", collected, [prefs EXCEPT !.once = once], onceOnShutdown, lst, ioq)
    BY <1>5 DEF QuitApplication
  <2>2. /\ once \in BOOLEAN
        /\ quitKind # "restart" /\ Off(prefs.once, onceOnShutdown) => ~once
    <3>1. CASE quitKind = "restart"
      BY <3>1, <2>1
    <3>2. CASE quitKind # "restart" /\ onceOnShutdown = {}
      BY <3>2, <1>1, <2>1 DEF PrefValues, Off
    <3>3. CASE quitKind # "restart" /\ onceOnShutdown = {TRUE}
      BY <3>3, <2>1 DEF Off
    <3>4. CASE quitKind # "restart" /\ onceOnShutdown = {FALSE}
      BY <3>4, <2>1 DEF Off
    <3> QED
      BY <3>1, <3>2, <3>3, <3>4, <1>1 DEF OnceValues
  <2>3. prefs' = [prefs EXCEPT !.once = once]
    BY <2>1 DEF SaveState
  <2>4. prefs'.once = once
    BY ONLY <1>1, <2>2, <2>3 DEF PrefValues
  <2>5. /\ phase = "granted" /\ phase' = "quit" /\ UNCHANGED <<prompt, quitKind>>
        /\ owed' = {[o EXCEPT !.what = collected, !.last = last'] : o \in owed}
    BY <1>5 DEF QuitApplication, quitting
  <2>6. owed \subseteq Promises
    BY DEF AskInv, TypeOK, HistoryType
  <2>7. \A o \in owed' : \E r \in owed : o.why = r.why
    BY <2>5, <2>6 DEF Promises
  <2>8. ~prompt' /\ (\A o \in owed' : o.why = "plain" => ~prefs'.once)
    BY <1>1, <2>2, <2>4, <2>5, <2>7 DEF Unasked
  <2> QED
    BY <2>5, <2>8 DEF Borrowed, Unasked
<1> QED
  BY <1>3, <1>4, <1>5

LEMMA NextAsks == AskInv /\ [Next]_vars => AskInv'
<1> SUFFICES ASSUME AskInv, [Next]_vars PROVE AskInv'
  OBVIOUS
<1>1. /\ prefs \in PrefValues /\ diskPrefs \in PrefValues
      /\ TypeOK /\ DialogUp /\ Borrowed /\ Unasked
  BY DEF AskInv, TypeOK, PrefsType
<1>2. TypeOK' /\ DialogUp'
  BY <1>1, NextTypeOK, NextDialogUp
<1>3. Borrowed' /\ Unasked'
  <2>1. CASE TimerFires \/ PurgeSaveFires \/ IntervalChanged \/ PurgeDomain
    <3>1. /\ UNCHANGED <<phase, prompt, quitKind, owed>> /\ phase \in {"running", "granted"}
          /\ (\E c : SaveNow(c)) \/ UNCHANGED <<prefs, diskPrefs, onceOnShutdown>>
      BY <2>1 DEF TimerFires, PurgeSaveFires, IntervalChanged, PurgeDomain, quitting, history,
           prefVars
    <3>2. CASE \E c : SaveNow(c)
      BY <3>1, <3>2, SavesAsk
    <3>3. CASE UNCHANGED <<prefs, diskPrefs, onceOnShutdown>>
      BY <1>1, <3>1, <3>3 DEF Borrowed, Unasked
    <3> QED
      BY <3>1, <3>2, <3>3
  <2>2. CASE SetResumeFromCrash
    BY <2>2, FlipAsks
  <2>3. CASE QuitRequest \/ QuitAnswer \/ QuitApplication
    BY <2>3, QuitAsks
  <2>4. CASE Exit
    <3>1. /\ phase = "quit" /\ phase' = "down" /\ ~prompt' /\ onceOnShutdown' = {}
          /\ diskPrefs' = prefs /\ owed' \subseteq owed
      BY <2>4 DEF Exit, Fresh
    <3> QED
      BY <1>1, <3>1 DEF Borrowed, Unasked
  <2>5. CASE Crash
    BY <2>5 DEF Crash, Fresh, Borrowed, Unasked
  <2>6. CASE Startup
    <3>1. /\ phase = "down" /\ phase' = "stopped" /\ UNCHANGED <<prompt, owed, onceOnShutdown>>
      BY <2>6 DEF Startup, quitting
    <3>2. restore'.kind = "resume" => StartupPage3 \/ diskPrefs.once
      BY <2>6 DEF Startup, Nothing
    <3>3. ~prompt
      BY <1>1, <3>1 DEF DialogUp
    <3> QED
      BY <1>1, <3>1, <3>2, <3>3 DEF Borrowed, Unasked
  <2>7. CASE FirstWindow
    <3>1. phase = "stopped" /\ phase' = "running" /\ prompt' = prompt /\ owed' = {}
      BY <2>7 DEF FirstWindow, quitting
    <3>2. onceOnShutdown = {} /\ ~prompt
      BY <1>1, <3>1 DEF Borrowed, DialogUp
    <3>3. CASE UNCHANGED <<prefs, onceOnShutdown>>
      BY <3>1, <3>2, <3>3 DEF Borrowed, Unasked
    <3>4. CASE SaveState("running", restore.what, prefs, onceOnShutdown, last, ioq)
      <4>1. onceOnShutdown' # {} => prefs'.once
        BY <1>1, <3>2, <3>4, SaveBorrows DEF OnceValues
      <4> QED
        BY <3>1, <3>2, <4>1 DEF Borrowed, Unasked
    <3> QED
      BY <2>7, <3>3, <3>4 DEF FirstWindow, prefVars
  <2>8. CASE FlushPrefs
    BY <1>1, <2>8 DEF FlushPrefs, content, quitting, history, Borrowed, Unasked
  <2>9. CASE \/ Activity \/ Purge \/ ShutdownPurge \/ RunJob \/ WorkerStep \/ MainCompletion
             \/ UNCHANGED vars
    <3>1. UNCHANGED <<phase, prompt, quitKind, owed, prefs, diskPrefs, onceOnShutdown, restore>>
      BY <2>9 DEF Activity, Purge, ShutdownPurge, RunJob, WorkerStep, MainCompletion, vars,
           prefVars, content, quitting, history
    <3> QED
      BY <1>1, <3>1 DEF Borrowed, Unasked
  <2> QED
    BY <2>1, <2>2, <2>3, <2>4, <2>5, <2>6, <2>7, <2>8, <2>9 DEF Next
<1> QED
  BY <1>2, <1>3 DEF AskInv

\* A quit that asked the user, or asked nothing and promised nothing, is not
\* followed by a resumed session, for all values of the constants: whatever
\* pinned tabs were saved, preferences flipped or file operations failed.
THEOREM NotResumed == Spec => []NotResumedUnasked
<1>1. Init => AskInv
  <2> SUFFICES ASSUME Init PROVE AskInv
    OBVIOUS
  <2>1. TypeOK
    BY InitTypeOK
  <2>2. DialogUp /\ Borrowed /\ Unasked
    BY DEF Init, DialogUp, Borrowed, Unasked
  <2> QED
    BY <2>1, <2>2 DEF AskInv
<1>2. AskInv => NotResumedUnasked
  BY DEF AskInv, Unasked, NotResumedUnasked
<1> QED
  BY <1>1, <1>2, NextAsks, PTL DEF Spec

-----------------------------------------------------------------------------
\* 4. Pinned tabs only.

OnlyPins(s) == s.tabs = 0 /\ ~s.page
AllPins(q) == \A i \in DOMAIN q : OnlyPins(q[i])

\* Behind every other write that OS.File has, and behind such a file, comes the
\* removal.
Swept ==
  \A i \in DOMAIN ioq : ioq[i].op = "write" /\ ~OnlyPins(ioq[i].data)
    => \E k \in DOMAIN ioq : k > i /\ ioq[k].op = "removePath"
SweptFile ==
  landed /\ ~OnlyPins(path) => \E k \in Undone : ioq[k].op = "removePath"
PinsHeld == AllPins(waiting) /\ AllPins(jobs) /\ Swept /\ SweptFile

\* No session has written anything before its first save read the preference.
Unobserved ==
  /\ waiting = <<>> /\ jobs = <<>> /\ ~landed
  /\ \A i \in DOMAIN ioq : ioq[i].op # "write"

PinsInv ==
  /\ ~observed => Unobserved
  /\ phase \in {"down", "stopped"} => ~observed
  /\ phase = "running" /\ ~prefs.crash /\ failures = 0 /\ ~overtaken => PinsHeld

\* Where nothing was written there is nothing to sweep.
LEMMA UnobservedHeld == ASSUME Unobserved PROVE PinsHeld
BY DEF Unobserved, PinsHeld, AllPins, Swept, SweptFile

\* With crash recovery off a save posts pinned tabs or nothing.
LEMMA PinsSaved ==
  ASSUME TypeOK, clock' \in Nat, NEW c \in Contents, NEW p, ~p.crash, NEW os,
         NEW lst \in Nat, NEW q, SaveState("running", c, p, os, lst, q), AllPins(jobs)
  PROVE  /\ ioq' = q /\ waiting' = waiting /\ reply' = reply /\ observed'
         /\ prefs'.crash = p.crash \/ p \notin PrefValues
         /\ AllPins(jobs')
<1>1. jobs \in Seq(Snapshots) /\ crashes \in Nat
  BY DEF TypeOK, PipeType, ContentType
<1>2. Snapshot(c, "running", TRUE, lst) \in Snapshots
  BY <1>1, SnapshotType
<1>3. PICK n \in Snapshots : n = Snapshot(c, "running", TRUE, lst)
  BY <1>2
<1>4. OnlyPins(n)
  BY <1>3 DEF OnlyPins, Snapshot
<1>5. /\ observed' = TRUE /\ reply' = reply
      /\ \/ ioq' = q /\ UNCHANGED <<waiting, jobs>>
         \/ SaveStateObject(n, q, p.crash)
  BY <1>3, Zenon DEF SaveState
<1>6. ioq' = q /\ waiting' = waiting /\ (jobs' = jobs \/ jobs' = Append(jobs, n))
  BY <1>5 DEF SaveStateObject
<1>7. AllPins(jobs')
  <2>1. CASE jobs' = jobs
    BY <2>1
  <2>2. CASE jobs' = Append(jobs, n)
    <3>1. ASSUME NEW i \in DOMAIN Append(jobs, n) PROVE OnlyPins(Append(jobs, n)[i])
      BY <1>1, <1>4, AppendElement DEF AllPins
    <3> QED
      BY <2>2, <3>1 DEF AllPins
  <2> QED
    BY <1>6, <2>1, <2>2
<1>8. p \in PrefValues => prefs'.crash = p.crash
  BY DEF SaveState, PrefValues
<1> QED
  BY <1>5, <1>6, <1>7, <1>8

\* A save of a session that holds pinned tabs only.
LEMMA SaveHeld ==
  ASSUME TypeOK, PinsHeld, clock' \in Nat, NEW c \in Contents, ~prefs.crash,
         SaveState("running", c, prefs, onceOnShutdown, last, ioq), UNCHANGED <<path, landed>>
  PROVE  PinsHeld'
<1>1. AllPins(waiting) /\ AllPins(jobs) /\ last \in Nat
  BY DEF PinsHeld, TypeOK, ContentType
<1>2. ioq' = ioq /\ waiting' = waiting /\ reply' = reply /\ AllPins(jobs')
  BY <1>1, PinsSaved
<1> QED
  BY <1>1, <1>2 DEF PinsHeld, Swept, SweptFile, Undone

\* A removal that is posted comes behind everything.
LEMMA RemovalSweeps ==
  ASSUME TypeOK, NEW q, q = Append(ioq, Op("removePath")), ioq' = q, reply' = reply
  PROVE  Swept' /\ SweptFile'
<1>1. ioq \in Seq(Ops) /\ Op("removePath") \in Ops /\ (reply # "none" => ioq # <<>>)
  BY OpType DEF TypeOK, PipeType
<1>2. /\ DOMAIN q = 1..(Len(ioq) + 1) /\ Len(ioq) \in Nat
      /\ q[Len(ioq) + 1] = Op("removePath") /\ (reply # "none" => Len(ioq) > 0)
  BY <1>1
<1>3. \A i \in DOMAIN q : q[i].op = "write" => Len(ioq) + 1 > i
  BY <1>2 DEF Op
<1> QED
  BY <1>2, <1>3 DEF Swept, SweptFile, Undone, Op

\* The reaction posts pinned tabs.
LEMMA RunJobHeld ==
  ASSUME TypeOK, PinsHeld, RunJob PROVE PinsHeld'
<1>1. /\ jobs \in Seq(Snapshots) /\ jobs # <<>> /\ ioq \in Seq(Ops)
      /\ reply # "none" => ioq # <<>>
      /\ jobs' = Tail(jobs) /\ ioq' = Append(ioq, WriteOp(Head(jobs)))
      /\ UNCHANGED <<waiting, reply, path, landed>>
  BY DEF TypeOK, PipeType, RunJob, files, history
<1>2. Head(jobs) \in Snapshots /\ OnlyPins(Head(jobs)) /\ WriteOp(Head(jobs)) \in Ops
  BY <1>1, OpType DEF PinsHeld, AllPins
<1>3. AllPins(jobs')
  BY <1>1 DEF PinsHeld, AllPins
<1>4. PICK e \in Ops : e = WriteOp(Head(jobs))
  BY <1>2
<1>5. /\ DOMAIN ioq' = 1..(Len(ioq) + 1) /\ Len(ioq) \in Nat /\ DOMAIN ioq = 1..Len(ioq)
      /\ ioq'[Len(ioq) + 1] = e /\ \A i \in DOMAIN ioq : ioq'[i] = ioq[i]
  BY <1>1, <1>4
<1>6. OnlyPins(e.data)
  BY <1>2, <1>4 DEF WriteOp
<1>7. Swept'
  <2> SUFFICES ASSUME NEW i \in DOMAIN ioq', ioq'[i].op = "write", ~OnlyPins(ioq'[i].data)
               PROVE  \E k \in DOMAIN ioq' : k > i /\ ioq'[k].op = "removePath"
    BY DEF Swept, OnlyPins
  <2>1. i \in DOMAIN ioq
    BY <1>5, <1>6
  <2>2. PICK k \in DOMAIN ioq : k > i /\ ioq[k].op = "removePath"
    BY <2>1, <1>5 DEF PinsHeld, Swept
  <2> QED
    BY <2>2, <1>5
<1>8. SweptFile'
  BY <1>1, <1>5 DEF PinsHeld, SweptFile, Undone
<1> QED
  BY <1>1, <1>3, <1>7, <1>8 DEF PinsHeld

\* A file with other tabs lands with its removal still to be done.
LEMMA WorkerHeld ==
  ASSUME TypeOK, PinsHeld, WorkerStep, failures = 0, failures' = 0
  PROVE  PinsHeld'
<1>1. /\ UNCHANGED <<ioq, jobs, waiting>> /\ reply = "none" /\ reply' # "none"
      /\ ioq \in Seq(Ops) /\ ioq # <<>> /\ Head(ioq) = ioq[1] /\ 1 \in DOMAIN ioq
      /\ Undone = DOMAIN ioq /\ Undone' = {k \in DOMAIN ioq : k > 1}
  <2>1. /\ UNCHANGED <<ioq, jobs, waiting>> /\ reply = "none" /\ reply' # "none"
        /\ ioq \in Seq(Ops) /\ ioq # <<>>
    BY DEF WorkerStep, TypeOK, PipeType
  <2>2. Undone = DOMAIN ioq /\ Undone' = {k \in DOMAIN ioq : k > 1}
    BY <2>1 DEF Undone
  <2> QED
    BY <2>1, <2>2
<1>2. SweptFile'
  <2> SUFFICES ASSUME landed', ~OnlyPins(path')
               PROVE  \E k \in Undone' : ioq[k].op = "removePath"
    BY <1>1 DEF SweptFile, OnlyPins
  <2>1. \/ Head(ioq).op = "write" /\ path' = Head(ioq).data
        \/ Head(ioq).op = "removeBak" /\ UNCHANGED <<path, landed>>
    <3>1. failures' # failures + 1
      OBVIOUS
    <3> QED
      BY <3>1 DEF WorkerStep
  <2>2. CASE Head(ioq).op = "write" /\ path' = Head(ioq).data
    BY <1>1, <2>2 DEF PinsHeld, Swept
  <2>3. CASE Head(ioq).op = "removeBak" /\ UNCHANGED <<path, landed>>
    <3>1. PICK k \in DOMAIN ioq : ioq[k].op = "removePath"
      BY <1>1, <2>3 DEF PinsHeld, SweptFile
    <3>2. k # 1 /\ k \in Nat /\ k >= 1
      BY <1>1, <2>3, <3>1
    <3> QED
      BY <1>1, <3>1, <3>2
  <2> QED
    BY <2>1, <2>2, <2>3
<1> QED
  BY <1>1, <1>2 DEF PinsHeld, Swept

\* The reply takes the first operation off the queue, and with the move it lets
\* the waiting writes go on.
LEMMA CompletionHeld ==
  ASSUME TypeOK, PinsHeld, MainCompletion PROVE PinsHeld'
<1>1. /\ jobs \in Seq(Snapshots) /\ waiting \in Seq(Snapshots) /\ ioq \in Seq(Ops)
      /\ ioq # <<>> /\ reply # "none" /\ reply' = "none" /\ UNCHANGED <<path, landed>>
      /\ ioq' \in {Append(Tail(ioq), Op("removeBak")), Tail(ioq)}
      /\ waiting' \in {waiting, <<>>} /\ jobs' \in {jobs, jobs \o waiting}
  BY DEF TypeOK, PipeType, MainCompletion, files, history
<1>2. AllPins(waiting') /\ AllPins(jobs')
  <2>1. AllPins(jobs \o waiting)
    <3> SUFFICES ASSUME NEW i \in DOMAIN (jobs \o waiting)
                 PROVE  OnlyPins((jobs \o waiting)[i])
      BY DEF AllPins
    <3>1. \/ i \in DOMAIN jobs /\ (jobs \o waiting)[i] = jobs[i]
          \/ i - Len(jobs) \in DOMAIN waiting /\ (jobs \o waiting)[i] = waiting[i - Len(jobs)]
      BY <1>1
    <3> QED
      BY <3>1 DEF PinsHeld, AllPins
  <2>2. AllPins(<<>>)
    BY DEF AllPins
  <2> QED
    BY <1>1, <2>1, <2>2 DEF PinsHeld
<1>3. /\ DOMAIN ioq = 1..Len(ioq) /\ Len(ioq) \in Nat /\ Len(ioq) >= 1
      /\ \A k \in DOMAIN ioq : k > 1 => k - 1 \in DOMAIN ioq' /\ ioq'[k - 1] = ioq[k]
      /\ \A i \in DOMAIN ioq' : \/ i + 1 \in DOMAIN ioq /\ ioq'[i] = ioq[i + 1]
                                \/ ioq'[i] = Op("removeBak")
      /\ DOMAIN ioq' \subseteq Nat \ {0}
  <2>1. Tail(ioq) \in Seq(Ops) /\ Len(Tail(ioq)) = Len(ioq) - 1 /\ Op("removeBak") \in Ops
        /\ Len(ioq) \in Nat /\ Len(ioq) >= 1 /\ DOMAIN ioq = 1..Len(ioq)
        /\ \A k \in 1..(Len(ioq) - 1) : Tail(ioq)[k] = ioq[k + 1]
    BY <1>1, OpType
  <2>2. CASE ioq' = Tail(ioq)
    BY <2>1, <2>2
  <2>3. CASE ioq' = Append(Tail(ioq), Op("removeBak"))
    <3>1. PICK e \in Ops : e = Op("removeBak")
      BY <2>1
    <3>2. /\ DOMAIN ioq' = 1..Len(ioq) /\ ioq'[Len(ioq)] = e
          /\ \A k \in 1..(Len(ioq) - 1) : ioq'[k] = Tail(ioq)[k]
      BY <2>1, <2>3, <3>1
    <3> QED
      BY <2>1, <3>1, <3>2
  <2> QED
    BY <1>1, <2>2, <2>3
<1>4. Swept'
  <2> SUFFICES ASSUME NEW i \in DOMAIN ioq', ioq'[i].op = "write", ~OnlyPins(ioq'[i].data)
               PROVE  \E k \in DOMAIN ioq' : k > i /\ ioq'[k].op = "removePath"
    BY DEF Swept, OnlyPins
  <2>1. i + 1 \in DOMAIN ioq /\ ioq'[i] = ioq[i + 1] /\ i \in Nat
    BY <1>3 DEF Op
  <2>2. PICK k \in DOMAIN ioq : k > i + 1 /\ ioq[k].op = "removePath"
    BY <2>1 DEF PinsHeld, Swept
  <2>3. k - 1 \in DOMAIN ioq' /\ ioq'[k - 1] = ioq[k] /\ k - 1 > i
    BY <1>3, <2>1, <2>2
  <2> QED
    BY <2>2, <2>3
<1>5. SweptFile'
  <2> SUFFICES ASSUME landed, ~OnlyPins(path)
               PROVE  \E k \in Undone' : ioq'[k].op = "removePath"
    BY <1>1 DEF SweptFile, OnlyPins
  <2>1. PICK k \in Undone : ioq[k].op = "removePath"
    BY DEF PinsHeld, SweptFile
  <2>2. k \in DOMAIN ioq /\ k > 1
    BY <1>1, <2>1 DEF Undone
  <2>3. k - 1 \in DOMAIN ioq' /\ ioq'[k - 1] = ioq[k]
    BY <1>3, <2>2
  <2> QED
    BY <1>1, <2>1, <2>3 DEF Undone
<1> QED
  BY <1>2, <1>4, <1>5 DEF PinsHeld

-----------------------------------------------------------------------------
\* Before the first save reads the preference nothing is written.
LEMMA NextUnobserved ==
  ASSUME TypeOK, DialogUp, PinsInv, [Next]_vars
  PROVE  /\ ~observed' => Unobserved'
         /\ phase' \in {"down", "stopped"} => ~observed'
<1>1. ioq \in Seq(Ops) /\ (~observed => Unobserved) /\ (phase \in {"down", "stopped"} => ~observed)
  BY DEF TypeOK, PipeType, PinsInv
<1>2. ASSUME NEW ph, NEW c, NEW p, NEW os, NEW lst, NEW q, SaveState(ph, c, p, os, lst, q)
      PROVE  observed'
  BY <1>2 DEF SaveState
<1>3. ASSUME observed', phase' \notin {"down", "stopped"}
      PROVE  /\ ~observed' => Unobserved'
             /\ phase' \in {"down", "stopped"} => ~observed'
  BY <1>3
<1>4. ASSUME UNCHANGED <<observed, waiting, jobs, ioq, landed>>,
             phase' = phase \/ phase \in {"down", "stopped"}
                            \/ phase' \notin {"down", "stopped"}
      PROVE  /\ ~observed' => Unobserved'
             /\ phase' \in {"down", "stopped"} => ~observed'
  BY <1>1, <1>4 DEF Unobserved
<1>5. CASE TimerFires \/ PurgeSaveFires \/ IntervalChanged \/ PurgeDomain
  <2>1. /\ phase \in {"running", "granted"} /\ phase' = phase
        /\ landed' = landed
        /\ (\E c : SaveNow(c)) \/ UNCHANGED <<observed, pipe>>
    BY <1>5 DEF TimerFires, PurgeSaveFires, IntervalChanged, PurgeDomain, prefVars, history
  <2>2. CASE \E c : SaveNow(c)
    BY <2>1, <2>2, <1>2, <1>3 DEF SaveNow
  <2>3. CASE UNCHANGED <<observed, pipe>>
    BY <2>1, <2>3, <1>4 DEF pipe
  <2> QED
    BY <2>1, <2>2, <2>3
<1>6. CASE SetResumeFromCrash
  <2>1. phase' = phase /\ landed' = landed
    BY <1>6 DEF SetResumeFromCrash, history
  <2>2. CASE observed
    <3>1. observed'
      BY <1>2, <1>6, <2>2 DEF SetResumeFromCrash
    <3> QED
      BY <1>1, <1>3, <2>1, <2>2, <3>1
  <2>3. CASE ~observed
    BY <1>4, <1>6, <2>1, <2>3 DEF SetResumeFromCrash, pipe
  <2> QED
    BY <2>2, <2>3
<1>7. CASE Purge \/ ShutdownPurge
  <2>1. /\ phase' = phase /\ UNCHANGED <<observed, waiting, jobs, landed>>
        /\ ioq' \in {ioq, Append(ioq, Op("removePath"))}
    BY <1>7 DEF Purge, ShutdownPurge, prefVars
  <2>2. \A i \in DOMAIN ioq' : ioq'[i].op = "write" => i \in DOMAIN ioq /\ ioq[i].op = "write"
    BY <1>1, <2>1, OpType DEF Op
  <2> QED
    BY <1>1, <2>1, <2>2 DEF Unobserved
<1>8. CASE QuitApplication
  <2>1. phase' = "quit" /\ observed'
    BY <1>2, <1>8 DEF QuitApplication
  <2> QED
    BY <2>1, <1>3
<1>9. CASE Exit \/ Crash
  BY <1>9 DEF Exit, Crash, Fresh, Unobserved
<1>10. CASE FirstWindow
  <2>1. phase' = "running" /\ landed' = landed
    BY <1>10 DEF FirstWindow
  <2>2. observed' \/ UNCHANGED <<observed, waiting, jobs, ioq>>
    BY <1>2, <1>10 DEF FirstWindow, prefVars, pipe
  <2> QED
    BY <2>1, <2>2, <1>3, <1>4
<1>11. CASE RunJob
  <2>1. observed /\ observed' = observed /\ phase' = phase
    BY <1>1, <1>11 DEF RunJob, Unobserved, prefVars
  <2> QED
    BY <1>1, <2>1
<1>12. CASE WorkerStep
  <2>1. /\ UNCHANGED <<observed, phase, waiting, jobs, ioq>> /\ Head(ioq) = ioq[1]
        /\ 1 \in DOMAIN ioq /\ (Head(ioq).op = "write" \/ ~landed' \/ landed' = landed)
    BY <1>1, <1>12 DEF WorkerStep, prefVars
  <2> QED
    BY <1>1, <2>1 DEF Unobserved
<1>13. CASE MainCompletion
  <2>1. /\ UNCHANGED <<observed, phase, landed>> /\ ioq # <<>>
        /\ ioq' \in {Append(Tail(ioq), Op("removeBak")), Tail(ioq)}
        /\ waiting' \in {waiting, <<>>} /\ jobs' \in {jobs, jobs \o waiting}
    BY <1>13 DEF MainCompletion, prefVars, history, TypeOK, PipeType
  <2>2. ASSUME ~observed PROVE Unobserved'
    <3>1. waiting' = <<>> /\ jobs' = <<>>
      BY <1>1, <2>1, <2>2 DEF Unobserved
    <3>2. \A i \in DOMAIN Tail(ioq) : Tail(ioq)[i].op # "write"
      BY <1>1, <2>1, <2>2 DEF Unobserved
    <3>3. Op("removeBak") \in Ops /\ Tail(ioq) \in Seq(Ops)
      BY <1>1, <2>1, OpType
    <3>4. \A i \in DOMAIN ioq' : ioq'[i].op # "write"
      <4>1. ASSUME NEW i \in DOMAIN Append(Tail(ioq), Op("removeBak"))
            PROVE  Append(Tail(ioq), Op("removeBak"))[i].op # "write"
        <5>1. \/ Append(Tail(ioq), Op("removeBak"))[i] = Op("removeBak")
              \/ i \in DOMAIN Tail(ioq)
                 /\ Append(Tail(ioq), Op("removeBak"))[i] = Tail(ioq)[i]
          BY <3>3, <4>1, AppendElement
        <5> QED
          BY <3>2, <5>1 DEF Op
      <4> QED
        BY <2>1, <3>2, <4>1
    <3> QED
      BY <1>1, <2>1, <2>2, <3>1, <3>4 DEF Unobserved
  <2> QED
    BY <1>1, <2>1, <2>2
<1>14. CASE Activity \/ QuitRequest \/ QuitAnswer \/ FlushPrefs \/ Startup \/ UNCHANGED vars
  <2>1. UNCHANGED <<observed, waiting, jobs, ioq, landed>>
    BY <1>14 DEF Activity, QuitRequest, QuitAnswer, FlushPrefs, Startup, vars, prefVars, pipe,
         history
  <2>2. phase' = phase \/ phase \in {"down", "stopped"} \/ phase' \notin {"down", "stopped"}
    BY <1>14 DEF Activity, QuitRequest, QuitAnswer, Granted, FlushPrefs, Startup, vars
  <2> QED
    BY <1>4, <2>1, <2>2
<1> QED
  BY <1>5, <1>6, <1>7, <1>8, <1>9, <1>10, <1>11, <1>12, <1>13, <1>14 DEF Next

\* A write still to be posted when recovery is switched off is remembered.
LEMMA NextOvertaken ==
  ASSUME TypeOK, [Next]_vars
  PROVE  overtaken => overtaken'
BY DEF TypeOK, HistoryType, Next, vars, bounds, Activity, TimerFires, IntervalChanged,
       PurgeDomain, SetResumeFromCrash, Purge, PurgeSaveFires, ShutdownPurge, QuitRequest,
       QuitAnswer, QuitApplication, Exit, Crash, FlushPrefs, Startup, FirstWindow, RunJob,
       WorkerStep, MainCompletion

\* Switching recovery off posts the removal behind all writes, or overtakes one.
LEMMA FlipHeld ==
  ASSUME TypeOK, PinsInv, SetResumeFromCrash, phase = "running", ~prefs'.crash, ~overtaken'
  PROVE  PinsHeld'
<1>1. /\ prefs \in PrefValues /\ live \in Contents /\ last \in Nat /\ clock \in Nat
      /\ prefs.once \in BOOLEAN /\ prefs.crash \in BOOLEAN
      /\ UNCHANGED <<path, landed, clock>>
  BY DEF TypeOK, PrefsType, PrefValues, ContentType, SetResumeFromCrash, files, history
<1>2. CASE ~observed
  <2>1. Unobserved /\ UNCHANGED <<waiting, jobs, ioq>>
    BY <1>2 DEF PinsInv, SetResumeFromCrash, pipe
  <2> QED
    BY <1>1, <2>1, UnobservedHeld DEF Unobserved, PinsHeld, AllPins, Swept, SweptFile
<1>3. CASE observed
  <2>1. PICK once \in BOOLEAN :
          once = IF onceOnShutdown = {} THEN prefs.once
                 ELSE CHOOSE o \in onceOnShutdown : TRUE
    BY <1>1 DEF TypeOK, PrefsType, OnceValues
  <2>2. PICK p \in PrefValues : p = [once |-> once, crash |-> ~prefs.crash]
    BY <1>1 DEF PrefValues
  <2>3. PICK q : q = IF p.crash THEN ioq ELSE Append(ioq, Op("removePath"))
    OBVIOUS
  <2>4. SaveState("running", live, p, {}, last, q)
    BY <1>3, <2>1, <2>2, <2>3 DEF SetResumeFromCrash, Collect
  <2>5. ~p.crash
    BY <2>4, SaveStatePrefs
  <2>6. waiting = <<>> /\ jobs = <<>>
    BY <1>3, <2>2, <2>5 DEF SetResumeFromCrash
  <2>7. AllPins(jobs) /\ AllPins(waiting)
    BY <2>6 DEF AllPins
  <2>8. ioq' = q /\ waiting' = waiting /\ reply' = reply /\ AllPins(jobs')
    BY <1>1, <2>4, <2>5, <2>7, PinsSaved
  <2>9. Swept' /\ SweptFile'
    BY <2>3, <2>5, <2>8, RemovalSweeps
  <2> QED
    BY <2>7, <2>8, <2>9 DEF PinsHeld
<1> QED
  BY <1>2, <1>3

\* A running session with recovery off keeps to pinned tabs.
LEMMA NextHeld ==
  ASSUME TypeOK, DialogUp, PinsInv, [Next]_vars, phase' = "running", ~prefs'.crash,
         failures' = 0, ~overtaken'
  PROVE  PinsHeld'
<1>1. /\ prefs \in PrefValues /\ live \in Contents /\ last \in Nat /\ clock \in Nat
      /\ restore.what \in Contents /\ ioq \in Seq(Ops) /\ failures = 0 /\ ~overtaken
      /\ phase \in {"running", "stopped"}
  BY NextOvertaken, FailuresCount, NextPhase
     DEF TypeOK, PrefsType, ContentType, PipeType
<1>2. ASSUME phase = "running", ~prefs.crash PROVE PinsHeld
  BY <1>1, <1>2 DEF PinsInv
<1>3. ASSUME UNCHANGED <<phase, prefs, waiting, jobs, ioq, reply, path, landed>>
      PROVE  PinsHeld'
  <2>1. PinsHeld
    BY <1>2, <1>3
  <2> QED
    BY <1>3, <2>1 DEF PinsHeld, AllPins, Swept, SweptFile, Undone
<1>4. ASSUME NEW c \in Contents, phase = "running", clock' \in Nat, SaveNow(c),
             UNCHANGED <<path, landed>>
      PROVE  PinsHeld'
  <2>1. SaveState("running", c, prefs, onceOnShutdown, last, ioq)
    BY <1>4 DEF SaveNow, Collect
  <2>2. ~prefs.crash
    BY <1>1, <2>1, SaveStatePrefs
  <2> QED
    BY <1>2, <1>4, <2>1, <2>2, SaveHeld
<1>5. CASE TimerFires \/ PurgeSaveFires \/ IntervalChanged
  <2>1. /\ phase' = phase /\ UNCHANGED <<clock, path, landed>>
        /\ SaveNow(live) \/ UNCHANGED <<prefs, pipe>>
    BY <1>5 DEF TimerFires, PurgeSaveFires, IntervalChanged, prefVars, files, history
  <2>2. CASE UNCHANGED <<prefs, pipe>>
    BY <2>1, <2>2, <1>3 DEF pipe
  <2> QED
    BY <1>1, <1>4, <2>1, <2>2
<1>6. CASE PurgeDomain
  <2>1. /\ phase = "running" /\ clock' = clock + 1 /\ UNCHANGED <<path, landed>>
        /\ live' = [live EXCEPT !.tabs = clock + 1]
    BY <1>6 DEF PurgeDomain, files, history
  <2>2. PICK c \in Contents : c = live'
    BY <1>1, <2>1 DEF Contents
  <2>3. SaveNow(c)
    BY <2>2, <1>6 DEF PurgeDomain, SaveNow, Collect
  <2> QED
    BY <1>1, <1>4, <2>1, <2>3
<1>7. CASE SetResumeFromCrash
  <2>1. phase = "running"
    BY <1>7 DEF SetResumeFromCrash
  <2> QED
    BY <1>7, <2>1, FlipHeld
<1>8. CASE Purge
  <2>1. /\ phase = "running" /\ UNCHANGED <<prefs, waiting, jobs, reply>>
        /\ ioq' = Append(ioq, Op("removePath"))
    BY <1>8 DEF Purge, prefVars
  <2>2. AllPins(waiting) /\ AllPins(jobs)
    BY <1>2, <2>1 DEF PinsHeld
  <2>3. Swept' /\ SweptFile'
    BY <2>1, RemovalSweeps
  <2> QED
    BY <2>1, <2>2, <2>3 DEF PinsHeld
<1>9. CASE FirstWindow
  <2>1. phase = "stopped" /\ UNCHANGED <<path, landed, clock>>
    BY <1>9 DEF FirstWindow, files
  <2>2. Unobserved /\ PinsHeld
    BY <2>1, UnobservedHeld DEF PinsInv
  <2>3. CASE UNCHANGED pipe
    BY <2>1, <2>2, <2>3 DEF pipe, PinsHeld, AllPins, Swept, SweptFile, Undone
  <2>4. CASE SaveState("running", restore.what, prefs, onceOnShutdown, last, ioq)
    <3>1. PICK c \in Contents : c = restore.what
      BY <1>1
    <3>2. SaveState("running", c, prefs, onceOnShutdown, last, ioq)
      BY <2>4, <3>1
    <3>3. ~prefs.crash
      BY <1>1, <3>2, SaveStatePrefs
    <3> QED
      BY <1>1, <2>1, <2>2, <3>2, <3>3, SaveHeld
  <2> QED
    BY <1>9, <2>3, <2>4 DEF FirstWindow
<1>10. CASE RunJob \/ WorkerStep \/ MainCompletion
  <2>1. phase = "running" /\ ~prefs.crash
    BY <1>10 DEF RunJob, WorkerStep, MainCompletion, prefVars
  <2> QED
    BY <1>1, <1>2, <1>10, <2>1, RunJobHeld, WorkerHeld, CompletionHeld
<1>11. CASE Activity \/ QuitRequest \/ QuitAnswer \/ FlushPrefs \/ UNCHANGED vars
  <2>1. UNCHANGED <<phase, prefs, waiting, jobs, ioq, reply, path, landed>>
    BY <1>11 DEF Activity, QuitRequest, QuitAnswer, Granted, FlushPrefs, vars, prefVars,
         pipe, files, history
  <2> QED
    BY <2>1, <1>3
<1>12. ~ShutdownPurge /\ ~QuitApplication /\ ~Exit /\ ~Crash /\ ~Startup
  BY DEF ShutdownPurge, QuitApplication, Exit, Crash, Startup
<1> QED
  BY <1>5, <1>6, <1>7, <1>8, <1>9, <1>10, <1>11, <1>12 DEF Next

\* With crash recovery off, switched off and on again any number of times, the
\* file of a running session holds pinned tabs only once no removal is queued:
\* for all values of the constants, while no file operation failed and no
\* switch found a write that was still to be posted.
THEOREM PinnedOnly == Spec => []OnlyPinnedWithoutRecovery
<1> DEFINE Inv == TypeOK /\ DialogUp /\ PinsInv
<1>1. Init => Inv
  <2> SUFFICES ASSUME Init PROVE Inv
    OBVIOUS
  <2>1. DialogUp /\ PinsInv
    BY DEF Init, DialogUp, PinsInv, Unobserved
  <2> QED
    BY <2>1, InitTypeOK
<1>2. Inv /\ [Next]_vars => Inv'
  <2> SUFFICES ASSUME Inv, [Next]_vars PROVE Inv'
    OBVIOUS
  <2>1. TypeOK' /\ DialogUp'
    BY NextTypeOK, NextDialogUp
  <2>2. PinsInv'
    BY NextUnobserved, NextHeld DEF PinsInv
  <2> QED
    BY <2>1, <2>2
<1>3. Inv => OnlyPinnedWithoutRecovery
  <2> SUFFICES ASSUME Inv, phase = "running", ~prefs.crash, landed, ~Wiping,
                      failures = 0, ~overtaken
               PROVE  path.tabs = 0 /\ ~path.page
    BY DEF OnlyPinnedWithoutRecovery
  <2>1. SweptFile
    BY DEF PinsInv, PinsHeld
  <2> QED
    BY <2>1 DEF SweptFile, OnlyPins, Undone, Wiping
<1> QED
  BY <1>1, <1>2, <1>3, PTL DEF Spec
=============================================================================
