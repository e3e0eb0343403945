---------------------------- MODULE DurableSession ----------------------------
(***************************************************************************)
(* What session saving promises, without files, timers or a worker: one    *)
(* session is kept; while the browser is up it is only ever replaced by a  *)
(* newer one, unless a wipe was asked for; the end of the browser, wanted  *)
(* or not, leaves it alone; and a start offers it, or a part of it, and    *)
(* nothing else.                                                           *)
(***************************************************************************)
EXTENDS Naturals

CONSTANTS
  None,      \* no session
  Sessions   \* records with the fields tabs, pins, page and at, None not among them

VARIABLES
  up,       \* the browser runs
  now,      \* number of changes of the session so far
  kept,     \* what the next start would read, or None
  wiping,   \* a wipe was asked for and has not ended
  offered   \* what the start offered, or None

vars == <<up, now, kept, wiping, offered>>

\* A session is offered as it is, behind the restore page, or as its pinned
\* tabs alone.
Parts(s) ==
  IF s = None THEN {None}
  ELSE {None,
        [tabs |-> s.tabs, pins |-> s.pins, page |-> s.page],
        [tabs |-> s.tabs, pins |-> s.pins, page |-> TRUE],
        [tabs |-> 0, pins |-> s.pins, page |-> FALSE]}

Init == ~up /\ now = 0 /\ kept = None /\ ~wiping /\ offered = None

Start ==
  /\ ~up /\ up'
  /\ offered' \in Parts(kept)
  /\ UNCHANGED <<now, kept, wiping>>

Change ==
  /\ up
  /\ now' = now + 1
  /\ UNCHANGED <<up, kept, wiping, offered>>

\* A state collected no later than now, and no earlier than the one it replaces.
Save ==
  /\ up
  /\ kept' \in Sessions /\ kept'.at <= now
  /\ kept # None => kept.at <= kept'.at
  /\ UNCHANGED <<up, now, wiping, offered>>

\* A purge of the running session changes it too, one at the shutdown does not.
AskWipe ==
  /\ up
  /\ wiping' /\ now' \in {now, now + 1}
  /\ UNCHANGED <<up, kept, offered>>

\* A wipe takes the session away; before it ends an older one may show.
Wipe ==
  /\ up /\ wiping /\ kept # None
  /\ kept' = None \/ (kept' \in Sessions /\ kept'.at <= kept.at)
  /\ UNCHANGED <<up, now, wiping, offered>>

EndWipe ==
  /\ up /\ wiping /\ ~wiping'
  /\ UNCHANGED <<up, now, kept, offered>>

End ==
  /\ up /\ ~up'
  /\ ~wiping' /\ offered' = None
  /\ UNCHANGED <<now, kept>>

Next == Start \/ Change \/ Save \/ AskWipe \/ Wipe \/ EndWipe \/ End

Spec == Init /\ [][Next]_vars
=============================================================================
