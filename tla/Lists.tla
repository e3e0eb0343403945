--------------------------------- MODULE Lists ---------------------------------
(***************************************************************************)
(* What the loops leave that go through an array and splice elements out   *)
(* of it.  It is a recursive function rather than SelectSeq, of which the  *)
(* provers know nothing.                                                   *)
(***************************************************************************)
EXTENDS Integers, Sequences

\* The elements of list at the places in keep, in their order.
Kept(list, keep) ==
  LET from[n \in 0..Len(list)] ==
        IF n = 0 THEN <<>>
        ELSE IF n \in keep THEN Append(from[n - 1], list[n]) ELSE from[n - 1]
  IN from[Len(list)]
=============================================================================
