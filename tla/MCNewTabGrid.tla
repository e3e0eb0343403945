----------------------------- MODULE MCNewTabGrid -----------------------------
(* NewTabGrid on small instances; the values are in the .cfg files.          *)
EXTENDS NewTabGrid, TLC
CONSTANTS page1, page2
Orders == {<<"a", "b", "c">>, <<"c", "a">>}
Windows == Permutations(Pages)
=============================================================================
