------------------------------ MODULE MCFullZoom ------------------------------
(* FullZoom on small instances; the values are in the .cfg files.           *)
EXTENDS FullZoom, TLC
CONSTANTS tab1, tab2
Tabs == Permutations(Browsers)
=============================================================================
