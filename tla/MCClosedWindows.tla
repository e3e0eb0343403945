---------------------------- MODULE MCClosedWindows ----------------------------
(* ClosedWindows on small instances: what windows hold when they close.     *)
EXTENDS ClosedWindows
Sample ==
  {[tabs |-> <<FALSE>>, selected |-> 1, worth |-> FALSE],
   [tabs |-> <<TRUE>>, selected |-> 1, worth |-> TRUE],
   [tabs |-> <<FALSE>>, selected |-> 1, worth |-> TRUE],
   [tabs |-> <<TRUE, FALSE>>, selected |-> 1, worth |-> TRUE],
   [tabs |-> <<FALSE, TRUE, FALSE>>, selected |-> 3, worth |-> TRUE]}
=============================================================================
