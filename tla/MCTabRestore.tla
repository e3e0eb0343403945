----------------------------- MODULE MCTabRestore -----------------------------
EXTENDS TabRestore
OneWindow == [t \in Tabs |-> "w"]
TwoWindows == [t \in Tabs |-> IF t <= 2 THEN "v" ELSE "w"]
=============================================================================
