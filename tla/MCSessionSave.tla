---------------------------- MODULE MCSessionSave ----------------------------
(* SessionSave on small instances; the values are in the .cfg files.        *)
EXTENDS SessionSave
=============================================================================
