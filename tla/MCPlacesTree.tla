----------------------------- MODULE MCPlacesTree -----------------------------
(* PlacesTree on small instances; the values are in the .cfg files.          *)
EXTENDS PlacesTree
CONSTANTS folder1, folder2
Alike == Permutations(Folders)
=============================================================================
