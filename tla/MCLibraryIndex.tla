--------------------------- MODULE MCLibraryIndex ---------------------------
(* The instances TLC checks of LibraryIndex.                               *)
EXTENDS LibraryIndex
=============================================================================
