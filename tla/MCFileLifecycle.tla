------------------------- MODULE MCFileLifecycle -------------------------
(***************************************************************************)
(* Small instances of FileLifecycle for TLC.                                *)
(***************************************************************************)
EXTENDS FileRefinement, TLC

Symmetry == Permutations(Files) \cup Permutations(Requests)
=============================================================================
