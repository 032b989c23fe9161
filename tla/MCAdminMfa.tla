----------------------------- MODULE MCAdminMfa -----------------------------
(***************************************************************************)
(* AdminMfa for TLC: two replicas and two handlers, each interchangeable.   *)
(***************************************************************************)
EXTENDS AdminMfa, TLC

Symmetry == Permutations(Requests) \union Permutations(Replicas)
=============================================================================
