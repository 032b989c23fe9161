---------------------------- MODULE MCModeration ----------------------------
(***************************************************************************)
(* Small instances of Moderation for TLC.                                   *)
(***************************************************************************)
EXTENDS Moderation, TLC

Symmetry == Permutations(Instances) \cup Permutations(Links)
            \cup Permutations(Agents) \cup Permutations(Operators)
=============================================================================
