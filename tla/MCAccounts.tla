----------------------------- MODULE MCAccounts -----------------------------
(***************************************************************************)
(* Instance of Accounts for TLC: an owner, an admin and an outsider.        *)
(***************************************************************************)
EXTENDS Accounts, TLC

CONSTANTS ann, bob, cat

MCStartRole == [u \in {ann, bob, cat} |-> CASE u = ann -> "owner" [] u = bob -> "admin"
                                            [] u = cat -> "none"]

\* Requests in flight are interchangeable.
Symmetry == Permutations(Requests)
=============================================================================
