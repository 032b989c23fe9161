--------------------------- MODULE MCLinkRuntime ---------------------------
(***************************************************************************)
(* Small instances of LinkRuntime for TLC.                                  *)
(***************************************************************************)
EXTENDS LinkRuntime, TLC

\* A public link, and one with a view for whoever has the password and a member's account.
MCPolicies ==
    {[cap |-> 0, lock |-> [password |-> FALSE, account |-> FALSE, users |-> {}, tenant |-> FALSE]],
     [cap |-> 1, lock |-> [password |-> TRUE, account |-> TRUE, users |-> {}, tenant |-> TRUE]]}

Symmetry == Permutations(Visitors)
=============================================================================
