---------------------------- MODULE FileService ----------------------------
(***************************************************************************)
(* What the cloud file component promises its clients, as they see it in    *)
(* GET /files/{id}: a file is declared, checked once its bytes have         *)
(* arrived, then served, and ends. FileLifecycle implements this            *)
(* specification (FileRefinement); AgentFlow uses it as the service the     *)
(* agent talks to.                                                          *)
(***************************************************************************)
EXTENDS FiniteSets

CONSTANT Files

VARIABLES
    state,     \* the phase of each file
    revived,   \* files a late status write brought back after their end
    refused,   \* files whose end was a failed check
    held       \* files some process has taken up and may still give a status

Phases == {"absent", "awaiting", "checking", "serving", "ended", "purged"}
Alive  == {"awaiting", "checking", "serving"}

Init ==
    /\ state = [f \in Files |-> "absent"]
    /\ revived = {} /\ refused = {} /\ held = {}

Move(f, from, to) ==
    /\ state[f] \in from
    /\ state' = [state EXCEPT ![f] = to]

\* A row is inserted: awaiting the client's PUT, or with the body of a direct upload.
Insert(f) ==
    /\ \E to \in {"awaiting", "checking"} : Move(f, {"absent"}, to)
    /\ UNCHANGED revived

\* Its bytes have arrived and a scan is due.  A second completion of one upload may send a
\* file that is served already back to be checked.
Complete(f) == Move(f, {"awaiting", "serving"}, "checking") /\ UNCHANGED revived

\* A scan has passed.
Publish(f) == Move(f, {"checking"}, "serving") /\ UNCHANGED revived

\* Rejected, expired or deleted.
End(f) == Move(f, Alive, "ended") /\ UNCHANGED revived

\* A status written over a file's end by a process that has the file in hand and
\* does not look again.
Revive(f) ==
    /\ f \in held
    /\ \E to \in {"checking", "serving"} : Move(f, {"ended"}, to)
    /\ revived' = revived \union {f}

\* The tenant's data are deleted: all rows in one transaction, and for good.
Purge(S) ==
    /\ \A f \in S : state[f] \in Alive \union {"ended"}
    /\ state' = [f \in Files |-> IF f \in S THEN "purged" ELSE state[f]]
    /\ UNCHANGED revived

Step ==
    \/ \E f \in Files : Insert(f) \/ Complete(f) \/ Publish(f) \/ End(f) \/ Revive(f)
    \/ \E S \in SUBSET Files : Purge(S)
    \/ UNCHANGED <<state, revived>>

\* A process takes a file up only before its end; but a file that failed its check may be
\* checked again.
Open(f) == state[f] \notin {"ended", "purged"} \/ f \in refused

\* Only a file in hand is refused.
Hands ==
    /\ held' \subseteq held \union {f \in Files : Open(f)}
    /\ refused' \subseteq {f \in refused \union held : state'[f] = "ended"}

Next == Step /\ Hands

Spec == Init /\ [][Next]_<<state, revived, refused, held>>
=============================================================================
