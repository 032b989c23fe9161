--------------------------- MODULE FileRefinement ---------------------------
(***************************************************************************)
(* FileLifecycle, with its queues, races and faults, implements FileService. *)
(***************************************************************************)
EXTENDS FileLifecycle

\* The phase a client sees for a status of the files table.
Phase(s) ==
    CASE s = "none"                      -> "absent"
      [] s = "uploading"                 -> "awaiting"
      [] s \in {"uploaded", "scanning"}  -> "checking"
      [] s = "ready"                     -> "serving"
      [] s \in Terminal                  -> "ended"
      [] s = "gone"                      -> "purged"

phases == [f \in Files |-> Phase(row[f].status)]

rejected == {f \in Files : row[f].status = "rejected"}

\* The handlers that inserted a row or read it and will write a status other than an end,
\* and the scan from its read of the row to its write.
Carrying == {"u_put", "u_status", "c_stat", "c_quota", "c_reject", "c_final"}

InHand(f) ==
    \/ \E r \in Requests : req[r].file = f /\ req[r].pc \in Carrying
    \/ scan.file = f /\ scan.pc \in {"sniff", "ready", "x_status"}

taken == {f \in Files : InHand(f)}

Service == INSTANCE FileService
             WITH state <- phases, revived <- resurrected, refused <- rejected, held <- taken

\* Seen through its statuses, a file moves only as FileService allows: it is served only
\* after a check, a purge is final, and it comes back from its end only by the write of a
\* process that took it up before that end, or that checks a rejected file once more.
ImplementsFileService == Service!Spec

-----------------------------------------------------------------------------
\* What the step simulation needs beside the types and the purge's own bookkeeping: a file
\* whose scan is due, queued or running no longer awaits its upload, and what a purge is
\* about to remove has a row.
Scannable(f) == row[f].status # "uploading"

ArrivedReq   == \A r \in Requests :
                    req[r].pc \in {"u_put", "u_status", "u_charge", "u_scan", "c_charge", "c_scan"}
                    => Scannable(req[r].file)
ArrivedQueue == \A i \in 1..Len(scanQ) : Scannable(scanQ[i])
ArrivedScan  == scan.pc # "idle" => Scannable(scan.file)
DoomedExist  == \A f \in purge.doomed : Exists(f)

Arrived == ArrivedReq /\ ArrivedQueue /\ ArrivedScan /\ DoomedExist
=============================================================================
