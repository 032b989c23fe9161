--------------------------- MODULE FileLifecycle ---------------------------
(***************************************************************************)
(* The life of the cloud files of one tenant: the API handlers that upload, *)
(* presign, complete, delete and purge them, and the background worker that *)
(* scans them, expires them and deletes their objects.                      *)
(*                                                                          *)
(* PostgreSQL (rows, quota), Redis (queues) and the object store are three  *)
(* systems with no common transaction, so a handler is a sequence of calls  *)
(* and one action is one call.  Every call of a handler is modelled; a      *)
(* handler is where its record in req, scan, del, sweep or purge says.      *)
(* One worker process runs one scan consumer, one delete consumer and one   *)
(* sweeper, concurrently with every request.                                *)
(***************************************************************************)
EXTENDS Integers, Sequences, FiniteSets

CONSTANTS
    Files,              \* file identifiers (one object key per file)
    NoFile,             \* "no file" marker
    Texts,              \* those declared text/*, application/json or text/html
    Requests,           \* concurrent API requests
    Sizes,              \* sizes a body may have
    MaxSize,            \* the largest of them
    Limit,              \* quotas.storage_bytes_limit of the tenant's plan
    MaxDeleteAttempts,  \* maxDeleteAttempts in worker.go (6 there)
    MaxRequests,        \* bound: requests started in a behaviour
    MaxFaults           \* bound: lost calls, dying requests and worker restarts

ASSUME FilesAssumption == NoFile \notin Files /\ Texts \subseteq Files
ASSUME SizesAssumption == Sizes \subseteq Nat /\ MaxSize \in Nat
                          /\ \A s \in Sizes : s <= MaxSize
ASSUME BoundsAssumption ==
    /\ Limit \in Nat /\ MaxDeleteAttempts \in Nat \ {0}
    /\ MaxRequests \in Nat /\ MaxFaults \in Nat
ASSUME RequestsAssumption == IsFiniteSet(Requests) /\ Requests # {}

VARIABLES
    row,      \* files table: status and size; "none" not inserted, "gone" purged
    object,   \* object store: what the object under the file's key holds
    used,     \* quotas.storage_bytes_used
    scanQ,    \* Redis list "scan"
    deleteQ,  \* Redis list "delete": key with its retry tag
    dead,     \* Redis list "delete:dead" (as a set)
    due,      \* files whose expires_at has passed
    urls,     \* files with a presigned PUT URL that is still valid
    req,      \* the API handlers in flight
    scan,     \* handleScan
    del,      \* handleDelete: the job in hand
    timers,   \* requeueAfter goroutines, counted by the job they will enqueue
    sweep,    \* sweep
    purge,    \* PurgeTenantData and handleDataDeletion
    issued, faults   \* counters behind the bounds

\* History variables: they guard nothing and are only read by properties.
VARIABLES
    sniffed,      \* files of which a scan read the stored bytes and accepted them
    unread,       \* texts of which a scan opened the object and could not read it
    resurrected,  \* files moved from a terminal status back to a live one
    faulted,      \* files of which a fault lost a call or a job
    escaped       \* files with an object written, or a row inserted, too late to be seen

store   == <<row, object, used, scanQ, deleteQ, dead>>
clock   == <<due, urls>>
worker  == <<scan, del, timers, sweep>>
bounds  == <<issued, faults>>
history == <<sniffed, unread, resurrected, faulted, escaped>>
vars    == <<store, clock, req, worker, purge, bounds, history>>

-----------------------------------------------------------------------------
\* files.status.  Live statuses can still be served or become servable.
Live     == {"uploading", "uploaded", "scanning", "ready"}
Terminal == {"rejected", "expired", "deleted"}
Status   == Live \cup Terminal \cup {"none", "gone"}

Exists(f) == row[f].status \notin {"none", "gone"}
Dead(f)   == row[f].status \in Terminal \cup {"gone"}

Job(f, n) == [key |-> f, attempt |-> n]
Jobs      == [key : Files, attempt : 0..MaxDeleteAttempts]
NoJob     == Job(NoFile, 0)

Absent   == [kind |-> "absent", size |-> 0]
Object   == [kind : {"absent", "match", "mismatch"}, size : Nat]
Stored(f) == object[f].kind # "absent"

At(pc, f, n) == [pc |-> pc, file |-> f, size |-> n]
Idle == At("idle", NoFile, 0)

UploadPCs   == {"u_create", "u_put", "u_status", "u_charge", "u_scan"}
CompletePCs == {"c_stat", "c_quota", "c_reject", "c_delete",
                "c_final", "c_charge", "c_scan"}
DeletePCs   == {"d_mark", "d_release", "d_enqueue"}
ReqPCs  == {"idle", "p_create"} \cup UploadPCs \cup CompletePCs \cup DeletePCs
ScanPCs == {"idle", "read", "sniff", "retry", "ready",
            "x_status", "x_release", "x_enqueue"}

NoSweep == [mark |-> {}, todo |-> {}, cur |-> NoFile, size |-> [f \in Files |-> 0]]
NoPurge == [pc |-> "idle", keys |-> {}, doomed |-> {}]

Init ==
    /\ row = [f \in Files |-> [status |-> "none", size |-> 0]]
    /\ object = [f \in Files |-> Absent]
    /\ used = 0
    /\ scanQ = <<>> /\ deleteQ = <<>> /\ dead = {}
    /\ due = {} /\ urls = {}
    /\ req = [r \in Requests |-> Idle]
    /\ scan = Idle /\ del = NoJob /\ timers = [j \in Jobs |-> 0]
    /\ sweep = NoSweep /\ purge = NoPurge
    /\ issued = 0 /\ faults = 0
    /\ sniffed = {} /\ unread = {} /\ resurrected = {} /\ faulted = {} /\ escaped = {}

-----------------------------------------------------------------------------
\* The store calls.  An UPDATE of a row waits while the purge transaction holds
\* its lock, and changes nothing once the row is gone; none of them looks at the
\* status it overwrites.

WriteRow(f, s, n) ==
    /\ f \notin purge.doomed
    /\ row' = IF Exists(f) THEN [row EXCEPT ![f] = [status |-> s, size |-> n]] ELSE row
    /\ resurrected' = IF row[f].status \in Terminal /\ s \in Live
                      THEN resurrected \cup {f} ELSE resurrected

SetFileStatus(f, s)  == WriteRow(f, s, row[f].size)
FinalizeUpload(f, n) == WriteRow(f, "scanning", n)

CreateFile(f, s, n) ==
    /\ row[f].status = "none"
    /\ row' = [row EXCEPT ![f] = [status |-> s, size |-> n]]

\* Mutant: no floor at zero.
AddStorageUsedNoFloor(delta) == used' = used + delta

\* GREATEST(0, storage_bytes_used + delta)
AddStorageUsed(delta) == used' = IF used + delta < 0 THEN 0 ELSE used + delta

\* Mutant: the check ignores the size of the new body.
OverQuotaOldOnly(n) == used > Limit

OverQuota(n) == used + n > Limit

EnqueueScan(f)      == scanQ' = Append(scanQ, f)
EnqueueDelete(f, n) == deleteQ' = Append(deleteQ, Job(f, n))

\* A write of the object under f's key.  One that lands when the row is already
\* dead is remembered: no later step of the file's own life will clean it up.
PutObject(f, o) ==
    /\ object' = [object EXCEPT ![f] = o]
    /\ escaped' = IF Dead(f) THEN escaped \cup {f} ELSE escaped

Goto(r, pc) == req' = [req EXCEPT ![r].pc = pc]
Return(r)   == req' = [req EXCEPT ![r] = Idle]

Start(r, pc, f, n) ==
    /\ req[r].pc = "idle" /\ issued < MaxRequests
    /\ issued' = issued + 1
    /\ req' = [req EXCEPT ![r] = At(pc, f, n)]

-----------------------------------------------------------------------------
\* Bound: a file identifier is left for every request that will insert a row.
IdLeft ==
    Cardinality({q \in Requests : req[q].pc \in {"u_create", "p_create"}})
        < Cardinality({f \in Files : row[f].status = "none"})

\* handleUploadFile.  The quota check is a read; a read that fails skips it
\* (CallLost).
UploadCheck(r) ==
    \E n \in Sizes :
        /\ IdLeft /\ ~OverQuota(n)
        /\ Start(r, "u_create", NoFile, n)
        /\ UNCHANGED <<store, clock, worker, purge, faults, history>>

UploadCreate(r) ==
    /\ req[r].pc = "u_create"
    /\ \E f \in Files :
         /\ CreateFile(f, "uploaded", req[r].size)
         /\ req' = [req EXCEPT ![r] = At("u_put", f, req[r].size)]
    /\ UNCHANGED <<object, used, scanQ, deleteQ, dead, clock, worker, purge, bounds, history>>

\* The body is streamed into the object store; its bytes may or may not be of
\* the declared type.  An error answers 503 and leaves the row "uploaded".
UploadPut(r) ==
    /\ req[r].pc = "u_put"
    /\ \/ /\ \E k \in {"match", "mismatch"} :
               PutObject(req[r].file, [kind |-> k, size |-> req[r].size])
          /\ Goto(r, "u_status")
       \/ /\ Return(r)
          /\ UNCHANGED <<object, escaped>>
    /\ UNCHANGED <<row, used, scanQ, deleteQ, dead, clock, worker, purge, bounds,
                   sniffed, unread, resurrected, faulted>>

UploadStatus(r) ==
    /\ req[r].pc = "u_status"
    /\ SetFileStatus(req[r].file, "scanning")
    /\ Goto(r, "u_charge")
    /\ UNCHANGED <<object, used, scanQ, deleteQ, dead, clock, worker, purge, bounds,
                   sniffed, unread, faulted, escaped>>

\* AddStorageUsed, then Enqueue "scan": also the end of handleCompleteUpload.
Charge(r) ==
    /\ req[r].pc \in {"u_charge", "c_charge"}
    /\ AddStorageUsed(req[r].size)
    /\ Goto(r, IF req[r].pc = "u_charge" THEN "u_scan" ELSE "c_scan")
    /\ UNCHANGED <<row, object, scanQ, deleteQ, dead, clock, worker, purge, bounds, history>>

QueueScan(r) ==
    /\ req[r].pc \in {"u_scan", "c_scan"}
    /\ EnqueueScan(req[r].file)
    /\ Return(r)
    /\ UNCHANGED <<row, object, used, deleteQ, dead, clock, worker, purge, bounds, history>>

\* handlePresign: quota check, then the row and a URL.  Nothing is charged.
PresignCheck(r) ==
    \E n \in Sizes \ {0} :
        /\ IdLeft /\ ~OverQuota(n)
        /\ Start(r, "p_create", NoFile, n)
        /\ UNCHANGED <<store, clock, worker, purge, faults, history>>

PresignCreate(r) ==
    /\ req[r].pc = "p_create"
    /\ \E f \in Files :
         /\ CreateFile(f, "uploading", req[r].size)
         /\ urls' \in {urls, urls \cup {f}}      \* PresignPut may fail: 500
    /\ Return(r)
    /\ UNCHANGED <<object, used, scanQ, deleteQ, dead, due, worker, purge, bounds, history>>

\* The client uses the URL, as often as it likes and with a body of any size.
ClientPut(f) ==
    /\ f \in urls
    /\ \E k \in {"match", "mismatch"}, n \in Sizes :
         PutObject(f, [kind |-> k, size |-> n])
    /\ UNCHANGED <<row, used, scanQ, deleteQ, dead, clock, req, worker, purge, bounds,
                   sniffed, unread, resurrected, faulted>>

-----------------------------------------------------------------------------
\* handleCompleteUpload: the status is read once, before the object is looked at.
CompleteRead(r) ==
    \E f \in Files :
        /\ row[f].status = "uploading"
        /\ Start(r, "c_stat", f, row[f].size)
        /\ UNCHANGED <<store, clock, worker, purge, faults, history>>

\* Stat: a missing object or an etag that does not match answers 409.  The size
\* of the stored object replaces the one the client claimed.
CompleteStat(r) ==
    /\ req[r].pc = "c_stat"
    /\ \/ Return(r)
       \/ /\ Stored(req[r].file)
          /\ req' = [req EXCEPT ![r] = At("c_quota", req[r].file, object[req[r].file].size)]
    /\ UNCHANGED <<store, clock, worker, purge, bounds, history>>

CompleteQuota(r) ==
    /\ req[r].pc = "c_quota"
    /\ Goto(r, IF OverQuota(req[r].size) THEN "c_reject" ELSE "c_final")
    /\ UNCHANGED <<store, clock, worker, purge, bounds, history>>

CompleteReject(r) ==
    /\ req[r].pc = "c_reject"
    /\ SetFileStatus(req[r].file, "rejected")
    /\ Goto(r, "c_delete")
    /\ UNCHANGED <<object, used, scanQ, deleteQ, dead, clock, worker, purge, bounds,
                   sniffed, unread, faulted, escaped>>

CompleteFinal(r) ==
    /\ req[r].pc = "c_final"
    /\ FinalizeUpload(req[r].file, req[r].size)
    /\ Goto(r, "c_charge")
    /\ UNCHANGED <<object, used, scanQ, deleteQ, dead, clock, worker, purge, bounds,
                   sniffed, unread, faulted, escaped>>

-----------------------------------------------------------------------------
\* handleDeleteFile: MarkFileDeleted reads the row and then overwrites its
\* status, whatever it was; the size released is the one that was read.
DeleteRead(r) ==
    \E f \in Files :
        /\ Exists(f)
        /\ Start(r, "d_mark", f, row[f].size)
        /\ UNCHANGED <<store, clock, worker, purge, faults, history>>

DeleteMark(r) ==
    /\ req[r].pc = "d_mark"
    /\ SetFileStatus(req[r].file, "deleted")
    /\ Goto(r, "d_release")
    /\ UNCHANGED <<object, used, scanQ, deleteQ, dead, clock, worker, purge, bounds,
                   sniffed, unread, faulted, escaped>>

DeleteRelease(r) ==
    /\ req[r].pc = "d_release"
    /\ AddStorageUsed(-req[r].size)
    /\ Goto(r, "d_enqueue")
    /\ UNCHANGED <<row, object, scanQ, deleteQ, dead, clock, worker, purge, bounds, history>>

\* Enqueue "delete": the end of handleDeleteFile and of the rejection above.
QueueDelete(r) ==
    /\ req[r].pc \in {"d_enqueue", "c_delete"}
    /\ EnqueueDelete(req[r].file, 0)
    /\ Return(r)
    /\ UNCHANGED <<row, object, used, scanQ, dead, clock, worker, purge, bounds, history>>

\* PurgeTenantData: one READ COMMITTED transaction.  The keys are read by one
\* statement, the rows deleted by a later one, which also deletes rows inserted
\* in between; other sessions see the old rows until the commit.
PurgeSelect ==
    /\ purge.pc = "idle" /\ issued < MaxRequests
    /\ issued' = issued + 1
    /\ purge' = [pc |-> "delete", keys |-> {f \in Files : Exists(f)}, doomed |-> {}]
    /\ UNCHANGED <<store, clock, req, worker, faults, history>>

PurgeDelete ==
    /\ purge.pc = "delete"
    /\ purge' = [purge EXCEPT !.pc = "commit", !.doomed = {f \in Files : Exists(f)}]
    /\ UNCHANGED <<store, clock, req, worker, bounds, history>>

\* storage_bytes_used=0 and the commit: the rows disappear.
PurgeCommit ==
    /\ purge.pc = "commit"
    /\ row' = [f \in Files |-> IF f \in purge.doomed THEN [row[f] EXCEPT !.status = "gone"]
                                                     ELSE row[f]]
    /\ used' = 0
    /\ purge' = IF purge.keys = {} THEN NoPurge
                ELSE [purge EXCEPT !.pc = "enqueue", !.doomed = {}]
    /\ escaped' = escaped \cup (purge.doomed \ purge.keys)
    /\ UNCHANGED <<object, scanQ, deleteQ, dead, clock, req, worker, bounds,
                   sniffed, unread, resurrected, faulted>>

\* handleDataDeletion enqueues every key that was read.
PurgeEnqueue ==
    /\ purge.pc = "enqueue"
    /\ \E f \in purge.keys :
         /\ EnqueueDelete(f, 0)
         /\ purge' = IF purge.keys = {f} THEN NoPurge
                     ELSE [purge EXCEPT !.keys = @ \ {f}]
    /\ UNCHANGED <<row, object, used, scanQ, dead, clock, req, worker, bounds, history>>

-----------------------------------------------------------------------------
\* The scan consumer: BRPOP hands a job over and forgets it.
ScanTake ==
    /\ scan.pc = "idle" /\ scanQ # <<>>
    /\ scan' = At("read", Head(scanQ), 0)
    /\ scanQ' = Tail(scanQ)
    /\ UNCHANGED <<row, object, used, deleteQ, dead, clock, req, del, timers, sweep,
                   purge, bounds, history>>

\* Mutant: the status of the row is not looked at.
ScanReadAny ==
    /\ scan.pc = "read"
    /\ scan' = IF Exists(scan.file) THEN At("sniff", scan.file, row[scan.file].size) ELSE Idle
    /\ UNCHANGED <<store, clock, req, del, timers, sweep, purge, bounds, history>>

\* FileByIDAny; only deleted and expired files are skipped.  A rejected one, whose
\* job came twice, is scanned again.
ScanRead ==
    /\ scan.pc = "read"
    /\ scan' = IF Exists(scan.file) /\ row[scan.file].status \notin {"deleted", "expired"}
               THEN At("sniff", scan.file, row[scan.file].size) ELSE Idle
    /\ UNCHANGED <<store, clock, req, del, timers, sweep, purge, bounds, history>>

\* Mutant: an object that cannot be opened lets the file pass.
ScanGetFailsOpen ==
    /\ scan.pc = "sniff"
    /\ scan' = [scan EXCEPT !.pc = "ready"]
    /\ UNCHANGED <<store, clock, req, del, timers, sweep, purge, bounds, history>>

\* sniffVerdict: a Get that fails, as it always does on a missing object, means
\* retry.  The declared type was checked against the same list at upload, so
\* scan(f) never rejects here.
ScanGetFails ==
    /\ scan.pc = "sniff"
    /\ scan' = [scan EXCEPT !.pc = "retry"]
    /\ UNCHANGED <<store, clock, req, del, timers, sweep, purge, bounds, history>>

\* The object is opened and its head read: the verdict is that of the bytes.
ScanSniff ==
    /\ scan.pc = "sniff" /\ Stored(scan.file)
    /\ \/ /\ object[scan.file].kind = "mismatch"
          /\ scan' = [scan EXCEPT !.pc = "x_status"]
          /\ UNCHANGED sniffed
       \/ /\ object[scan.file].kind = "match"
          /\ scan' = [scan EXCEPT !.pc = "ready"]
          /\ sniffed' = sniffed \cup {scan.file}
    /\ UNCHANGED <<store, clock, req, del, timers, sweep, purge, bounds,
                   unread, resurrected, faulted, escaped>>

\* The object is opened but its body cannot be read.  The error of io.ReadFull is
\* dropped, and what was read until then is judged: nothing at all counts as
\* text/plain, which every text type accepts and no other does.  (A head cut
\* short is judged like this one or like the whole.)
ScanReadFails ==
    /\ scan.pc = "sniff" /\ Stored(scan.file)
    /\ scan' = [scan EXCEPT !.pc = IF scan.file \in Texts THEN "ready" ELSE "x_status"]
    /\ unread' = unread \cup ({scan.file} \cap Texts)
    /\ UNCHANGED <<store, clock, req, del, timers, sweep, purge, bounds,
                   sniffed, resurrected, faulted, escaped>>

ScanRetry ==
    /\ scan.pc = "retry"
    /\ EnqueueScan(scan.file)
    /\ scan' = Idle
    /\ UNCHANGED <<row, object, used, deleteQ, dead, clock, req, del, timers, sweep,
                   purge, bounds, history>>

ScanReady ==
    /\ scan.pc = "ready"
    /\ SetFileStatus(scan.file, "ready")
    /\ scan' = Idle
    /\ UNCHANGED <<object, used, scanQ, deleteQ, dead, clock, req, del, timers, sweep,
                   purge, bounds, sniffed, unread, faulted, escaped>>

\* reject: status, release of the size read by handleScan, delete job.
RejectStatus ==
    /\ scan.pc = "x_status"
    /\ SetFileStatus(scan.file, "rejected")
    /\ scan' = [scan EXCEPT !.pc = "x_release"]
    /\ UNCHANGED <<object, used, scanQ, deleteQ, dead, clock, req, del, timers, sweep,
                   purge, bounds, sniffed, unread, faulted, escaped>>

\* Mutant: the rejected object is not queued for deletion.
RejectReleaseOnly ==
    /\ scan.pc = "x_release"
    /\ AddStorageUsed(-scan.size)
    /\ scan' = Idle
    /\ UNCHANGED <<row, object, scanQ, deleteQ, dead, clock, req, del, timers, sweep,
                   purge, bounds, history>>

RejectRelease ==
    /\ scan.pc = "x_release"
    /\ AddStorageUsed(-scan.size)
    /\ scan' = [scan EXCEPT !.pc = "x_enqueue"]
    /\ UNCHANGED <<row, object, scanQ, deleteQ, dead, clock, req, del, timers, sweep,
                   purge, bounds, history>>

RejectEnqueue ==
    /\ scan.pc = "x_enqueue"
    /\ EnqueueDelete(scan.file, 0)
    /\ scan' = Idle
    /\ UNCHANGED <<row, object, used, scanQ, dead, clock, req, del, timers, sweep,
                   purge, bounds, history>>

-----------------------------------------------------------------------------
\* The delete consumer.
DeleteTake ==
    /\ del = NoJob /\ deleteQ # <<>>
    /\ del' = Head(deleteQ)
    /\ deleteQ' = Tail(deleteQ)
    /\ UNCHANGED <<row, object, used, scanQ, dead, clock, req, scan, timers, sweep,
                   purge, bounds, history>>

DeleteObject ==
    /\ del # NoJob
    /\ object' = [object EXCEPT ![del.key] = Absent]
    /\ del' = NoJob
    /\ UNCHANGED <<row, used, scanQ, deleteQ, dead, clock, req, scan, timers, sweep,
                   purge, bounds, history>>

\* Mutant: an exhausted job is dropped instead of dead-lettered.
DeleteFailsSilently ==
    /\ del # NoJob
    /\ timers' = IF del.attempt + 1 >= MaxDeleteAttempts THEN timers
                 ELSE [timers EXCEPT ![Job(del.key, del.attempt + 1)] = @ + 1]
    /\ del' = NoJob
    /\ UNCHANGED <<row, object, used, scanQ, deleteQ, dead, clock, req, scan, sweep,
                   purge, bounds, history>>

\* The object store refuses: a timer for the next attempt, or the dead letter.
DeleteFails ==
    /\ del # NoJob
    /\ IF del.attempt + 1 >= MaxDeleteAttempts
       THEN /\ dead' = dead \cup {del.key}
            /\ UNCHANGED timers
       ELSE /\ timers' = [timers EXCEPT ![Job(del.key, del.attempt + 1)] = @ + 1]
            /\ UNCHANGED dead
    /\ del' = NoJob
    /\ UNCHANGED <<row, object, used, scanQ, deleteQ, clock, req, scan, sweep,
                   purge, bounds, history>>

\* requeueAfter, when its delay is over.
TimerFires ==
    \E j \in Jobs :
        /\ timers[j] > 0
        /\ timers' = [timers EXCEPT ![j] = @ - 1]
        /\ EnqueueDelete(j.key, j.attempt)
        /\ UNCHANGED <<row, object, used, scanQ, dead, clock, req, scan, del, sweep,
                       purge, bounds, history>>

-----------------------------------------------------------------------------
\* Mutant: the due rows are cleaned up without being marked expired.
SweepSelectUnmarked ==
    LET found == {f \in due : Exists(f) /\ row[f].status \notin Terminal} IN
    /\ sweep.todo = {} /\ found # {}
    /\ sweep' = [mark |-> {}, todo |-> found, cur |-> NoFile,
                 size |-> [f \in Files |-> IF f \in found THEN row[f].size ELSE 0]]
    /\ UNCHANGED <<store, clock, req, scan, del, timers, purge, bounds, history>>

\* Mutant: only ready files expire.
SweepSelectReady ==
    LET found == {f \in due : row[f].status = "ready"} IN
    /\ sweep.todo = {} /\ found # {}
    /\ sweep' = [mark |-> found, todo |-> found, cur |-> NoFile,
                 size |-> [f \in Files |-> IF f \in found THEN row[f].size ELSE 0]]
    /\ UNCHANGED <<store, clock, req, scan, del, timers, purge, bounds, history>>

\* sweep: ExpireDueFiles selects the due rows, then updates them one by one
\* without looking at the status again; afterwards each is released and its
\* object queued for deletion, with the size the SELECT returned.
SweepSelect ==
    LET found == {f \in due : Exists(f) /\ row[f].status \notin Terminal} IN
    /\ sweep.todo = {} /\ found # {}
    /\ sweep' = [mark |-> found, todo |-> found, cur |-> NoFile,
                 size |-> [f \in Files |-> IF f \in found THEN row[f].size ELSE 0]]
    /\ UNCHANGED <<store, clock, req, scan, del, timers, purge, bounds, history>>

SweepExpire ==
    /\ \E f \in sweep.mark :
         /\ SetFileStatus(f, "expired")
         /\ sweep' = [sweep EXCEPT !.mark = @ \ {f}]
    /\ UNCHANGED <<object, used, scanQ, deleteQ, dead, clock, req, scan, del, timers,
                   purge, bounds, sniffed, unread, faulted, escaped>>

SweepRelease ==
    /\ sweep.mark = {} /\ sweep.cur = NoFile
    /\ \E f \in sweep.todo :
         /\ AddStorageUsed(-sweep.size[f])
         /\ sweep' = [sweep EXCEPT !.cur = f]
    /\ UNCHANGED <<row, object, scanQ, deleteQ, dead, clock, req, scan, del, timers,
                   purge, bounds, history>>

SweepEnqueue ==
    /\ sweep.cur # NoFile
    /\ EnqueueDelete(sweep.cur, 0)
    /\ sweep' = IF sweep.todo = {sweep.cur} THEN NoSweep
                ELSE [sweep EXCEPT !.todo = @ \ {sweep.cur}, !.cur = NoFile]
    /\ UNCHANGED <<row, object, used, scanQ, dead, clock, req, scan, del, timers,
                   purge, bounds, history>>

-----------------------------------------------------------------------------
\* Time: a file reaches its expires_at (every file has one), a URL its own.
FileDue(f) ==
    /\ Exists(f) /\ f \notin due
    /\ due' = due \cup {f}
    /\ UNCHANGED <<store, urls, req, worker, purge, bounds, history>>

UrlExpires(f) ==
    /\ f \in urls
    /\ urls' = urls \ {f}
    /\ UNCHANGED <<store, due, req, worker, purge, bounds, history>>

-----------------------------------------------------------------------------
\* Faults.  The handlers ignore the error of every call below ("_ =").

\* A request's best-effort call fails and the handler goes on; a failing quota
\* read skips the check.
AfterLost ==
    [u_status |-> "u_charge", u_charge |-> "u_scan", u_scan |-> "idle",
     c_quota |-> "c_final", c_charge |-> "c_scan", c_scan |-> "idle",
     c_reject |-> "c_delete", c_delete |-> "idle",
     d_release |-> "d_enqueue", d_enqueue |-> "idle"]

CallLost(r) ==
    /\ faults < MaxFaults
    /\ faults' = faults + 1
    /\ \/ /\ req[r].pc \in DOMAIN AfterLost
          /\ LET next == AfterLost[req[r].pc] IN
               IF next = "idle" THEN Return(r) ELSE Goto(r, next)
          /\ faulted' = faulted \cup {req[r].file}
          /\ UNCHANGED issued
       \/ /\ IdLeft
          /\ \E n \in Sizes, pc \in {"u_create", "p_create"} :
               (pc = "p_create" => n # 0) /\ Start(r, pc, NoFile, n)
          /\ UNCHANGED faulted
    /\ UNCHANGED <<store, clock, worker, purge, sniffed, unread, resurrected, escaped>>

\* The request's context is cancelled or its process dies: the rest never runs.
RequestDies(r) ==
    /\ faults < MaxFaults
    /\ faults' = faults + 1
    /\ req[r].pc # "idle"
    /\ Return(r)
    /\ faulted' = faulted \cup ({req[r].file} \ {NoFile})
    /\ UNCHANGED <<store, clock, worker, purge, issued, sniffed, unread, resurrected, escaped>>

\* The same for the purge: a rollback before the commit, lost keys after it.
PurgeDies ==
    /\ faults < MaxFaults
    /\ faults' = faults + 1
    /\ purge.pc # "idle"
    /\ faulted' = IF purge.pc = "enqueue" THEN faulted \cup purge.keys ELSE faulted
    /\ purge' = NoPurge
    /\ UNCHANGED <<store, clock, req, worker, issued, sniffed, unread, resurrected, escaped>>

\* A best-effort call of the worker fails: the scan goes on (or, on a failed read,
\* gives its job up), the sweep keeps its list, a retry or dead letter is dropped.
AfterScanLost ==
    [read |-> "idle", retry |-> "idle", ready |-> "idle",
     x_status |-> "x_release", x_release |-> "x_enqueue", x_enqueue |-> "idle"]

ScanCallLost ==
    /\ faults < MaxFaults
    /\ faults' = faults + 1
    /\ scan.pc \in DOMAIN AfterScanLost
    /\ LET next == AfterScanLost[scan.pc] IN
         scan' = IF next = "idle" THEN Idle ELSE [scan EXCEPT !.pc = next]
    /\ faulted' = faulted \cup {scan.file}
    /\ UNCHANGED <<store, clock, req, del, timers, sweep, purge, issued,
                   sniffed, unread, resurrected, escaped>>

SweepCallLost ==
    /\ faults < MaxFaults
    /\ faults' = faults + 1
    /\ \/ \E f \in sweep.mark :
            /\ sweep' = [sweep EXCEPT !.mark = @ \ {f}]
            /\ faulted' = faulted \cup {f}
       \/ /\ sweep.mark = {} /\ sweep.cur = NoFile
          /\ \E f \in sweep.todo :
               /\ sweep' = [sweep EXCEPT !.cur = f]
               /\ faulted' = faulted \cup {f}
       \/ /\ sweep.cur # NoFile
          /\ sweep' = IF sweep.todo = {sweep.cur} THEN NoSweep
                      ELSE [sweep EXCEPT !.todo = @ \ {sweep.cur}, !.cur = NoFile]
          /\ faulted' = faulted \cup {sweep.cur}
    /\ UNCHANGED <<store, clock, req, scan, del, timers, purge, issued,
                   sniffed, unread, resurrected, escaped>>

RetryLost ==
    /\ faults < MaxFaults
    /\ faults' = faults + 1
    /\ \/ /\ del # NoJob /\ del.attempt + 1 >= MaxDeleteAttempts
          /\ del' = NoJob
          /\ faulted' = faulted \cup {del.key}
          /\ UNCHANGED timers
       \/ /\ \E j \in Jobs :
               /\ timers[j] > 0
               /\ timers' = [timers EXCEPT ![j] = @ - 1]
               /\ faulted' = faulted \cup {j.key}
          /\ UNCHANGED del
    /\ UNCHANGED <<store, clock, req, scan, sweep, purge, issued,
                   sniffed, unread, resurrected, escaped>>

\* The worker restarts: jobs in hand and timers were only in its memory.
WorkerCrash ==
    /\ faults < MaxFaults
    /\ faults' = faults + 1
    /\ faulted' = faulted \cup (({scan.file, del.key} \cup sweep.todo
                                 \cup {f \in Files : \E j \in Jobs : timers[j] > 0 /\ j.key = f})
                                \ {NoFile})
    /\ scan' = Idle /\ del' = NoJob /\ timers' = [j \in Jobs |-> 0] /\ sweep' = NoSweep
    /\ UNCHANGED <<store, clock, req, purge, issued, sniffed, unread, resurrected, escaped>>

-----------------------------------------------------------------------------
Handler(r) ==
    \/ UploadCreate(r) \/ UploadPut(r) \/ UploadStatus(r) \/ Charge(r) \/ QueueScan(r)
    \/ PresignCreate(r)
    \/ CompleteStat(r) \/ CompleteQuota(r) \/ CompleteReject(r) \/ CompleteFinal(r)
    \/ DeleteMark(r) \/ DeleteRelease(r) \/ QueueDelete(r)

Client(r) == UploadCheck(r) \/ PresignCheck(r) \/ CompleteRead(r) \/ DeleteRead(r)

Scanner == \/ ScanTake \/ ScanRead \/ ScanSniff \/ ScanReadFails \/ ScanGetFails
           \/ ScanRetry \/ ScanReady \/ RejectStatus \/ RejectRelease \/ RejectEnqueue
Deleter == DeleteTake \/ DeleteObject \/ DeleteFails
Sweeper == SweepSelect \/ SweepExpire \/ SweepRelease \/ SweepEnqueue
Purger  == PurgeDelete \/ PurgeCommit \/ PurgeEnqueue

Next ==
    \/ \E r \in Requests : Client(r) \/ Handler(r) \/ CallLost(r) \/ RequestDies(r)
    \/ \E f \in Files : ClientPut(f) \/ FileDue(f) \/ UrlExpires(f)
    \/ PurgeSelect \/ Purger \/ PurgeDies
    \/ Scanner \/ Deleter \/ TimerFires \/ Sweeper
    \/ ScanCallLost \/ SweepCallLost \/ RetryLost \/ WorkerCrash

Spec == Init /\ [][Next]_vars

\* Every handler runs on once started, the worker's loops run forever, time
\* passes; the clients and the faults owe nothing.
Fairness ==
    /\ \A r \in Requests : WF_vars(Handler(r))
    /\ \A f \in Files : WF_vars(FileDue(f)) /\ WF_vars(UrlExpires(f))
    /\ WF_vars(Purger) /\ WF_vars(Scanner) /\ WF_vars(Deleter)
    /\ WF_vars(TimerFires) /\ WF_vars(Sweeper)
    /\ SF_vars(ScanSniff)      \* reads of a stored object do not fail for ever

FairSpec == Spec /\ Fairness

-----------------------------------------------------------------------------
\* Types of the state.
RowType    == row \in [Files -> [status : Status, size : Nat]]
ObjectType == object \in [Files -> Object]
QueueType  == scanQ \in Seq(Files) /\ deleteQ \in Seq(Jobs) /\ dead \subseteq Files
ReqType    ==
    /\ req \in [Requests -> [pc : ReqPCs, file : Files \cup {NoFile}, size : Nat]]
    /\ \A r \in Requests :
         req[r].pc \notin {"idle", "u_create", "p_create"} => req[r].file \in Files
ScanType   == /\ scan \in [pc : ScanPCs, file : Files \cup {NoFile}, size : Nat]
              /\ scan.pc # "idle" => scan.file \in Files
DelType    == del \in Jobs \cup {NoJob} /\ timers \in [Jobs -> Nat]
SweepType  == sweep \in [mark : SUBSET Files, todo : SUBSET Files, cur : Files \cup {NoFile},
                         size : [Files -> Nat]]
PurgeType  == purge \in [pc : {"idle", "delete", "commit", "enqueue"}, keys : SUBSET Files,
                         doomed : SUBSET Files]
HistoryType == /\ sniffed \subseteq Files /\ unread \subseteq Texts /\ resurrected \subseteq Files
               /\ faulted \subseteq Files /\ escaped \subseteq Files
TypeOK ==
    /\ RowType /\ ObjectType /\ used \in Nat /\ QueueType
    /\ due \subseteq Files /\ urls \subseteq Files
    /\ ReqType /\ ScanType /\ DelType /\ SweepType /\ PurgeType
    /\ issued \in Nat /\ faults \in Nat
    /\ HistoryType

\* A delete job for f is queued, in hand or waiting for its retry.
Queued(q, f) == \E i \in 1..Len(q) : q[i].key = f

DeletePending(f) ==
    \/ Queued(deleteQ, f)
    \/ del.key = f
    \/ \E j \in Jobs : timers[j] > 0 /\ j.key = f

\* Some process has marked f dead and is about to queue its object's deletion.
CleanupInHand(f) ==
    \/ \E r \in Requests : req[r].file = f /\ req[r].pc \in {"d_release", "d_enqueue", "c_delete"}
    \/ scan.file = f /\ scan.pc \in {"x_release", "x_enqueue"}
    \/ f \in sweep.todo \ sweep.mark
    \/ purge.pc = "enqueue" /\ f \in purge.keys

\* Whatever order handlers, scans, sweeps, purges and retries run in, the object
\* of a file that is rejected, expired, deleted or purged is never forgotten: a
\* process or a queue still has its deletion, or it is on the dead-letter list.
\* The only other cases are the named ones: a fault lost a call, or the object
\* was written (or its row inserted) after the file's cleanup had looked.
CleanupTracked ==
    \A f \in Files :
        Dead(f) /\ Stored(f) =>
            \/ DeletePending(f) \/ CleanupInHand(f) \/ f \in dead
            \/ f \in faulted \cup escaped

\* An object is only queued for deletion once its file is dead, so a file that
\* serves ("ready") has its bytes, unless a stale status write brought it back
\* to life or a fault lost the write that killed it.
ReadyHasBytes ==
    \A f \in Files :
        row[f].status = "ready" => Stored(f) \/ f \in resurrected \cup faulted

\* No interleaving of upload, complete, retry and status writes makes a file
\* ready before a scan has opened its stored object and come to a verdict on it:
\* it has read the bytes and accepted them, or could not read them and the file is
\* declared a text.  (Bytes put over accepted ones through a URL that is still
\* valid are not looked at again.)
ReadyWasScanned ==
    \A f \in Files : row[f].status = "ready" => f \in sniffed \cup unread

\* The inductive strengthening behind the three invariants above.

\* Everything a process or a queue refers to has had a row.
KnownReq   == \A r \in Requests : req[r].pc \notin {"idle", "u_create", "p_create"}
                                  => row[req[r].file].status # "none"
KnownScan  == scan.pc # "idle" => row[scan.file].status # "none"
KnownQueue == \A i \in 1..Len(scanQ) : row[scanQ[i]].status # "none"
KnownSweep == \A f \in sweep.todo : row[f].status # "none"
Known      == KnownReq /\ KnownScan /\ KnownQueue /\ KnownSweep

\* How the sweep's and the purge's own variables hang together.
SweepShape ==
    /\ sweep.mark \subseteq sweep.todo
    /\ sweep.cur # NoFile => sweep.cur \in sweep.todo /\ sweep.mark = {}

PurgeShape ==
    /\ purge.pc # "commit" => purge.doomed = {}
    /\ purge.pc \in {"delete", "commit"} => \A f \in purge.keys : Exists(f)
    /\ purge.pc = "commit" => purge.keys \subseteq purge.doomed
    /\ purge.pc = "enqueue" => \A f \in purge.keys : row[f].status = "gone"

\* A deletion is pending or in hand only for a dead file, or an excused one.
DeleteJustified ==
    \A f \in Files :
        DeletePending(f) \/ CleanupInHand(f) => Dead(f) \/ f \in resurrected \cup faulted

\* A scan about to publish f has come to its verdict on an object that is still
\* there unless the file died meanwhile.
ScanHasBytes ==
    scan.pc = "ready" =>
        /\ scan.file \in sniffed \cup unread
        /\ Stored(scan.file) \/ Dead(scan.file) \/ scan.file \in resurrected \cup faulted

Shape == TypeOK /\ Known /\ SweepShape /\ PurgeShape
Inv   == Shape /\ CleanupTracked /\ DeleteJustified
         /\ ReadyHasBytes /\ ReadyWasScanned /\ ScanHasBytes

\* What a request has checked and may still charge; the sum is counted byte by byte.
Charging == {"u_create", "u_put", "u_status", "u_charge", "c_final", "c_charge"}
Charges  == [r \in Requests |-> IF req[r].pc \in Charging THEN req[r].size ELSE 0]
Units(c) == {u \in Requests \X (1..MaxSize) : u[2] <= c[u[1]]}
PendingCharge == Cardinality(Units(Charges))

\* The storage check and the charge are separate calls.  Between them other
\* requests may pass the same check, so the limit can be overshot, but by no more
\* than one body for each other request in flight (and each check that a failing
\* quota read skipped).
QuotaOvershootBounded ==
    used + PendingCharge <= Limit + (Cardinality(Requests) - 1 + faults) * MaxSize

\* Under fairness every file is at last dead for good: the sweep ends what a scan
\* that retries forever, or a stale write, keeps alive.
EventuallyDead ==
    \A f \in Files : <>[](row[f].status \in {"none", "gone"} \cup Terminal)

\* Under fairness the bytes of every dead file are at last deleted or listed for
\* the operators, unless they escaped in one of the named ways.
EventuallyClean ==
    \A f \in Files :
        <>[](Dead(f) => ~Stored(f) \/ f \in dead \cup faulted \cup escaped)

-----------------------------------------------------------------------------
\* What a comment of the repository says and the code does not keep.

\* worker.go: the sniff "fails closed on a content mismatch and retries on a
\* transient read error", so a file is ready only once its bytes were read.
ReadyWasRead ==
    \A f \in Files : row[f].status = "ready" => f \in sniffed
=============================================================================
