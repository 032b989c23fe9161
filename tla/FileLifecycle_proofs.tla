------------------------ MODULE FileLifecycle_proofs ------------------------
(***************************************************************************)
(* Safety of the file lifecycle for every set of files and requests, every  *)
(* quota and every number of faults: no object of a dead file is forgotten, *)
(* no servable file loses its bytes, no file is served unscanned.           *)
(*                                                                          *)
(* Inv (in FileLifecycle) is the inductive invariant.  Frame says which     *)
(* actions touch which variables, so that the proof that a conjunct of Inv  *)
(* is preserved only looks at the actions that can disturb it.              *)
(***************************************************************************)
EXTENDS FileRefinement, FiniteSetTheorems, TLAPS

-----------------------------------------------------------------------------
\* Frames: which actions can change which part of the state.
USE DEF Next, Client, Handler, Scanner, Deleter, Sweeper, Purger, UploadCheck, PresignCheck,
        CompleteRead, DeleteRead, UploadCreate, UploadPut, UploadStatus, Charge, QueueScan,
        PresignCreate, CompleteStat, CompleteQuota, CompleteReject, CompleteFinal, DeleteMark,
        DeleteRelease, QueueDelete, CallLost, RequestDies, ClientPut, FileDue, UrlExpires,
        PurgeSelect, PurgeDelete, PurgeCommit, PurgeEnqueue, PurgeDies, ScanTake, ScanRead,
        ScanSniff, ScanReadFails, ScanGetFails, ScanRetry, ScanReady, RejectStatus,
        RejectRelease, RejectEnqueue,
        DeleteTake, DeleteObject, DeleteFails, TimerFires, SweepSelect, SweepExpire, SweepRelease,
        SweepEnqueue, ScanCallLost, SweepCallLost, RetryLost, WorkerCrash,
        vars, store, clock, worker, bounds, history

\* Which actions write rows.
LEMMA FrameRow ==
  ASSUME [Next]_vars
  PROVE  \/ UNCHANGED <<row, resurrected>>
         \/ \E r \in Requests : \/ UploadStatus(r) \/ CompleteReject(r)
                                \/ CompleteFinal(r) \/ DeleteMark(r)
         \/ ScanReady \/ RejectStatus \/ SweepExpire
         \/ UNCHANGED resurrected /\ \/ \E r \in Requests : UploadCreate(r) \/ PresignCreate(r)
                                     \/ PurgeCommit
  OBVIOUS

\* Which actions write objects.
LEMMA FrameObject ==
  ASSUME [Next]_vars
  PROVE  \/ UNCHANGED object
         \/ (\E r \in Requests : UploadPut(r)) \/ (\E f \in Files : ClientPut(f))
         \/ DeleteObject
  OBVIOUS

\* Which actions use the scan queue.
LEMMA FrameScanQ ==
  ASSUME [Next]_vars
  PROVE  \/ UNCHANGED scanQ
         \/ (\E r \in Requests : QueueScan(r)) \/ ScanTake \/ ScanRetry
  OBVIOUS

\* Which actions use the delete queue.
LEMMA FrameDeleteQ ==
  ASSUME [Next]_vars
  PROVE  \/ UNCHANGED deleteQ
         \/ (\E r \in Requests : QueueDelete(r)) \/ PurgeEnqueue \/ RejectEnqueue
         \/ DeleteTake \/ TimerFires \/ SweepEnqueue
  OBVIOUS

\* Only an exhausted retry writes a dead letter.
LEMMA FrameDead ==
  ASSUME [Next]_vars
  PROVE  UNCHANGED dead \/ DeleteFails
  OBVIOUS

\* Which actions move delete jobs and timers.
LEMMA FrameDel ==
  ASSUME [Next]_vars
  PROVE  \/ UNCHANGED <<del, timers>>
         \/ Deleter \/ TimerFires \/ RetryLost \/ WorkerCrash
  OBVIOUS

\* Which actions move requests.
LEMMA FrameReq ==
  ASSUME [Next]_vars
  PROVE  \/ UNCHANGED req
         \/ \E r \in Requests : Client(r) \/ Handler(r) \/ CallLost(r) \/ RequestDies(r)
  OBVIOUS

\* Which actions move the scanner.
LEMMA FrameScan ==
  ASSUME [Next]_vars
  PROVE  UNCHANGED scan \/ Scanner \/ ScanCallLost \/ WorkerCrash
  OBVIOUS

\* Which actions move the sweeper.
LEMMA FrameSweep ==
  ASSUME [Next]_vars
  PROVE  UNCHANGED sweep \/ Sweeper \/ SweepCallLost \/ WorkerCrash
  OBVIOUS

\* Which actions move the purge.
LEMMA FramePurge ==
  ASSUME [Next]_vars
  PROVE  UNCHANGED purge \/ PurgeSelect \/ Purger \/ PurgeDies
  OBVIOUS

\* The history variables only grow.
LEMMA HistoryGrows ==
  ASSUME [Next]_vars
  PROVE  /\ sniffed \subseteq sniffed' /\ unread \subseteq unread' /\ resurrected \subseteq resurrected'
         /\ faulted \subseteq faulted' /\ escaped \subseteq escaped'
  BY DEF PutObject, SetFileStatus, FinalizeUpload, WriteRow

\* The counters count up, and time and presigning only name files.
LEMMA FrameBounds ==
  ASSUME [Next]_vars
  PROVE  /\ issued' = issued \/ issued' = issued + 1
         /\ faults' = faults \/ faults' = faults + 1
         /\ due' = due \/ \E f \in Files : due' = due \cup {f}
         /\ urls' = urls \/ \E f \in Files : urls' = urls \cup {f} \/ urls' = urls \ {f}
<1>1. issued' = issued \/ issued' = issued + 1
  BY DEF Start
<1>2. faults' = faults \/ faults' = faults + 1
  OBVIOUS
<1>4. due' = due \/ \E f \in Files : due' = due \cup {f}
  OBVIOUS
<1>5. urls' = urls \/ \E f \in Files : urls' = urls \cup {f} \/ urls' = urls \ {f}
  OBVIOUS
<1> QED
  BY <1>1, <1>2, <1>4, <1>5

\* Which actions change the usage counter.
LEMMA FrameUsed ==
  ASSUME [Next]_vars
  PROVE  \/ used' = used \/ used' = 0
         \/ \E r \in Requests : AddStorageUsed(req[r].size) \/ AddStorageUsed(-req[r].size)
         \/ AddStorageUsed(-scan.size)
         \/ \E f \in sweep.todo : AddStorageUsed(-sweep.size[f])
  OBVIOUS

\* Which actions the history variables record.
LEMMA FrameHistory ==
  ASSUME [Next]_vars
  PROVE  /\ UNCHANGED sniffed \/ ScanSniff
         /\ UNCHANGED unread \/ ScanReadFails
         /\ \/ UNCHANGED escaped \/ PurgeCommit
            \/ (\E r \in Requests : UploadPut(r)) \/ (\E f \in Files : ClientPut(f))
         /\ \/ UNCHANGED faulted \/ PurgeDies
            \/ \E r \in Requests : CallLost(r) \/ RequestDies(r)
            \/ ScanCallLost \/ SweepCallLost \/ RetryLost \/ WorkerCrash
<1>1. (UNCHANGED sniffed \/ ScanSniff) /\ (UNCHANGED unread \/ ScanReadFails)
  OBVIOUS
<1>2. \/ UNCHANGED escaped \/ PurgeCommit
      \/ (\E r \in Requests : UploadPut(r)) \/ (\E f \in Files : ClientPut(f))
  OBVIOUS
<1>3. \/ UNCHANGED faulted \/ PurgeDies
      \/ \E r \in Requests : CallLost(r) \/ RequestDies(r)
      \/ ScanCallLost \/ SweepCallLost \/ RetryLost \/ WorkerCrash
  OBVIOUS
<1> QED
  BY <1>1, <1>2, <1>3

HIDE DEF Next, Client, Handler, Scanner, Deleter, Sweeper, Purger, UploadCheck, PresignCheck,
        CompleteRead, DeleteRead, UploadCreate, UploadPut, UploadStatus, Charge, QueueScan,
        PresignCreate, CompleteStat, CompleteQuota, CompleteReject, CompleteFinal, DeleteMark,
        DeleteRelease, QueueDelete, CallLost, RequestDies, ClientPut, FileDue, UrlExpires,
        PurgeSelect, PurgeDelete, PurgeCommit, PurgeEnqueue, PurgeDies, ScanTake, ScanRead,
        ScanSniff, ScanReadFails, ScanGetFails, ScanRetry, ScanReady, RejectStatus,
        RejectRelease, RejectEnqueue,
        DeleteTake, DeleteObject, DeleteFails, TimerFires, SweepSelect, SweepExpire, SweepRelease,
        SweepEnqueue, ScanCallLost, SweepCallLost, RetryLost, WorkerCrash,
        vars, store, clock, worker, bounds, history

-----------------------------------------------------------------------------
\* Types.

\* What is taken from a queue has the queue's type, and so has the rest.
LEMMA HeadTail ==
  ASSUME NEW S, NEW q \in Seq(S), q # <<>> PROVE Head(q) \in S /\ Tail(q) \in Seq(S)
  OBVIOUS

\* A key with an attempt in range is a delete job.
LEMMA JobIsJob ==
  ASSUME NEW f \in Files, NEW n \in 0..MaxDeleteAttempts PROVE Job(f, n) \in Jobs
  BY DEF Job, Jobs

\* What is put into the delete queue has its type.
LEMMA EnqueueDeleteType ==
  ASSUME NEW f \in Files, NEW n \in 0..MaxDeleteAttempts, deleteQ \in Seq(Jobs),
         EnqueueDelete(f, n)
  PROVE  deleteQ' \in Seq(Jobs)
  BY JobIsJob DEF EnqueueDelete

\* A status or size write keeps the rows typed and revives only known files.
LEMMA WriteRowType ==
  ASSUME RowType, HistoryType, NEW f \in Files, NEW s \in Status, NEW n \in Nat, WriteRow(f, s, n)
  PROVE  RowType' /\ (resurrected \subseteq Files)'
  BY DEF WriteRow, RowType, HistoryType

\* Rows and the record of revived files.
LEMMA StepRowType == TypeOK /\ [Next]_vars => RowType' /\ (resurrected \subseteq Files)'
<1> SUFFICES ASSUME TypeOK, [Next]_vars PROVE RowType' /\ (resurrected \subseteq Files)'
  OBVIOUS
<1> USE DEF TypeOK, Status, Live, Terminal
<1>1. CASE UNCHANGED <<row, resurrected>>
  BY <1>1 DEF RowType, HistoryType
<1>2. ASSUME NEW r \in Requests,
             UploadStatus(r) \/ CompleteReject(r) \/ CompleteFinal(r) \/ DeleteMark(r)
      PROVE  RowType' /\ (resurrected \subseteq Files)'
  <2>1. /\ req[r].file \in Files
        /\ req[r].size \in Nat
        /\ row[req[r].file].size \in Nat
    BY <1>2 DEF UploadStatus, CompleteReject, CompleteFinal, DeleteMark, ReqType, RowType
  <2> QED
    BY <1>2, <2>1, WriteRowType DEF UploadStatus, CompleteReject, CompleteFinal, DeleteMark,
       SetFileStatus, FinalizeUpload
<1>3. CASE ScanReady \/ RejectStatus
  <2>1. scan.file \in Files /\ row[scan.file].size \in Nat
    BY <1>3 DEF ScanReady, RejectStatus, ScanType, RowType
  <2> QED
    BY <1>3, <2>1, WriteRowType DEF ScanReady, RejectStatus, SetFileStatus
<1>4. CASE SweepExpire
  <2>1. PICK f \in sweep.mark : WriteRow(f, "expired", row[f].size)
    BY <1>4 DEF SweepExpire, SetFileStatus
  <2>2. f \in Files /\ row[f].size \in Nat
    BY DEF SweepType, RowType
  <2> QED
    BY <2>1, <2>2, WriteRowType
<1>5. ASSUME NEW r \in Requests, UploadCreate(r) \/ PresignCreate(r), UNCHANGED resurrected
      PROVE  RowType' /\ (resurrected \subseteq Files)'
  BY <1>5 DEF UploadCreate, PresignCreate, CreateFile, ReqType, RowType, HistoryType
<1>6. CASE PurgeCommit /\ UNCHANGED resurrected
  BY <1>6 DEF PurgeCommit, RowType, HistoryType
<1> QED
  BY <1>1, <1>2, <1>3, <1>4, <1>5, <1>6, FrameRow

\* Objects.
LEMMA StepObjectType == TypeOK /\ [Next]_vars => ObjectType'
<1> SUFFICES ASSUME TypeOK, [Next]_vars PROVE ObjectType'
  OBVIOUS
<1> USE SizesAssumption DEF TypeOK, ObjectType, Object
<1>1. ASSUME NEW r \in Requests, UploadPut(r) PROVE ObjectType'
  BY <1>1 DEF UploadPut, PutObject, ReqType
<1>2. ASSUME NEW f \in Files, ClientPut(f) PROVE ObjectType'
  BY <1>2 DEF ClientPut, PutObject
<1>3. CASE DeleteObject
  BY <1>3 DEF DeleteObject, Absent
<1> QED
  BY <1>1, <1>2, <1>3, FrameObject

\* Queues and dead letters.
LEMMA StepQueueType == TypeOK /\ [Next]_vars => QueueType'
<1> SUFFICES ASSUME TypeOK, [Next]_vars PROVE QueueType'
  OBVIOUS
<1> USE BoundsAssumption DEF TypeOK
<1>1. scanQ' \in Seq(Files)
  <2>1. ASSUME NEW r \in Requests, QueueScan(r) PROVE scanQ' \in Seq(Files)
    BY <2>1 DEF QueueScan, EnqueueScan, ReqType, QueueType
  <2>2. CASE ScanTake
    BY <2>2, HeadTail DEF ScanTake, QueueType
  <2>3. CASE ScanRetry
    BY <2>3 DEF ScanRetry, EnqueueScan, ScanType, QueueType
  <2> QED
    BY <2>1, <2>2, <2>3, FrameScanQ DEF QueueType
<1>2. deleteQ' \in Seq(Jobs)
  <2>0. deleteQ \in Seq(Jobs) /\ 0 \in 0..MaxDeleteAttempts
    BY DEF QueueType
  <2>1. ASSUME NEW r \in Requests, QueueDelete(r) PROVE deleteQ' \in Seq(Jobs)
    BY <2>0, <2>1, EnqueueDeleteType DEF QueueDelete, ReqType
  <2>2. CASE PurgeEnqueue
    BY <2>0, <2>2, EnqueueDeleteType DEF PurgeEnqueue, PurgeType
  <2>3. CASE RejectEnqueue
    BY <2>0, <2>3, EnqueueDeleteType DEF RejectEnqueue, ScanType
  <2>4. CASE DeleteTake
    BY <2>0, <2>4, HeadTail DEF DeleteTake
  <2>5. CASE TimerFires
    <3>1. PICK j \in Jobs : EnqueueDelete(j.key, j.attempt)
      BY <2>5 DEF TimerFires
    <3>2. j.key \in Files /\ j.attempt \in 0..MaxDeleteAttempts
      BY DEF Jobs
    <3> QED
      BY <2>0, <3>1, <3>2, EnqueueDeleteType
  <2>6. CASE SweepEnqueue
    <3>1. sweep.cur \in Files
      BY <2>6 DEF SweepEnqueue, SweepType
    <3> QED
      BY <2>0, <2>6, <3>1, EnqueueDeleteType DEF SweepEnqueue
  <2> QED
    BY <2>0, <2>1, <2>2, <2>3, <2>4, <2>5, <2>6, FrameDeleteQ
<1>3. dead' \subseteq Files
  BY FrameDead DEF DeleteFails, QueueType, DelType, Jobs, NoJob
<1> QED
  BY <1>1, <1>2, <1>3 DEF QueueType

\* Requests.
LEMMA StepReqType == TypeOK /\ [Next]_vars => ReqType'
<1> SUFFICES ASSUME TypeOK, [Next]_vars PROVE ReqType'
  OBVIOUS
<1> USE FilesAssumption, SizesAssumption
    DEF TypeOK, ReqType, ReqPCs, UploadPCs, CompletePCs, DeletePCs, At, Idle, Goto, Return
<1>1. ASSUME NEW r \in Requests, Client(r) PROVE ReqType'
  BY <1>1 DEF Client, UploadCheck, PresignCheck, CompleteRead, DeleteRead, Start, RowType
<1>2. ASSUME NEW r \in Requests, Handler(r) PROVE ReqType'
  <2>1. CASE UploadCreate(r)
    BY <2>1 DEF UploadCreate
  <2>2. CASE PresignCreate(r)
    BY <2>2 DEF PresignCreate
  <2>3. CASE UploadPut(r) \/ UploadStatus(r)
    BY <2>3 DEF UploadPut, UploadStatus
  <2>4. CASE Charge(r)
    BY <2>4 DEF Charge
  <2>5. CASE QueueScan(r)
    BY <2>5 DEF QueueScan
  <2>6. CASE CompleteStat(r)
    <3>1. CASE Return(r)
      BY <3>1
    <3>2. CASE req' = [req EXCEPT ![r] = At("c_quota", req[r].file, object[req[r].file].size)]
      <4>1. req[r].file \in Files
        BY <2>6 DEF CompleteStat
      <4>2. object[req[r].file].size \in Nat
        BY <4>1 DEF ObjectType, Object
      <4> QED
        BY <3>2, <4>1, <4>2
    <3> QED
      BY <2>6, <3>1, <3>2 DEF CompleteStat
  <2>7. CASE CompleteQuota(r) \/ CompleteReject(r) \/ CompleteFinal(r)
    BY <2>7 DEF CompleteQuota, CompleteReject, CompleteFinal
  <2>8. CASE DeleteMark(r) \/ DeleteRelease(r) \/ QueueDelete(r)
    BY <2>8 DEF DeleteMark, DeleteRelease, QueueDelete
  <2> QED
    BY <1>2, <2>1, <2>2, <2>3, <2>4, <2>5, <2>6, <2>7, <2>8 DEF Handler
<1>3. ASSUME NEW r \in Requests, CallLost(r) PROVE ReqType'
  BY <1>3 DEF CallLost, AfterLost, Start
<1>4. ASSUME NEW r \in Requests, RequestDies(r) PROVE ReqType'
  BY <1>4 DEF RequestDies
<1>5. CASE UNCHANGED req
  BY <1>5
<1> QED
  BY <1>1, <1>2, <1>3, <1>4, <1>5, FrameReq

\* The scanner.
LEMMA StepScanType == TypeOK /\ [Next]_vars => ScanType'
<1> SUFFICES ASSUME TypeOK, [Next]_vars PROVE ScanType'
  OBVIOUS
<1> USE FilesAssumption DEF TypeOK, ScanType, ScanPCs, At, Idle
<1>1. CASE ScanTake
  <2>1. Head(scanQ) \in Files
    BY <1>1, HeadTail DEF ScanTake, QueueType
  <2> QED
    BY <1>1, <2>1 DEF ScanTake
<1>2. CASE Scanner /\ ~ScanTake
  BY <1>2 DEF Scanner, ScanRead, ScanSniff, ScanReadFails, ScanGetFails, ScanRetry, ScanReady,
     RejectStatus,
     RejectRelease, RejectEnqueue, RowType
<1>3. CASE ScanCallLost
  BY <1>3 DEF ScanCallLost, AfterScanLost
<1>4. CASE WorkerCrash
  BY <1>4 DEF WorkerCrash
<1>5. CASE UNCHANGED scan
  BY <1>5
<1> QED
  BY <1>1, <1>2, <1>3, <1>4, <1>5, FrameScan

\* The delete consumer and its timers.
LEMMA StepDelType == TypeOK /\ [Next]_vars => DelType'
<1> SUFFICES ASSUME TypeOK, [Next]_vars PROVE DelType'
  OBVIOUS
<1> USE BoundsAssumption DEF TypeOK, DelType
<1>1. CASE DeleteTake
  BY <1>1, HeadTail DEF DeleteTake, QueueType
<1>2. CASE DeleteObject
  BY <1>2 DEF DeleteObject
<1>3. CASE DeleteFails
  BY <1>3 DEF DeleteFails
<1>4. CASE TimerFires \/ RetryLost
  <2>1. del' \in Jobs \cup {NoJob}
    BY <1>4 DEF TimerFires, RetryLost
  <2>2. timers' = timers \/ \E j \in Jobs : timers[j] > 0 /\ timers' = [timers EXCEPT ![j] = @ - 1]
    BY <1>4 DEF TimerFires, RetryLost
  <2> QED
    BY <2>1, <2>2
<1>5. CASE WorkerCrash
  BY <1>5 DEF WorkerCrash
<1>6. CASE UNCHANGED <<del, timers>>
  BY <1>6
<1> QED
  BY <1>1, <1>2, <1>3, <1>4, <1>5, <1>6, FrameDel DEF Deleter

\* The sweeper.
LEMMA StepSweepType == TypeOK /\ [Next]_vars => SweepType'
<1> SUFFICES ASSUME TypeOK, [Next]_vars PROVE SweepType'
  OBVIOUS
<1> USE DEF TypeOK, SweepType
<1>0. NoSweep \in [mark : SUBSET Files, todo : SUBSET Files, cur : Files \cup {NoFile},
                   size : [Files -> Nat]]
  BY DEF NoSweep
<1>1. CASE SweepSelect
  BY <1>1 DEF SweepSelect, RowType
<1>2. CASE SweepExpire
  BY <1>2 DEF SweepExpire
<1>3. CASE SweepRelease
  BY <1>3 DEF SweepRelease
<1>4. CASE SweepEnqueue
  BY <1>0, <1>4 DEF SweepEnqueue
<1>5. CASE SweepCallLost
  <2>1. \/ \E f \in sweep.mark : sweep' = [sweep EXCEPT !.mark = @ \ {f}]
        \/ \E f \in sweep.todo : sweep' = [sweep EXCEPT !.cur = f]
        \/ sweep' = NoSweep
        \/ sweep' = [sweep EXCEPT !.todo = @ \ {sweep.cur}, !.cur = NoFile]
    BY <1>5 DEF SweepCallLost
  <2> QED
    BY <1>0, <2>1
<1>6. CASE WorkerCrash
  BY <1>0, <1>6 DEF WorkerCrash
<1>7. CASE UNCHANGED sweep
  BY <1>7
<1> QED
  BY <1>1, <1>2, <1>3, <1>4, <1>5, <1>6, <1>7, FrameSweep DEF Sweeper

\* The purge.
LEMMA StepPurgeType == TypeOK /\ [Next]_vars => PurgeType'
<1> SUFFICES ASSUME TypeOK, [Next]_vars PROVE PurgeType'
  OBVIOUS
<1> USE DEF TypeOK, PurgeType, NoPurge
<1>1. CASE PurgeSelect
  BY <1>1 DEF PurgeSelect
<1>2. CASE PurgeDelete
  BY <1>2 DEF PurgeDelete
<1>3. CASE PurgeCommit
  BY <1>3 DEF PurgeCommit
<1>4. CASE PurgeEnqueue
  BY <1>4 DEF PurgeEnqueue
<1>5. CASE PurgeDies
  BY <1>5 DEF PurgeDies
<1>6. CASE UNCHANGED purge
  BY <1>6
<1> QED
  BY <1>1, <1>2, <1>3, <1>4, <1>5, <1>6, FramePurge DEF Purger

\* What is recorded in the history variables are files.
LEMMA StepHistoryType == TypeOK /\ [Next]_vars => HistoryType'
<1> SUFFICES ASSUME TypeOK, [Next]_vars PROVE HistoryType'
  OBVIOUS
<1> USE DEF TypeOK, HistoryType
<1>1. sniffed' \subseteq Files /\ unread' \subseteq Texts
  BY FrameHistory DEF ScanSniff, ScanReadFails, ScanType
<1>2. resurrected' \subseteq Files
  BY StepRowType
<1>3. escaped' \subseteq Files
  <2>1. ASSUME NEW r \in Requests, UploadPut(r) PROVE escaped' \subseteq Files
    BY <2>1 DEF UploadPut, PutObject, ReqType
  <2>2. ASSUME NEW f \in Files, ClientPut(f) PROVE escaped' \subseteq Files
    BY <2>2 DEF ClientPut, PutObject
  <2>3. CASE PurgeCommit
    BY <2>3 DEF PurgeCommit, PurgeType
  <2> QED
    BY <2>1, <2>2, <2>3, FrameHistory
<1>4. faulted' \subseteq Files
  <2>1. ASSUME NEW r \in Requests, CallLost(r) PROVE faulted' \subseteq Files
    BY <2>1 DEF CallLost, AfterLost, ReqType
  <2>2. ASSUME NEW r \in Requests, RequestDies(r) PROVE faulted' \subseteq Files
    BY <2>2 DEF RequestDies, ReqType
  <2>3. CASE PurgeDies
    BY <2>3 DEF PurgeDies, PurgeType
  <2>4. CASE ScanCallLost
    BY <2>4 DEF ScanCallLost, AfterScanLost, ScanType
  <2>5. CASE SweepCallLost
    BY <2>5 DEF SweepCallLost, SweepType
  <2>6. CASE RetryLost
    BY <2>6 DEF RetryLost, DelType, Jobs
  <2>7. CASE WorkerCrash
    <3>1. scan.file \in Files \cup {NoFile} /\ del.key \in Files \cup {NoFile} /\ sweep.todo \subseteq Files
      BY DEF ScanType, DelType, Jobs, NoJob, Job, SweepType
    <3> QED
      BY <2>7, <3>1 DEF WorkerCrash
  <2> QED
    BY <2>1, <2>2, <2>3, <2>4, <2>5, <2>6, <2>7, FrameHistory
<1> QED
  BY <1>1, <1>2, <1>3, <1>4

\* The usage counter never drops below zero, whatever is released twice.
LEMMA StepUsedType == TypeOK /\ [Next]_vars => used' \in Nat
<1> SUFFICES ASSUME TypeOK, [Next]_vars PROVE used' \in Nat
  OBVIOUS
<1> USE DEF TypeOK, AddStorageUsed
<1>1. ASSUME NEW r \in Requests, AddStorageUsed(req[r].size) \/ AddStorageUsed(-req[r].size)
      PROVE  used' \in Nat
  BY <1>1 DEF ReqType
<1>2. CASE AddStorageUsed(-scan.size)
  BY <1>2 DEF ScanType
<1>3. ASSUME NEW f \in sweep.todo, AddStorageUsed(-sweep.size[f]) PROVE used' \in Nat
  BY <1>3 DEF SweepType
<1> QED
  BY <1>1, <1>2, <1>3, FrameUsed

\* Every step keeps the types.
LEMMA StepType == TypeOK /\ [Next]_vars => TypeOK'
<1> SUFFICES ASSUME TypeOK, [Next]_vars PROVE TypeOK'
  OBVIOUS
<1>1. issued' \in Nat /\ faults' \in Nat
  BY FrameBounds DEF TypeOK
<1>2. due' \subseteq Files /\ urls' \subseteq Files
  BY FrameBounds DEF TypeOK
<1> QED
  BY <1>1, <1>2, StepRowType, StepObjectType, StepQueueType, StepReqType, StepScanType,
     StepDelType, StepSweepType, StepPurgeType, StepHistoryType, StepUsedType DEF TypeOK

\* The initial state is well typed.
LEMMA InitType == Init => TypeOK
<1> SUFFICES ASSUME Init PROVE TypeOK
  OBVIOUS
<1> USE DEF Init
<1>1. RowType /\ ObjectType /\ QueueType
  BY DEF RowType, Status, Live, Terminal, ObjectType, Object, Absent, QueueType
<1>2. ReqType /\ ScanType
  BY DEF ReqType, ReqPCs, ScanType, ScanPCs, At, Idle
<1>3. DelType /\ SweepType /\ PurgeType /\ HistoryType
  BY DEF DelType, SweepType, PurgeType, HistoryType, NoSweep, NoPurge
<1> QED
  BY <1>1, <1>2, <1>3 DEF TypeOK

\* Every value stays of its type in every interleaving of handlers, worker loops,
\* time and faults; in particular storage_bytes_used never goes below zero,
\* although a file's size can be released twice.
THEOREM TypeCorrect == Spec => []TypeOK
<1>1. Init => TypeOK
  BY InitType
<1>2. TypeOK /\ [Next]_vars => TypeOK'
  BY StepType
<1> QED
  BY <1>1, <1>2, PTL DEF Spec

-----------------------------------------------------------------------------
\* How rows change.

\* What one status or size write does to the row of any file.
LEMMA WriteRowStep ==
  ASSUME TypeOK, NEW f \in Files, NEW s \in Live \cup Terminal, NEW n, NEW g \in Files,
         WriteRow(f, s, n)
  PROVE  /\ row[g].status # "none" => row'[g].status # "none"
         /\ row[g].status = "gone" => row'[g].status = "gone"
         /\ Exists(g) => Exists(g)'
         /\ Dead(g) => Dead(g)' \/ g \in resurrected'
  BY DEF WriteRow, TypeOK, RowType, Exists, Dead, Live, Terminal, Status

\* A row once inserted never becomes "none", a purged one never comes back, only
\* the purge's commit removes a row, and a dead file that is dead no more has been
\* recorded as resurrected.
LEMMA RowStep ==
  ASSUME TypeOK, [Next]_vars, NEW g \in Files
  PROVE  /\ row[g].status # "none" => row'[g].status # "none"
         /\ row[g].status = "gone" => row'[g].status = "gone"
         /\ Exists(g) => Exists(g)' \/ PurgeCommit
         /\ Dead(g) => Dead(g)' \/ g \in resurrected'
<1> DEFINE Kept == /\ row[g].status # "none" => row'[g].status # "none"
                   /\ row[g].status = "gone" => row'[g].status = "gone"
                   /\ Exists(g) => Exists(g)' \/ PurgeCommit
                   /\ Dead(g) => Dead(g)' \/ g \in resurrected'
<1> SUFFICES Kept
  OBVIOUS
<1>0. ASSUME NEW f \in Files, NEW s \in Live \cup Terminal, NEW n, WriteRow(f, s, n) PROVE Kept
  BY <1>0, WriteRowStep
<1> HIDE DEF Kept
<1> USE DEF TypeOK, Live, Terminal
<1>1. CASE UNCHANGED <<row, resurrected>>
  BY <1>1 DEF Kept, Exists, Dead
<1>2. ASSUME NEW r \in Requests,
             UploadStatus(r) \/ CompleteReject(r) \/ CompleteFinal(r) \/ DeleteMark(r)
      PROVE  Kept
  <2>1. req[r].file \in Files
    BY <1>2 DEF UploadStatus, CompleteReject, CompleteFinal, DeleteMark, ReqType
  <2> QED
    BY <1>0, <1>2, <2>1 DEF UploadStatus, CompleteReject, CompleteFinal, DeleteMark,
       SetFileStatus, FinalizeUpload
<1>3. CASE ScanReady \/ RejectStatus
  <2>1. scan.file \in Files
    BY <1>3 DEF ScanReady, RejectStatus, ScanType
  <2> QED
    BY <1>0, <1>3, <2>1 DEF ScanReady, RejectStatus, SetFileStatus
<1>4. CASE SweepExpire
  <2>1. PICK f \in sweep.mark : WriteRow(f, "expired", row[f].size)
    BY <1>4 DEF SweepExpire, SetFileStatus
  <2>2. f \in Files
    BY DEF SweepType
  <2> QED
    BY <1>0, <2>1, <2>2
<1>5. ASSUME NEW r \in Requests, UploadCreate(r) \/ PresignCreate(r), UNCHANGED resurrected
      PROVE  Kept
  BY <1>5 DEF UploadCreate, PresignCreate, CreateFile, RowType, Kept, Exists, Dead
<1>6. CASE PurgeCommit /\ UNCHANGED resurrected
  BY <1>6 DEF PurgeCommit, RowType, Kept, Exists, Dead
<1> QED
  BY <1>1, <1>2, <1>3, <1>4, <1>5, <1>6, FrameRow

-----------------------------------------------------------------------------
\* Shape: what processes and queues refer to, and the locals of sweep and purge.

\* Requests refer to files that have had a row.
LEMMA StepKnownReq == Shape /\ [Next]_vars => KnownReq'
<1> SUFFICES ASSUME Shape, [Next]_vars, NEW q \in Requests,
                    req'[q].pc \notin {"idle", "u_create", "p_create"}
             PROVE  row'[req'[q].file].status # "none"
  BY DEF KnownReq
<1> USE DEF Shape, TypeOK, Known, KnownReq, At, Idle, Goto, Return
<1>1. \A g \in Files : row[g].status # "none" => row'[g].status # "none"
  BY RowStep
<1>2. CASE req'[q] = req[q]
  BY <1>1, <1>2 DEF ReqType
<1>3. ASSUME NEW r \in Requests, Client(r) PROVE row'[req'[q].file].status # "none"
  BY <1>1, <1>3 DEF Client, UploadCheck, PresignCheck, CompleteRead, DeleteRead, Start, ReqType,
     Exists
<1>4. ASSUME NEW r \in Requests, Handler(r) PROVE row'[req'[q].file].status # "none"
  <2>1. CASE UploadCreate(r)
    BY <1>1, <2>1 DEF UploadCreate, CreateFile, ReqType, RowType
  <2>2. CASE Handler(r) /\ ~UploadCreate(r)
    BY <1>1, <2>2 DEF Handler, UploadPut, UploadStatus, Charge, QueueScan, PresignCreate,
       CompleteStat, CompleteQuota, CompleteReject, CompleteFinal, DeleteMark, DeleteRelease,
       QueueDelete, ReqType
  <2> QED
    BY <1>4, <2>1, <2>2
<1>5. ASSUME NEW r \in Requests, CallLost(r) PROVE row'[req'[q].file].status # "none"
  BY <1>1, <1>5 DEF CallLost, AfterLost, Start, ReqType
<1>6. ASSUME NEW r \in Requests, RequestDies(r) PROVE row'[req'[q].file].status # "none"
  BY <1>1, <1>6 DEF RequestDies, ReqType
<1> QED
  BY <1>2, <1>3, <1>4, <1>5, <1>6, FrameReq

\* The scan queue refers to files that have had a row.
LEMMA StepKnownQueue == Shape /\ [Next]_vars => KnownQueue'
<1> SUFFICES ASSUME Shape, [Next]_vars PROVE KnownQueue'
  OBVIOUS
<1> USE DEF Shape, TypeOK, Known, KnownQueue
<1>1. \A g \in Files : row[g].status # "none" => row'[g].status # "none"
  BY RowStep
<1>2. scanQ \in Seq(Files)
  BY DEF QueueType
<1>3. ASSUME NEW f \in Files, row[f].status # "none", EnqueueScan(f) PROVE KnownQueue'
  BY <1>1, <1>2, <1>3 DEF EnqueueScan
<1>4. ASSUME NEW r \in Requests, QueueScan(r) PROVE KnownQueue'
  BY <1>3, <1>4 DEF QueueScan, ReqType, KnownReq
<1>5. CASE ScanRetry
  BY <1>3, <1>5 DEF ScanRetry, ScanType, KnownScan
<1>6. CASE ScanTake
  BY <1>1, <1>2, <1>6 DEF ScanTake
<1>7. CASE UNCHANGED scanQ
  BY <1>1, <1>2, <1>7
<1> QED
  BY <1>4, <1>5, <1>6, <1>7, FrameScanQ

\* The scanner works on a file that has had a row.
LEMMA StepKnownScan == Shape /\ [Next]_vars => KnownScan'
<1> SUFFICES ASSUME Shape, [Next]_vars PROVE KnownScan'
  OBVIOUS
<1> USE DEF Shape, TypeOK, Known, KnownScan, At, Idle
<1>1. \A g \in Files : row[g].status # "none" => row'[g].status # "none"
  BY RowStep
<1>2. CASE ScanTake
  <2>1. Head(scanQ) \in Files /\ Len(scanQ) \in Nat /\ 1 \in 1..Len(scanQ) /\ Head(scanQ) = scanQ[1]
    BY <1>2 DEF ScanTake, QueueType
  <2>2. row[Head(scanQ)].status # "none"
    BY <2>1 DEF KnownQueue
  <2> QED
    BY <1>1, <1>2, <2>1, <2>2 DEF ScanTake
<1>3. CASE Scanner /\ ~ScanTake
  BY <1>1, <1>3 DEF Scanner, ScanRead, ScanSniff, ScanReadFails, ScanGetFails, ScanRetry, ScanReady,
     RejectStatus,
     RejectRelease, RejectEnqueue, ScanType
<1>4. CASE ScanCallLost
  BY <1>1, <1>4 DEF ScanCallLost, AfterScanLost, ScanType
<1>5. CASE WorkerCrash
  BY <1>5 DEF WorkerCrash
<1>6. CASE UNCHANGED scan
  BY <1>1, <1>6 DEF ScanType
<1> QED
  BY <1>2, <1>3, <1>4, <1>5, <1>6, FrameScan

\* What a step of the sweep, or of time, does to the sweep's locals.
LEMMA SweepStep ==
  ASSUME TypeOK, [Next]_vars
  PROVE  \/ UNCHANGED sweep
         \/ SweepSelect
         \/ \E f \in sweep.mark : sweep' = [sweep EXCEPT !.mark = @ \ {f}]
         \/ sweep.mark = {} /\ sweep.cur = NoFile
            /\ \E f \in sweep.todo : sweep' = [sweep EXCEPT !.cur = f]
         \/ sweep' = NoSweep
         \/ sweep.cur # NoFile
            /\ sweep' = [sweep EXCEPT !.todo = @ \ {sweep.cur}, !.cur = NoFile]
<1>1. CASE Sweeper
  BY <1>1 DEF Sweeper, SweepExpire, SweepRelease, SweepEnqueue
<1>2. CASE SweepCallLost
  BY <1>2 DEF SweepCallLost
<1> QED
  BY <1>1, <1>2, FrameSweep DEF WorkerCrash

\* The sweep's list refers to files that have had a row, and its parts agree.
LEMMA StepSweepShape == Shape /\ [Next]_vars => KnownSweep' /\ SweepShape'
<1> SUFFICES ASSUME Shape, [Next]_vars PROVE KnownSweep' /\ SweepShape'
  OBVIOUS
<1> USE DEF Shape, TypeOK, Known, KnownSweep, SweepShape, SweepType
<1>1. \A g \in Files : row[g].status # "none" => row'[g].status # "none"
  BY RowStep
<1>2. CASE UNCHANGED sweep
  BY <1>1, <1>2
<1>3. CASE SweepSelect
  BY <1>1, <1>3 DEF SweepSelect, Exists
<1>4. CASE \E f \in sweep.mark : sweep' = [sweep EXCEPT !.mark = @ \ {f}]
  BY <1>1, <1>4
<1>5. CASE sweep.mark = {} /\ sweep.cur = NoFile
           /\ \E f \in sweep.todo : sweep' = [sweep EXCEPT !.cur = f]
  BY <1>1, <1>5
<1>6. CASE sweep' = NoSweep
  BY <1>6 DEF NoSweep
<1>7. CASE sweep.cur # NoFile /\ sweep' = [sweep EXCEPT !.todo = @ \ {sweep.cur}, !.cur = NoFile]
  BY <1>1, <1>7
<1> QED
  BY <1>2, <1>3, <1>4, <1>5, <1>6, <1>7, SweepStep

\* The purge's keys have rows until the commit and are gone after it.
LEMMA StepPurgeShape == Shape /\ [Next]_vars => PurgeShape'
<1> SUFFICES ASSUME Shape, [Next]_vars PROVE PurgeShape'
  OBVIOUS
<1> USE DEF Shape, TypeOK, PurgeShape, PurgeType, NoPurge
<1>1. \A g \in Files : /\ row[g].status = "gone" => row'[g].status = "gone"
                       /\ Exists(g) => Exists(g)' \/ PurgeCommit
  BY RowStep
<1>2. CASE PurgeCommit
  BY <1>2 DEF PurgeCommit, RowType
<1>3. CASE PurgeSelect
  BY <1>1, <1>3 DEF PurgeSelect, PurgeCommit
<1>4. CASE PurgeDelete
  BY <1>1, <1>4 DEF PurgeDelete, PurgeCommit
<1>5. CASE PurgeEnqueue
  BY <1>1, <1>5 DEF PurgeEnqueue, PurgeCommit
<1>6. CASE PurgeDies
  BY <1>6 DEF PurgeDies
<1>7. CASE UNCHANGED purge /\ ~PurgeCommit
  BY <1>1, <1>7
<1> QED
  BY <1>2, <1>3, <1>4, <1>5, <1>6, <1>7, FramePurge DEF Purger

\* Every step keeps the shape of the state.
LEMMA StepShape == Shape /\ [Next]_vars => Shape'
  BY StepType, StepKnownReq, StepKnownQueue, StepKnownScan, StepSweepShape, StepPurgeShape
  DEF Shape, Known

-----------------------------------------------------------------------------
\* Servable files have been scanned and have their bytes.

\* Only a scan that reached its verdict makes a file ready.
LEMMA BecomesReady ==
  ASSUME TypeOK, [Next]_vars, NEW g \in Files, row'[g].status = "ready"
  PROVE  row[g].status = "ready" \/ (ScanReady /\ scan.file = g /\ Exists(g))
<1> USE DEF TypeOK, RowType
<1>1. ASSUME NEW r \in Requests,
             UploadStatus(r) \/ CompleteReject(r) \/ CompleteFinal(r) \/ DeleteMark(r)
      PROVE  row[g].status = "ready"
  BY <1>1 DEF UploadStatus, CompleteReject, CompleteFinal, DeleteMark, SetFileStatus,
     FinalizeUpload, WriteRow
<1>2. ASSUME ScanReady PROVE row[g].status = "ready" \/ (scan.file = g /\ Exists(g))
  BY <1>2 DEF ScanReady, SetFileStatus, WriteRow, Exists
<1>5. ASSUME RejectStatus PROVE row[g].status = "ready"
  BY <1>5 DEF RejectStatus, SetFileStatus, WriteRow
<1>6. ASSUME SweepExpire PROVE row[g].status = "ready"
  BY <1>6 DEF SweepExpire, SetFileStatus, WriteRow
<1>3. ASSUME NEW r \in Requests, UploadCreate(r) \/ PresignCreate(r) PROVE row[g].status = "ready"
  BY <1>3 DEF UploadCreate, PresignCreate, CreateFile
<1>4. ASSUME PurgeCommit PROVE row[g].status = "ready"
  BY <1>4 DEF PurgeCommit
<1>7. ASSUME UNCHANGED <<row, resurrected>> PROVE row[g].status = "ready"
  BY <1>7
<1> QED
  BY <1>1, <1>2, <1>3, <1>4, <1>5, <1>6, <1>7, FrameRow

\* Bytes disappear only through a delete job in hand.
LEMMA LosesBytes ==
  ASSUME TypeOK, [Next]_vars, NEW g \in Files, Stored(g), ~Stored(g)'
  PROVE  DeletePending(g) /\ UNCHANGED <<row, scan>>
<1> USE DEF TypeOK, ObjectType, Object, Stored
<1>1. ASSUME NEW r \in Requests, UploadPut(r) PROVE FALSE
  BY <1>1 DEF UploadPut, PutObject
<1>2. ASSUME NEW f \in Files, ClientPut(f) PROVE FALSE
  BY <1>2 DEF ClientPut, PutObject
<1>3. CASE DeleteObject
  BY <1>3 DEF DeleteObject, DeletePending
<1> QED
  BY <1>1, <1>2, <1>3, FrameObject

\* No file becomes ready unscanned.
LEMMA StepScanned == Inv /\ [Next]_vars => ReadyWasScanned'
<1> SUFFICES ASSUME Inv, [Next]_vars, NEW g \in Files, row'[g].status = "ready"
             PROVE  g \in sniffed' \cup unread'
  BY DEF ReadyWasScanned
<1>1. sniffed \subseteq sniffed' /\ unread \subseteq unread'
  BY HistoryGrows
<1> QED
  BY <1>1, BecomesReady DEF Inv, Shape, ReadyWasScanned, ScanHasBytes, ScanReady

\* A scan that let the file pass keeps its claim on the bytes.
LEMMA StepScanHasBytes == Inv /\ [Next]_vars => ScanHasBytes'
<1> SUFFICES ASSUME Inv, [Next]_vars, scan'.pc = "ready" PROVE ScanHasBytes'
  BY DEF ScanHasBytes
<1> USE DEF Inv, Shape
<1>0. /\ sniffed \subseteq sniffed' /\ unread \subseteq unread' /\ resurrected \subseteq resurrected' /\ faulted \subseteq faulted'
  BY HistoryGrows
<1>1. CASE ScanSniff \/ ScanReadFails
  BY <1>1 DEF ScanSniff, ScanReadFails, ScanHasBytes, Stored, store, TypeOK, ScanType
<1>2. CASE UNCHANGED scan
  <2>1. scan.file \in Files /\ scan.pc = "ready"
    BY <1>2 DEF TypeOK, ScanType
  <2>2. Dead(scan.file) => Dead(scan.file)' \/ scan.file \in resurrected'
    BY <1>2, <2>1, RowStep
  <2>3. CASE Stored(scan.file) /\ ~Stored(scan.file)'
    BY <1>0, <1>2, <2>1, <2>2, <2>3, LosesBytes DEF DeleteJustified, ScanHasBytes
  <2> QED
    BY <1>0, <1>2, <2>1, <2>2, <2>3 DEF ScanHasBytes
<1>3. CASE (Scanner /\ ~ScanSniff /\ ~ScanReadFails) \/ ScanCallLost \/ WorkerCrash
  BY <1>3 DEF Scanner, ScanTake, ScanRead, ScanGetFails, ScanRetry, ScanReady, RejectStatus,
     RejectRelease, RejectEnqueue, ScanCallLost, AfterScanLost, WorkerCrash, At, Idle, TypeOK, ScanType
<1> QED
  BY <1>1, <1>2, <1>3, FrameScan

\* A ready file has its bytes.
LEMMA StepReadyHasBytes == Inv /\ [Next]_vars => ReadyHasBytes'
<1> SUFFICES ASSUME Inv, [Next]_vars, NEW g \in Files, row'[g].status = "ready"
             PROVE  Stored(g)' \/ g \in resurrected' \cup faulted'
  BY DEF ReadyHasBytes
<1> USE DEF Inv, Shape
<1>0. resurrected \subseteq resurrected' /\ faulted \subseteq faulted'
  BY HistoryGrows
<1>1. CASE row[g].status = "ready"
  <2>1. ~Dead(g)
    BY <1>1 DEF Dead, Terminal
  <2> QED
    BY <1>0, <1>1, <2>1, LosesBytes DEF ReadyHasBytes, DeleteJustified
<1>2. CASE ScanReady /\ scan.file = g /\ Exists(g)
  <2>1. Dead(g) => g \in resurrected'
    BY <1>2 DEF ScanReady, SetFileStatus, WriteRow, Exists, Dead, Live
  <2>2. Stored(g)' = Stored(g)
    BY <1>2 DEF ScanReady, Stored
  <2> QED
    BY <1>0, <1>2, <2>1, <2>2 DEF ScanReady, ScanHasBytes
<1> QED
  BY <1>1, <1>2, BecomesReady

-----------------------------------------------------------------------------
\* Delete jobs: where they come from and where they go.

\* Appending a job adds its file to the queued ones.
LEMMA QueuedAppend ==
  ASSUME NEW q \in Seq(Jobs), NEW f \in Files, NEW n \in 0..MaxDeleteAttempts, NEW g
  PROVE  Queued(Append(q, Job(f, n)), g) <=> Queued(q, g) \/ g = f
<1>1. Job(f, n) \in Jobs /\ Job(f, n).key = f
  BY DEF Job, Jobs
<1>2. Len(Append(q, Job(f, n))) = Len(q) + 1 /\ Len(q) \in Nat
  BY <1>1
<1> QED
  BY <1>1, <1>2 DEF Queued

\* A file queued in a non-empty queue is that of its head or queued in its tail.
LEMMA QueuedTail ==
  ASSUME NEW q \in Seq(Jobs), q # <<>>, NEW g
  PROVE  Queued(q, g) <=> Head(q).key = g \/ Queued(Tail(q), g)
<1>1. Len(q) \in Nat \ {0} /\ Len(Tail(q)) = Len(q) - 1 /\ Head(q) = q[1]
      /\ \A i \in 1..Len(Tail(q)) : Tail(q)[i] = q[i + 1]
  OBVIOUS
<1>2. Queued(Tail(q), g) => Queued(q, g)
  BY <1>1 DEF Queued
<1>3. Head(q).key = g => Queued(q, g)
  BY <1>1 DEF Queued
<1>4. ASSUME NEW i \in 1..Len(q), q[i].key = g, i # 1 PROVE Queued(Tail(q), g)
  <2>1. i - 1 \in 1..Len(Tail(q)) /\ Tail(q)[i - 1] = q[i]
    BY <1>1, <1>4
  <2> QED
    BY <1>4, <2>1 DEF Queued
<1> QED
  BY <1>1, <1>2, <1>3, <1>4 DEF Queued

\* The two parts of a pending deletion that are in the worker's memory.
InTimer(g) == \E j \in Jobs : timers[j] > 0 /\ j.key = g

\* What a step that appends to the delete queue does to it.
LEMMA EnqueueDeleteStep ==
  ASSUME TypeOK, NEW f \in Files, NEW n \in 0..MaxDeleteAttempts, EnqueueDelete(f, n), NEW g
  PROVE  Queued(deleteQ', g) <=> Queued(deleteQ, g) \/ g = f
  BY QueuedAppend DEF EnqueueDelete, TypeOK, QueueType

\* The parts of CleanupInHand.
ReqHas(g)   == \E r \in Requests : req[r].file = g
                                   /\ req[r].pc \in {"d_release", "d_enqueue", "c_delete"}
ScanHas(g)  == scan.file = g /\ scan.pc \in {"x_release", "x_enqueue"}
SweepHas(g) == g \in sweep.todo \ sweep.mark
PurgeHas(g) == purge.pc = "enqueue" /\ g \in purge.keys

\* A delete job in the queue was there before, or comes from a process or a timer
\* that had it in hand.
LEMMA QueuedFrom ==
  ASSUME Shape, [Next]_vars, NEW g \in Files, Queued(deleteQ', g)
  PROVE  Queued(deleteQ, g) \/ InTimer(g) \/ ReqHas(g) \/ ScanHas(g) \/ SweepHas(g) \/ PurgeHas(g)
<1> USE BoundsAssumption DEF Shape
<1>0. TypeOK /\ 0 \in 0..MaxDeleteAttempts
  OBVIOUS
<1>1. ASSUME NEW r \in Requests, QueueDelete(r) PROVE Queued(deleteQ, g) \/ ReqHas(g)
  BY <1>0, <1>1, EnqueueDeleteStep DEF QueueDelete, ReqHas, TypeOK, ReqType
<1>2. ASSUME PurgeEnqueue PROVE Queued(deleteQ, g) \/ PurgeHas(g)
  BY <1>0, <1>2, EnqueueDeleteStep DEF PurgeEnqueue, PurgeHas, TypeOK, PurgeType
<1>3. ASSUME RejectEnqueue PROVE Queued(deleteQ, g) \/ ScanHas(g)
  BY <1>0, <1>3, EnqueueDeleteStep DEF RejectEnqueue, ScanHas, TypeOK, ScanType
<1>4. ASSUME DeleteTake PROVE Queued(deleteQ, g)
  BY <1>0, <1>4, QueuedTail DEF DeleteTake, TypeOK, QueueType
<1>5. ASSUME TimerFires PROVE Queued(deleteQ, g) \/ InTimer(g)
  <2>1. PICK j \in Jobs : timers[j] > 0 /\ EnqueueDelete(j.key, j.attempt)
    BY <1>5 DEF TimerFires
  <2>2. j.key \in Files /\ j.attempt \in 0..MaxDeleteAttempts
    BY DEF Jobs
  <2> QED
    BY <1>0, <2>1, <2>2, EnqueueDeleteStep DEF InTimer
<1>6. ASSUME SweepEnqueue PROVE Queued(deleteQ, g) \/ SweepHas(g)
  <2>1. sweep.cur \in Files /\ sweep.cur \in sweep.todo /\ sweep.mark = {}
    BY <1>6 DEF SweepEnqueue, SweepShape, TypeOK, SweepType
  <2> QED
    BY <1>0, <1>6, <2>1, EnqueueDeleteStep DEF SweepEnqueue, SweepHas
<1> QED
  BY <1>1, <1>2, <1>3, <1>4, <1>5, <1>6, FrameDeleteQ

\* A pending deletion was pending before, or some process had it in hand.
LEMMA PendingFrom ==
  ASSUME Shape, [Next]_vars, NEW g \in Files, DeletePending(g)'
  PROVE  DeletePending(g) \/ CleanupInHand(g)
<1> USE DEF Shape, TypeOK, DelType
<1>1. CASE Queued(deleteQ', g)
  BY <1>1, QueuedFrom DEF DeletePending, InTimer, CleanupInHand, ReqHas, ScanHas, SweepHas, PurgeHas
<1>2. CASE del'.key = g
  <2>1. ASSUME DeleteTake PROVE Queued(deleteQ, g)
    BY <1>2, <2>1, QueuedTail DEF DeleteTake, QueueType
  <2>2. del'.key = g => del' # NoJob
    BY FilesAssumption DEF NoJob, Job
  <2>3. ASSUME ~DeleteTake PROVE del' = del
    BY <1>2, <2>2, <2>3, FrameDel DEF Deleter, DeleteObject, DeleteFails, TimerFires, RetryLost,
       WorkerCrash
  <2> QED
    BY <1>2, <2>1, <2>3 DEF DeletePending
<1>3. CASE \E j \in Jobs : timers'[j] > 0 /\ j.key = g
  <2>1. PICK j \in Jobs : timers'[j] > 0 /\ j.key = g
    BY <1>3
  <2>2. CASE timers[j] > 0
    BY <2>1, <2>2 DEF DeletePending
  <2>3. CASE DeleteFails
    <3>1. timers' = timers \/ timers' = [timers EXCEPT ![Job(del.key, del.attempt + 1)] = @ + 1]
      BY <2>3 DEF DeleteFails
    <3>2. CASE j = Job(del.key, del.attempt + 1)
      BY <2>1, <3>2 DEF DeletePending, Job
    <3> QED
      BY <2>1, <2>2, <3>1, <3>2
  <2>4. CASE UNCHANGED timers
    BY <2>1, <2>2, <2>4
  <2>5. CASE TimerFires \/ RetryLost
    <3>1. timers' = timers \/ \E k \in Jobs : timers[k] > 0 /\ timers' = [timers EXCEPT ![k] = @ - 1]
      BY <2>5 DEF TimerFires, RetryLost
    <3> QED
      BY <2>1, <2>2, <3>1
  <2>6. CASE WorkerCrash
    BY <2>1, <2>6 DEF WorkerCrash
  <2> QED
    BY <2>3, <2>4, <2>5, <2>6, FrameDel DEF Deleter, DeleteTake, DeleteObject
<1> QED
  BY <1>1, <1>2, <1>3 DEF DeletePending

\* A process has a cleanup in hand because it had it before, because it has just
\* marked the file dead, or because a fault lost that mark.
LEMMA InHandFrom ==
  ASSUME Shape, [Next]_vars, NEW g \in Files, CleanupInHand(g)'
  PROVE  CleanupInHand(g) \/ Dead(g)' \/ g \in faulted'
<1> USE DEF Shape, TypeOK
<1>0. ASSUME NEW s \in Terminal, NEW n, row[g].status # "none", WriteRow(g, s, n) PROVE Dead(g)'
  BY <1>0 DEF WriteRow, Dead, Exists, RowType, Status, Live
<1>1. ASSUME ReqHas(g)' PROVE ReqHas(g) \/ Dead(g)' \/ g \in faulted'
  <2>1. PICK r \in Requests : req'[r].file = g
                              /\ req'[r].pc \in {"d_release", "d_enqueue", "c_delete"}
    BY <1>1 DEF ReqHas
  <2> USE DEF ReqType, Goto, Return, At, Idle
  <2>2. ASSUME req'[r] = req[r] PROVE ReqHas(g)
    BY <2>1, <2>2 DEF ReqHas
  <2>3. ASSUME NEW q \in Requests, Client(q) PROVE ReqHas(g)
    BY <2>1, <2>2, <2>3 DEF Client, UploadCheck, PresignCheck, CompleteRead, DeleteRead, Start
  <2>4. ASSUME NEW q \in Requests, DeleteMark(q) \/ CompleteReject(q)
        PROVE  ReqHas(g) \/ Dead(g)'
    <3>1. CASE q = r
      <4>1. req[r].file = g /\ row[g].status # "none"
        BY <2>1, <2>4, <3>1 DEF DeleteMark, CompleteReject, Known, KnownReq
      <4> QED
        BY <1>0, <2>4, <3>1, <4>1 DEF DeleteMark, CompleteReject, SetFileStatus, Terminal
    <3>2. CASE q # r
      BY <2>2, <2>4, <3>2 DEF DeleteMark, CompleteReject
    <3> QED
      BY <3>1, <3>2
  <2>5. ASSUME NEW q \in Requests, Handler(q), ~DeleteMark(q), ~CompleteReject(q) PROVE ReqHas(g)
    BY <2>1, <2>2, <2>5 DEF Handler, UploadCreate, UploadPut, UploadStatus, Charge, QueueScan,
       PresignCreate, CompleteStat, CompleteQuota, CompleteFinal, DeleteRelease, QueueDelete, ReqHas
  <2>6. ASSUME NEW q \in Requests, CallLost(q) PROVE ReqHas(g) \/ g \in faulted'
    BY <2>1, <2>2, <2>6 DEF CallLost, AfterLost, Start, ReqHas
  <2>7. ASSUME NEW q \in Requests, RequestDies(q) PROVE ReqHas(g)
    BY <2>1, <2>2, <2>7 DEF RequestDies
  <2> QED
    BY <1>1, <2>3, <2>4, <2>5, <2>6, <2>7, FrameReq DEF ReqHas
<1>2. ASSUME ScanHas(g)' PROVE ScanHas(g) \/ Dead(g)' \/ g \in faulted'
  <2> USE DEF ScanType, ScanHas, At, Idle
  <2>1. CASE RejectStatus
    <3>1. scan.file = g /\ row[g].status # "none"
      BY <1>2, <2>1 DEF RejectStatus, Known, KnownScan
    <3> QED
      BY <1>0, <2>1, <3>1 DEF RejectStatus, SetFileStatus, Terminal
  <2>2. CASE Scanner /\ ~RejectStatus
    BY <1>2, <2>2 DEF Scanner, ScanTake, ScanRead, ScanSniff, ScanReadFails, ScanGetFails,
                ScanRetry, ScanReady,
       RejectRelease, RejectEnqueue
  <2>3. CASE ScanCallLost
    BY <1>2, <2>3 DEF ScanCallLost, AfterScanLost
  <2>4. CASE WorkerCrash \/ UNCHANGED scan
    BY <1>2, <2>4 DEF WorkerCrash
  <2> QED
    BY <2>1, <2>2, <2>3, <2>4, FrameScan
<1>3. ASSUME SweepHas(g)' PROVE SweepHas(g) \/ Dead(g)' \/ g \in faulted'
  <2> USE DEF SweepType, SweepHas
  <2>1. CASE SweepExpire
    <3>1. PICK f \in sweep.mark : WriteRow(f, "expired", row[f].size)
                                  /\ sweep' = [sweep EXCEPT !.mark = @ \ {f}]
      BY <2>1 DEF SweepExpire, SetFileStatus
    <3>2. CASE f = g
      <4>1. row[g].status # "none"
        BY <3>1, <3>2 DEF SweepShape, Known, KnownSweep
      <4> QED
        BY <1>0, <3>1, <3>2, <4>1 DEF Terminal
    <3> QED
      BY <1>3, <3>1, <3>2
  <2>2. CASE SweepSelect
    BY <1>3, <2>2 DEF SweepSelect
  <2>3. CASE SweepRelease
    BY <1>3, <2>3 DEF SweepRelease
  <2>4. CASE SweepEnqueue
    BY <1>3, <2>4 DEF SweepEnqueue, NoSweep
  <2>5. CASE SweepCallLost
    <3>1. CASE \E f \in sweep.mark : /\ sweep' = [sweep EXCEPT !.mark = @ \ {f}]
                                      /\ faulted' = faulted \cup {f}
      BY <1>3, <3>1
    <3>2. CASE \E f \in sweep.todo : sweep' = [sweep EXCEPT !.cur = f]
      BY <1>3, <3>2
    <3>3. CASE sweep' = NoSweep
      BY <1>3, <3>3 DEF NoSweep
    <3>4. CASE sweep' = [sweep EXCEPT !.todo = @ \ {sweep.cur}, !.cur = NoFile]
      BY <1>3, <3>4
    <3> QED
      BY <2>5, <3>1, <3>2, <3>3, <3>4 DEF SweepCallLost
  <2>6. CASE WorkerCrash \/ UNCHANGED sweep
    BY <1>3, <2>6 DEF WorkerCrash, NoSweep
  <2> QED
    BY <2>1, <2>2, <2>3, <2>4, <2>5, <2>6, FrameSweep DEF Sweeper
<1>4. ASSUME PurgeHas(g)' PROVE PurgeHas(g) \/ Dead(g)'
  <2> USE DEF PurgeType, PurgeHas, NoPurge
  <2>1. CASE PurgeCommit
    BY <1>4, <2>1 DEF PurgeCommit, PurgeShape, RowType, Dead
  <2>2. CASE PurgeSelect
    BY <1>4, <2>2 DEF PurgeSelect
  <2>5. CASE PurgeDelete
    BY <1>4, <2>5 DEF PurgeDelete
  <2>6. CASE PurgeDies
    BY <1>4, <2>6 DEF PurgeDies
  <2>3. CASE PurgeEnqueue
    BY <1>4, <2>3 DEF PurgeEnqueue
  <2>4. CASE UNCHANGED purge
    BY <1>4, <2>4
  <2> QED
    BY <2>1, <2>2, <2>3, <2>4, <2>5, <2>6, FramePurge DEF Purger
<1> QED
  BY <1>1, <1>2, <1>3, <1>4 DEF CleanupInHand, ReqHas, ScanHas, SweepHas, PurgeHas

\* A queued job stays queued until the consumer takes it.
LEMMA QueuedKept ==
  ASSUME TypeOK, [Next]_vars, NEW g \in Files, Queued(deleteQ, g)
  PROVE  Queued(deleteQ', g) \/ del'.key = g
<1> USE BoundsAssumption
<1>0. 0 \in 0..MaxDeleteAttempts
  OBVIOUS
<1>1. ASSUME NEW r \in Requests, QueueDelete(r) PROVE Queued(deleteQ', g)
  BY <1>0, <1>1, EnqueueDeleteStep DEF QueueDelete, TypeOK, ReqType
<1>2. ASSUME PurgeEnqueue PROVE Queued(deleteQ', g)
  BY <1>0, <1>2, EnqueueDeleteStep DEF PurgeEnqueue, TypeOK, PurgeType
<1>3. ASSUME RejectEnqueue PROVE Queued(deleteQ', g)
  BY <1>0, <1>3, EnqueueDeleteStep DEF RejectEnqueue, TypeOK, ScanType
<1>4. ASSUME DeleteTake PROVE Queued(deleteQ', g) \/ del'.key = g
  BY <1>4, QueuedTail DEF DeleteTake, TypeOK, QueueType
<1>5. ASSUME TimerFires PROVE Queued(deleteQ', g)
  <2>1. PICK j \in Jobs : EnqueueDelete(j.key, j.attempt)
    BY <1>5 DEF TimerFires
  <2>2. j.key \in Files /\ j.attempt \in 0..MaxDeleteAttempts
    BY DEF Jobs
  <2> QED
    BY <2>1, <2>2, EnqueueDeleteStep
<1>6. ASSUME SweepEnqueue PROVE Queued(deleteQ', g)
  <2>1. sweep.cur \in Files
    BY <1>6 DEF SweepEnqueue, TypeOK, SweepType
  <2> QED
    BY <1>0, <1>6, <2>1, EnqueueDeleteStep DEF SweepEnqueue
<1> QED
  BY <1>1, <1>2, <1>3, <1>4, <1>5, <1>6, FrameDeleteQ

\* A pending deletion stays pending until the object is gone, the job is on the
\* dead-letter list, or a fault lost it.
LEMMA PendingKept ==
  ASSUME TypeOK, [Next]_vars, NEW g \in Files, DeletePending(g)
  PROVE  DeletePending(g)' \/ g \in dead' \/ g \in faulted' \/ ~Stored(g)'
<1> USE BoundsAssumption DEF TypeOK, DelType
<1>1. CASE Queued(deleteQ, g)
  BY <1>1, QueuedKept DEF DeletePending
<1>2. CASE del.key = g
  <2>0. del # NoJob /\ del \in Jobs
    BY <1>2, FilesAssumption DEF NoJob, Job
  <2>1. CASE UNCHANGED del
    BY <1>2, <2>1 DEF DeletePending
  <2>2. CASE DeleteObject
    BY <1>2, <2>2 DEF DeleteObject, Stored, Absent, ObjectType
  <2>3. CASE DeleteFails
    <3>1. CASE del.attempt + 1 >= MaxDeleteAttempts
      BY <1>2, <2>3, <3>1 DEF DeleteFails
    <3>2. CASE ~(del.attempt + 1 >= MaxDeleteAttempts)
      <4> DEFINE j == Job(del.key, del.attempt + 1)
      <4>1. j \in Jobs /\ j.key = g
        BY <1>2, <2>0, <3>2 DEF Job, Jobs
      <4>2. timers' = [timers EXCEPT ![j] = @ + 1]
        BY <2>3, <3>2 DEF DeleteFails
      <4> HIDE DEF j
      <4>3. timers'[j] > 0
        BY <4>1, <4>2
      <4> QED
        BY <4>1, <4>3 DEF DeletePending
    <3> QED
      BY <3>1, <3>2
  <2>4. CASE RetryLost
    BY <1>2, <2>1, <2>4 DEF RetryLost
  <2>5. CASE WorkerCrash
    BY <1>2, <2>5, FilesAssumption DEF WorkerCrash
  <2> QED
    BY <2>0, <2>1, <2>2, <2>3, <2>4, <2>5, FrameDel DEF Deleter, DeleteTake, TimerFires
<1>3. CASE \E j \in Jobs : timers[j] > 0 /\ j.key = g
  <2>1. PICK j \in Jobs : timers[j] > 0 /\ j.key = g
    BY <1>3
  <2>2. ASSUME timers'[j] > 0 PROVE DeletePending(g)'
    BY <2>1, <2>2 DEF DeletePending
  <2>3. CASE DeleteFails
    <3>1. timers' = timers \/ timers' = [timers EXCEPT ![Job(del.key, del.attempt + 1)] = @ + 1]
      BY <2>3 DEF DeleteFails
    <3> QED
      BY <2>1, <2>2, <3>1
  <2>4. CASE TimerFires
    <3>1. PICK k \in Jobs : /\ timers' = [timers EXCEPT ![k] = @ - 1]
                            /\ EnqueueDelete(k.key, k.attempt)
      BY <2>4 DEF TimerFires
    <3>2. CASE k = j
      <4>1. k.attempt \in 0..MaxDeleteAttempts /\ k.key \in Files
        BY DEF Jobs
      <4> QED
        BY <2>1, <3>1, <3>2, <4>1, EnqueueDeleteStep DEF DeletePending
    <3>3. CASE k # j
      BY <2>1, <2>2, <3>1, <3>3
    <3> QED
      BY <3>2, <3>3
  <2>5. CASE RetryLost
    BY <2>1, <2>2, <2>5 DEF RetryLost
  <2>6. CASE WorkerCrash
    BY <2>1, <2>6, FilesAssumption DEF WorkerCrash
  <2>7. CASE UNCHANGED timers
    BY <2>1, <2>2, <2>7
  <2> QED
    BY <2>3, <2>4, <2>5, <2>6, <2>7, FrameDel DEF Deleter, DeleteTake, DeleteObject
<1> QED
  BY <1>1, <1>2, <1>3 DEF DeletePending

\* A cleanup in hand ends in a queued job or in a fault.
LEMMA InHandKept ==
  ASSUME Shape, [Next]_vars, NEW g \in Files, CleanupInHand(g)
  PROVE  CleanupInHand(g)' \/ DeletePending(g)' \/ g \in faulted'
<1> USE BoundsAssumption DEF Shape, TypeOK
<1> DEFINE Kept == CleanupInHand(g)' \/ DeletePending(g)' \/ g \in faulted'
<1> SUFFICES Kept
  OBVIOUS
<1>0. /\ TypeOK /\ 0 \in 0..MaxDeleteAttempts
      /\ Queued(deleteQ', g) => Kept
      /\ ReqHas(g)' \/ ScanHas(g)' \/ SweepHas(g)' \/ PurgeHas(g)' => Kept
      /\ g \in faulted' => Kept
  BY DEF DeletePending, CleanupInHand, ReqHas, ScanHas, SweepHas, PurgeHas
<1> HIDE DEF Kept
<1>1. CASE ReqHas(g)
  <2>1. PICK r \in Requests : req[r].file = g
                              /\ req[r].pc \in {"d_release", "d_enqueue", "c_delete"}
    BY <1>1 DEF ReqHas
  <2> USE DEF ReqType, Goto, Return, At, Idle
  <2>2. ASSUME req'[r] = req[r] PROVE Kept
    BY <1>0, <2>1, <2>2 DEF ReqHas
  <2>3. ASSUME NEW q \in Requests, Client(q) PROVE Kept
    BY <2>1, <2>2, <2>3 DEF Client, UploadCheck, PresignCheck, CompleteRead, DeleteRead, Start
  <2>4. ASSUME NEW q \in Requests, Handler(q), q # r PROVE Kept
    BY <2>2, <2>4 DEF Handler, UploadCreate, UploadPut, UploadStatus, Charge, QueueScan,
       PresignCreate, CompleteStat, CompleteQuota, CompleteReject, CompleteFinal, DeleteMark,
       DeleteRelease, QueueDelete
  <2>5. ASSUME Handler(r) PROVE Kept
    <3>1. DeleteRelease(r) \/ QueueDelete(r)
      BY <2>1, <2>5 DEF Handler, UploadCreate, UploadPut, UploadStatus, Charge, QueueScan,
         PresignCreate, CompleteStat, CompleteQuota, CompleteReject, CompleteFinal, DeleteMark
    <3>2. CASE DeleteRelease(r)
      <4>1. req'[r].file = g /\ req'[r].pc = "d_enqueue"
        BY <2>1, <3>2 DEF DeleteRelease
      <4> QED
        BY <1>0, <4>1 DEF ReqHas
    <3>3. CASE QueueDelete(r)
      BY <1>0, <2>1, <3>3, EnqueueDeleteStep DEF QueueDelete
    <3> QED
      BY <3>1, <3>2, <3>3
  <2>6. ASSUME NEW q \in Requests, CallLost(q) PROVE Kept
    BY <1>0, <2>1, <2>2, <2>6 DEF CallLost, Start
  <2>7. ASSUME NEW q \in Requests, RequestDies(q) PROVE Kept
    BY <1>0, <2>1, <2>2, <2>7, FilesAssumption DEF RequestDies
  <2> QED
    BY <2>2, <2>3, <2>4, <2>5, <2>6, <2>7, FrameReq
<1>2. CASE ScanHas(g)
  <2> USE DEF ScanType, ScanHas, At, Idle
  <2>1. CASE RejectEnqueue
    BY <1>0, <1>2, <2>1, EnqueueDeleteStep DEF RejectEnqueue
  <2>2. CASE Scanner /\ ~RejectEnqueue
    BY <1>0, <1>2, <2>2 DEF Scanner, ScanTake, ScanRead, ScanSniff, ScanReadFails,
                ScanGetFails, ScanRetry,
       ScanReady, RejectStatus, RejectRelease
  <2>3. CASE ScanCallLost
    BY <1>0, <1>2, <2>3 DEF ScanCallLost
  <2>4. CASE WorkerCrash
    BY <1>0, <1>2, <2>4, FilesAssumption DEF WorkerCrash
  <2>5. CASE UNCHANGED scan
    BY <1>0, <1>2, <2>5
  <2> QED
    BY <2>1, <2>2, <2>3, <2>4, <2>5, FrameScan
<1>3. CASE SweepHas(g)
  <2> USE DEF SweepType, SweepHas
  <2>1. CASE SweepSelect
    BY <1>3, <2>1 DEF SweepSelect
  <2>2. CASE SweepExpire
    BY <1>0, <1>3, <2>2 DEF SweepExpire
  <2>3. CASE SweepRelease
    BY <1>0, <1>3, <2>3 DEF SweepRelease
  <2>4. CASE SweepEnqueue
    <3>1. sweep.cur \in Files
      BY <2>4 DEF SweepEnqueue
    <3>2. CASE sweep.cur = g
      BY <1>0, <2>4, <3>1, <3>2, EnqueueDeleteStep DEF SweepEnqueue
    <3>3. CASE sweep.cur # g
      BY <1>0, <1>3, <2>4, <3>3 DEF SweepEnqueue
    <3> QED
      BY <3>2, <3>3
  <2>5. CASE SweepCallLost
    <3>1. CASE \E f \in sweep.mark : sweep' = [sweep EXCEPT !.mark = @ \ {f}]
      BY <1>0, <1>3, <3>1
    <3>2. CASE \E f \in sweep.todo : sweep' = [sweep EXCEPT !.cur = f]
      BY <1>0, <1>3, <3>2
    <3>3. CASE sweep.cur = g /\ faulted' = faulted \cup {sweep.cur}
      BY <1>0, <3>3
    <3>4. CASE /\ sweep.cur # g
               /\ sweep' = IF sweep.todo = {sweep.cur} THEN NoSweep
                           ELSE [sweep EXCEPT !.todo = @ \ {sweep.cur}, !.cur = NoFile]
      BY <1>0, <1>3, <3>4
    <3> QED
      BY <2>5, <3>1, <3>2, <3>3, <3>4 DEF SweepCallLost
  <2>6. CASE WorkerCrash
    BY <1>0, <1>3, <2>6, FilesAssumption DEF WorkerCrash
  <2>7. CASE UNCHANGED sweep
    BY <1>0, <1>3, <2>7
  <2> QED
    BY <2>1, <2>2, <2>3, <2>4, <2>5, <2>6, <2>7, FrameSweep DEF Sweeper
<1>4. CASE PurgeHas(g)
  <2> USE DEF PurgeType, PurgeHas
  <2>1. CASE PurgeSelect \/ PurgeDelete \/ PurgeCommit
    BY <1>4, <2>1 DEF PurgeSelect, PurgeDelete, PurgeCommit
  <2>2. CASE PurgeEnqueue
    <3>1. PICK f \in purge.keys : /\ EnqueueDelete(f, 0)
                                  /\ purge' = IF purge.keys = {f} THEN NoPurge
                                              ELSE [purge EXCEPT !.keys = @ \ {f}]
      BY <2>2 DEF PurgeEnqueue
    <3>2. CASE f = g
      BY <1>0, <3>1, <3>2, EnqueueDeleteStep
    <3>3. CASE f # g
      BY <1>0, <1>4, <3>1, <3>3
    <3> QED
      BY <3>2, <3>3
  <2>3. CASE PurgeDies
    BY <1>0, <1>4, <2>3 DEF PurgeDies
  <2>4. CASE UNCHANGED purge
    BY <1>0, <1>4, <2>4
  <2> QED
    BY <2>1, <2>2, <2>3, <2>4, FramePurge DEF Purger
<1>5. ReqHas(g) \/ ScanHas(g) \/ SweepHas(g) \/ PurgeHas(g)
  BY DEF CleanupInHand, ReqHas, ScanHas, SweepHas, PurgeHas
<1> QED
  BY <1>1, <1>2, <1>3, <1>4, <1>5

-----------------------------------------------------------------------------
\* Cleanup: every dead file's object is tracked, and only dead files' objects are.

\* A write of a live status to one row makes no file dead; a write of a terminal one
\* makes at most its own file dead.
LEMMA WriteRowDies ==
  ASSUME TypeOK, NEW f, NEW s, NEW n, WriteRow(f, s, n), NEW g \in Files, ~Dead(g), Dead(g)'
  PROVE  g = f /\ s \notin Live
  BY DEF WriteRow, Dead, Exists, TypeOK, RowType, Status, Live, Terminal

\* Whoever makes a file dead has its cleanup in hand; only a purge can remove a row
\* whose key it did not read.
LEMMA Dies ==
  ASSUME Shape, [Next]_vars, NEW g \in Files, ~Dead(g), Dead(g)'
  PROVE  CleanupInHand(g)' \/ g \in escaped'
<1> USE DEF Shape, TypeOK
<1>1. ASSUME NEW r \in Requests, UploadStatus(r) \/ CompleteFinal(r) PROVE FALSE
  BY <1>1, WriteRowDies DEF UploadStatus, CompleteFinal, SetFileStatus, FinalizeUpload, Live
<1>2. ASSUME NEW r \in Requests, DeleteMark(r) \/ CompleteReject(r) PROVE CleanupInHand(g)'
  <2>1. req[r].file = g
    BY <1>2, WriteRowDies DEF DeleteMark, CompleteReject, SetFileStatus
  <2>2. req'[r].file = g /\ req'[r].pc \in {"d_release", "c_delete"}
    BY <1>2, <2>1 DEF DeleteMark, CompleteReject, Goto, ReqType
  <2> QED
    BY <2>2 DEF CleanupInHand
<1>3. ASSUME ScanReady PROVE FALSE
  BY <1>3, WriteRowDies DEF ScanReady, SetFileStatus, Live
<1>4. ASSUME RejectStatus PROVE CleanupInHand(g)'
  <2>1. scan.file = g
    BY <1>4, WriteRowDies DEF RejectStatus, SetFileStatus
  <2> QED
    BY <1>4, <2>1 DEF RejectStatus, ScanType, CleanupInHand
<1>5. ASSUME SweepExpire PROVE CleanupInHand(g)'
  <2>1. PICK f \in sweep.mark : WriteRow(f, "expired", row[f].size)
                                /\ sweep' = [sweep EXCEPT !.mark = @ \ {f}]
    BY <1>5 DEF SweepExpire, SetFileStatus
  <2>2. f = g
    BY <2>1, WriteRowDies
  <2>3. g \in sweep'.todo \ sweep'.mark
    BY <2>1, <2>2 DEF SweepShape, SweepType
  <2> QED
    BY <2>3 DEF CleanupInHand
<1>6. ASSUME NEW r \in Requests, UploadCreate(r) \/ PresignCreate(r) PROVE FALSE
  BY <1>6 DEF UploadCreate, PresignCreate, CreateFile, RowType, Dead, Terminal
<1>7. ASSUME PurgeCommit PROVE CleanupInHand(g)' \/ g \in escaped'
  <2>1. g \in purge.doomed
    BY <1>7 DEF PurgeCommit, RowType, Dead
  <2>2. CASE g \in purge.keys
    BY <1>7, <2>2 DEF PurgeCommit, PurgeType, CleanupInHand
  <2> QED
    BY <1>7, <2>1, <2>2 DEF PurgeCommit
<1>8. ASSUME UNCHANGED <<row, resurrected>> PROVE FALSE
  BY <1>8 DEF Dead
<1> QED
  BY <1>1, <1>2, <1>3, <1>4, <1>5, <1>6, <1>7, <1>8, FrameRow

\* An object written under the key of a file that is already dead is recorded.
LEMMA LatePut ==
  ASSUME TypeOK, [Next]_vars, NEW g \in Files, Dead(g), ~Stored(g), Stored(g)'
  PROVE  g \in escaped'
<1> USE DEF TypeOK, ObjectType, Object, Stored
<1>1. ASSUME NEW r \in Requests, UploadPut(r) PROVE g \in escaped'
  BY <1>1 DEF UploadPut, PutObject
<1>2. ASSUME NEW f \in Files, ClientPut(f) PROVE g \in escaped'
  BY <1>2 DEF ClientPut, PutObject
<1>3. ASSUME DeleteObject PROVE FALSE
  BY <1>3 DEF DeleteObject, Absent
<1> QED
  BY <1>1, <1>2, <1>3, FrameObject

\* A deletion is pending or in hand only for a dead file or an excused one.
LEMMA StepJustified == Inv /\ [Next]_vars => DeleteJustified'
<1> SUFFICES ASSUME Inv, [Next]_vars, NEW g \in Files, DeletePending(g)' \/ CleanupInHand(g)'
             PROVE  Dead(g)' \/ g \in resurrected' \cup faulted'
  BY DEF DeleteJustified
<1> USE DEF Inv, Shape
<1>1. resurrected \subseteq resurrected' /\ faulted \subseteq faulted'
  BY HistoryGrows
<1>2. DeletePending(g) \/ CleanupInHand(g) \/ Dead(g)' \/ g \in faulted'
  BY PendingFrom, InHandFrom
<1>3. Dead(g) => Dead(g)' \/ g \in resurrected'
  BY RowStep
<1> QED
  BY <1>1, <1>2, <1>3 DEF DeleteJustified

\* No object of a dead file is forgotten.
LEMMA StepTracked == Inv /\ [Next]_vars => CleanupTracked'
<1> SUFFICES ASSUME Inv, [Next]_vars, NEW g \in Files, Dead(g)', Stored(g)'
             PROVE  \/ DeletePending(g)' \/ CleanupInHand(g)' \/ g \in dead'
                    \/ g \in faulted' \cup escaped'
  BY DEF CleanupTracked
<1> USE DEF Inv, Shape
<1>1. faulted \subseteq faulted' /\ escaped \subseteq escaped'
  BY HistoryGrows
<1>2. dead \subseteq dead'
  BY FrameDead DEF DeleteFails
<1>3. CASE ~Dead(g)
  BY <1>3, Dies
<1>4. CASE Dead(g) /\ ~Stored(g)
  BY <1>4, LatePut
<1>5. CASE Dead(g) /\ Stored(g)
  BY <1>1, <1>2, <1>5, PendingKept, InHandKept DEF CleanupTracked
<1> QED
  BY <1>3, <1>4, <1>5

\* The initial state satisfies the invariant.
LEMMA InitInv == Init => Inv
<1> SUFFICES ASSUME Init PROVE Inv
  OBVIOUS
<1>1. TypeOK
  BY InitType
<1> USE DEF Init, At, Idle
<1>2. Known
  BY DEF Known, KnownReq, KnownScan, KnownQueue, KnownSweep, NoSweep
<1>3. SweepShape /\ PurgeShape
  BY DEF SweepShape, PurgeShape, NoSweep, NoPurge
<1>4. CleanupTracked /\ ReadyHasBytes /\ ReadyWasScanned /\ ScanHasBytes
  BY DEF CleanupTracked, ReadyHasBytes, ReadyWasScanned, ScanHasBytes, Dead, Terminal
<1>5. DeleteJustified
  <2> SUFFICES ASSUME NEW g \in Files PROVE ~DeletePending(g) /\ ~CleanupInHand(g)
    BY DEF DeleteJustified
  <2>1. ~DeletePending(g)
    BY FilesAssumption DEF DeletePending, Queued, NoJob, Job
  <2>2. ~CleanupInHand(g)
    BY DEF CleanupInHand, NoSweep, NoPurge
  <2> QED
    BY <2>1, <2>2
<1> QED
  BY <1>1, <1>2, <1>3, <1>4, <1>5 DEF Inv, Shape

\* Inv is inductive.
LEMMA StepInv == Inv /\ [Next]_vars => Inv'
<1>1. Inv => Shape
  BY DEF Inv
<1> QED
  BY <1>1, StepShape, StepTracked, StepJustified, StepReadyHasBytes, StepScanned, StepScanHasBytes
  DEF Inv

\* Inv holds in every reachable state.
LEMMA Invariance == Spec => []Inv
  BY InitInv, StepInv, PTL DEF Spec

\* For every set of files and requests, every quota, and any number of lost calls and
\* worker restarts: the object of a file that is rejected, expired, deleted or purged is
\* being deleted, dead-lettered or excused by name.
THEOREM CleanupIsTracked == Spec => []CleanupTracked
<1>1. Inv => CleanupTracked
  BY DEF Inv
<1> QED
  BY <1>1, Invariance, PTL

\* A ready file has its bytes, unless a stale status write revived it or a fault lost the
\* write that killed it.
THEOREM ReadyFilesHaveBytes == Spec => []ReadyHasBytes
<1>1. Inv => ReadyHasBytes
  BY DEF Inv
<1> QED
  BY <1>1, Invariance, PTL

\* No file is ready without a scan that opened its stored object and read and accepted the
\* bytes, or that could not read them and let the file pass because it is declared a text.
THEOREM ReadyFilesWereScanned == Spec => []ReadyWasScanned
<1>1. Inv => ReadyWasScanned
  BY DEF Inv
<1> QED
  BY <1>1, Invariance, PTL

-----------------------------------------------------------------------------
(***************************************************************************)
(* FileLifecycle implements FileService.                                    *)
(***************************************************************************)

\* A file that is past its upload does not await it again: only the insertion of a row
\* writes "uploading".
LEMMA ScannableStep ==
  ASSUME TypeOK, [Next]_vars, NEW g \in Files, row[g].status # "none", Scannable(g)
  PROVE  Scannable(g)'
<1> USE DEF TypeOK, RowType, Scannable
<1>1. ASSUME NEW r \in Requests,
             UploadStatus(r) \/ CompleteReject(r) \/ CompleteFinal(r) \/ DeleteMark(r)
      PROVE  Scannable(g)'
  BY <1>1 DEF UploadStatus, CompleteReject, CompleteFinal, DeleteMark, SetFileStatus,
     FinalizeUpload, WriteRow
<1>2. ASSUME ScanReady \/ RejectStatus \/ SweepExpire PROVE Scannable(g)'
  BY <1>2 DEF ScanReady, RejectStatus, SweepExpire, SetFileStatus, WriteRow
<1>3. ASSUME NEW r \in Requests, UploadCreate(r) \/ PresignCreate(r) PROVE Scannable(g)'
  BY <1>3 DEF UploadCreate, PresignCreate, CreateFile
<1>4. ASSUME PurgeCommit PROVE Scannable(g)'
  BY <1>4 DEF PurgeCommit
<1>5. ASSUME UNCHANGED <<row, resurrected>> PROVE Scannable(g)'
  BY <1>5
<1> QED
  BY <1>1, <1>2, <1>3, <1>4, <1>5, FrameRow

\* Requests past the upload of their file.
LEMMA StepArrivedReq == Shape /\ Arrived /\ [Next]_vars => ArrivedReq'
<1> DEFINE Past == {"u_put", "u_status", "u_charge", "u_scan", "c_charge", "c_scan"}
<1> SUFFICES ASSUME Shape, Arrived, [Next]_vars, NEW q \in Requests, req'[q].pc \in Past
             PROVE  row'[req'[q].file].status # "uploading"
  BY DEF ArrivedReq, Scannable
<1> USE DEF Shape, TypeOK, Arrived, ArrivedReq, Scannable, At, Idle, Goto, Return
<1>1. \A g \in Files : row[g].status \notin {"none", "uploading"} => row'[g].status # "uploading"
  BY ScannableStep
<1>2. ASSUME req[q].pc \in Past
      PROVE  req[q].file \in Files /\ row[req[q].file].status \notin {"none", "uploading"}
  BY <1>2 DEF ReqType, Known, KnownReq
<1>3. CASE req'[q] = req[q]
  BY <1>1, <1>2, <1>3
<1>4. ASSUME NEW r \in Requests, Client(r) PROVE row'[req'[q].file].status # "uploading"
  BY <1>1, <1>2, <1>4 DEF Client, UploadCheck, PresignCheck, CompleteRead, DeleteRead, Start, ReqType
<1>5. ASSUME NEW r \in Requests, Handler(r) PROVE row'[req'[q].file].status # "uploading"
  <2>1. CASE UploadCreate(r)
    BY <1>1, <1>2, <2>1 DEF UploadCreate, CreateFile, ReqType, RowType
  <2>2. CASE CompleteFinal(r)
    BY <1>1, <1>2, <2>2 DEF CompleteFinal, FinalizeUpload, WriteRow, Exists, ReqType, RowType
  <2>3. CASE Handler(r) /\ ~UploadCreate(r) /\ ~CompleteFinal(r)
    BY <1>1, <1>2, <2>3 DEF Handler, UploadPut, UploadStatus, Charge, QueueScan, PresignCreate,
       CompleteStat, CompleteQuota, CompleteReject, DeleteMark, DeleteRelease, QueueDelete, ReqType
  <2> QED
    BY <1>5, <2>1, <2>2, <2>3
<1>6. ASSUME NEW r \in Requests, CallLost(r) PROVE row'[req'[q].file].status # "uploading"
  BY <1>1, <1>2, <1>6 DEF CallLost, AfterLost, Start, ReqType
<1>7. ASSUME NEW r \in Requests, RequestDies(r) PROVE row'[req'[q].file].status # "uploading"
  BY <1>1, <1>2, <1>7 DEF RequestDies, ReqType
<1> QED
  BY <1>3, <1>4, <1>5, <1>6, <1>7, FrameReq

\* Queued scans.
LEMMA StepArrivedQueue == Shape /\ Arrived /\ [Next]_vars => ArrivedQueue'
<1> SUFFICES ASSUME Shape, Arrived, [Next]_vars PROVE ArrivedQueue'
  OBVIOUS
<1> USE DEF Shape, TypeOK, Arrived, ArrivedQueue, Scannable, Known, KnownQueue
<1>1. \A g \in Files : row[g].status \notin {"none", "uploading"} => row'[g].status # "uploading"
  BY ScannableStep
<1>2. scanQ \in Seq(Files)
  BY DEF QueueType
<1>3. ASSUME NEW f \in Files, row[f].status \notin {"none", "uploading"}, EnqueueScan(f)
      PROVE  ArrivedQueue'
  BY <1>1, <1>2, <1>3 DEF EnqueueScan
<1>4. ASSUME NEW r \in Requests, QueueScan(r) PROVE ArrivedQueue'
  BY <1>3, <1>4 DEF QueueScan, ReqType, KnownReq, ArrivedReq
<1>5. CASE ScanRetry
  BY <1>3, <1>5 DEF ScanRetry, ScanType, KnownScan, ArrivedScan
<1>6. CASE ScanTake
  BY <1>1, <1>2, <1>6 DEF ScanTake
<1>7. CASE UNCHANGED scanQ
  BY <1>1, <1>2, <1>7
<1> QED
  BY <1>4, <1>5, <1>6, <1>7, FrameScanQ

\* The scan in hand.
LEMMA StepArrivedScan == Shape /\ Arrived /\ [Next]_vars => ArrivedScan'
<1> SUFFICES ASSUME Shape, Arrived, [Next]_vars PROVE ArrivedScan'
  OBVIOUS
<1> USE DEF Shape, TypeOK, Arrived, ArrivedScan, Scannable, Known, KnownScan, At, Idle
<1>1. \A g \in Files : row[g].status \notin {"none", "uploading"} => row'[g].status # "uploading"
  BY ScannableStep
<1>2. CASE ScanTake
  <2>1. Head(scanQ) \in Files /\ 1 \in 1..Len(scanQ) /\ Head(scanQ) = scanQ[1]
    BY <1>2 DEF ScanTake, QueueType
  <2>2. row[Head(scanQ)].status \notin {"none", "uploading"}
    BY <2>1 DEF KnownQueue, ArrivedQueue
  <2> QED
    BY <1>1, <1>2, <2>1, <2>2 DEF ScanTake
<1>3. CASE Scanner /\ ~ScanTake
  BY <1>1, <1>3 DEF Scanner, ScanRead, ScanSniff, ScanReadFails, ScanGetFails, ScanRetry, ScanReady,
     RejectStatus,
     RejectRelease, RejectEnqueue, ScanType
<1>4. CASE ScanCallLost
  BY <1>1, <1>4 DEF ScanCallLost, AfterScanLost, ScanType
<1>5. CASE WorkerCrash
  BY <1>5 DEF WorkerCrash
<1>6. CASE UNCHANGED scan
  BY <1>1, <1>6 DEF ScanType
<1> QED
  BY <1>2, <1>3, <1>4, <1>5, <1>6, FrameScan

\* The rows a purge is about to remove.
LEMMA StepDoomed == Shape /\ Arrived /\ [Next]_vars => DoomedExist'
<1> SUFFICES ASSUME Shape, Arrived, [Next]_vars PROVE DoomedExist'
  OBVIOUS
<1> USE DEF Shape, TypeOK, PurgeShape, PurgeType, Arrived, DoomedExist, NoPurge
<1>1. \A g \in Files : Exists(g) => Exists(g)' \/ PurgeCommit
  BY RowStep
<1>2. CASE PurgeCommit
  BY <1>2 DEF PurgeCommit
<1>3. CASE PurgeDelete
  BY <1>1, <1>3 DEF PurgeDelete, PurgeCommit
<1>4. CASE PurgeSelect \/ PurgeEnqueue \/ PurgeDies
  BY <1>4 DEF PurgeSelect, PurgeEnqueue, PurgeDies
<1>5. CASE UNCHANGED purge /\ ~PurgeCommit
  BY <1>1, <1>5
<1> QED
  BY <1>2, <1>3, <1>4, <1>5, FramePurge DEF Purger

\* Both parts of the refinement's invariant are inductive.
LEMMA ArrivedInvariant == Spec => [](Shape /\ Arrived)
<1>1. Init => Shape /\ Arrived
  <2>1. Init => Shape
    BY InitInv DEF Inv
  <2>2. Init => Arrived
    BY DEF Init, Arrived, ArrivedReq, ArrivedQueue, ArrivedScan, DoomedExist, At, Idle, NoPurge
  <2> QED
    BY <2>1, <2>2
<1>2. Shape /\ Arrived /\ [Next]_vars => (Shape /\ Arrived)'
  BY StepShape, StepArrivedReq, StepArrivedQueue, StepArrivedScan, StepDoomed DEF Arrived
<1> QED
  BY <1>1, <1>2, PTL DEF Spec

\* What a status write does to the row written, to the others and to the revived files.
LEMMA WriteRowEffect ==
  ASSUME TypeOK, NEW f \in Files, NEW s \in Status, NEW n, WriteRow(f, s, n)
  PROVE  /\ Exists(f) => row' = [row EXCEPT ![f] = [status |-> s, size |-> n]]
         /\ ~Exists(f) => row' = row /\ resurrected' = resurrected
         /\ resurrected' = IF row[f].status \in Terminal /\ s \in Live
                           THEN resurrected \cup {f} ELSE resurrected
  BY DEF WriteRow, Exists, Terminal

\* The phase of every status.
LEMMA PhaseOfStatus ==
  /\ Phase("none") = "absent" /\ Phase("gone") = "purged"
  /\ Phase("uploading") = "awaiting" /\ Phase("uploaded") = "checking"
  /\ Phase("scanning") = "checking" /\ Phase("ready") = "serving"
  /\ \A s \in Terminal : Phase(s) = "ended"
  BY DEF Phase, Terminal

\* A row that takes status s moves its file to the phase of s, and no other file.
LEMMA PhaseMove ==
  ASSUME TypeOK, NEW f \in Files, NEW s, NEW n,
         row' = [row EXCEPT ![f] = [status |-> s, size |-> n]]
  PROVE  phases' = [phases EXCEPT ![f] = Phase(s)]
  BY DEF phases, TypeOK, RowType

\* The status write of every handler and of the worker is a step of the service, or none: an
\* upload is completed, a check is passed, a file ends, or one that ended and that its writer
\* had in hand comes back.
LEMMA StatusWrite ==
  ASSUME TypeOK, NEW f \in Files, NEW n, NEW s \in {"scanning", "ready"} \cup Terminal,
         WriteRow(f, s, n), s = "ready" => Scannable(f), s \in Live => InHand(f)
  PROVE  Service!Step
<1> USE DEF Status, Live, Terminal
<1>1. s \in Status
  OBVIOUS
<1>2. CASE ~Exists(f)
  BY <1>1, <1>2, WriteRowEffect DEF phases, Service!Step
<1>3. CASE Exists(f)
  <2>1. phases' = [phases EXCEPT ![f] = Phase(s)]
    BY <1>1, <1>3, WriteRowEffect, PhaseMove
  <2>2. phases[f] = Phase(row[f].status) /\ phases \in [Files -> {phases[g] : g \in Files}]
    BY DEF phases
  <2>3. row[f].status \in Live \cup Terminal
    BY <1>3 DEF TypeOK, RowType, Exists
  <2>4. resurrected' = IF row[f].status \in Terminal /\ s \in Live
                       THEN resurrected \cup {f} ELSE resurrected
    BY <1>1, WriteRowEffect
  <2>5. CASE s \in Terminal /\ row[f].status \in Terminal
    BY <2>1, <2>2, <2>4, <2>5, PhaseOfStatus DEF Service!Step
  <2>6. CASE s \in Terminal /\ row[f].status \in Live
    <3>1. Service!End(f)
      BY <2>1, <2>2, <2>4, <2>6, PhaseOfStatus DEF Service!End, Service!Move, Service!Alive
    <3> QED
      BY <3>1 DEF Service!Step
  <2>7. CASE s \in Live /\ row[f].status \in Terminal
    <3>1. Service!Revive(f)
      BY <2>1, <2>2, <2>4, <2>7, PhaseOfStatus DEF Service!Revive, Service!Move, taken
    <3> QED
      BY <3>1 DEF Service!Step
  <2>8. CASE s = "scanning" /\ row[f].status \in {"uploading", "ready"}
    <3>1. Service!Complete(f)
      BY <2>1, <2>2, <2>4, <2>8, PhaseOfStatus DEF Service!Complete, Service!Move
    <3> QED
      BY <3>1 DEF Service!Step
  <2>9. CASE s = "ready" /\ row[f].status \in {"uploaded", "scanning"}
    <3>1. Service!Publish(f)
      BY <2>1, <2>2, <2>4, <2>9, PhaseOfStatus DEF Service!Publish, Service!Move
    <3> QED
      BY <3>1 DEF Service!Step
  <2>10. CASE \/ s = "scanning" /\ row[f].status \in {"uploaded", "scanning"}
              \/ s = "ready" /\ row[f].status = "ready"
    BY <2>1, <2>2, <2>4, <2>10, PhaseOfStatus DEF Service!Step
  <2> QED
    BY <2>3, <2>5, <2>6, <2>7, <2>8, <2>9, <2>10 DEF Scannable
<1> QED
  BY <1>2, <1>3

\* What every step of the lifecycle does to the phases is a step of the service, or nothing.
LEMMA StepService ==
  ASSUME Shape, Arrived, [Next]_vars
  PROVE  Service!Step
<1> USE DEF Shape, TypeOK, Arrived
<1>1. CASE UNCHANGED <<row, resurrected>>
  BY <1>1 DEF phases, Service!Step
<1>2. ASSUME NEW r \in Requests,
             UploadStatus(r) \/ CompleteReject(r) \/ CompleteFinal(r) \/ DeleteMark(r)
      PROVE  Service!Step
  <2>1. req[r].file \in Files
    BY <1>2 DEF UploadStatus, CompleteReject, CompleteFinal, DeleteMark, ReqType
  <2> QED
    BY <1>2, <2>1, StatusWrite DEF UploadStatus, CompleteReject, CompleteFinal, DeleteMark,
       SetFileStatus, FinalizeUpload, Terminal, Live, InHand, Carrying
<1>3. CASE ScanReady \/ RejectStatus
  <2>1. scan.file \in Files /\ Scannable(scan.file)
    BY <1>3 DEF ScanReady, RejectStatus, ScanType, ArrivedScan
  <2> QED
    BY <1>3, <2>1, StatusWrite DEF ScanReady, RejectStatus, SetFileStatus, Terminal, Live, InHand
<1>4. CASE SweepExpire
  <2>1. PICK f \in sweep.mark : WriteRow(f, "expired", row[f].size)
    BY <1>4 DEF SweepExpire, SetFileStatus
  <2>2. f \in Files
    BY DEF SweepType
  <2> QED
    BY <2>1, <2>2, StatusWrite DEF Terminal, Live
<1>5. ASSUME NEW r \in Requests, UploadCreate(r) \/ PresignCreate(r), UNCHANGED resurrected
      PROVE  Service!Step
  <2>1. PICK f \in Files, s \in {"uploaded", "uploading"} : CreateFile(f, s, req[r].size)
    BY <1>5 DEF UploadCreate, PresignCreate
  <2>2. phases' = [phases EXCEPT ![f] = Phase(s)]
    BY <2>1, PhaseMove DEF CreateFile
  <2>3. phases[f] = "absent"
    BY <2>1, PhaseOfStatus DEF CreateFile, phases
  <2>4. Service!Insert(f)
    BY <1>5, <2>2, <2>3, PhaseOfStatus DEF Service!Insert, Service!Move
  <2> QED
    BY <2>4 DEF Service!Step
<1>6. CASE PurgeCommit /\ UNCHANGED resurrected
  <2>1. phases' = [f \in Files |-> IF f \in purge.doomed THEN "purged" ELSE phases[f]]
    <3>1. ASSUME NEW f \in Files
          PROVE  phases'[f] = IF f \in purge.doomed THEN "purged" ELSE phases[f]
      BY <1>6, PhaseOfStatus DEF PurgeCommit, RowType, phases
    <3>2. phases' = [f \in Files |-> phases'[f]]
      BY DEF phases
    <3> QED
      BY <3>1, <3>2
  <2>2. \A f \in purge.doomed : phases[f] \in Service!Alive \cup {"ended"}
    BY PhaseOfStatus DEF DoomedExist, Exists, PurgeType, RowType, Status, Live, Terminal, phases,
       Service!Alive
  <2>3. Service!Purge(purge.doomed)
    BY <1>6, <2>1, <2>2 DEF Service!Purge
  <2> QED
    BY <2>3 DEF Service!Step, PurgeType
<1> QED
  BY <1>1, <1>2, <1>3, <1>4, <1>5, <1>6, FrameRow

\* A handler takes a file up when it inserts the row or finds it still uploading.
LEMMA StepTakenReq ==
  ASSUME Shape, [Next]_vars, NEW q \in Requests, req'[q].pc \in Carrying
  PROVE  \/ req[q].pc \in Carrying /\ req'[q].file = req[q].file
         \/ req'[q].file \in Files /\ row[req'[q].file].status \in {"none", "uploading"}
<1> USE DEF Shape, TypeOK, ReqType, Carrying, At, Idle, Goto, Return
<1> DEFINE Goal == \/ req[q].pc \in Carrying /\ req'[q].file = req[q].file
                   \/ req'[q].file \in Files /\ row[req'[q].file].status \in {"none", "uploading"}
<1>1. ASSUME NEW r \in Requests, Client(r) PROVE Goal
  BY <1>1 DEF Client, UploadCheck, PresignCheck, CompleteRead, DeleteRead, Start
<1>2. ASSUME NEW r \in Requests, Handler(r) PROVE Goal
  <2>1. CASE UploadCreate(r)
    BY <2>1 DEF UploadCreate, CreateFile
  <2>2. CASE Handler(r) /\ ~UploadCreate(r)
    BY <2>2 DEF Handler, UploadPut, UploadStatus, Charge, QueueScan, PresignCreate, CompleteStat,
       CompleteQuota, CompleteReject, CompleteFinal, DeleteMark, DeleteRelease, QueueDelete
  <2> QED
    BY <1>2, <2>1, <2>2
<1>3. ASSUME NEW r \in Requests, CallLost(r) \/ RequestDies(r) PROVE Goal
  BY <1>3 DEF CallLost, AfterLost, Start, RequestDies
<1>4. CASE UNCHANGED req
  BY <1>4
<1> QED
  BY <1>1, <1>2, <1>3, <1>4, FrameReq

\* The scan takes a file up when its read of the row finds it neither expired nor deleted.
LEMMA StepTakenScan ==
  ASSUME Shape, [Next]_vars, scan'.pc \in {"sniff", "ready", "x_status"}
  PROVE  \/ scan.pc \in {"sniff", "ready", "x_status"} /\ scan'.file = scan.file
         \/ /\ scan'.file \in Files /\ Exists(scan'.file)
            /\ row[scan'.file].status \notin {"expired", "deleted"}
<1> USE DEF Shape, TypeOK, ScanType, At, Idle
<1>1. CASE Scanner
  BY <1>1 DEF Scanner, ScanTake, ScanRead, ScanSniff, ScanReadFails, ScanGetFails, ScanRetry,
     ScanReady, RejectStatus, RejectRelease, RejectEnqueue
<1>2. CASE ScanCallLost \/ WorkerCrash
  BY <1>2 DEF ScanCallLost, AfterScanLost, WorkerCrash
<1>3. CASE UNCHANGED scan
  BY <1>3
<1> QED
  BY <1>1, <1>2, <1>3, FrameScan

\* Only the completion and the scan reject, and both have the file in hand.
LEMMA StepRejected ==
  ASSUME Shape, [Next]_vars, NEW g \in Files, row'[g].status = "rejected"
  PROVE  row[g].status = "rejected" \/ InHand(g)
<1> USE DEF Shape, TypeOK, RowType
<1>1. ASSUME NEW r \in Requests,
             UploadStatus(r) \/ CompleteReject(r) \/ CompleteFinal(r) \/ DeleteMark(r)
      PROVE  row[g].status = "rejected" \/ InHand(g)
  BY <1>1 DEF UploadStatus, CompleteReject, CompleteFinal, DeleteMark, SetFileStatus,
     FinalizeUpload, WriteRow, InHand, Carrying
<1>2. CASE ScanReady \/ RejectStatus \/ SweepExpire
  BY <1>2 DEF ScanReady, RejectStatus, SweepExpire, SetFileStatus, WriteRow, InHand
<1>3. ASSUME NEW r \in Requests, UploadCreate(r) \/ PresignCreate(r)
      PROVE  row[g].status = "rejected" \/ InHand(g)
  BY <1>3 DEF UploadCreate, PresignCreate, CreateFile
<1>4. CASE PurgeCommit
  BY <1>4 DEF PurgeCommit
<1>5. CASE UNCHANGED <<row, resurrected>>
  BY <1>5
<1> QED
  BY <1>1, <1>2, <1>3, <1>4, <1>5, FrameRow

\* Nobody takes up a file that has ended, unless it was rejected, and only a file in hand is
\* rejected.
LEMMA StepHands ==
  ASSUME Shape, [Next]_vars
  PROVE  Service!Hands
<1> USE DEF Shape, TypeOK
<1>1. ASSUME NEW f \in Files, row[f].status \in Live \cup {"none", "rejected"}
      PROVE  Service!Open(f)
  BY <1>1, PhaseOfStatus DEF Service!Open, phases, rejected, Live
<1>2. ASSUME NEW f \in taken' PROVE f \in taken \/ Service!Open(f)
  <2>1. f \in Files /\ InHand(f)'
    BY DEF taken
  <2>2. CASE \E r \in Requests : req'[r].file = f /\ req'[r].pc \in Carrying
    BY <1>1, <2>1, <2>2, StepTakenReq DEF taken, InHand, Live
  <2>3. CASE scan'.file = f /\ scan'.pc \in {"sniff", "ready", "x_status"}
    BY <1>1, <2>1, <2>3, StepTakenScan DEF taken, InHand, Live, Terminal, Exists, RowType, Status
  <2> QED
    BY <2>1, <2>2, <2>3 DEF InHand
<1>3. ASSUME NEW f \in rejected' PROVE f \in rejected \cup taken /\ phases'[f] = "ended"
  BY StepRejected, PhaseOfStatus DEF rejected, taken, phases, Terminal
<1>4. taken' \subseteq Files
  BY DEF taken
<1> QED
  BY <1>2, <1>3, <1>4 DEF Service!Hands

\* The lifecycle, with its queues, races between handlers, scans, sweeps and purges, and any
\* number of faults, implements the service its clients rely on: a file is served only after
\* a check, a purge is final, and a file comes back from its end only by the status write of
\* a process that took it up before that end, or that checks a rejected file once more.
THEOREM Refinement == Spec => ImplementsFileService
<1>1. Init => Service!Init
  BY PhaseOfStatus DEF Init, Service!Init, phases, rejected, taken, InHand, Carrying, Idle, At
<1>2. Shape /\ Arrived /\ [Next]_vars => [Service!Next]_<<phases, resurrected, rejected, taken>>
  BY StepService, StepHands DEF Service!Next
<1> QED
  BY <1>1, <1>2, ArrivedInvariant, PTL DEF Spec, ImplementsFileService, Service!Spec

-----------------------------------------------------------------------------
(***************************************************************************)
(* The quota.                                                               *)
(***************************************************************************)

\* Nothing that may be charged is larger than the largest body.
Sized == /\ \A f \in Files : object[f].size <= MaxSize
         /\ \A r \in Requests : req[r].pc \in Charging \cup {"c_quota"} => req[r].size <= MaxSize

\* What requests other than r have pending.
UnitsBut(c, r) == {u \in Units(c) : u[1] # r}

\* The pending charges are those of one request and of the others, which are bounded.
LEMMA UnitsSplit ==
  ASSUME NEW c \in [Requests -> 0..MaxSize], NEW r \in Requests
  PROVE  /\ Cardinality(Units(c)) = c[r] + Cardinality(UnitsBut(c, r))
         /\ Cardinality(UnitsBut(c, r)) \in Nat
         /\ Cardinality(UnitsBut(c, r)) <= (Cardinality(Requests) - 1) * MaxSize
<1> DEFINE Own == {r} \X (1..c[r])
           Room == (Requests \ {r}) \X (1..MaxSize)
<1>1. MaxSize \in Nat /\ c[r] \in 0..MaxSize /\ IsFiniteSet(Requests) /\ Cardinality(Requests) \in Nat
  BY SizesAssumption, RequestsAssumption, FS_CardinalityType
<1>2. IsFiniteSet(1..c[r]) /\ Cardinality(1..c[r]) = c[r]
  BY <1>1, FS_Interval
<1>3. IsFiniteSet(1..MaxSize) /\ Cardinality(1..MaxSize) = MaxSize
  BY <1>1, FS_Interval
<1>4. IsFiniteSet(Own) /\ Cardinality(Own) = c[r]
  <2>1. IsFiniteSet({r}) /\ Cardinality({r}) = 1
    BY FS_Singleton
  <2>2. IsFiniteSet(Own) /\ Cardinality(Own) = 1 * c[r]
    BY <1>2, <2>1, FS_Product
  <2> QED
    BY <1>1, <2>2
<1>5. IsFiniteSet(Room) /\ Cardinality(Room) = (Cardinality(Requests) - 1) * MaxSize
  <2>1. IsFiniteSet(Requests \ {r}) /\ Cardinality(Requests \ {r}) = Cardinality(Requests) - 1
    BY <1>1, FS_RemoveElement
  <2>2. /\ IsFiniteSet(Room)
        /\ Cardinality(Room) = Cardinality(Requests \ {r}) * Cardinality(1..MaxSize)
    BY <1>3, <2>1, FS_Product
  <2> QED
    BY <1>3, <2>1, <2>2
<1>6. UnitsBut(c, r) \subseteq Room
  BY DEF UnitsBut, Units
<1>7. /\ IsFiniteSet(UnitsBut(c, r)) /\ Cardinality(UnitsBut(c, r)) \in Nat
      /\ Cardinality(UnitsBut(c, r)) <= Cardinality(Room)
  BY <1>5, <1>6, FS_Subset, FS_CardinalityType
<1>8. Units(c) = Own \cup UnitsBut(c, r)
  <2>1. ASSUME NEW u \in Requests \X (1..MaxSize), u[1] = r, u[2] <= c[u[1]]
        PROVE  u \in Own
    BY <1>1, <2>1
  <2>2. Own \subseteq Units(c)
    BY <1>1 DEF Units
  <2> QED
    BY <2>1, <2>2 DEF Units, UnitsBut
<1>9. Own \cap UnitsBut(c, r) = {}
  BY DEF UnitsBut
<1>10. Cardinality(Units(c)) = Cardinality(Own) + Cardinality(UnitsBut(c, r)) - Cardinality({})
  BY <1>4, <1>7, <1>8, <1>9, FS_Union
<1> HIDE DEF Own, Room
<1> QED
  BY <1>1, <1>4, <1>5, <1>7, <1>10, FS_EmptySet

LEMMA ChargesType ==
  ASSUME TypeOK, Sized
  PROVE  Charges \in [Requests -> 0..MaxSize]
BY SizesAssumption DEF TypeOK, Sized, ReqType, Charges

\* Only a request's own steps change what it has pending. They charge it, drop it, let it
\* through the check, or skip the check for an error.
LEMMA ReqCharges ==
  ASSUME TypeOK, NEW r \in Requests,
         Client(r) \/ Handler(r) \/ CallLost(r) \/ RequestDies(r)
  PROVE  /\ \A q \in Requests \ {r} : req'[q] = req[q]
         /\ LET c == Charges[r] d == Charges'[r] IN
            \/ used' + d <= used + c /\ faults' \in {faults, faults + 1}
            \/ used' = used /\ faults' = faults + 1
            \/ used' = used /\ faults' = faults /\ used + d <= Limit
<1> USE SizesAssumption, BoundsAssumption
    DEF TypeOK, ReqType, At, Idle, Goto, Return, Charges, Charging, store, bounds
<1>1. CASE UploadCheck(r) \/ PresignCheck(r)
  BY <1>1 DEF UploadCheck, PresignCheck, Start, OverQuota
<1>2. CASE CompleteRead(r) \/ DeleteRead(r)
  BY <1>2 DEF CompleteRead, DeleteRead, Start
<1>3. CASE UploadCreate(r) \/ PresignCreate(r) \/ UploadPut(r) \/ UploadStatus(r)
  BY <1>3 DEF UploadCreate, PresignCreate, UploadPut, UploadStatus
<1>4. CASE Charge(r)
  BY <1>4 DEF Charge, AddStorageUsed
<1>5. CASE QueueScan(r) \/ CompleteStat(r) \/ CompleteReject(r) \/ CompleteFinal(r)
  BY <1>5 DEF QueueScan, CompleteStat, CompleteReject, CompleteFinal
<1>6. CASE CompleteQuota(r)
  BY <1>6 DEF CompleteQuota, OverQuota
<1>7. CASE DeleteMark(r) \/ QueueDelete(r)
  BY <1>7 DEF DeleteMark, QueueDelete
<1>8. CASE DeleteRelease(r)
  BY <1>8 DEF DeleteRelease, AddStorageUsed
<1>9. CASE CallLost(r)
  BY <1>9 DEF CallLost, AfterLost, Start
<1>10. CASE RequestDies(r)
  BY <1>10 DEF RequestDies
<1> QED
  BY <1>1, <1>2, <1>3, <1>4, <1>5, <1>6, <1>7, <1>8, <1>9, <1>10 DEF Client, Handler

\* The other steps only release.
LEMMA OtherCharges ==
  ASSUME TypeOK, [Next]_vars
  PROVE  \/ \E r \in Requests : Client(r) \/ Handler(r) \/ CallLost(r) \/ RequestDies(r)
         \/ UNCHANGED req /\ used' <= used /\ faults' \in {faults, faults + 1}
<1>1. faults' \in {faults, faults + 1}
  BY FrameBounds
<1>2. \/ \E r \in Requests : Client(r) \/ Handler(r) \/ CallLost(r) \/ RequestDies(r)
      \/ UNCHANGED req /\ \/ used' = used \/ used' = 0
                          \/ AddStorageUsed(-scan.size)
                          \/ \E f \in sweep.todo : AddStorageUsed(-sweep.size[f])
  BY DEF Next, Scanner, Deleter, Sweeper, Purger, ClientPut, FileDue, UrlExpires,
        PurgeSelect, PurgeDelete, PurgeCommit, PurgeEnqueue, PurgeDies, ScanTake, ScanRead,
        ScanSniff, ScanReadFails, ScanGetFails, ScanRetry, ScanReady, RejectStatus,
        RejectRelease, RejectEnqueue,
        DeleteTake, DeleteObject, DeleteFails, TimerFires, SweepSelect, SweepExpire, SweepRelease,
        SweepEnqueue, ScanCallLost, SweepCallLost, RetryLost, WorkerCrash,
        vars, store, clock, worker, bounds, history
<1>3. AddStorageUsed(-scan.size) => used' <= used
  BY DEF AddStorageUsed, TypeOK, ScanType
<1>4. \A f \in sweep.todo : AddStorageUsed(-sweep.size[f]) => used' <= used
  BY DEF AddStorageUsed, TypeOK, SweepType
<1> QED
  BY <1>1, <1>2, <1>3, <1>4 DEF TypeOK

LEMMA StepSized == TypeOK /\ Sized /\ [Next]_vars => Sized'
<1> SUFFICES ASSUME TypeOK, Sized, [Next]_vars PROVE Sized'
  OBVIOUS
<1> USE SizesAssumption DEF TypeOK
<1>1. \A f \in Files : object'[f].size <= MaxSize
  <2>1. ASSUME NEW r \in Requests, UploadPut(r) PROVE \A f \in Files : object'[f].size <= MaxSize
    BY <2>1 DEF UploadPut, PutObject, Sized, Charging, ObjectType, Object, ReqType
  <2>2. ASSUME NEW g \in Files, ClientPut(g) PROVE \A f \in Files : object'[f].size <= MaxSize
    BY <2>2 DEF ClientPut, PutObject, Sized, ObjectType, Object
  <2>3. ASSUME DeleteObject PROVE \A f \in Files : object'[f].size <= MaxSize
    BY <2>3 DEF DeleteObject, Absent, Sized, ObjectType, Object
  <2> QED
    BY <2>1, <2>2, <2>3, FrameObject DEF Sized
<1>2. \A q \in Requests : req'[q].pc \in Charging \cup {"c_quota"} => req'[q].size <= MaxSize
  <2> USE DEF Sized, ReqType, Charging, At, Idle, Goto, Return
  <2>1. ASSUME NEW r \in Requests, Client(r) \/ CallLost(r) \/ RequestDies(r)
        PROVE  \A q \in Requests : req'[q].pc \in Charging \cup {"c_quota"} => req'[q].size <= MaxSize
    BY <2>1 DEF Client, UploadCheck, PresignCheck, CompleteRead, DeleteRead, Start, CallLost,
                AfterLost, RequestDies
  <2>2. ASSUME NEW r \in Requests, CompleteStat(r)
        PROVE  \A q \in Requests : req'[q].pc \in Charging \cup {"c_quota"} => req'[q].size <= MaxSize
    BY <2>2 DEF CompleteStat
  <2>3. ASSUME NEW r \in Requests, Handler(r), ~CompleteStat(r)
        PROVE  \A q \in Requests : req'[q].pc \in Charging \cup {"c_quota"} => req'[q].size <= MaxSize
    BY <2>3 DEF Handler, UploadCreate, UploadPut, UploadStatus, Charge, QueueScan, PresignCreate,
                CompleteQuota, CompleteReject, CompleteFinal, DeleteMark, DeleteRelease, QueueDelete
  <2> QED
    BY <2>1, <2>2, <2>3, FrameReq
<1> QED
  BY <1>1, <1>2 DEF Sized

\* The arithmetic of one step: u is what is recorded, c and d the request's charge before and
\* after it, o the other charges, b and b1 the bound.
LEMMA Balance ==
  ASSUME NEW u \in Int, NEW u1 \in Int, NEW c \in Int, NEW d \in Int, NEW o \in Int,
         NEW b \in Int, NEW b1 \in Int, u + (c + o) <= b, b <= b1, u1 + d <= u + c
  PROVE  u1 + (d + o) <= b1
OBVIOUS

LEMMA Released ==
  ASSUME NEW u \in Int, NEW u1 \in Int, NEW p \in Int, NEW b \in Int, u + p <= b, u1 <= u
  PROVE  u1 + p <= b
OBVIOUS

LEMMA Skipped ==
  ASSUME NEW u \in Int, NEW c \in Nat, NEW d \in Int, NEW o \in Int, NEW m \in Int,
         NEW b \in Int, NEW b1 \in Int, u + (c + o) <= b, d <= m, b1 = b + m
  PROVE  u + (d + o) <= b1
OBVIOUS

LEMMA Admitted ==
  ASSUME NEW u \in Int, NEW d \in Int, NEW o \in Int, NEW l \in Int, NEW k \in Int,
         u + d <= l, o <= k
  PROVE  u + (d + o) <= l + k
OBVIOUS

\* The bound counts a body for every other request and every skipped check.
LEMMA StepQuota ==
  ASSUME TypeOK, Sized, QuotaOvershootBounded, [Next]_vars
  PROVE  QuotaOvershootBounded'
<1> DEFINE n == Cardinality(Requests) - 1
           P == Cardinality(Units(Charges))
           Q == Cardinality(Units(Charges'))
           Rest == n * MaxSize
           Room == (n + faults) * MaxSize
           Room1 == (n + faults') * MaxSize
<1>1. TypeOK' /\ Sized'
  BY StepType, StepSized
<1>2. Charges \in [Requests -> 0..MaxSize] /\ Charges' \in [Requests -> 0..MaxSize]
  <2>1. Charges \in [Requests -> 0..MaxSize]
    BY ChargesType
  <2>2. Charges' \in [Requests -> 0..MaxSize]
    BY <1>1, SizesAssumption DEF TypeOK, Sized, ReqType, Charges
  <2> QED
    BY <2>1, <2>2
<1>3. /\ used \in Nat /\ used' \in Nat /\ faults \in Nat /\ faults' \in Nat /\ Limit \in Nat
      /\ MaxSize \in Nat /\ n \in Nat
  <2>1. Cardinality(Requests) \in Nat \ {0}
    BY RequestsAssumption, FS_CardinalityType, FS_EmptySet
  <2> QED
    BY <1>1, <2>1, SizesAssumption, BoundsAssumption DEF TypeOK
<1>4. used + P <= Limit + Room
  BY DEF QuotaOvershootBounded, PendingCharge
<1>5. SUFFICES used' + Q <= Limit + Room1
  BY DEF QuotaOvershootBounded, PendingCharge, Units
<1>6. /\ Rest \in Nat /\ Room \in Nat /\ Room1 \in Nat /\ Rest <= Room
      /\ faults' \in {faults, faults + 1} => Room <= Room1
      /\ faults' = faults + 1 => Room1 = Room + MaxSize
  <2>1. \A i \in Nat : (n + (i + 1)) * MaxSize = (n + i) * MaxSize + MaxSize
    BY <1>3
  <2>2. Room = n * MaxSize + faults * MaxSize /\ faults * MaxSize \in Nat
    BY <1>3
  <2> QED
    BY <1>3, <2>1, <2>2
<1>7. used \in Nat /\ used' \in Nat /\ Limit \in Nat /\ MaxSize \in Nat
  BY <1>3
<1>8. CASE UNCHANGED req /\ used' <= used /\ faults' \in {faults, faults + 1}
  <2>1. Q = P /\ P \in Int
    <3>1. Charges' = Charges
      BY <1>8 DEF Charges
    <3>2. PICK r \in Requests : TRUE
      BY RequestsAssumption
    <3>3. P \in Int
      BY <1>2, <3>2, UnitsSplit
    <3> QED
      BY <3>1, <3>3
  <2>2. Room <= Room1 /\ P \in Int
    BY <1>6, <1>8, <2>1
  <2>3. used + P <= Limit + Room1
    <3> HIDE DEF P, Room, Room1
    <3> QED
      BY <1>4, <1>6, <1>7, <2>2
  <2>4. used' <= used /\ Room1 \in Int
    BY <1>6, <1>8
  <2>5. used' + P <= Limit + Room1
    <3>1. used \in Int /\ used' \in Int /\ P \in Int /\ Limit + Room1 \in Int
      BY <1>7, <2>2, <2>4
    <3> HIDE DEF P, Room1
    <3> QED
      BY <2>3, <2>4, <3>1, Released
  <2> QED
    BY <2>1, <2>5
<1>9. ASSUME NEW r \in Requests, Client(r) \/ Handler(r) \/ CallLost(r) \/ RequestDies(r)
      PROVE  used' + Q <= Limit + Room1
  <2> DEFINE c == Charges[r]
             d == Charges'[r]
             O == Cardinality(UnitsBut(Charges, r))
  <2>1. /\ \A q \in Requests \ {r} : req'[q] = req[q]
        /\ \/ used' + d <= used + c /\ faults' \in {faults, faults + 1}
           \/ used' = used /\ faults' = faults + 1
           \/ used' = used /\ faults' \in {faults, faults + 1} /\ used + d <= Limit
    BY <1>9, ReqCharges
  <2>2. UnitsBut(Charges', r) = UnitsBut(Charges, r)
    <3>1. \A q \in Requests \ {r} : Charges'[q] = Charges[q]
      BY <2>1 DEF Charges
    <3> QED
      BY <3>1 DEF UnitsBut, Units
  <2>3. P = c + O /\ O \in Nat /\ O <= Rest
    BY <1>2, UnitsSplit
  <2>4. Q = d + O
    BY <1>2, <2>2, UnitsSplit
  <2>5. c \in 0..MaxSize /\ d \in 0..MaxSize
    BY <1>2
  <2>6. /\ used + (c + O) <= Limit + Room
        /\ Limit + Room \in Int /\ Limit + Room1 \in Int
        /\ c \in Nat /\ d \in Nat /\ d <= MaxSize /\ O \in Int
    BY <1>4, <1>6, <1>7, <2>3, <2>5
  <2> SUFFICES used' + (d + O) <= Limit + Room1
    BY <2>4
  <2> HIDE DEF P, Q, n, Rest, Room, Room1, c, d, O
  <2>7. CASE used' + d <= used + c /\ faults' \in {faults, faults + 1}
    <3>1. Limit + Room <= Limit + Room1
      BY <1>6, <1>7, <2>7
    <3>2. used' + d <= used + c /\ used + (c + O) <= Limit + Room
      BY <2>6, <2>7
    <3>3. /\ Limit + Room \in Int /\ Limit + Room1 \in Int
          /\ c \in Int /\ d \in Int /\ O \in Int /\ used \in Int /\ used' \in Int
      BY <1>7, <2>6
    <3> QED
      BY <3>1, <3>2, <3>3, Balance
  <2>8. CASE used' = used /\ faults' = faults + 1
    <3>1. Limit + Room1 = (Limit + Room) + MaxSize
      BY <1>6, <1>7, <2>8
    <3> QED
      BY <1>7, <2>6, <2>8, <3>1, Skipped
  <2>9. CASE used' = used /\ faults' \in {faults, faults + 1} /\ used + d <= Limit
    <3>1. O <= Room1
      BY <1>6, <2>3, <2>6, <2>9
    <3> QED
      BY <1>6, <1>7, <2>6, <2>9, <3>1, Admitted
  <2> QED
    BY <2>1, <2>7, <2>8, <2>9
<1> QED
  BY <1>8, <1>9, OtherCharges

\* The check and the charge are separate calls, so the limit can be overshot, but by no more
\* than one body for each other request in flight and each check that an error skipped.
THEOREM OvershootIsBounded == Spec => []QuotaOvershootBounded
<1>1. Init => TypeOK /\ Sized /\ QuotaOvershootBounded
  <2>1. SUFFICES ASSUME Init PROVE TypeOK /\ Sized /\ QuotaOvershootBounded
    OBVIOUS
  <2>2. TypeOK /\ Sized
    BY <2>1, InitType, SizesAssumption DEF Init, Sized, Absent, Idle, At, Charging
  <2>3. used = 0 /\ faults = 0 /\ Units(Charges) = {}
    BY <2>1, SizesAssumption DEF Init, Units, Charges, Idle, At, Charging
  <2>4. Cardinality(Requests) - 1 \in Nat
    BY RequestsAssumption, FS_CardinalityType, FS_EmptySet
  <2>5. (Cardinality(Requests) - 1 + 0) * MaxSize \in Nat
    BY <2>4, SizesAssumption
  <2> QED
    BY <2>2, <2>3, <2>5, FS_EmptySet, BoundsAssumption DEF QuotaOvershootBounded, PendingCharge
<1>2. TypeOK /\ Sized /\ QuotaOvershootBounded /\ [Next]_vars
        => TypeOK' /\ Sized' /\ QuotaOvershootBounded'
  BY StepType, StepSized, StepQuota
<1> QED
  BY <1>1, <1>2, PTL DEF Spec
=============================================================================
