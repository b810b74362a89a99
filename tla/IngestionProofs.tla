--------------------------- MODULE IngestionProofs ---------------------------
(***************************************************************************)
(* Proofs about the ingestion pipeline, for every value of its constants.  *)
(***************************************************************************)
EXTENDS IngestionProperties, TLAPS

-----------------------------------------------------------------------------
(* Type correctness                                                        *)

WorkerType == worker \in [Workers -> WorkerRecord]

\* The label a worker goes to, and the record left when its run is over, are well
\* typed: every action of the task ends in one of these forms.
LEMMA GoToType ==
    ASSUME WorkerType, NEW w \in Workers, NEW label \in WorkerPC, GoTo(w, label)
    PROVE  WorkerType'
BY DEF WorkerType, WorkerRecord, GoTo

\* A finished run is a well-typed worker state.
LEMMA FinishType ==
    ASSUME WorkerType, NEW w \in Workers, Finish(w)
    PROVE  WorkerType'
<1>1. worker[w] \in WorkerRecord
  BY DEF WorkerType
<1>2. [IdleWorker EXCEPT !.pc = "ack", !.job = worker[w].job, !.retries = worker[w].retries]
        \in WorkerRecord
  BY <1>1 DEF WorkerRecord, IdleWorker, WorkerPC, JobStatus
<1> QED
  BY <1>2 DEF Finish, WorkerType

\* The idle states are well typed.
LEMMA IdleTypes == IdleWorker \in WorkerRecord /\ IdleApi \in ApiRecord
BY BoundsAssumption DEF IdleWorker, IdleApi, WorkerRecord, ApiRecord, WorkerPC, ApiPC,
   JobStatus, Retries

\* A worker that is not idle works on a job and a document of the system.
LEMMA BusyJob ==
    ASSUME TypeOK, BusyIsPlaced, NEW w \in Workers, worker[w].pc # "idle"
    PROVE  /\ JobToDo(w) \in Jobs
           /\ jobStatus[JobToDo(w)] \in JobStatus
           /\ attempts[JobToDo(w)] \in Nat
           /\ DocToDo(w) \in Docs \cup {NoDoc}
<1>1. JobToDo(w) \in Jobs
  BY DEF BusyIsPlaced, JobToDo
<1>2. /\ jobStatus \in [Jobs -> JobStatus]
      /\ attempts \in [Jobs -> Nat]
      /\ jobDoc \in [Jobs -> Docs \cup {NoDoc}]
  BY DEF TypeOK
<1> QED
  BY <1>1, <1>2 DEF JobToDo, DocToDo

ApiType == api \in [ApiProcs -> ApiRecord]
RowsType ==
    /\ docStatus \in [Docs -> DocStatus]
    /\ jobStatus \in [Jobs -> JobStatus]
    /\ jobDoc \in [Jobs -> Docs \cup {NoDoc}]
    /\ attempts \in [Jobs -> Nat]
    /\ chunks \in [Docs -> Jobs \cup {0}]
    /\ audit \subseteq AuditEvents \X Docs
RestType ==
    /\ files \subseteq Docs
    /\ queue \in [Jobs -> [Retries -> Nat]]
    /\ faults \in 0 .. MaxFaults
    /\ exhausted \subseteq Jobs

\* Nothing exists at first, and that is well typed.
LEMMA TypeInit == Init => TypeOK
BY IdleTypes, BoundsAssumption
DEF Init, TypeOK, DocStatus, JobStatus, LiveDoc, LiveJob, Retries

\* A worker step leaves every worker well typed.
LEMMA WorkerStepWorkerType ==
    ASSUME TypeOK, BusyIsPlaced, NEW w \in Workers, WorkerStep(w)
    PROVE  WorkerType'
<1> WorkerType
  BY DEF TypeOK, WorkerType
<1>1. CASE Receive(w)
  <2>1. PICK j \in Jobs, r \in Retries :
          worker' = [worker EXCEPT ![w] = [IdleWorker EXCEPT !.pc = "loadJob", !.job = j, !.retries = r]]
    BY <1>1 DEF Receive
  <2>2. [IdleWorker EXCEPT !.pc = "loadJob", !.job = j, !.retries = r] \in WorkerRecord
    BY DEF WorkerRecord, IdleWorker, WorkerPC, JobStatus
  <2> QED
    BY <2>1, <2>2 DEF WorkerType
<1>2. CASE LoadJob(w)
  <2>1. CASE jobStatus[JobToDo(w)] \in ActiveJob
    <3>1. jobStatus[JobToDo(w)] \in JobStatus /\ attempts[JobToDo(w)] \in Nat
      BY <1>2, BusyJob DEF LoadJob
    <3>2. [worker[w] EXCEPT !.pc = "loadDoc", !.status = jobStatus[JobToDo(w)],
                            !.attempt = attempts[JobToDo(w)]] \in WorkerRecord
      BY <3>1 DEF WorkerType, WorkerRecord, WorkerPC
    <3> QED
      BY <1>2, <2>1, <3>2 DEF LoadJob, WorkerType
  <2>2. CASE jobStatus[JobToDo(w)] \notin ActiveJob
    BY <1>2, <2>2, FinishType DEF LoadJob
  <2> QED
    BY <2>1, <2>2
<1>3. CASE LoadDocument(w)
  BY <1>3, GoToType, FinishType DEF LoadDocument, GoToOrFinish, WorkerPC
<1>4. CASE MarkJobProcessing(w)
  BY <1>4, GoToType, FinishType DEF MarkJobProcessing, WorkerPC
<1>5. CASE MarkDocProcessing(w)
  <2>1. jobStatus[JobToDo(w)] \in JobStatus
    BY <1>5, BusyJob DEF MarkDocProcessing
  <2>2. \/ worker' = [worker EXCEPT ![w] = [@ EXCEPT !.pc = "work", !.status = jobStatus[JobToDo(w)]]]
        \/ Finish(w)
    BY <1>5 DEF MarkDocProcessing
  <2>3. [worker[w] EXCEPT !.pc = "work", !.status = jobStatus[JobToDo(w)]] \in WorkerRecord
    BY <2>1 DEF WorkerType, WorkerRecord, WorkerPC
  <2>4. CASE worker' = [worker EXCEPT ![w] =
                          [@ EXCEPT !.pc = "work", !.status = jobStatus[JobToDo(w)]]]
    BY <2>3, <2>4 DEF WorkerType
  <2> QED
    BY <2>2, <2>4, FinishType
<1>6. CASE ReadAndEmbed(w)
  BY <1>6, GoToType, FinishType DEF ReadAndEmbed, WorkerPC
<1>7. CASE ReplaceChunksDelete(w)
  <2>1. \A free \in BOOLEAN :
          [worker[w] EXCEPT !.pc = "replInsert", !.clear = free] \in WorkerRecord
    BY DEF WorkerType, WorkerRecord, WorkerPC
  <2> QED
    BY <1>7, <2>1 DEF ReplaceChunksDelete, WorkerType
<1>8. CASE ReplaceChunksInsert(w)
  <2>1. \A x \in Workers : /\ [worker[x] EXCEPT !.pc = "refresh"] \in WorkerRecord
                           /\ [worker[x] EXCEPT !.clear = FALSE] \in WorkerRecord
    BY DEF WorkerType, WorkerRecord, WorkerPC
  <2> QED
    BY <1>8, <2>1 DEF ReplaceChunksInsert, WorkerType
<1>9. CASE ChunkStorageFails(w)
  BY <1>9, GoToType, FinishType DEF ChunkStorageFails, WorkerPC
<1>10. CASE RefreshChunks(w)
  <2>1. CASE worker[w].clear
    BY <1>10, <2>1, GoToType DEF RefreshChunks, WorkerPC
  <2>2. CASE ~worker[w].clear
    <3>1. jobStatus[JobToDo(w)] \in JobStatus
      BY <1>10, BusyJob DEF RefreshChunks
    <3>2. [worker[w] EXCEPT !.pc = "fail", !.status = jobStatus[JobToDo(w)]] \in WorkerRecord
      BY <3>1 DEF WorkerType, WorkerRecord, WorkerPC
    <3> QED
      BY <1>10, <2>2, <3>2, FinishType DEF RefreshChunks, WorkerType
  <2> QED
    BY <2>1, <2>2
<1>11. CASE CompleteJob(w)
  BY <1>11, GoToType, FinishType DEF CompleteJob, WorkerPC
<1>12. CASE IndexDocument(w)
  BY <1>12, FinishType DEF IndexDocument
<1>13. CASE FailIngestion(w)
  BY <1>13, FinishType DEF FailIngestion, FailRows
<1>14. CASE RequestRetryOrFail(w)
  BY <1>14, GoToType, FinishType DEF RequestRetryOrFail, WorkerPC
<1>15. CASE FailIngestionByIds(w)
  BY <1>15, FinishType DEF FailIngestionByIds, FailRows
<1>16. CASE Acknowledge(w)
  BY <1>16, IdleTypes DEF Acknowledge, WorkerType
<1> QED
  BY <1>1, <1>2, <1>3, <1>4, <1>5, <1>6, <1>7, <1>8, <1>9, <1>10, <1>11, <1>12, <1>13,
     <1>14, <1>15, <1>16 DEF WorkerStep

\* What a worker step writes to the tables is well typed.
LEMMA WorkerStepRowsType ==
    ASSUME TypeOK, BusyIsPlaced, NEW w \in Workers, WorkerStep(w)
    PROVE  RowsType'
<1> RowsType
  BY DEF TypeOK, RowsType
<1>1. CASE UNCHANGED dbVars
  BY <1>1 DEF RowsType, dbVars
<1>2. CASE MarkJobProcessing(w)
  <2>1. worker[w].attempt + 1 \in Nat
    BY DEF TypeOK, WorkerRecord
  <2>2. "processing" \in JobStatus
    BY DEF JobStatus, LiveJob, ActiveJob
  <2> QED
    BY <1>2, <2>1, <2>2 DEF MarkJobProcessing, RowsType
<1>3. CASE MarkDocProcessing(w)
  BY <1>3 DEF MarkDocProcessing, RowsType, DocStatus, LiveDoc
<1>4. CASE ReplaceChunksInsert(w)
  <2>1. JobToDo(w) \in Jobs
    BY <1>4, BusyJob DEF ReplaceChunksInsert
  <2> QED
    BY <1>4, <2>1 DEF ReplaceChunksInsert, RowsType
<1>5. CASE CompleteJob(w)
  BY <1>5 DEF CompleteJob, RowsType, JobStatus, LiveJob
<1>6. CASE IndexDocument(w)
  BY <1>6 DEF IndexDocument, RowsType, DocStatus, LiveDoc
<1>7. CASE FailIngestion(w)
  BY <1>7 DEF FailIngestion, FailRows, RowsType, DocStatus, LiveDoc, JobStatus, LiveJob
<1>8. CASE FailIngestionByIds(w)
  BY <1>8 DEF FailIngestionByIds, FailRows, RowsType, DocStatus, LiveDoc, JobStatus, LiveJob
<1> QED
  BY <1>1, <1>2, <1>3, <1>4, <1>5, <1>6, <1>7, <1>8
  DEF WorkerStep, Receive, LoadJob, LoadDocument, ReadAndEmbed, ReplaceChunksDelete,
      ChunkStorageFails, RefreshChunks, RequestRetryOrFail, Acknowledge

\* Faults are counted up to their bound.
LEMMA FaultType == ASSUME RestType, NEW kind, Fault(kind) PROVE faults' \in 0 .. MaxFaults /\ exhausted' = exhausted
BY BoundsAssumption DEF RestType, Fault

\* One message more is on the queue.
LEMMA QueueType ==
    ASSUME queue \in [Jobs -> [Retries -> Nat]], NEW j \in Jobs, NEW r \in Retries
    PROVE  [queue EXCEPT ![j][r] = @ + 1] \in [Jobs -> [Retries -> Nat]]
<1>1. [queue[j] EXCEPT ![r] = queue[j][r] + 1] \in [Retries -> Nat]
  <2>1. queue[j] \in [Retries -> Nat] /\ queue[j][r] + 1 \in Nat
    OBVIOUS
  <2> QED
    BY <2>1
<1> QED
  BY <1>1

\* A worker step leaves queue, files and requests well typed.
LEMMA WorkerStepRestType ==
    ASSUME TypeOK, BusyIsPlaced, NEW w \in Workers, WorkerStep(w)
    PROVE  RestType' /\ api' = api
<1> RestType
  BY DEF TypeOK, RestType
<1>1. CASE Receive(w)
  BY <1>1 DEF Receive, RestType
<1>2. CASE RequestRetryOrFail(w)
  <2>1. CASE queue' = queue
    <3>1. JobToDo(w) \in Jobs
      BY <1>2, BusyJob DEF RequestRetryOrFail
    <3>2. exhausted' = exhausted \/ exhausted' = exhausted \cup {JobToDo(w)}
      BY <1>2 DEF RequestRetryOrFail
    <3> QED
      BY <1>2, <2>1, <3>1, <3>2 DEF RequestRetryOrFail, RestType
  <2>2. CASE worker[w].retries < MaxRetries
    <3>1. queue' = [queue EXCEPT ![JobToDo(w)][worker[w].retries + 1] = @ + 1]
      BY <1>2, <2>2 DEF RequestRetryOrFail
    <3>2. worker[w].retries + 1 \in Retries
      BY <2>2, BoundsAssumption DEF TypeOK, WorkerRecord, Retries
    <3>3. JobToDo(w) \in Jobs
      BY <1>2, BusyJob DEF RequestRetryOrFail
    <3> QED
      BY <1>2, <3>1, <3>2, <3>3, QueueType DEF RequestRetryOrFail, RestType
  <2> QED
    BY <1>2, <2>1, <2>2 DEF RequestRetryOrFail
<1>3. CASE ChunkStorageFails(w)
  BY <1>3, FaultType DEF ChunkStorageFails, RestType
<1> QED
  BY <1>1, <1>2, <1>3
  DEF WorkerStep, RestType, LoadJob, LoadDocument, MarkJobProcessing, MarkDocProcessing,
      ReadAndEmbed, ReplaceChunksDelete, ReplaceChunksInsert, RefreshChunks, CompleteJob,
      IndexDocument, FailIngestion, FailIngestionByIds, Acknowledge

\* So do the faults of a worker, which write no table.
LEMMA WorkerFaultType ==
    ASSUME TypeOK, BusyIsPlaced, NEW w \in Workers, WorkerFault(w)
    PROVE  RowsType' /\ RestType' /\ WorkerType' /\ api' = api
<1> RowsType /\ RestType /\ WorkerType
  BY DEF TypeOK, RowsType, RestType, WorkerType
<1>1. CASE TaskAborted(w)
  BY <1>1, FaultType, FinishType DEF TaskAborted, RestType, RowsType, dbVars
<1>2. CASE RepublishFails(w)
  BY <1>2, FaultType, FinishType DEF RepublishFails, RestType, RowsType, dbVars
<1>3. CASE NodeLost(w)
  <2>1. JobToDo(w) \in Jobs /\ worker[w].retries \in Retries
    BY <1>3, BusyJob DEF NodeLost, WorkerType, WorkerRecord
  <2> QED
    BY <1>3, <2>1, FaultType, QueueType, IdleTypes
    DEF NodeLost, RestType, RowsType, dbVars, WorkerType
<1> QED
  BY <1>1, <1>2, <1>3 DEF WorkerFault

\* A request goes to a label, or is over, like a run.
LEMMA ApiGoToType ==
    ASSUME ApiType, NEW a \in ApiProcs, NEW label \in ApiPC, ApiGoTo(a, label)
    PROVE  ApiType'
<1>1. [api[a] EXCEPT !.pc = label] \in ApiRecord
  BY DEF ApiType, ApiRecord
<1> QED
  BY <1>1 DEF ApiGoTo, ApiType

\* A finished request is a well-typed API state.
LEMMA ApiDoneType ==
    ASSUME ApiType, NEW a \in ApiProcs, ApiDone(a)
    PROVE  ApiType'
BY IdleTypes DEF ApiDone, ApiType

\* So is a request that has just begun.
LEMMA BeginType ==
    ASSUME ApiType, NEW a \in ApiProcs, NEW d \in Docs, NEW label \in ApiPC, Begin(a, label, d)
    PROVE  ApiType'
<1>1. [pc |-> label, doc |-> d, job |-> 0] \in ApiRecord
  BY DEF ApiRecord
<1> QED
  BY <1>1 DEF Begin, ApiType

\* The labels of the three requests, written out.
LEMMA ApiPCLabels ==
    {"createJob", "enqueue"} \cup UploadPC \cup ReindexPC \cup DeletePC \subseteq ApiPC
BY DEF ApiPC

\* The first step of a request preserves the types.
LEMMA ApiRequestType ==
    ASSUME TypeOK, NEW a \in ApiProcs, ApiRequest(a)
    PROVE  RowsType' /\ RestType' /\ ApiType' /\ worker' = worker
<1> RowsType /\ RestType /\ ApiType
  BY DEF TypeOK, RowsType, RestType, ApiType
<1>1. PICK d \in Docs : SaveFile(a, d) \/ RequestReindex(a, d) \/ RequestDelete(a, d)
  BY DEF ApiRequest
<1>2. "createDoc" \in ApiPC /\ "reChunks" \in ApiPC /\ "delChunks" \in ApiPC
  BY DEF ApiPC, UploadPC, ReindexPC, DeletePC
<1> QED
  BY <1>1, <1>2, BeginType DEF SaveFile, RequestReindex, RequestDelete, RowsType, RestType, dbVars

\* The records of the other workers survive a change of their clear mark.
LEMMA ClearedType ==
    ASSUME WorkerType, NEW x \in Workers, NEW b \in BOOLEAN
    PROVE  [worker[x] EXCEPT !.clear = b] \in WorkerRecord
BY DEF WorkerType, WorkerRecord

\* Deleting chunk rows preserves the types, of the workers it is seen by too.
LEMMA DeleteChunksType ==
    ASSUME TypeOK, NEW a \in ApiProcs, NEW label \in ApiPC, DeleteChunks(a, label)
    PROVE  RowsType' /\ RestType' /\ WorkerType' /\ ApiType'
<1> RowsType /\ RestType /\ WorkerType /\ ApiType
  BY DEF TypeOK, RowsType, RestType, WorkerType, ApiType
<1>1. WorkerType'
  <2>1. \A x \in Workers : [worker[x] EXCEPT !.clear = (worker[x].pc = "replInsert")] \in WorkerRecord
    BY ClearedType
  <2> QED
    BY <2>1 DEF DeleteChunks, WorkerType
<1>2. ApiType'
  BY ApiGoToType DEF DeleteChunks
<1> QED
  BY <1>1, <1>2 DEF DeleteChunks, RowsType, RestType

\* Every later step of a request preserves the types.
LEMMA ApiStepType ==
    ASSUME TypeOK, BusyIsPlaced, NEW a \in ApiProcs, ApiStep(a)
    PROVE  RowsType' /\ RestType' /\ WorkerType' /\ ApiType'
<1> RowsType /\ RestType /\ WorkerType /\ ApiType
  BY DEF TypeOK, RowsType, RestType, WorkerType, ApiType
<1> USE ApiPCLabels DEF UploadPC, ReindexPC, DeletePC
<1>0. WorkerType' \/ worker' # worker
  BY DEF WorkerType
<1>1. CASE CreateDocument(a)
  BY <1>1, <1>0, ApiGoToType DEF CreateDocument, RowsType, RestType, DocStatus, LiveDoc
<1>2. CASE AuditUpload(a) \/ AuditReindex(a) \/ AuditDelete(a)
  <2>1. CASE \E event \in AuditEvents, next \in {"createJob", "delDoc"} :
               api[a].pc # "idle" /\ RecordAudit(a, event, next)
    <3>1. api[a].pc # "idle" => api[a].doc \in Docs
      BY DEF BusyIsPlaced
    <3> QED
      BY <2>1, <3>1, <1>0, ApiGoToType DEF RecordAudit, RowsType, RestType
  <2>2. CASE ApiDone(a) /\ UNCHANGED <<dbVars, files, queue, worker, faults, exhausted>>
    BY <2>2, <1>0, ApiDoneType DEF RowsType, RestType, dbVars
  <2> QED
    BY <1>2, <2>1, <2>2 DEF AuditUpload, AuditReindex, AuditDelete, RefreshFails, AuditEvents
<1>3. CASE CreateJob(a)
  <2>1. CASE DocExists(api[a].doc)
    <3>1. PICK j \in Jobs :
            /\ jobStatus' = [jobStatus EXCEPT ![j] = "pending"]
            /\ jobDoc' = [jobDoc EXCEPT ![j] = api[a].doc]
            /\ api' = [api EXCEPT ![a] = [@ EXCEPT !.pc = "enqueue", !.job = j]]
      BY <1>3, <2>1 DEF CreateJob
    <3>2. [api[a] EXCEPT !.pc = "enqueue", !.job = j] \in ApiRecord
      BY DEF ApiType, ApiRecord
    <3>3. ApiType'
      BY <3>1, <3>2 DEF ApiType
    <3>4. api[a].doc \in Docs \cup {NoDoc}
      BY DEF ApiType, ApiRecord
    <3> QED
      BY <1>3, <1>0, <3>1, <3>3, <3>4 DEF CreateJob, RowsType, RestType, JobStatus, LiveJob, ActiveJob
  <2>2. CASE ~DocExists(api[a].doc)
    BY <1>3, <1>0, <2>2, ApiDoneType DEF CreateJob, RowsType, RestType
  <2> QED
    BY <2>1, <2>2
<1>4. CASE Enqueue(a)
  <2>1. api[a].job \in Jobs /\ 0 \in Retries
    BY <1>4, BoundsAssumption DEF BusyIsPlaced, Enqueue, Retries
  <2> QED
    BY <1>4, <1>0, <2>1, QueueType, ApiDoneType DEF Enqueue, RowsType, RestType, dbVars
<1>5. CASE ReindexDeleteChunks(a) \/ DeleteDocumentChunks(a)
  BY <1>5, DeleteChunksType DEF ReindexDeleteChunks, DeleteDocumentChunks
<1>6. CASE ReindexResetDocument(a)
  BY <1>6, <1>0, ApiGoToType, ApiDoneType
  DEF ReindexResetDocument, RowsType, RestType, DocStatus, LiveDoc
<1>7. CASE DeleteJobs(a)
  <2>1. jobStatus' \in [Jobs -> JobStatus]
    BY <1>7 DEF DeleteJobs, RowsType, JobStatus
  <2> QED
    BY <1>7, <1>0, <2>1, ApiGoToType DEF DeleteJobs, RowsType, RestType
<1>8. CASE DeleteDocument(a)
  BY <1>8, <1>0, ApiGoToType, ApiDoneType DEF DeleteDocument, RowsType, RestType, DocStatus
<1>9. CASE DeleteFile(a)
  BY <1>9, <1>0, ApiDoneType DEF DeleteFile, RowsType, RestType, dbVars
<1> QED
  BY <1>1, <1>2, <1>3, <1>4, <1>5, <1>6, <1>7, <1>8, <1>9 DEF ApiStep

\* The faults of an API process preserve the types.
LEMMA ApiFaultType ==
    ASSUME TypeOK, NEW a \in ApiProcs, ApiFault(a)
    PROVE  RowsType' /\ RestType' /\ ApiType' /\ worker' = worker
<1> RowsType /\ RestType /\ ApiType
  BY DEF TypeOK, RowsType, RestType, ApiType
<1> QED
  BY FaultType, ApiDoneType DEF ApiFault, ApiAborted, EnqueueFails, RowsType, RestType, dbVars

\* No step breaks the types.
LEMMA TypeStep == TypeOK /\ BusyIsPlaced /\ [Next]_vars => TypeOK'
<1> SUFFICES ASSUME TypeOK, BusyIsPlaced, [Next]_vars PROVE TypeOK'
  OBVIOUS
<1>0. WorkerType /\ ApiType
  BY DEF TypeOK, WorkerType, ApiType
<1>1. RowsType' /\ RestType' /\ WorkerType' /\ ApiType' => TypeOK'
  BY DEF TypeOK, RowsType, RestType, WorkerType, ApiType
<1>2. ASSUME NEW w \in Workers, WorkerStep(w) PROVE TypeOK'
  BY <1>0, <1>1, <1>2, WorkerStepWorkerType, WorkerStepRowsType, WorkerStepRestType DEF ApiType
<1>3. ASSUME NEW w \in Workers, WorkerFault(w) PROVE TypeOK'
  BY <1>0, <1>1, <1>3, WorkerFaultType DEF ApiType
<1>4. ASSUME NEW a \in ApiProcs, ApiRequest(a) PROVE TypeOK'
  BY <1>0, <1>1, <1>4, ApiRequestType DEF WorkerType
<1>5. ASSUME NEW a \in ApiProcs, ApiStep(a) PROVE TypeOK'
  BY <1>1, <1>5, ApiStepType
<1>6. ASSUME NEW a \in ApiProcs, ApiFault(a) PROVE TypeOK'
  BY <1>0, <1>1, <1>6, ApiFaultType DEF WorkerType
<1>7. CASE UNCHANGED vars
  BY <1>7 DEF TypeOK, vars, dbVars
<1> QED
  BY <1>2, <1>3, <1>4, <1>5, <1>6, <1>7 DEF Next

-----------------------------------------------------------------------------
(* What a step of worker w does, forgetting everything but what the        *)
(* invariants mention: the runs (where they are and with which job), the   *)
(* messages and the status columns.                                        *)

SameRun(x) ==
    /\ worker'[x].pc = worker[x].pc /\ worker'[x].job = worker[x].job
    /\ worker'[x].retries = worker[x].retries /\ worker'[x].status = worker[x].status
OthersRun(w) == \A x \in Workers \ {w} : SameRun(x)

SameMessage(w) == worker'[w].job = worker[w].job /\ worker'[w].retries = worker[w].retries

\* The run of w goes on, up to the label ack.
Continues(w) ==
    /\ worker[w].pc # "idle" /\ worker'[w].pc # "idle"
    /\ SameMessage(w) /\ queue' = queue
Takes(w) ==
    /\ worker[w].pc = "idle" /\ worker'[w].pc = "loadJob"
    /\ worker'[w].job \in Jobs /\ worker'[w].retries \in Retries
    /\ queue[worker'[w].job][worker'[w].retries] > 0
    /\ queue' = [queue EXCEPT ![worker'[w].job][worker'[w].retries] = @ - 1]
Drops(w) == worker[w].pc # "idle" /\ worker'[w].pc = "idle" /\ queue' = queue
GivesBack(w) ==
    /\ worker[w].pc # "idle" /\ worker'[w].pc = "idle"
    /\ queue' = [queue EXCEPT ![JobToDo(w)][worker[w].retries] = @ + 1]
Republishes(w) ==
    /\ worker[w].pc = "retry" /\ worker'[w].pc = "ack" /\ SameMessage(w)
    /\ worker[w].retries + 1 \in Retries
    /\ queue' = [queue EXCEPT ![JobToDo(w)][worker[w].retries + 1] = @ + 1]
Moves(w) == Continues(w) \/ Takes(w) \/ Drops(w) \/ GivesBack(w) \/ Republishes(w)

\* Where a run may be after the step.
Advances(w) ==
    /\ worker'[w].pc \in StartedPC =>
          worker[w].pc \in StartedPC \/ (worker[w].pc = "markJob" /\ worker'[w].pc = "markDoc")
    /\ worker'[w].pc = "loadDoc" =>
          /\ jobStatus[JobToDo(w)] \in ActiveJob /\ jobStatus' = jobStatus
          /\ worker'[w].status = jobStatus[JobToDo(w)]
    /\ worker'[w].pc = "markJob" =>
          worker[w].pc = "loadDoc" /\ worker'[w].status = worker[w].status

\* The status of the job it works on, the only one it may write.
StartsJob(w) ==
    /\ worker[w].pc = "markJob" /\ worker'[w].pc = "markDoc"
    /\ JobExists(JobToDo(w))
    /\ jobStatus' = IF worker[w].status = "processing" THEN jobStatus
                    ELSE [jobStatus EXCEPT ![JobToDo(w)] = "processing"]
SettlesJob(w) ==
    /\ worker[w].pc \in StartedPC /\ JobExists(JobToDo(w))
    /\ \E outcome \in {"completed", "failed"} :
          jobStatus' = [jobStatus EXCEPT ![JobToDo(w)] = outcome]
WritesJob(w) ==
    \/ jobStatus' = jobStatus /\ worker'[w].pc # "markDoc"
    \/ StartsJob(w)
    \/ SettlesJob(w) /\ worker'[w].pc # "markDoc"

\* No step of a worker brings a document row to life or removes one.
WritesDocs ==
    \A d \in Docs :
        docStatus'[d] = docStatus[d] \/ (docStatus[d] \in LiveDoc /\ docStatus'[d] \in LiveDoc)

RunEffect(w) ==
    /\ OthersRun(w) /\ Moves(w) /\ Advances(w) /\ WritesJob(w) /\ WritesDocs
    /\ UNCHANGED <<jobDoc, api, files, audit>>

\* What GoTo changes: the label of one run.
LEMMA GoToEffect ==
    ASSUME WorkerType, NEW w \in Workers, NEW label, GoTo(w, label)
    PROVE  /\ OthersRun(w) /\ SameMessage(w)
           /\ worker'[w].pc = label /\ worker'[w].status = worker[w].status
BY DEF GoTo, OthersRun, SameRun, SameMessage, WorkerType, WorkerRecord

\* What Finish changes: the run holds only its message.
LEMMA FinishEffect ==
    ASSUME WorkerType, NEW w \in Workers, Finish(w)
    PROVE  OthersRun(w) /\ SameMessage(w) /\ worker'[w].pc = "ack"
BY DEF Finish, OthersRun, SameRun, SameMessage, WorkerType, WorkerRecord, IdleWorker

\* Runs that end, or go to a label without writing jobs or messages.
LEMMA FinishRunEffect ==
    ASSUME WorkerType, NEW w \in Workers, Finish(w), worker[w].pc # "idle",
           UNCHANGED <<queue, jobStatus, jobDoc, api, files, audit>>, WritesDocs
    PROVE  RunEffect(w)
BY FinishEffect DEF RunEffect, Moves, Continues, Advances, WritesJob, StartedPC

\* A step of a started run that touches no job is an effect of the run.
LEMMA GoToRunEffect ==
    ASSUME WorkerType, NEW w \in Workers, NEW label \in StartedPC \ {"markDoc"}, GoTo(w, label),
           worker[w].pc \in StartedPC,
           UNCHANGED <<queue, jobStatus, jobDoc, api, files, audit>>, WritesDocs
    PROVE  RunEffect(w)
BY GoToEffect DEF RunEffect, Moves, Continues, Advances, WritesJob, StartedPC

\* Every worker step has the effect of a run: what later proofs use of it.
LEMMA WorkerStepEffect ==
    ASSUME TypeOK, BusyIsPlaced, NEW w \in Workers, WorkerStep(w)
    PROVE  RunEffect(w)
<1> WorkerType /\ worker[w] \in WorkerRecord
  BY DEF TypeOK, WorkerType
<1>a. UNCHANGED docStatus => WritesDocs
  BY DEF WritesDocs
<1>b. \A status \in LiveDoc : docStatus \in [Docs -> DocStatus] =>
         \A d \in Docs : DocExists(d) /\ docStatus' = [docStatus EXCEPT ![d] = status] => WritesDocs
  BY DEF WritesDocs, DocExists
<1>c. docStatus \in [Docs -> DocStatus] /\ NoDoc \notin Docs
  BY DocsAssumption DEF TypeOK
<1>1. CASE Receive(w)
  <2>1. PICK j \in Jobs, r \in Retries :
          /\ queue[j][r] > 0 /\ queue' = [queue EXCEPT ![j][r] = @ - 1]
          /\ worker' = [worker EXCEPT ![w] = [IdleWorker EXCEPT !.pc = "loadJob", !.job = j, !.retries = r]]
    BY <1>1 DEF Receive
  <2>2. OthersRun(w) /\ worker'[w].pc = "loadJob" /\ worker'[w].job = j /\ worker'[w].retries = r
    BY <2>1 DEF OthersRun, SameRun, WorkerType, WorkerRecord, IdleWorker
  <2>3. Takes(w)
    BY <1>1, <2>1, <2>2 DEF Takes, Receive
  <2> QED
    BY <1>1, <1>a, <2>2, <2>3 DEF Receive, RunEffect, Moves, Advances, StartedPC, WritesJob, dbVars
<1>2. CASE LoadJob(w)
  <2>1. CASE jobStatus[JobToDo(w)] \in ActiveJob
    <3>1. worker' = [worker EXCEPT ![w] = [@ EXCEPT !.pc = "loadDoc",
                  !.status = jobStatus[JobToDo(w)], !.attempt = attempts[JobToDo(w)]]]
      BY <1>2, <2>1 DEF LoadJob
    <3>2. /\ OthersRun(w) /\ SameMessage(w) /\ worker'[w].pc = "loadDoc"
          /\ worker'[w].status = jobStatus[JobToDo(w)]
      BY <3>1 DEF OthersRun, SameRun, SameMessage, WorkerType, WorkerRecord
    <3> QED
      BY <1>2, <1>a, <2>1, <3>2
      DEF LoadJob, RunEffect, Moves, Continues, Advances, StartedPC, WritesJob, dbVars
  <2>2. CASE jobStatus[JobToDo(w)] \notin ActiveJob
    BY <1>2, <1>a, <2>2, FinishRunEffect DEF LoadJob, dbVars
  <2> QED
    BY <2>1, <2>2
<1>3. CASE LoadDocument(w)
  <2>1. CASE GoTo(w, "markJob")
    <3>1. /\ OthersRun(w) /\ SameMessage(w) /\ worker'[w].pc = "markJob"
          /\ worker'[w].status = worker[w].status
      BY <2>1, GoToEffect
    <3> QED
      BY <1>3, <1>a, <3>1
      DEF LoadDocument, RunEffect, Moves, Continues, Advances, StartedPC, WritesJob, dbVars
  <2>2. CASE Finish(w)
    BY <1>3, <1>a, <2>2, FinishRunEffect DEF LoadDocument, dbVars
  <2> QED
    BY <1>3, <2>1, <2>2 DEF LoadDocument, GoToOrFinish
<1>4. CASE MarkJobProcessing(w)
  <2>1. CASE JobExists(JobToDo(w))
    <3>1. OthersRun(w) /\ SameMessage(w) /\ worker'[w].pc = "markDoc"
      BY <1>4, <2>1, GoToEffect DEF MarkJobProcessing
    <3> QED
      BY <1>4, <1>a, <2>1, <3>1
      DEF MarkJobProcessing, RunEffect, Moves, Continues, Advances, StartedPC, WritesJob, StartsJob
  <2>2. CASE ~JobExists(JobToDo(w))
    BY <1>4, <1>a, <2>2, FinishRunEffect DEF MarkJobProcessing
  <2> QED
    BY <2>1, <2>2
<1>5. CASE MarkDocProcessing(w)
  <2>1. WritesDocs
    BY <1>5, <1>a, <1>b, <1>c, BusyJob DEF MarkDocProcessing, DocExists, LiveDoc
  <2>2. CASE Finish(w)
    BY <1>5, <2>1, <2>2, FinishRunEffect DEF MarkDocProcessing
  <2>3. CASE worker' = [worker EXCEPT ![w] = [@ EXCEPT !.pc = "work", !.status = jobStatus[JobToDo(w)]]]
    <3>1. OthersRun(w) /\ SameMessage(w) /\ worker'[w].pc = "work"
      BY <2>3 DEF OthersRun, SameRun, SameMessage, WorkerType, WorkerRecord
    <3> QED
      BY <1>5, <2>1, <3>1
      DEF MarkDocProcessing, RunEffect, Moves, Continues, Advances, StartedPC, WritesJob, WorkerPC
  <2> QED
    BY <1>5, <2>2, <2>3 DEF MarkDocProcessing
<1>6. CASE ReadAndEmbed(w)
  <2>1. worker[w].pc \in StartedPC /\ UNCHANGED <<dbVars, files, queue, api>>
    BY <1>6 DEF ReadAndEmbed, StartedPC, WorkerPC
  <2>2. CASE Finish(w)
    BY <1>a, <2>1, <2>2, FinishRunEffect DEF StartedPC, dbVars
  <2>3. CASE \E next \in {"replDelete", "fail", "retry"} : GoTo(w, next)
    BY <1>a, <2>1, <2>3, GoToRunEffect DEF StartedPC, WorkerPC, dbVars
  <2> QED
    BY <1>6, <2>2, <2>3 DEF ReadAndEmbed
<1>7. CASE ReplaceChunksDelete(w)
  <2>1. OthersRun(w) /\ SameMessage(w) /\ worker'[w].pc = "replInsert"
    BY <1>7 DEF ReplaceChunksDelete, OthersRun, SameRun, SameMessage, WorkerType, WorkerRecord
  <2> QED
    BY <1>7, <1>a, <2>1
    DEF ReplaceChunksDelete, RunEffect, Moves, Continues, Advances, StartedPC, WritesJob, WorkerPC, dbVars
<1>8. CASE ReplaceChunksInsert(w)
  <2>1. OthersRun(w) /\ SameMessage(w) /\ worker'[w].pc = "refresh"
    BY <1>8 DEF ReplaceChunksInsert, OthersRun, SameRun, SameMessage, WorkerType, WorkerRecord
  <2> QED
    BY <1>8, <1>a, <2>1
    DEF ReplaceChunksInsert, RunEffect, Moves, Continues, Advances, StartedPC, WritesJob, WorkerPC
<1>9. CASE ChunkStorageFails(w)
  BY <1>9, <1>a, GoToRunEffect, FinishRunEffect DEF ChunkStorageFails, StartedPC, WorkerPC, dbVars
<1>10. CASE RefreshChunks(w)
  <2>1. CASE GoTo(w, "complete")
    BY <1>10, <1>a, <2>1, GoToRunEffect DEF RefreshChunks, StartedPC, WorkerPC, dbVars
  <2>2. CASE Finish(w)
    BY <1>10, <1>a, <2>2, FinishRunEffect DEF RefreshChunks, dbVars
  <2>3. CASE worker' = [worker EXCEPT ![w] = [@ EXCEPT !.pc = "fail", !.status = jobStatus[JobToDo(w)]]]
    <3>1. OthersRun(w) /\ SameMessage(w) /\ worker'[w].pc = "fail"
      BY <2>3 DEF OthersRun, SameRun, SameMessage, WorkerType, WorkerRecord
    <3> QED
      BY <1>10, <1>a, <3>1
      DEF RefreshChunks, RunEffect, Moves, Continues, Advances, StartedPC, WritesJob, WorkerPC, dbVars
  <2> QED
    BY <1>10, <2>1, <2>2, <2>3 DEF RefreshChunks
<1>11. CASE CompleteJob(w)
  <2>1. CASE JobExists(JobToDo(w))
    <3>1. OthersRun(w) /\ SameMessage(w) /\ worker'[w].pc = "index"
      BY <1>11, <2>1, GoToEffect DEF CompleteJob
    <3> QED
      BY <1>11, <1>a, <2>1, <3>1
      DEF CompleteJob, RunEffect, Moves, Continues, Advances, StartedPC, WritesJob, SettlesJob, WorkerPC
  <2>2. CASE ~JobExists(JobToDo(w))
    BY <1>11, <1>a, <2>2, FinishRunEffect DEF CompleteJob
  <2> QED
    BY <2>1, <2>2
<1>12. CASE IndexDocument(w)
  <2>1. WritesDocs
    BY <1>12, <1>a, <1>b, <1>c, BusyJob DEF IndexDocument, DocExists, LiveDoc
  <2> QED
    BY <1>12, <2>1, FinishRunEffect DEF IndexDocument
<1>13. ASSUME NEW loaded, worker[w].pc \in StartedPC, FailRows(w, loaded),
              UNCHANGED <<queue, jobDoc, api, files, audit>>
       PROVE  RunEffect(w)
  <2>0. worker[w].pc # "idle"
    BY <1>13 DEF StartedPC
  <2>1. WritesDocs
    BY <1>13, <1>a, <1>b, <1>c, <2>0, BusyJob DEF FailRows, DocExists, LiveDoc
  <2>2. CASE jobStatus' = jobStatus
    BY <1>13, <2>0, <2>1, <2>2, FinishRunEffect DEF FailRows
  <2>3. CASE JobExists(JobToDo(w)) /\ jobStatus' = [jobStatus EXCEPT ![JobToDo(w)] = "failed"]
    <3>1. OthersRun(w) /\ SameMessage(w) /\ worker'[w].pc = "ack"
      BY <1>13, FinishEffect DEF FailRows
    <3> QED
      BY <1>13, <2>0, <2>1, <2>3, <3>1
      DEF RunEffect, Moves, Continues, Advances, StartedPC, WritesJob, SettlesJob
  <2> QED
    BY <1>13, <2>2, <2>3 DEF FailRows
<1>14. CASE FailIngestion(w)
  BY <1>13, <1>14 DEF FailIngestion, StartedPC, WorkerPC
<1>15. CASE FailIngestionByIds(w)
  <2>1. CASE jobStatus[JobToDo(w)] = "completed"
    BY <1>15, <1>a, <2>1, FinishRunEffect DEF FailIngestionByIds
  <2>2. CASE jobStatus[JobToDo(w)] # "completed"
    BY <1>13, <1>15, <2>2 DEF FailIngestionByIds, StartedPC, WorkerPC
  <2> QED
    BY <2>1, <2>2
<1>16. CASE RequestRetryOrFail(w)
  <2>1. CASE worker[w].retries < MaxRetries
    <3>1. OthersRun(w) /\ SameMessage(w) /\ worker'[w].pc = "ack"
      BY <1>16, <2>1, FinishEffect DEF RequestRetryOrFail
    <3>2. worker[w].retries + 1 \in Retries
      BY <2>1, BoundsAssumption DEF WorkerRecord, Retries
    <3> QED
      BY <1>16, <1>a, <2>1, <3>1, <3>2
      DEF RequestRetryOrFail, RunEffect, Moves, Republishes, Advances, StartedPC, WritesJob, dbVars
  <2>2. CASE ~(worker[w].retries < MaxRetries)
    BY <1>16, <1>a, <2>2, GoToRunEffect, FinishRunEffect
    DEF RequestRetryOrFail, StartedPC, WorkerPC, dbVars
  <2> QED
    BY <2>1, <2>2
<1>17. CASE Acknowledge(w)
  <2>1. OthersRun(w) /\ worker'[w].pc = "idle"
    BY <1>17 DEF Acknowledge, OthersRun, SameRun, WorkerType, IdleWorker
  <2> QED
    BY <1>17, <1>a, <2>1
    DEF Acknowledge, RunEffect, Moves, Drops, Advances, StartedPC, WritesJob, dbVars
<1> QED
  BY <1>1, <1>2, <1>3, <1>4, <1>5, <1>6, <1>7, <1>8, <1>9, <1>10, <1>11, <1>12, <1>14,
     <1>15, <1>16, <1>17 DEF WorkerStep

\* So has every fault of a worker.
LEMMA WorkerFaultEffect ==
    ASSUME TypeOK, BusyIsPlaced, NEW w \in Workers, WorkerFault(w)
    PROVE  RunEffect(w)
<1> WorkerType /\ worker[w] \in WorkerRecord
  BY DEF TypeOK, WorkerType
<1>a. UNCHANGED docStatus => WritesDocs
  BY DEF WritesDocs
<1>1. CASE TaskAborted(w)
  BY <1>1, <1>a, FinishRunEffect DEF TaskAborted, dbVars
<1>2. CASE RepublishFails(w)
  BY <1>2, <1>a, FinishRunEffect DEF RepublishFails, dbVars
<1>3. CASE NodeLost(w)
  <2>1. OthersRun(w) /\ worker'[w].pc = "idle"
    BY <1>3 DEF NodeLost, OthersRun, SameRun, WorkerType, IdleWorker
  <2> QED
    BY <1>3, <1>a, <2>1
    DEF NodeLost, RunEffect, Moves, GivesBack, Advances, StartedPC, WritesJob, dbVars
<1> QED
  BY <1>1, <1>2, <1>3 DEF WorkerFault

-----------------------------------------------------------------------------
(* What a step of API process a does, likewise.                            *)

AllRunsSame == \A x \in Workers : SameRun(x)
OthersServe(a) == \A b \in ApiProcs \ {a} : api'[b] = api[b]
RowsStayBorn == \A d \in Docs : docStatus[d] # "unborn" => docStatus'[d] # "unborn"

\* Where the request may be after the step, and on which document.
Serves(a) ==
    \/ api'[a].pc = "idle"
    \/ /\ api[a].pc # "idle" /\ api'[a].pc # "idle" /\ api'[a].doc = api[a].doc
       /\ api'[a].pc \in CreatingPC => api[a].pc \in CreatingPC
    \/ /\ api[a].pc = "idle" /\ api'[a].doc \in Docs
       /\ api'[a].pc \in CreatingPC =>
             docStatus[api'[a].doc] = "unborn" \/ NoIngestionInProgress(api'[a].doc)

KeepsJobs(a) == UNCHANGED <<jobStatus, jobDoc, queue>> /\ api'[a].pc # "enqueue"
CreatesJob(a) ==
    /\ api[a].pc = "createJob" /\ api'[a].pc = "enqueue" /\ DocExists(api[a].doc)
    /\ api'[a].job \in Jobs /\ jobStatus[api'[a].job] = "unborn"
    /\ \A k \in Jobs : k < api'[a].job => jobStatus[k] # "unborn"
    /\ jobStatus' = [jobStatus EXCEPT ![api'[a].job] = "pending"]
    /\ jobDoc' = [jobDoc EXCEPT ![api'[a].job] = api[a].doc]
    /\ queue' = queue
SendsJob(a) ==
    /\ api[a].pc = "enqueue" /\ api'[a].pc = "idle"
    /\ queue' = [queue EXCEPT ![api[a].job][0] = @ + 1]
    /\ UNCHANGED <<jobStatus, jobDoc>>
PurgesJobs(a) ==
    /\ api'[a].pc # "enqueue"
    /\ jobStatus' = [j \in Jobs |-> IF j \in JobsOf(api[a].doc) THEN "deleted" ELSE jobStatus[j]]
    /\ UNCHANGED <<jobDoc, queue>>

ApiEffect(a) ==
    /\ AllRunsSame /\ OthersServe(a) /\ RowsStayBorn /\ Serves(a)
    /\ KeepsJobs(a) \/ CreatesJob(a) \/ SendsJob(a) \/ PurgesJobs(a)

\* What ApiGoTo changes: the label of one request.
LEMMA ApiGoToEffect ==
    ASSUME ApiType, NEW a \in ApiProcs, NEW label, ApiGoTo(a, label)
    PROVE  OthersServe(a) /\ api'[a].pc = label /\ api'[a].doc = api[a].doc
BY DEF ApiType, ApiRecord, ApiGoTo, OthersServe

\* What ApiDone changes: the API process is idle.
LEMMA ApiDoneEffect ==
    ASSUME ApiType, NEW a \in ApiProcs, ApiDone(a)
    PROVE  OthersServe(a) /\ api'[a].pc = "idle"
BY DEF ApiType, ApiDone, OthersServe, IdleApi

\* What Begin changes: the API process serves a document.
LEMMA BeginEffect ==
    ASSUME ApiType, NEW a \in ApiProcs, NEW d, NEW label, Begin(a, label, d)
    PROVE  /\ OthersServe(a) /\ api[a].pc = "idle"
           /\ api'[a].pc = label /\ api'[a].doc = d
BY DEF ApiType, Begin, OthersServe

\* Deleting chunk rows moves no run.
LEMMA DeleteChunksEffect ==
    ASSUME TypeOK, NEW a \in ApiProcs, NEW label, DeleteChunks(a, label)
    PROVE  /\ AllRunsSame /\ OthersServe(a) /\ UNCHANGED <<jobStatus, jobDoc, queue, docStatus, files>>
           /\ api'[a].pc = label /\ api'[a].doc = api[a].doc
<1> WorkerType /\ ApiType
  BY DEF TypeOK, WorkerType, ApiType
<1>1. AllRunsSame
  BY DEF DeleteChunks, AllRunsSame, SameRun, WorkerType, WorkerRecord
<1> QED
  BY <1>1, ApiGoToEffect DEF DeleteChunks

\* The first step of a request has the effect of a request.
LEMMA ApiRequestEffect ==
    ASSUME TypeOK, NEW a \in ApiProcs, ApiRequest(a)
    PROVE  ApiEffect(a)
<1> ApiType
  BY DEF TypeOK, ApiType
<1>1. PICK d \in Docs : SaveFile(a, d) \/ RequestReindex(a, d) \/ RequestDelete(a, d)
  BY DEF ApiRequest
<1>2. AllRunsSame /\ RowsStayBorn /\ UNCHANGED <<jobStatus, jobDoc, queue>>
  BY <1>1 DEF SaveFile, RequestReindex, RequestDelete, dbVars, AllRunsSame, SameRun, RowsStayBorn
<1>3. \A label \in {"createDoc", "reChunks", "delChunks"} :
         Begin(a, label, d) /\ (label = "delChunks" \/ docStatus[d] = "unborn" \/ NoIngestionInProgress(d))
         => OthersServe(a) /\ Serves(a) /\ KeepsJobs(a)
  BY <1>2, BeginEffect DEF Serves, KeepsJobs, CreatingPC, UploadPC, ReindexPC
<1> QED
  BY <1>1, <1>2, <1>3 DEF SaveFile, RequestReindex, RequestDelete, ApiEffect

\* So has every later step: what later proofs use of it.
LEMMA ApiStepEffect ==
    ASSUME TypeOK, NEW a \in ApiProcs, ApiStep(a)
    PROVE  ApiEffect(a)
<1> ApiType /\ docStatus \in [Docs -> DocStatus]
  BY DEF TypeOK, ApiType
<1>a. UNCHANGED worker => AllRunsSame
  BY DEF AllRunsSame, SameRun
<1>b. UNCHANGED docStatus => RowsStayBorn
  BY DEF RowsStayBorn
<1>c. \A d, status : status # "unborn" /\ docStatus' = [docStatus EXCEPT ![d] = status] => RowsStayBorn
  BY DEF RowsStayBorn
<1>d. ApiDone(a) /\ UNCHANGED <<jobStatus, jobDoc, queue>> => OthersServe(a) /\ Serves(a) /\ KeepsJobs(a)
  BY ApiDoneEffect DEF Serves, KeepsJobs
<1>e. \A label \in ApiPC \ {"idle", "enqueue"} :
        /\ api[a].pc # "idle" /\ ApiGoTo(a, label)
        /\ label \in CreatingPC => api[a].pc \in CreatingPC
        => OthersServe(a) /\ Serves(a) /\ api'[a].pc # "enqueue"
  BY ApiGoToEffect DEF Serves
<1>f. CreatingPC = {"createDoc", "auditUpload", "createJob", "reChunks", "resetDoc", "auditReindex"}
  BY DEF CreatingPC, UploadPC, ReindexPC
<1>g. {"auditUpload", "createJob", "resetDoc", "auditReindex", "delJobs", "auditDelete", "delDoc", "delFile"}
        \subseteq ApiPC \ {"idle", "enqueue"}
  BY DEF ApiPC, UploadPC, ReindexPC, DeletePC
<1>1. CASE CreateDocument(a)
  BY <1>1, <1>a, <1>c, <1>e, <1>f, <1>g DEF CreateDocument, ApiEffect, KeepsJobs
<1>2. CASE AuditUpload(a) \/ AuditReindex(a)
  <2>1. CASE RefreshFails(a)
    BY <1>2, <2>1, <1>a, <1>b, <1>d, <1>e DEF RefreshFails, AuditUpload, AuditReindex, ApiEffect, KeepsJobs, dbVars
  <2>2. CASE ~RefreshFails(a)
    BY <1>2, <2>2, <1>a, <1>b, <1>e, <1>f, <1>g
    DEF AuditUpload, AuditReindex, RecordAudit, ApiEffect, KeepsJobs
  <2> QED
    BY <2>1, <2>2
<1>3. CASE AuditDelete(a)
  BY <1>3, <1>a, <1>b, <1>d, <1>e, <1>f, <1>g DEF AuditDelete, RecordAudit, ApiEffect, KeepsJobs, dbVars
<1>4. CASE CreateJob(a)
  <2>1. CASE DocExists(api[a].doc)
    <3>1. PICK j \in Jobs :
            /\ jobStatus[j] = "unborn"
            /\ \A k \in Jobs : k < j => jobStatus[k] # "unborn"
            /\ jobStatus' = [jobStatus EXCEPT ![j] = "pending"]
            /\ jobDoc' = [jobDoc EXCEPT ![j] = api[a].doc]
            /\ api' = [api EXCEPT ![a] = [@ EXCEPT !.pc = "enqueue", !.job = j]]
      BY <1>4, <2>1 DEF CreateJob
    <3>2. /\ OthersServe(a) /\ api'[a].pc = "enqueue" /\ api'[a].job = j
          /\ api'[a].doc = api[a].doc
      BY <3>1 DEF OthersServe, ApiType, ApiRecord
    <3>3. Serves(a) /\ CreatesJob(a)
      BY <1>4, <1>f, <2>1, <3>1, <3>2 DEF CreateJob, Serves, CreatesJob
    <3> QED
      BY <1>4, <1>a, <1>b, <3>2, <3>3 DEF CreateJob, ApiEffect
  <2>2. CASE ~DocExists(api[a].doc)
    BY <1>4, <1>a, <1>b, <1>d, <2>2 DEF CreateJob, ApiEffect
  <2> QED
    BY <2>1, <2>2
<1>5. CASE Enqueue(a)
  BY <1>5, <1>a, <1>b, ApiDoneEffect DEF Enqueue, ApiEffect, SendsJob, Serves, dbVars
<1>6. CASE ReindexDeleteChunks(a)
  <2>1. DeleteChunks(a, "resetDoc")
    BY <1>6 DEF ReindexDeleteChunks
  <2> QED
    BY <1>6, <1>b, <1>f, <2>1, DeleteChunksEffect DEF ReindexDeleteChunks, ApiEffect, Serves, KeepsJobs
<1>7. CASE DeleteDocumentChunks(a)
  <2>1. DeleteChunks(a, "delJobs")
    BY <1>7 DEF DeleteDocumentChunks
  <2> QED
    BY <1>7, <1>b, <1>f, <2>1, DeleteChunksEffect DEF DeleteDocumentChunks, ApiEffect, Serves, KeepsJobs
<1>8. CASE ReindexResetDocument(a)
  BY <1>8, <1>a, <1>b, <1>c, <1>d, <1>e, <1>f, <1>g DEF ReindexResetDocument, ApiEffect, KeepsJobs
<1>9. CASE DeleteJobs(a)
  BY <1>9, <1>a, <1>b, <1>e, <1>f, <1>g DEF DeleteJobs, ApiEffect, PurgesJobs
<1>10. CASE DeleteDocument(a)
  BY <1>10, <1>a, <1>b, <1>c, <1>d, <1>e, <1>f, <1>g DEF DeleteDocument, ApiEffect, KeepsJobs
<1>11. CASE DeleteFile(a)
  BY <1>11, <1>a, <1>b, <1>d DEF DeleteFile, ApiEffect, dbVars
<1> QED
  BY <1>1, <1>2, <1>3, <1>4, <1>5, <1>6, <1>7, <1>8, <1>9, <1>10, <1>11 DEF ApiStep

\* So has every fault of an API process.
LEMMA ApiFaultEffect ==
    ASSUME TypeOK, NEW a \in ApiProcs, ApiFault(a)
    PROVE  ApiEffect(a) /\ ApiDone(a) /\ UNCHANGED <<docStatus, files>>
<1> ApiType
  BY DEF TypeOK, ApiType
<1> QED
  BY ApiDoneEffect
  DEF ApiFault, ApiAborted, EnqueueFails, ApiEffect, Serves, KeepsJobs, AllRunsSame, SameRun,
      RowsStayBorn, dbVars

\* Every step is the step of one worker or of one API process.
LEMMA StepEffect ==
    ASSUME TypeOK, BusyIsPlaced, Next
    PROVE  (\E w \in Workers : RunEffect(w)) \/ (\E a \in ApiProcs : ApiEffect(a))
BY WorkerStepEffect, WorkerFaultEffect, ApiRequestEffect, ApiStepEffect, ApiFaultEffect DEF Next

-----------------------------------------------------------------------------
(* The theorems on types and on files.                                     *)

\* No step leaves a busy process without its job or document.
LEMMA PlacedStep == TypeOK /\ BusyIsPlaced /\ [Next]_vars => BusyIsPlaced'
<1> SUFFICES ASSUME TypeOK, BusyIsPlaced, [Next]_vars PROVE BusyIsPlaced'
  OBVIOUS
<1>1. ASSUME NEW w \in Workers, RunEffect(w) PROVE BusyIsPlaced'
  <2>1. \A x \in Workers : worker'[x].pc # "idle" => worker'[x].job \in Jobs
    <3>1. worker'[w].pc # "idle" => worker'[w].job \in Jobs
      BY <1>1 DEF RunEffect, Moves, Continues, Takes, Drops, GivesBack, Republishes, SameMessage,
                  BusyIsPlaced
    <3> QED
      BY <1>1, <3>1 DEF RunEffect, OthersRun, SameRun, BusyIsPlaced
  <2> QED
    BY <1>1, <2>1 DEF RunEffect, BusyIsPlaced
<1>2. ASSUME NEW a \in ApiProcs, ApiEffect(a) PROVE BusyIsPlaced'
  <2>1. api'[a].pc # "idle" => api'[a].doc \in Docs
    BY <1>2 DEF ApiEffect, Serves, BusyIsPlaced
  <2>2. api'[a].pc = "enqueue" => api'[a].job \in Jobs
    BY <1>2 DEF ApiEffect, KeepsJobs, CreatesJob, SendsJob, PurgesJobs
  <2> QED
    BY <1>2, <2>1, <2>2 DEF ApiEffect, OthersServe, AllRunsSame, SameRun, BusyIsPlaced
<1>3. CASE UNCHANGED vars
  BY <1>3 DEF BusyIsPlaced, vars, dbVars
<1> QED
  BY <1>1, <1>2, <1>3, StepEffect

\* Nobody is busy at first.
LEMMA PlacedInit == Init => BusyIsPlaced
BY DEF Init, BusyIsPlaced, IdleWorker, IdleApi

\* Every variable keeps its type, and whoever is not idle works on a job or a
\* document of the system.
THEOREM TypeCorrect == Spec => [](TypeOK /\ BusyIsPlaced)
<1>1. Init => TypeOK /\ BusyIsPlaced
  BY TypeInit, PlacedInit
<1>2. TypeOK /\ BusyIsPlaced /\ [Next]_vars => (TypeOK /\ BusyIsPlaced)'
  BY TypeStep, PlacedStep
<1> QED
  BY <1>1, <1>2, PTL DEF Spec

\* There are no rows and no files at first.
LEMMA FileInit == Init => FileInv
BY DEF Init, FileInv, RowHasFile, IdleApi, DocExists, LiveDoc

\* A step of a request keeps FileInv: only createDoc and delFile are delicate.
LEMMA FileApiStep ==
    ASSUME TypeOK, BusyIsPlaced, FileInv, NEW a \in ApiProcs, ApiStep(a)
    PROVE  FileInv'
<1> /\ ApiType /\ docStatus \in [Docs -> DocStatus]
    /\ api[a].pc # "idle" => api[a].doc \in Docs
    /\ "unborn" \notin LiveDoc /\ "deleted" \notin LiveDoc /\ "uploaded" \in LiveDoc
    /\ "processing" \in LiveDoc
  BY DEF TypeOK, BusyIsPlaced, ApiType, LiveDoc
<1> DEFINE d == api[a].doc
           Keeps == UNCHANGED <<docStatus, files>>
           \* The request does not reach one of the labels FileInv is about.
           Plain == OthersServe(a) /\ api'[a].pc \notin {"createDoc", "delFile"}
                    /\ (api'[a].pc = "idle" \/ api'[a].doc = d)
<1> USE DEF DocExists
<1>a. \A label : label \notin {"createDoc", "delFile"} /\ ApiGoTo(a, label) => Plain
  BY ApiGoToEffect
<1>b. ApiDone(a) => Plain /\ api'[a].doc = NoDoc
  <2>1. ApiDone(a) => api'[a].doc = NoDoc
    BY DEF ApiDone, ApiType, IdleApi
  <2> QED
    BY <2>1, ApiDoneEffect
<1>c. Keeps /\ Plain /\ (api'[a].doc = d \/ api'[a].doc = NoDoc) => FileInv'
  BY DocsAssumption DEF FileInv, RowHasFile, OthersServe, BusyIsPlaced
<1>1. CASE CreateDocument(a)
  <2>1. docStatus' = [docStatus EXCEPT ![d] = "uploaded"] /\ files' = files /\ Plain
        /\ api[a].pc = "createDoc" /\ api'[a].doc = d
    BY <1>1, <1>a, ApiGoToEffect DEF CreateDocument
  <2>2. d \in files /\ docStatus[d] = "unborn" /\ \A b \in ApiProcs : api[b].doc = d => b = a
    BY <2>1 DEF FileInv
  <2>3. RowHasFile'
    BY <2>1, <2>2 DEF FileInv, RowHasFile
  <2>4. \A b \in ApiProcs : b # a => api'[b] = api[b] /\ api'[b].doc # d
    BY <2>1, <2>2 DEF OthersServe
  <2>5. ASSUME NEW b \in ApiProcs, api'[b].pc = "createDoc" \/ api'[b].pc = "delFile"
        PROVE  b # a /\ docStatus'[api'[b].doc] = docStatus[api[b].doc]
    BY <2>1, <2>4, <2>5 DEF BusyIsPlaced
  <2>6. ASSUME NEW b \in ApiProcs, api'[b].pc = "createDoc"
        PROVE  /\ docStatus'[api'[b].doc] = "unborn" /\ api'[b].doc \in files'
               /\ \A c \in ApiProcs : api'[c].doc = api'[b].doc => c = b
    BY <2>1, <2>4, <2>5, <2>6 DEF FileInv
  <2>7. ASSUME NEW b \in ApiProcs, api'[b].pc = "delFile"
        PROVE  docStatus'[api'[b].doc] = "deleted"
    BY <2>4, <2>5, <2>7 DEF FileInv
  <2> QED
    BY <2>3, <2>6, <2>7 DEF FileInv
<1>2. CASE AuditUpload(a) \/ AuditReindex(a) \/ AuditDelete(a)
  BY <1>2, <1>a, <1>b, <1>c, ApiGoToEffect DEF AuditUpload, AuditReindex, AuditDelete, RecordAudit, RefreshFails, dbVars
<1>3. CASE CreateJob(a)
  <2>1. Keeps
    BY <1>3 DEF CreateJob
  <2>2. CASE ApiDone(a)
    BY <1>b, <1>c, <2>1, <2>2
  <2>3. CASE ~ApiDone(a)
    <3>1. PICK j \in Jobs : api' = [api EXCEPT ![a] = [@ EXCEPT !.pc = "enqueue", !.job = j]]
      BY <1>3, <2>3 DEF CreateJob
    <3>2. Plain /\ api'[a].doc = d
      BY <3>1 DEF OthersServe, ApiType, ApiRecord
    <3> QED
      BY <1>c, <2>1, <3>2
  <2> QED
    BY <2>2, <2>3
<1>4. CASE Enqueue(a)
  BY <1>4, <1>b, <1>c DEF Enqueue, dbVars
<1>5. CASE ReindexDeleteChunks(a) \/ DeleteDocumentChunks(a)
  BY <1>5, <1>c, DeleteChunksEffect DEF ReindexDeleteChunks, DeleteDocumentChunks
<1>6. CASE ReindexResetDocument(a)
  <2>1. CASE docStatus' = docStatus
    BY <1>6, <2>1, <1>a, <1>b, <1>c, ApiGoToEffect DEF ReindexResetDocument
  <2>2. CASE docStatus[d] \in LiveDoc /\ docStatus' = [docStatus EXCEPT ![d] = "processing"]
    <3>1. Plain /\ api'[a].doc = d /\ files' = files
      BY <1>6, <2>2, <1>a, ApiGoToEffect DEF ReindexResetDocument
    <3> QED
      BY <2>2, <3>1 DEF FileInv, RowHasFile, OthersServe, BusyIsPlaced
  <2> QED
    BY <1>6, <2>1, <2>2 DEF ReindexResetDocument
<1>7. CASE DeleteJobs(a)
  BY <1>7, <1>a, <1>c, ApiGoToEffect DEF DeleteJobs
<1>8. CASE DeleteDocument(a)
  <2>1. CASE docStatus' = docStatus
    BY <1>8, <2>1, <1>b, <1>c, ApiGoToEffect DEF DeleteDocument, FileInv, RowHasFile, OthersServe
  <2>2. CASE docStatus' = [docStatus EXCEPT ![d] = "deleted"] /\ ApiGoTo(a, "delFile")
    <3>1. files' = files /\ OthersServe(a) /\ api'[a].pc = "delFile" /\ api'[a].doc = d
          /\ api[a].pc = "delDoc"
      BY <1>8, <2>2, ApiGoToEffect DEF DeleteDocument
    <3> QED
      BY <2>2, <3>1 DEF FileInv, RowHasFile, OthersServe, BusyIsPlaced
  <2> QED
    BY <1>8, <2>1, <2>2 DEF DeleteDocument
<1>9. CASE DeleteFile(a)
  <2>1. docStatus' = docStatus /\ files' = files \ {d} /\ Plain /\ api'[a].doc = NoDoc
        /\ api[a].pc = "delFile"
    BY <1>9, <1>b DEF DeleteFile, dbVars
  <2> QED
    BY <2>1, DocsAssumption DEF FileInv, RowHasFile, OthersServe, BusyIsPlaced
<1> QED
  BY <1>1, <1>2, <1>3, <1>4, <1>5, <1>6, <1>7, <1>8, <1>9 DEF ApiStep

\* The first step of a request keeps FileInv.
LEMMA FileApiRequest ==
    ASSUME TypeOK, BusyIsPlaced, FileInv, NEW a \in ApiProcs, ApiRequest(a)
    PROVE  FileInv'
<1> /\ ApiType
    /\ "unborn" \notin LiveDoc
  BY DEF TypeOK, ApiType, LiveDoc
<1>1. PICK d \in Docs : SaveFile(a, d) \/ RequestReindex(a, d) \/ RequestDelete(a, d)
  BY DEF ApiRequest
<1>2. CASE SaveFile(a, d)
  <2>1. OthersServe(a) /\ api'[a].pc = "createDoc" /\ api'[a].doc = d
    BY <1>2, BeginEffect DEF SaveFile
  <2> QED
    BY <1>2, <2>1 DEF SaveFile, FileInv, RowHasFile, OthersServe, DocExists, dbVars
<1>3. CASE RequestReindex(a, d) \/ RequestDelete(a, d)
  <2>1. OthersServe(a) /\ api'[a].pc \in {"reChunks", "delChunks"} /\ api'[a].doc = d
        /\ UNCHANGED <<docStatus, files>> /\ DocExists(d)
    BY <1>3, BeginEffect DEF RequestReindex, RequestDelete, dbVars
  <2> QED
    BY <2>1 DEF FileInv, RowHasFile, OthersServe, DocExists
<1> QED
  BY <1>1, <1>2, <1>3

\* No step breaks FileInv.
LEMMA FileStep == TypeOK /\ BusyIsPlaced /\ FileInv /\ [Next]_vars => FileInv'
<1> SUFFICES ASSUME TypeOK, BusyIsPlaced, FileInv, [Next]_vars PROVE FileInv'
  OBVIOUS
<1>1. ASSUME NEW w \in Workers, RunEffect(w) PROVE FileInv'
  <2>1. \A d \in Docs : /\ docStatus'[d] = docStatus[d] \/ (DocExists(d) /\ DocExists(d)')
                        /\ docStatus'[d] \in {"unborn", "deleted"} <=> docStatus[d] \in {"unborn", "deleted"}
    BY <1>1 DEF RunEffect, WritesDocs, DocExists, LiveDoc
  <2> QED
    BY <1>1, <2>1 DEF RunEffect, FileInv, RowHasFile, DocExists, LiveDoc, BusyIsPlaced
<1>2. ASSUME NEW a \in ApiProcs, ApiFault(a) PROVE FileInv'
  <2>1. ApiDone(a) /\ OthersServe(a) /\ UNCHANGED <<docStatus, files>>
    BY <1>2, ApiFaultEffect DEF ApiEffect
  <2>2. api'[a].pc = "idle" /\ api'[a].doc = NoDoc
    BY <2>1 DEF ApiDone, IdleApi, TypeOK
  <2> QED
    BY <2>1, <2>2, DocsAssumption DEF FileInv, RowHasFile, OthersServe, DocExists, BusyIsPlaced
<1>3. CASE UNCHANGED vars
  BY <1>3 DEF FileInv, RowHasFile, DocExists, vars, dbVars
<1> QED
  BY <1>1, <1>2, <1>3, FileApiStep, FileApiRequest, WorkerStepEffect, WorkerFaultEffect DEF Next

\* No document row without its file, however requests, runs and faults interleave.
THEOREM RowsHaveFiles == Spec => []RowHasFile
<1>1. Init => FileInv
  BY FileInit
<1>2. TypeOK /\ BusyIsPlaced /\ FileInv /\ [Next]_vars => FileInv'
  BY FileStep
<1>3. FileInv => RowHasFile
  BY DEF FileInv
<1> QED
  BY <1>1, <1>2, <1>3, TypeCorrect, PTL DEF Spec
=============================================================================
