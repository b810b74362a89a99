------------------------- MODULE IngestionPipeline -------------------------
(***************************************************************************)
(* The ingestion pipeline of Citepath: the document service of the API     *)
(* (upload, delete, reindex), the Celery queue it feeds and the worker     *)
(* task process_ingestion_job, sharing the tables documents,               *)
(* ingestion_jobs, document_chunks and audit_logs and the file storage.    *)
(*                                                                         *)
(* Every repository method commits on its own, so one step of this module  *)
(* is one commit (or one storage or broker call) and everything the code   *)
(* does between two of them.  Processes interleave between those steps.    *)
(*                                                                         *)
(* A document is a member of Docs; the rows of document_chunks are         *)
(* abstracted to the job whose run inserted them (0: no rows); job ids are *)
(* numbered by created_at.  Text, vectors, titles and messages are left    *)
(* out.                                                                    *)
(*                                                                         *)
(* A definition introduced as "Mutant of X" is X with a plausible bug.     *)
(* Nothing here uses it: put in the place of X it breaks the property it   *)
(* names, which shows that the property depends on the code.               *)
(***************************************************************************)
EXTENDS Integers, FiniteSets

CONSTANTS
    Docs,              \* document ids the clients use
    NoDoc,             \* "no document": owner of a job that is not created yet
    MaxJobs,           \* bound on the ingestion_jobs rows ever created
    Workers,           \* processes of the Celery worker pools
    ApiProcs,          \* API processes: each runs one request body at a time
    MaxRetries,        \* INGESTION_MAX_RETRIES
    Faults,            \* the kinds of fault that may occur, out of FaultKinds
    MaxFaults,         \* bound on the number of faults in a behaviour
    ExhaustionHandled  \* TRUE if task.retry(exc=E) may raise
                       \* MaxRetriesExceededError when retries are exhausted, as
                       \* the unit tests' mock does; Celery always raises E

\* "abort":   the task raises, or its process is killed or timed out: acked
\* "node":    the whole worker node is lost before the ack: redelivered
\* "broker":  publishing a message fails
\* "storage": the database refuses the chunk transaction
\* "api":     the API process dies, or a commit of its request fails
FaultKinds == {"abort", "node", "broker", "storage", "api"}

ASSUME DocsAssumption    == NoDoc \notin Docs
ASSUME BoundsAssumption  == MaxJobs \in Nat /\ MaxRetries \in Nat /\ MaxFaults \in Nat
ASSUME FaultsAssumption  == Faults \subseteq FaultKinds /\ ExhaustionHandled \in BOOLEAN

VARIABLES
    docStatus,   \* documents.status
    files,       \* documents whose file is in the storage backend
    jobStatus,   \* ingestion_jobs.status
    jobDoc,      \* ingestion_jobs.document_id
    attempts,    \* ingestion_jobs.attempt_count
    chunks,      \* the job whose run wrote the document's chunk rows, or 0
    audit,       \* audit_logs, as pairs <<event, document>>
    queue,       \* messages on the broker by job and Celery retry count
    worker,      \* the run each worker process is executing
    api,         \* the request each API process is executing
    faults,      \* faults that have occurred
    exhausted    \* history: jobs of which a run raised for want of retries

dbVars == <<docStatus, jobStatus, jobDoc, attempts, chunks, audit>>
vars == <<dbVars, files, queue, worker, api, faults, exhausted>>

Jobs == 1 .. MaxJobs
Retries == 0 .. MaxRetries

LiveDoc   == {"uploaded", "processing", "indexed", "failed"}
ActiveJob == {"pending", "processing"}
LiveJob   == ActiveJob \cup {"completed", "failed"}
\* "unborn": the row was never inserted; "deleted": it is gone.
DocStatus == LiveDoc \cup {"unborn", "deleted"}
JobStatus == LiveJob \cup {"unborn", "deleted"}
AuditEvents == {"uploaded", "deleted", "reindex"}

WorkerPC == {"idle", "loadJob", "loadDoc", "markJob", "markDoc", "work",
             "replDelete", "replInsert", "refresh", "complete", "index",
             "fail", "retry", "failByIds", "ack"}
UploadPC  == {"createDoc", "auditUpload"}
ReindexPC == {"reChunks", "resetDoc", "auditReindex"}
DeletePC  == {"delChunks", "delJobs", "auditDelete", "delDoc", "delFile"}
ApiPC == {"idle", "createJob", "enqueue"} \cup UploadPC \cup ReindexPC \cup DeletePC

\* status and attempt are the columns the session has loaded.  clear says of a
\* run inside replace_chunks_for_document that no other transaction has put rows
\* in the way of its INSERT ("replInsert"), or has taken away the rows it
\* inserted ("refresh").
IdleWorker == [pc |-> "idle", job |-> 0, retries |-> 0,
               status |-> "unborn", attempt |-> 0, clear |-> TRUE]
IdleApi == [pc |-> "idle", doc |-> NoDoc, job |-> 0]

WorkerRecord == [pc : WorkerPC, job : Jobs \cup {0}, retries : Retries,
                 status : JobStatus, attempt : Nat, clear : BOOLEAN]
ApiRecord == [pc : ApiPC, doc : Docs \cup {NoDoc}, job : Jobs \cup {0}]

TypeOK ==
    /\ docStatus \in [Docs -> DocStatus]
    /\ files \subseteq Docs
    /\ jobStatus \in [Jobs -> JobStatus]
    /\ jobDoc \in [Jobs -> Docs \cup {NoDoc}]
    /\ attempts \in [Jobs -> Nat]
    /\ chunks \in [Docs -> Jobs \cup {0}]
    /\ audit \subseteq AuditEvents \X Docs
    /\ queue \in [Jobs -> [Retries -> Nat]]
    /\ worker \in [Workers -> WorkerRecord]
    /\ api \in [ApiProcs -> ApiRecord]
    /\ faults \in 0 .. MaxFaults
    /\ exhausted \subseteq Jobs

Init ==
    /\ docStatus = [d \in Docs |-> "unborn"]
    /\ files = {}
    /\ jobStatus = [j \in Jobs |-> "unborn"]
    /\ jobDoc = [j \in Jobs |-> NoDoc]
    /\ attempts = [j \in Jobs |-> 0]
    /\ chunks = [d \in Docs |-> 0]
    /\ audit = {}
    /\ queue = [j \in Jobs |-> [r \in Retries |-> 0]]
    /\ worker = [w \in Workers |-> IdleWorker]
    /\ api = [a \in ApiProcs |-> IdleApi]
    /\ faults = 0
    /\ exhausted = {}

-----------------------------------------------------------------------------
(* The tables, as the code reads them.                                     *)

DocExists(d) == docStatus[d] \in LiveDoc
JobExists(j) == jobStatus[j] \in LiveJob
JobsOf(d) == {j \in Jobs : JobExists(j) /\ jobDoc[j] = d}
IsLatest(j, d) == j \in JobsOf(d) /\ \A k \in JobsOf(d) : k <= j

\* Mutant of NoIngestionInProgress (ImplementsLifecycle): a pending job does not block.
OnlyProcessingBlocks(d) ==
    \A j \in Jobs : IsLatest(j, d) => jobStatus[j] # "processing"

\* get_latest_for_document finds no job, or one that is not pending/processing.
NoIngestionInProgress(d) ==
    \A j \in Jobs : IsLatest(j, d) => jobStatus[j] \notin ActiveJob

JobToDo(w) == worker[w].job
DocToDo(w) == jobDoc[worker[w].job]

\* Worker x is between the DELETE and the refresh of its chunk transaction on d.
ReplacingChunks(x, d) == worker[x].pc \in {"replInsert", "refresh"} /\ DocToDo(x) = d

GoTo(w, label) == worker' = [worker EXCEPT ![w].pc = label]
\* The run is over, its session closed; only the message is still held.
Finish(w) ==
    worker' = [worker EXCEPT ![w] = [IdleWorker EXCEPT !.pc = "ack",
                  !.job = worker[w].job, !.retries = worker[w].retries]]
GoToOrFinish(w, goOn, label) == IF goOn THEN GoTo(w, label) ELSE Finish(w)
ApiGoTo(a, label) == api' = [api EXCEPT ![a].pc = label]
ApiDone(a) == api' = [api EXCEPT ![a] = IdleApi]

Fault(kind) ==
    /\ kind \in Faults /\ faults < MaxFaults /\ faults' = faults + 1
    /\ UNCHANGED exhausted

-----------------------------------------------------------------------------
(* The worker task process_ingestion_job.  An exception that reaches the   *)
(* end of the task rolls the session back and lets Celery acknowledge the  *)
(* message: label "ack".                                                   *)

Receive(w) ==
    /\ worker[w].pc = "idle"
    /\ \E j \in Jobs, r \in Retries :
          /\ queue[j][r] > 0
          /\ queue' = [queue EXCEPT ![j][r] = @ - 1]
          /\ worker' = [worker EXCEPT ![w] = [IdleWorker EXCEPT !.pc = "loadJob",
                                                !.job = j, !.retries = r]]
    /\ UNCHANGED <<dbVars, files, api, faults, exhausted>>

\* Mutant of LoadJob (SettledStaysSettled): no check for a completed or failed job.
LoadAnyJob(w) ==
    /\ worker[w].pc = "loadJob"
    /\ LET j == JobToDo(w) IN
         IF JobExists(j)
         THEN worker' = [worker EXCEPT ![w] = [@ EXCEPT !.pc = "loadDoc",
                                   !.status = jobStatus[j], !.attempt = attempts[j]]]
         ELSE Finish(w)
    /\ UNCHANGED <<dbVars, files, queue, api, faults, exhausted>>

\* A job that is missing, completed or failed ends the run at once.
LoadJob(w) ==
    /\ worker[w].pc = "loadJob"
    /\ LET j == JobToDo(w) IN
         IF jobStatus[j] \in ActiveJob
         THEN worker' = [worker EXCEPT ![w] = [@ EXCEPT !.pc = "loadDoc",
                                   !.status = jobStatus[j], !.attempt = attempts[j]]]
         ELSE Finish(w)
    /\ UNCHANGED <<dbVars, files, queue, api, faults, exhausted>>

LoadDocument(w) ==
    /\ worker[w].pc = "loadDoc"
    /\ GoToOrFinish(w, DocExists(DocToDo(w)), "markJob")
    /\ UNCHANGED <<dbVars, files, queue, api, faults, exhausted>>

\* The UPDATE names only the columns that differ from the loaded ones: a status
\* loaded as processing is not written again.  It raises if the row is gone.
MarkJobProcessing(w) ==
    LET j == JobToDo(w) IN
    /\ worker[w].pc = "markJob"
    /\ IF JobExists(j)
       THEN /\ jobStatus' = IF worker[w].status = "processing" THEN jobStatus
                            ELSE [jobStatus EXCEPT ![j] = "processing"]
            /\ attempts' = [attempts EXCEPT ![j] = worker[w].attempt + 1]
            /\ GoTo(w, "markDoc")
       ELSE Finish(w) /\ UNCHANGED <<jobStatus, attempts>>
    /\ UNCHANGED <<docStatus, jobDoc, chunks, audit, files, queue, api, faults, exhausted>>

\* After its commit the log line reads job.attempt_count and so loads the job
\* again, which raises if the job row is gone.  It may have gone before: then the
\* refresh that ends the previous step has raised.
MarkDocProcessing(w) ==
    LET j == JobToDo(w)
        d == DocToDo(w)
    IN  /\ worker[w].pc = "markDoc"
        /\ \/ /\ DocExists(d)
              /\ docStatus' = [docStatus EXCEPT ![d] = "processing"]
              /\ IF JobExists(j)
                 THEN worker' = [worker EXCEPT ![w] = [@ EXCEPT !.pc = "work",
                                                       !.status = jobStatus[j]]]
                 ELSE Finish(w)
           \/ /\ ~(DocExists(d) /\ JobExists(j))
              /\ Finish(w)
              /\ UNCHANGED docStatus
        /\ UNCHANGED <<jobStatus, jobDoc, attempts, chunks, audit, files, queue, api, faults, exhausted>>

\* Mutant of ReadAndEmbed (CompletedJobIsServed): completes without storing chunks.
CompleteWithoutChunks(w) ==
    /\ worker[w].pc = "work"
    /\ GoTo(w, "complete")
    /\ UNCHANGED <<dbVars, files, queue, api, faults, exhausted>>

\* Validation, storage read, extraction, chunking, embedding and the commit of
\* the usage rows: no table of this module is written.  The outcome depends on
\* the content and on the providers; without the file it is never success.  A row
\* that has gone since it was committed may already have ended the run.
ReadAndEmbed(w) ==
    /\ worker[w].pc = "work"
    /\ \/ \E next \in {"replDelete", "fail", "retry"} :
             /\ next = "replDelete" => DocToDo(w) \in files
             /\ GoTo(w, next)
       \/ ~(DocExists(DocToDo(w)) /\ JobExists(JobToDo(w))) /\ Finish(w)
    /\ UNCHANGED <<dbVars, files, queue, api, faults, exhausted>>

\* The DELETE of replace_chunks_for_document, in the transaction that the
\* INSERT commits: until then nobody sees it.
ReplaceChunksDelete(w) ==
    /\ worker[w].pc = "replDelete"
    /\ worker' = [worker EXCEPT ![w] = [@ EXCEPT !.pc = "replInsert", !.clear = TRUE]]
    /\ UNCHANGED <<dbVars, files, queue, api, faults, exhausted>>

\* The foreign key to documents and the unique key on chunk_index hold.
InsertAccepted(w) == DocExists(DocToDo(w)) /\ worker[w].clear

ReplaceChunksInsert(w) ==
    /\ worker[w].pc = "replInsert"
    /\ InsertAccepted(w)
    /\ chunks' = [chunks EXCEPT ![DocToDo(w)] = JobToDo(w)]
    /\ worker' = [x \in Workers |->
           IF x = w THEN [worker[x] EXCEPT !.pc = "refresh"]
           ELSE IF ReplacingChunks(x, DocToDo(w)) THEN [worker[x] EXCEPT !.clear = FALSE]
           ELSE worker[x]]
    /\ UNCHANGED <<docStatus, jobStatus, jobDoc, attempts, audit, files, queue, api, faults, exhausted>>

\* A refused INSERT is a ChunkStorageError, retryable or not by its message.  The
\* failed flush leaves the session unusable, so that the permanent case raises
\* inside _fail_ingestion, before it has written anything.
ChunkStorageFails(w) ==
    /\ worker[w].pc = "replInsert"
    /\ \/ ~InsertAccepted(w) /\ UNCHANGED <<faults, exhausted>>
       \/ Fault("storage")
    /\ GoTo(w, "retry") \/ Finish(w)
    /\ UNCHANGED <<dbVars, files, queue, api>>

\* Refreshing the committed chunks raises if they were deleted meanwhile: a
\* permanent ChunkStorageError, this time on a usable session.
RefreshChunks(w) ==
    /\ worker[w].pc = "refresh"
    /\ \/ /\ worker[w].clear
          /\ GoTo(w, "complete")
       \/ /\ ~worker[w].clear /\ JobExists(JobToDo(w))
          /\ worker' = [worker EXCEPT ![w] = [@ EXCEPT !.pc = "fail",
                                                !.status = jobStatus[JobToDo(w)]]]
       \/ /\ ~worker[w].clear /\ ~JobExists(JobToDo(w))
          /\ Finish(w)
    /\ UNCHANGED <<dbVars, files, queue, api, faults, exhausted>>

\* _complete_ingestion commits twice: the job first, the document second.
CompleteJob(w) ==
    LET j == JobToDo(w) IN
    /\ worker[w].pc = "complete"
    /\ IF JobExists(j)
       THEN /\ jobStatus' = [jobStatus EXCEPT ![j] = "completed"]
            /\ GoTo(w, "index")
       ELSE Finish(w) /\ UNCHANGED jobStatus
    /\ UNCHANGED <<docStatus, jobDoc, attempts, chunks, audit, files, queue, api, faults, exhausted>>

\* Mutant of IndexDocument (TypeOK): the status of the job is written to the document.
IndexDocumentAsCompleted(w) ==
    LET d == DocToDo(w) IN
    /\ worker[w].pc = "index"
    /\ \/ DocExists(d) /\ docStatus' = [docStatus EXCEPT ![d] = "completed"]
       \/ ~(DocExists(d) /\ JobExists(JobToDo(w))) /\ UNCHANGED docStatus
    /\ Finish(w)
    /\ UNCHANGED <<jobStatus, jobDoc, attempts, chunks, audit, files, queue, api, faults, exhausted>>

\* A row that is gone ends the run: the document's here, the job's in the refresh
\* that ends the previous step.
IndexDocument(w) ==
    LET d == DocToDo(w) IN
    /\ worker[w].pc = "index"
    /\ \/ DocExists(d) /\ docStatus' = [docStatus EXCEPT ![d] = "indexed"]
       \/ ~(DocExists(d) /\ JobExists(JobToDo(w))) /\ UNCHANGED docStatus
    /\ Finish(w)
    /\ UNCHANGED <<jobStatus, jobDoc, attempts, chunks, audit, files, queue, api, faults, exhausted>>

\* Mutant of FailRows (FailedDocHasFailedJob): a missing job row is ignored.
FailRowsUnchecked(w, loaded) ==
    LET j == JobToDo(w)
        d == DocToDo(w)
    IN  /\ jobStatus' = IF JobExists(j) THEN [jobStatus EXCEPT ![j] = "failed"] ELSE jobStatus
        /\ docStatus' = IF DocExists(d) THEN [docStatus EXCEPT ![d] = "failed"] ELSE docStatus
        /\ Finish(w)

\* Job and document fail in one commit, which raises if either row is gone.
FailRows(w, loaded) ==
    LET j == JobToDo(w)
        d == DocToDo(w)
    IN  /\ IF JobExists(j) /\ DocExists(d)
           THEN /\ jobStatus' = IF loaded = "failed" THEN jobStatus
                                ELSE [jobStatus EXCEPT ![j] = "failed"]
                /\ docStatus' = [docStatus EXCEPT ![d] = "failed"]
           ELSE UNCHANGED <<jobStatus, docStatus>>
        /\ Finish(w)

FailIngestion(w) ==
    /\ worker[w].pc = "fail"
    /\ FailRows(w, worker[w].status)
    /\ UNCHANGED <<jobDoc, attempts, chunks, audit, files, queue, api, faults, exhausted>>

\* Mutant of RequestRetryOrFail (AttemptsBounded): the retry count is not raised.
RetryForever(w) ==
    /\ worker[w].pc = "retry"
    /\ queue' = [queue EXCEPT ![JobToDo(w)][worker[w].retries] = @ + 1]
    /\ Finish(w)
    /\ UNCHANGED <<dbVars, files, api, faults, exhausted>>

\* Mutant of RequestRetryOrFail (EveryJobSettles): the retry is not published.
RetryNotPublished(w) ==
    /\ worker[w].pc = "retry"
    /\ Finish(w)
    /\ UNCHANGED <<dbVars, files, queue, api, faults, exhausted>>

\* task.retry publishes the same call with one more retry and raises Retry; when
\* the retries are exhausted it raises the exc it was given, and the handler of
\* MaxRetriesExceededError does not run.
RequestRetryOrFail(w) ==
    LET j == JobToDo(w)
        r == worker[w].retries
    IN  /\ worker[w].pc = "retry"
        /\ IF r < MaxRetries
           THEN /\ queue' = [queue EXCEPT ![j][r + 1] = @ + 1]
                /\ Finish(w)
                /\ UNCHANGED exhausted
           ELSE /\ \/ Finish(w) /\ exhausted' = exhausted \cup {j}
                   \/ ExhaustionHandled /\ GoTo(w, "failByIds") /\ UNCHANGED exhausted
                /\ UNCHANGED queue
        /\ UNCHANGED <<dbVars, files, api, faults>>

FailIngestionByIds(w) ==
    /\ worker[w].pc = "failByIds"
    /\ IF jobStatus[JobToDo(w)] = "completed"
       THEN Finish(w) /\ UNCHANGED <<jobStatus, docStatus>>
       ELSE FailRows(w, jobStatus[JobToDo(w)])
    /\ UNCHANGED <<jobDoc, attempts, chunks, audit, files, queue, api, faults, exhausted>>

\* task_acks_late: the broker forgets the message only now.
Acknowledge(w) ==
    /\ worker[w].pc = "ack"
    /\ worker' = [worker EXCEPT ![w] = IdleWorker]
    /\ UNCHANGED <<dbVars, files, queue, api, faults, exhausted>>

TaskAborted(w) ==
    /\ worker[w].pc \notin {"idle", "ack"}
    /\ Fault("abort")
    /\ Finish(w)
    /\ UNCHANGED <<dbVars, files, queue, api>>

RepublishFails(w) ==
    /\ worker[w].pc = "retry"
    /\ worker[w].retries < MaxRetries
    /\ Fault("broker")
    /\ Finish(w)
    /\ UNCHANGED <<dbVars, files, queue, api>>

\* Mutant of NodeLost (ActiveJobIsCarried): the message was acknowledged on receipt.
NodeLostAfterEarlyAck(w) ==
    /\ worker[w].pc # "idle"
    /\ Fault("node")
    /\ worker' = [worker EXCEPT ![w] = IdleWorker]
    /\ UNCHANGED <<dbVars, files, queue, api>>

NodeLost(w) ==
    /\ worker[w].pc # "idle"
    /\ Fault("node")
    /\ queue' = [queue EXCEPT ![JobToDo(w)][worker[w].retries] = @ + 1]
    /\ worker' = [worker EXCEPT ![w] = IdleWorker]
    /\ UNCHANGED <<dbVars, files, api>>

-----------------------------------------------------------------------------
(* DocumentService.  The route handlers are coroutines that never await    *)
(* inside these bodies: one API process finishes a request before it       *)
(* starts the next.                                                        *)

\* Bound: a request that creates a job starts only while an id is left for it.
JobIdLeft ==
    Cardinality({a \in ApiProcs : api[a].pc \in UploadPC \cup ReindexPC \cup {"createJob"}})
        < Cardinality({j \in Jobs : jobStatus[j] = "unborn"})

Begin(a, label, d) ==
    /\ api[a].pc = "idle"
    /\ api' = [api EXCEPT ![a] = [pc |-> label, doc |-> d, job |-> 0]]

\* upload: document ids are fresh, so d is one that nothing has used yet.
SaveFile(a, d) ==
    /\ docStatus[d] = "unborn" /\ d \notin files
    /\ \A b \in ApiProcs : api[b].doc # d
    /\ JobIdLeft
    /\ Begin(a, "createDoc", d)
    /\ files' = files \cup {d}
    /\ UNCHANGED <<dbVars, queue, worker, faults, exhausted>>

CreateDocument(a) ==
    /\ api[a].pc = "createDoc"
    /\ docStatus' = [docStatus EXCEPT ![api[a].doc] = "uploaded"]
    /\ ApiGoTo(a, "auditUpload")
    /\ UNCHANGED <<jobStatus, jobDoc, attempts, chunks, audit, files, queue, worker, faults, exhausted>>

\* An audit row of its own commit, then the next label.
RecordAudit(a, event, next) ==
    /\ audit' = audit \cup {<<event, api[a].doc>>}
    /\ ApiGoTo(a, next)
    /\ UNCHANGED <<docStatus, jobStatus, jobDoc, attempts, chunks, files, queue, worker, faults, exhausted>>

\* A document deleted since the previous commit may have ended the request in the
\* refresh that follows it.
RefreshFails(a) ==
    /\ ~DocExists(api[a].doc)
    /\ ApiDone(a)
    /\ UNCHANGED <<dbVars, files, queue, worker, faults, exhausted>>

AuditUpload(a) ==
    api[a].pc = "auditUpload" /\ (RecordAudit(a, "uploaded", "createJob") \/ RefreshFails(a))

\* create_job_for_document: the pending job is committed before it is enqueued.
\* Reading document.id, and the foreign key, raise if the document is gone.
CreateJob(a) ==
    LET d == api[a].doc IN
    /\ api[a].pc = "createJob"
    /\ IF DocExists(d)
       THEN \E j \in Jobs :
              /\ jobStatus[j] = "unborn"
              /\ \A k \in Jobs : k < j => jobStatus[k] # "unborn"
              /\ jobStatus' = [jobStatus EXCEPT ![j] = "pending"]
              /\ jobDoc' = [jobDoc EXCEPT ![j] = d]
              /\ api' = [api EXCEPT ![a] = [@ EXCEPT !.pc = "enqueue", !.job = j]]
       ELSE ApiDone(a) /\ UNCHANGED <<jobStatus, jobDoc>>
    /\ UNCHANGED <<docStatus, attempts, chunks, audit, files, queue, worker, faults, exhausted>>

\* Mutant of Enqueue (PendingHasOneCopy): publishes again after a lost confirmation.
EnqueueTwice(a) ==
    /\ api[a].pc = "enqueue"
    /\ queue' = [queue EXCEPT ![api[a].job][0] = @ + 2]
    /\ ApiDone(a)
    /\ UNCHANGED <<dbVars, files, worker, faults, exhausted>>

Enqueue(a) ==
    /\ api[a].pc = "enqueue"
    /\ queue' = [queue EXCEPT ![api[a].job][0] = @ + 1]
    /\ ApiDone(a)
    /\ UNCHANGED <<dbVars, files, worker, faults, exhausted>>

\* Mutant of RequestReindex (AtMostOneActiveJob): no 409 check.
RequestReindexUnchecked(a, d) ==
    /\ DocExists(d)
    /\ JobIdLeft
    /\ Begin(a, "reChunks", d)
    /\ UNCHANGED <<dbVars, files, queue, worker, faults, exhausted>>

\* reindex: the 409 check, then chunks, document, audit and job in four commits.
RequestReindex(a, d) ==
    /\ DocExists(d)
    /\ NoIngestionInProgress(d)
    /\ JobIdLeft
    /\ Begin(a, "reChunks", d)
    /\ UNCHANGED <<dbVars, files, queue, worker, faults, exhausted>>

\* DELETE of the rows other transactions have committed, seen by the workers
\* that are replacing them.
DeleteChunks(a, next) ==
    LET d == api[a].doc IN
    /\ chunks' = [chunks EXCEPT ![d] = 0]
    /\ worker' = [x \in Workers |->
           IF ReplacingChunks(x, d)
           THEN [worker[x] EXCEPT !.clear = (worker[x].pc = "replInsert")]
           ELSE worker[x]]
    /\ ApiGoTo(a, next)
    /\ UNCHANGED <<docStatus, jobStatus, jobDoc, attempts, audit, files, queue, faults, exhausted>>

ReindexDeleteChunks(a) == api[a].pc = "reChunks" /\ DeleteChunks(a, "resetDoc")

ReindexResetDocument(a) ==
    LET d == api[a].doc IN
    /\ api[a].pc = "resetDoc"
    /\ IF DocExists(d)
       THEN docStatus' = [docStatus EXCEPT ![d] = "processing"] /\ ApiGoTo(a, "auditReindex")
       ELSE ApiDone(a) /\ UNCHANGED docStatus
    /\ UNCHANGED <<jobStatus, jobDoc, attempts, chunks, audit, files, queue, worker, faults, exhausted>>

AuditReindex(a) ==
    api[a].pc = "auditReindex" /\ (RecordAudit(a, "reindex", "createJob") \/ RefreshFails(a))

\* delete: chunks, jobs, audit and document in four commits, then the file.
RequestDelete(a, d) ==
    /\ DocExists(d)
    /\ Begin(a, "delChunks", d)
    /\ UNCHANGED <<dbVars, files, queue, worker, faults, exhausted>>

DeleteDocumentChunks(a) == api[a].pc = "delChunks" /\ DeleteChunks(a, "delJobs")

DeleteJobs(a) ==
    /\ api[a].pc = "delJobs"
    /\ jobStatus' = [j \in Jobs |-> IF j \in JobsOf(api[a].doc) THEN "deleted" ELSE jobStatus[j]]
    /\ ApiGoTo(a, "auditDelete")
    /\ UNCHANGED <<docStatus, jobDoc, attempts, chunks, audit, files, queue, worker, faults, exhausted>>

\* The metadata reads document.title, which raises if the row is gone.
AuditDelete(a) ==
    /\ api[a].pc = "auditDelete"
    /\ IF DocExists(api[a].doc)
       THEN RecordAudit(a, "deleted", "delDoc")
       ELSE ApiDone(a) /\ UNCHANGED <<dbVars, files, queue, worker, faults, exhausted>>

\* Mutant of DeleteDocument (RowHasFile): the file goes before the row.
DeleteDocumentAfterFile(a) ==
    LET d == api[a].doc IN
    /\ api[a].pc = "delDoc"
    /\ files' = files \ {d}
    /\ docStatus' = IF chunks[d] = 0 /\ JobsOf(d) = {}
                    THEN [docStatus EXCEPT ![d] = "deleted"] ELSE docStatus
    /\ ApiDone(a)
    /\ UNCHANGED <<jobStatus, jobDoc, attempts, chunks, audit, queue, worker, faults, exhausted>>

\* Mutant of DeleteDocument (DeletionIsComplete): chunk rows do not hold the document.
DeleteDocumentOverChunks(a) ==
    LET d == api[a].doc IN
    /\ api[a].pc = "delDoc"
    /\ IF JobsOf(d) = {}
       THEN docStatus' = [docStatus EXCEPT ![d] = "deleted"] /\ ApiGoTo(a, "delFile")
       ELSE ApiDone(a) /\ UNCHANGED docStatus
    /\ UNCHANGED <<jobStatus, jobDoc, attempts, chunks, audit, files, queue, worker, faults, exhausted>>

\* Mutant of DeleteDocument (NoOrphanFile): the file is not removed.
DeleteDocumentLeavingFile(a) ==
    LET d == api[a].doc IN
    /\ api[a].pc = "delDoc"
    /\ docStatus' = IF chunks[d] = 0 /\ JobsOf(d) = {}
                    THEN [docStatus EXCEPT ![d] = "deleted"] ELSE docStatus
    /\ ApiDone(a)
    /\ UNCHANGED <<jobStatus, jobDoc, attempts, chunks, audit, files, queue, worker, faults, exhausted>>

\* Rows of document_chunks or ingestion_jobs that came back since their deletion
\* hold the document by their foreign keys; a row already gone is no error.
DeleteDocument(a) ==
    LET d == api[a].doc IN
    /\ api[a].pc = "delDoc"
    /\ IF chunks[d] = 0 /\ JobsOf(d) = {}
       THEN docStatus' = [docStatus EXCEPT ![d] = "deleted"] /\ ApiGoTo(a, "delFile")
       ELSE ApiDone(a) /\ UNCHANGED docStatus
    /\ UNCHANGED <<jobStatus, jobDoc, attempts, chunks, audit, files, queue, worker, faults, exhausted>>

DeleteFile(a) ==
    /\ api[a].pc = "delFile"
    /\ files' = files \ {api[a].doc}
    /\ ApiDone(a)
    /\ UNCHANGED <<dbVars, queue, worker, faults, exhausted>>

ApiAborted(a) ==
    /\ api[a].pc # "idle"
    /\ Fault("api")
    /\ ApiDone(a)
    /\ UNCHANGED <<dbVars, files, queue, worker>>

EnqueueFails(a) ==
    /\ api[a].pc = "enqueue"
    /\ Fault("broker")
    /\ ApiDone(a)
    /\ UNCHANGED <<dbVars, files, queue, worker>>

-----------------------------------------------------------------------------

WorkerStep(w) ==
    \/ Receive(w) \/ LoadJob(w) \/ LoadDocument(w)
    \/ MarkJobProcessing(w) \/ MarkDocProcessing(w) \/ ReadAndEmbed(w)
    \/ ReplaceChunksDelete(w) \/ ReplaceChunksInsert(w) \/ ChunkStorageFails(w)
    \/ RefreshChunks(w) \/ CompleteJob(w) \/ IndexDocument(w)
    \/ FailIngestion(w) \/ RequestRetryOrFail(w) \/ FailIngestionByIds(w)
    \/ Acknowledge(w)

WorkerFault(w) == TaskAborted(w) \/ RepublishFails(w) \/ NodeLost(w)

ApiRequest(a) ==
    \E d \in Docs : SaveFile(a, d) \/ RequestReindex(a, d) \/ RequestDelete(a, d)

ApiStep(a) ==
    \/ CreateDocument(a) \/ AuditUpload(a) \/ CreateJob(a) \/ Enqueue(a)
    \/ ReindexDeleteChunks(a) \/ ReindexResetDocument(a) \/ AuditReindex(a)
    \/ DeleteDocumentChunks(a) \/ DeleteJobs(a) \/ AuditDelete(a)
    \/ DeleteDocument(a) \/ DeleteFile(a)

ApiFault(a) == ApiAborted(a) \/ EnqueueFails(a)

Next ==
    \/ \E w \in Workers : WorkerStep(w) \/ WorkerFault(w)
    \/ \E a \in ApiProcs : ApiRequest(a) \/ ApiStep(a) \/ ApiFault(a)

Spec == Init /\ [][Next]_vars

\* A worker that is up takes messages and runs its task to the end, an API
\* process finishes the request it has begun.  Clients owe nothing.
Fairness ==
    /\ \A w \in Workers : WF_vars(WorkerStep(w))
    /\ \A a \in ApiProcs : WF_vars(ApiStep(a))

FairSpec == Spec /\ Fairness
=============================================================================
