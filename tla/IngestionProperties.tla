------------------------ MODULE IngestionProperties ------------------------
(***************************************************************************)
(* What the ingestion pipeline should keep true.                           *)
(***************************************************************************)
EXTENDS IngestionPipeline

ApiOn(d) == \E a \in ApiProcs : api[a].doc = d

\* A copy of a message of job j: on the broker, taken by a worker that has not
\* acknowledged it, or about to be sent by the request that created the job.
OnQueue(j) == \E r \in Retries : queue[j][r] > 0
TakenBy(w, j) == worker[w].pc # "idle" /\ worker[w].job = j
BeingSentBy(a, j) == api[a].pc = "enqueue" /\ api[a].job = j
Carried(j) ==
    \/ OnQueue(j)
    \/ \E w \in Workers : TakenBy(w, j)
    \/ \E a \in ApiProcs : BeingSentBy(a, j)

-----------------------------------------------------------------------------
(* Safety                                                                  *)

\* upload stores the file before it commits the row and delete removes it after:
\* whatever fails in between, a document row never lacks the file that ingestion
\* and reindex read.
RowHasFile == \A d \in Docs : DocExists(d) => d \in files

\* The 409 check of reindex keeps two ingestions of one document apart, though
\* the check and the job it protects are four commits away from each other.
AtMostOneActiveJob ==
    \A j, k \in Jobs :
        /\ jobStatus[j] \in ActiveJob /\ jobStatus[k] \in ActiveJob
        /\ jobDoc[j] = jobDoc[k]
        => j = k

\* A document shown as failed has a failed latest job, the one whose error the
\* detail view prints: no run of an older job, no broken request and no lost
\* message leaves the failure of one job on a document that has moved on.
FailedDocHasFailedJob ==
    \A d \in Docs, j \in Jobs :
        docStatus[d] = "failed" /\ IsLatest(j, d) => jobStatus[j] = "failed"

\* A deleted document leaves no chunks and no jobs behind, and its deletion was
\* audited, whichever run or request was in flight.
DeletionIsComplete ==
    \A d \in Docs : docStatus[d] = "deleted" =>
        chunks[d] = 0 /\ JobsOf(d) = {} /\ <<"deleted", d>> \in audit

\* A pending job has one message: no worker, queue or request holds a second copy
\* that would start it twice.  Copies multiply only once it is processing.
NoSecondCopy(j) ==
    /\ \A r \in Retries : queue[j][r] <= IF r = 0 THEN 1 ELSE 0
    /\ \A w, x \in Workers : TakenBy(w, j) /\ TakenBy(x, j) => w = x
    /\ \A w \in Workers : TakenBy(w, j) => worker[w].retries = 0
    /\ OnQueue(j) => \A w \in Workers : ~TakenBy(w, j)
    /\ \A a \in ApiProcs : BeingSentBy(a, j) =>
          ~OnQueue(j) /\ \A w \in Workers : ~TakenBy(w, j)
    /\ \A a, b \in ApiProcs : BeingSentBy(a, j) /\ BeingSentBy(b, j) => a = b

PendingHasOneCopy == \A j \in Jobs : jobStatus[j] = "pending" => NoSecondCopy(j)

\* The document of j holds the chunks of another job: a run that outlived its job
\* (a duplicated message, or a deletion that failed half way) wrote them.  The code
\* inserts and is refused, where docs/10:105 and :143 speak of an upsert.
StaleContent(j) == chunks[jobDoc[j]] \notin {0, j}

\* A run of j had its last retry behind it.  (attempt_count does not tell: two runs that
\* load the same count write the same one, so that it may even fall.)
Exhausted(j) == j \in exhausted

\* An unfinished job has a message that will bring a worker to it: a lost worker
\* node gives its message back, a retry is published before its predecessor is
\* acknowledged.  The only other unfinished jobs are those whose retries are
\* exhausted, and those whose chunks the database refused because the chunks of a
\* stale run were there first.
ActiveJobIsCarried ==
    \A j \in Jobs :
        jobStatus[j] \in ActiveJob =>
            Carried(j) \/ Exhausted(j) \/ StaleContent(j) \/ ApiOn(jobDoc[j])

\* When the latest job of a document has completed and no request is at work on
\* the document, retrieval finds chunks of it.
CompletedJobIsServed ==
    \A d \in Docs, j \in Jobs :
        IsLatest(j, d) /\ jobStatus[j] = "completed" /\ ~ApiOn(d) => chunks[d] # 0

\* Why RowHasFile holds: a request that is about to insert the row has stored the
\* file and works on the document alone, and one that is about to remove the file
\* has deleted the row, for good.
FileInv ==
    /\ RowHasFile
    /\ \A a \in ApiProcs : api[a].pc = "createDoc" =>
          /\ docStatus[api[a].doc] = "unborn" /\ api[a].doc \in files
          /\ \A b \in ApiProcs : api[b].doc = api[a].doc => b = a
    /\ \A a \in ApiProcs : api[a].pc = "delFile" => docStatus[api[a].doc] = "deleted"

\* A stored file belongs to a document row or to a request that is at work on it.
NoOrphanFile == \A d \in files : DocExists(d) \/ ApiOn(d)

\* Why NoOrphanFile holds where no request is aborted: the only requests that leave
\* a file without a row are those about to insert the row, or to remove the file.
OrphanInv ==
    \A d \in files :
        DocExists(d) \/ \E a \in ApiProcs : api[a].pc \in {"createDoc", "delFile"} /\ api[a].doc = d

\* Why DeletionIsComplete holds: the audit row is there before the document row goes.
DeletionInv ==
    /\ DeletionIsComplete
    /\ \A a \in ApiProcs : api[a].pc = "delDoc" => <<"deleted", api[a].doc>> \in audit

\* Why the pipeline implements the corpus: chunk rows, and the requests that delete
\* rows, are of documents that have been created.
CorpusInv ==
    /\ \A d \in Docs : docStatus[d] = "unborn" => chunks[d] = 0
    /\ \A a \in ApiProcs : api[a].pc \in ReindexPC \cup DeletePC => docStatus[api[a].doc] # "unborn"

\* A job is attempted at most once per retry and once more, each time again for
\* every fault that may have duplicated its message.
AttemptsBounded == \A j \in Jobs : attempts[j] <= (MaxRetries + 1) * (1 + faults)

-----------------------------------------------------------------------------
(* The inductive invariants: OneCopyInv, behind SettledStaysSettled, and   *)
(* OneJobInv, behind AtMostOneActiveJob with one API process.              *)

\* A process that is not idle works on a job, or a document, of the system.
BusyIsPlaced ==
    /\ \A w \in Workers : worker[w].pc # "idle" => worker[w].job \in Jobs
    /\ \A a \in ApiProcs : api[a].pc # "idle" => api[a].doc \in Docs
    /\ \A a \in ApiProcs : api[a].pc = "enqueue" => api[a].job \in Jobs

\* Jobs are born in the order of their ids, for a document that has a row; until
\* then nothing refers to them.
BirthOrder ==
    /\ \A j, k \in Jobs : k < j /\ jobStatus[j] # "unborn" => jobStatus[k] # "unborn"
    /\ \A j \in Jobs : jobStatus[j] # "unborn" => jobDoc[j] \in Docs
    /\ \A j \in Jobs : jobDoc[j] # NoDoc =>
          jobStatus[j] # "unborn" /\ docStatus[jobDoc[j]] # "unborn"
    /\ \A j \in Jobs : jobStatus[j] = "unborn" =>
          /\ \A r \in Retries : queue[j][r] = 0
          /\ \A w \in Workers : ~TakenBy(w, j)
          /\ \A a \in ApiProcs : ~BeingSentBy(a, j)

\* A run past its first commit has a job that is no longer pending, and one that
\* loaded the job as pending is still the only one to know it.
StartedPC == WorkerPC \ {"idle", "loadJob", "loadDoc", "markJob", "ack"}
RunsAgree ==
    \A w \in Workers :
        LET j == worker[w].job IN
        /\ worker[w].pc \in StartedPC => jobStatus[j] # "pending"
        /\ worker[w].pc \in {"loadDoc", "markJob"} =>
              /\ worker[w].status \in ActiveJob
              /\ JobExists(j) => (worker[w].status = "pending" <=> jobStatus[j] = "pending")

OneCopyInv ==
    /\ TypeOK
    /\ BusyIsPlaced
    /\ BirthOrder
    /\ RunsAgree
    /\ PendingHasOneCopy

\* Only the latest job of a document is active, and none is while a request is
\* on its way to create the next.
ActiveIsLatest ==
    \A j, k \in Jobs :
        jobStatus[j] \in ActiveJob /\ JobExists(k) /\ jobDoc[k] = jobDoc[j] => k <= j
CreatingPC == UploadPC \cup ReindexPC \cup {"createJob"}
CreatorFindsNoneActive ==
    \A a \in ApiProcs, j \in Jobs :
        /\ api[a].pc \in CreatingPC /\ jobDoc[j] = api[a].doc
        => jobStatus[j] \notin ActiveJob

OneJobInv == OneCopyInv /\ ActiveIsLatest /\ CreatorFindsNoneActive

\* Why CompletedJobIsServed holds with one API process whose requests are not cut
\* short: a run that goes on to complete the latest job has its chunks stored, and a
\* request ends with a pending job that nobody has taken, or with no job at all.
Serving(w) == worker[w].pc = "complete" \/ (worker[w].pc = "refresh" /\ worker[w].clear)
RunsHaveChunks ==
    \A w \in Workers, d \in Docs :
        Serving(w) /\ IsLatest(worker[w].job, d) /\ ~ApiOn(d) => chunks[d] # 0
RequestsSettle ==
    \A a \in ApiProcs :
        /\ api[a].pc = "idle" => api[a].doc = NoDoc
        /\ api[a].pc \in CreatingPC \ {"createDoc"} => DocExists(api[a].doc)
        /\ api[a].pc \in {"auditDelete", "delDoc", "delFile"} => JobsOf(api[a].doc) = {}
        /\ api[a].pc = "enqueue" =>
              IsLatest(api[a].job, api[a].doc) /\ jobStatus[api[a].job] = "pending"

ServedInv == CompletedJobIsServed /\ RunsHaveChunks /\ RequestsSettle

\* The invariants behind the job lifecycle, with one API process and no lost node.
\* OneRun: a job has one message or one run or one request about to send it; a run
\* that only has its message to acknowledge does not count.
RunningBy(w, j) == worker[w].pc \notin {"idle", "ack"} /\ worker[w].job = j
OneRunOf(j) ==
    /\ \A w, x \in Workers : RunningBy(w, j) /\ RunningBy(x, j) => w = x
    /\ \A r, s \in Retries : queue[j][r] > 0 /\ queue[j][s] > 0 => r = s
    /\ \A r \in Retries : queue[j][r] <= 1
    /\ OnQueue(j) => \A w \in Workers : ~RunningBy(w, j)
    /\ \A a \in ApiProcs : BeingSentBy(a, j) =>
          ~OnQueue(j) /\ \A w \in Workers : ~RunningBy(w, j)
    /\ \A a, b \in ApiProcs : BeingSentBy(a, j) /\ BeingSentBy(b, j) => a = b
OneRun == \A j \in Jobs : OneRunOf(j)

\* Why ActiveJobIsCarried holds with one API process, where nothing but whole nodes is
\* lost.  A run whose INSERT will be refused may end without a word and does not count; a
\* run that has read a settled job, or goes on to index, has nothing left to settle.
Refused(w) == worker[w].pc = "replInsert" /\ ~worker[w].clear
CarriedOn(j) ==
    \/ OnQueue(j)
    \/ \E w \in Workers : RunningBy(w, j) /\ ~Refused(w)
    \/ \E a \in ApiProcs : BeingSentBy(a, j)
ActiveIsCarriedOn ==
    \A j \in Jobs :
        jobStatus[j] \in ActiveJob =>
            CarriedOn(j) \/ Exhausted(j) \/ StaleContent(j) \/ ApiOn(jobDoc[j])
SettledIsSettled ==
    \A w \in Workers :
        \/ worker[w].pc = "index"
        \/ worker[w].pc \in StartedPC /\ worker[w].status \in {"completed", "failed"}
        => jobStatus[worker[w].job] \notin ActiveJob
CarriedInv == ActiveIsCarriedOn /\ SettledIsSettled

\* The job of a run is the run's to settle, or its row is gone.
UnsettledPC == StartedPC \ {"index"}
RunsOwnJobs ==
    \A w \in Workers :
        LET j == worker[w].job IN
        /\ worker[w].pc \in {"loadDoc", "markJob"} => jobStatus[j] \in ActiveJob \cup {"deleted"}
        /\ worker[w].pc \in UnsettledPC =>
              jobStatus[j] \in {"processing", "deleted"} /\ worker[w].status # "failed"

\* The chunks a run has stored are still there, or withdrawn, or replaced by a run
\* whose job is deleted.
ServedOrGone(j) == \A k \in Jobs \ {j} : chunks[jobDoc[j]] = k => jobStatus[k] = "deleted"
RunsServe ==
    \A w \in Workers :
        worker[w].pc \in {"refresh", "complete"} =>
            jobStatus[worker[w].job] = "deleted" \/ ServedOrGone(worker[w].job)

LifecycleInv == OneJobInv /\ OneRun /\ RunsOwnJobs /\ RunsServe

\* Why FailedDocHasFailedJob holds there: a request that goes on to create a job has
\* a document that is not shown as failed.
FailedInv ==
    /\ FailedDocHasFailedJob
    /\ \A a \in ApiProcs :
          api[a].pc \in {"auditUpload", "auditReindex", "createJob"} => docStatus[api[a].doc] # "failed"

\* Why AttemptsBounded holds where no node is lost: a message of retry r has at most r
\* attempts behind it, and one more once its run has started.
UnstartedPC == {"loadJob", "loadDoc", "markJob"}
AttemptsInv ==
    /\ \A j \in Jobs :
          /\ attempts[j] <= MaxRetries + 1
          /\ jobStatus[j] = "unborn" => attempts[j] = 0
          /\ \A a \in ApiProcs : BeingSentBy(a, j) => attempts[j] = 0
          /\ \A r \in Retries : queue[j][r] > 0 => attempts[j] <= r
    /\ \A w \in Workers :
          LET j == worker[w].job
              r == worker[w].retries
          IN  /\ worker[w].pc \in UnstartedPC => attempts[j] <= r
              /\ worker[w].pc \in {"loadDoc", "markJob"} => worker[w].attempt <= r
              /\ worker[w].pc \in UnsettledPC => attempts[j] <= r + 1

-----------------------------------------------------------------------------
(* Action properties                                                       *)

\* A job that has completed or failed is never pending or processing again, even
\* when its message is delivered twice.
SettledStaysSettled ==
    [][\A j \in Jobs : jobStatus[j] \in {"completed", "failed"} => jobStatus'[j] \notin ActiveJob]_vars

\* The transitions listed in the docstring of DocumentStatus (a reindex of a
\* document whose upload broke before its job existed adds none).
StatusMachine ==
    {<<"uploaded", "processing">>, <<"processing", "indexed">>, <<"processing", "failed">>,
     <<"indexed", "processing">>, <<"failed", "processing">>}

StatusFollowsMachine ==
    [][\A d \in Docs : DocExists(d) /\ docStatus'[d] \in LiveDoc /\ docStatus'[d] # docStatus[d]
            => <<docStatus[d], docStatus'[d]>> \in StatusMachine]_vars

\* Completion leaves job and document together: once no run is between its two
\* last commits, a document whose latest job has completed is indexed.
CompletedJobIsIndexed ==
    \A d \in Docs, j \in Jobs :
        /\ IsLatest(j, d) /\ jobStatus[j] = "completed" /\ ~ApiOn(d)
        /\ \A w \in Workers : ~TakenBy(w, j)
        /\ ~OnQueue(j)
        => docStatus[d] = "indexed"

-----------------------------------------------------------------------------
(* Liveness and refinement                                                 *)

\* Every job that is created ends completed, failed or deleted, uses up its
\* retries, or loses to the chunks of a stale run.
EveryJobSettles ==
    \A j \in Jobs :
        jobStatus[j] = "pending" ~>
            jobStatus[j] \notin ActiveJob \/ Exhausted(j) \/ StaleContent(j)

\* docs/10: on retry exhaustion job and document become failed.
ExhaustedJobSettles ==
    \A j \in Jobs :
        (\E w \in Workers : TakenBy(w, j) /\ worker[w].pc = "retry"
                            /\ worker[w].retries = MaxRetries)
            ~> jobStatus[j] \notin ActiveJob

Lifecycle == INSTANCE JobLifecycle WITH
    status <- jobStatus, owner <- jobDoc, content <- chunks

\* With one API process and no duplicated message the pipeline implements the
\* job lifecycle.
ImplementsLifecycle == Lifecycle!LifecycleSpec

Corpus == INSTANCE KnowledgeBase WITH
    Documents <- Docs, Generations <- Jobs, documents <- docStatus, generation <- chunks

\* What retrieval, the agent's tools and RAG queries see of the pipeline is the
\* corpus they are modelled against: chunk rows change only as a whole, and never
\* together with the status of their document, so a reader may meet an indexed
\* document without chunks and the chunks of a document that is not indexed.
ImplementsCorpus == Corpus!KnowledgeBaseSpec
=============================================================================
