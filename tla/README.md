# A verification project for Citepath

Citepath answers questions about a team's documents. A FastAPI process stores
documents and serves questions and agent runs; a Celery worker turns each uploaded
document into embedded chunks in PostgreSQL; Redis carries the messages between them.
This directory holds TLA+ models of the code under `src/app`, the TLC runs that check
them on small instances, and proofs of the main results for instances of any size.

Run `tlc -config MC<X>.cfg MCIngestion.tla` (or `MCMembership.tla`, `MCServices.tla`) for a
model, `tlapm <M>Proofs.tla` for proofs.
`PROJECT.json` lists the runs, the code lines each definition stands for, the hazards,
the findings and, for each property, a change of the code that breaks it.

## 1. Inventory

| Component | State it keeps | Operations | Hard behaviour | Correct when |
|---|---|---|---|---|
| Document service (`modules/documents`) | `documents` rows, files, audit rows | upload, delete, reindex; list and detail read | each repository call commits alone, so a request is 4 to 6 commits and calls that may stop half way or interleave with a worker | a row has its file; a deletion is complete and audited; one unfinished job per document |
| Jobs and queue (`ingestion/service.py`, `job_repository.py`, `celery_app.py`) | `ingestion_jobs` rows, messages | create and enqueue; deliver, acknowledge late, retry, redeliver | a message lost, repeated, or late; a job without a message | a job is started once, settles once, and is never forgotten |
| Worker task (`ingestion/tasks.py`) | the session of a run | load, mark, read and embed, replace chunks, complete or fail, retry | deletion and reindex under a running task; two runs of one job; aborts between commits | a completed job is served; a failed document has a failed job |
| Chunk storage (`ingestion/repository.py`, `chunk_storage.py`) | `document_chunks` rows | delete; delete and insert; refresh | concurrent replacement decided by unique and foreign keys; a failed flush poisons the session | no chunks without a document; no mix of two runs |
| Storage (`infrastructure/storage`) | files | save, get, delete | not transactional with the database | see document service |
| Embedding batches and usage (`ingestion/embeddings.py`, `usage/service.py`) | usage rows in the open transaction | embed a batch, retry it once, log usage under a savepoint | which of several commits or rollbacks keeps the rows | a successful batch is accounted for |
| Chunker and extractors | none | text to chunks | limits, overlap, progress | size bound, order, nothing lost |
| Workspaces and permissions (`workspaces`, `api/deps.py`) | `workspace_members` rows | create, invite, change role, remove; context and role check before each handler | threads: check-then-act on owners, slugs and members; stale role in the context | always an owner; only owners make or unmake owners |
| Agent runs (`agents`) | `agent_runs`, `agent_tool_calls` | start: plan and tool loop, five tools, summary, audit, finish | step limit, timeout, exceptions no handler names, documents replaced under a tool | every run ends; record and audit agree; citations are evidence of the own workspace |
| RAG (`rag`, `retrieval`) | `conversations`, `messages` | ask: resolve, load history, add question, search, complete, add answer | failures between two messages; chunks replaced between two queries; order by the start of transactions | history in order; citations were in the prompt; conversations are private |
| Auth and rate limit | `users`; a deque per client | register, login | window edges; per-process counters | no more than the limit in a window |
| Admin, audit, usage queries | none of their own | read | none | |
| Heartbeat, health, metrics | one thread and one event | start, stop, probe | restart while the old thread lives | one heartbeat |
| Web client (`web/src`) | page state | request, apply the response, change workspace or page | a response that arrives after the workspace was changed | never shown in another workspace; nobody waits for nothing |

The components meet in the database (documents, jobs and chunks are written by API and
worker alike, chunks are read by questions and investigations), on the broker (one message
type, `process_ingestion_job`), and in the file storage. There are no callbacks.

Two facts about scheduling shape everything. The document, query and agent handlers are
`async def` and call synchronous code without awaiting, so one API process runs one such
request body at a time; workspace, auth and admin handlers are plain `def` and run on
threads. And no repository method leaves its commit to the caller, so that every step of a
request is visible to everybody else.

## 2. Modules

| Module | Content |
|---|---|
| `IngestionPipeline` | the model: document service, queue, worker task, chunk table, files, faults |
| `JobLifecycle` | what the pipeline promises about jobs, with no queue, worker or request in it |
| `IngestionProperties` | invariants, action properties, liveness, the refinement mapping, the inductive invariants |
| `MCIngestion` | instances for TLC |
| `IngestionProofs` | type correctness; rows have files; the effect of each process on runs, jobs and messages |
| `IngestionJobProofs` | one message per pending job; settled jobs stay settled; one unfinished job per document; deletions and files; the corpus; the job life cycle; failed documents; completed jobs; unfinished jobs; attempts |
| `WorkspaceMembership` | workspaces, members, the permission check before each handler, and its properties |
| `MCMembership` | instances for TLC |
| `MembershipProofs` | who may gain and lose ownership, for any number of requests; the last owner without overlap; role changes and their events |
| `KnowledgeBase` | documents and chunk rows as their readers see them; what the ingestion pipeline may do to them between two reads |
| `Retrieval` | the scoped search and the reads by id, against that corpus |
| `UsageLog` | usage rows of one session: logged under a savepoint, kept by a commit, lost when the session closes |
| `ToolBudget` | selection and batching of chunks within token budgets, as functions |
| `AgentRun` | one request to start an investigation: planning loop, executor, tools, summary, audit, run record |
| `InvestigationRun` | what a run promises to whoever polls it |
| `RagQuery` | concurrent questions: conversations, messages, retrieval, completion |
| `Chunker` | the chunker, as functions on sequences of tokens |
| `ChunkEmbedding` | a text is chunked, embedded batch by batch, and stored |
| `LoginLimiter` | the login rate limiter with its threads, lock and clock; registration |
| `WebClient` | one tab: page, active workspace, answers in flight |
| `Services` | composition of the seven before |
| `MCServices` | instances for TLC |
| `OperatorProofs` | lemmas on what the operators of `UsageLog`, `ToolBudget` and `Chunker` compute, for input of any length |
| `AgentRunProofs`, `RagQueryProofs`, `LoginLimiterProofs` | theorems about these modules |
| `ServicesProofs` | theorems about `WebClient`, `ChunkEmbedding` and the composition |

### How `IngestionPipeline` corresponds to the code

State. `docStatus`, `jobStatus`, `jobDoc`, `attempts` and `audit` are columns of the
tables; `chunks[d]` is the job whose run wrote the chunk rows of `d` (0 for none), which
is all that distinguishes two contents of the table. `files` is the storage backend.
`queue[j][r]` counts messages of job `j` carrying Celery retry count `r`. `worker[w]` is
the run a pool process executes: the label of its next commit, its message, the two columns
its session has loaded, and whether another transaction has got in the way of its chunk
transaction. `api[a]` is the request body an API process executes. `exhausted` is history:
the jobs of which some run found its last retry used; nothing in the actions reads it.

Steps. One action is one commit, storage call or broker call together with all the code
up to the next one. A label is named after the step it waits for:

* worker, `tasks.py:249-554`: `loadJob`, `loadDoc`, `markJob`, `markDoc`, `work` (checks,
  storage read, extraction, chunking, embedding, the commit at 507), `replDelete`,
  `replInsert`, `refresh` (`repository.py:72-103`), `complete` and `index`
  (`_complete_ingestion`), `fail` (`_fail_ingestion`), `retry`, `failByIds`, `ack`;
* upload: `SaveFile`, `createDoc`, `auditUpload`, `createJob`, `enqueue`;
* reindex: `RequestReindex` (lookup and 409 check), `reChunks`, `resetDoc`,
  `auditReindex`, `createJob`, `enqueue`;
* delete: `RequestDelete`, `delChunks`, `delJobs`, `auditDelete`, `delDoc`, `delFile`.

What SQLAlchemy and PostgreSQL do is part of the actions: an UPDATE of a row that is gone
raises; only columns that differ from the loaded ones are written; objects expire at a
commit, so reading one afterwards loads it again, and raises if it is gone; the refresh
after a commit raises likewise; a DELETE does not see rows another transaction has not
committed; foreign keys refuse the deletion of a document with rows and the insertion of
rows without a document; a failed flush leaves the session unusable until a rollback.

Celery and Redis are external and modelled from how they are configured and called.
With `task_acks_late` a message is forgotten when its task has returned or raised, also
when its process was killed or ran into the time limit (`TaskAborted`); when the whole
node is lost it is delivered again (`NodeLost`). `task.retry(exc=E)` publishes the same
call with one more retry, and raises `E` once the retries are used up. The constant
`ExhaustionHandled` adds the outcome the unit tests give their mock (raising
`MaxRetriesExceededError`), so that the handler written for it is checked as well.

Faults are counted in `faults`; `Faults` says which kinds an instance has.

`JobLifecycle` is the abstract specification. Its variables are the status and document of
each job and the served content; its steps are Create, Start, Publish, Settle, Withdraw,
Purge. `Lifecycle == INSTANCE JobLifecycle WITH status <- jobStatus, owner <- jobDoc,
content <- chunks` is the mapping. It demands that a job be created only when no other job
of its document is open, that only the job being processed publish, that jobs settle once,
and that none complete over the content of another.

### How `WorkspaceMembership` corresponds to the code

State. `slugOf` and `roleOf` are the tables `workspaces` and `workspace_members`;
`req[r]` is what a thread of FastAPI's pool executes, or the last answer it gave. `old` is
the local `old_role`, `loaded` the role attribute of the object that the request's session
holds, which a second SELECT of the same row gives back unchanged (identity map); `gone`
says that the row behind that object has been deleted. `changed` and `raced` are history:
nothing in the actions reads them.

Steps. One action is one SELECT or one commit with the code up to the next, at READ
COMMITTED. A request on members is `ManageMembers` (`deps.py:158-231`: membership, role
matrix, audited refusal; the role found is kept in `ctx` and never read again), then for an
invitation `CheckInvitee`, `InsertMember`, `Refresh`; for a role change `ReadTarget`,
`CountOwners` where an owner is to lose the role, `FetchMember`, `WriteRole`, `Refresh`,
`AuditRoleChange` (whose answer loads the member again and is a 500 if the row is gone, with
the event kept); a removal ends with `DeleteRow`. `Access` stands for every other route
of a workspace, of which only the check matters here. `RequestWorkspace` and
`CreateWorkspace` are the search for a slug and the insertion of workspace and owner.

What SQLAlchemy and PostgreSQL do is again part of the actions: an UPDATE is sent only if
the role differs from the one loaded, and raises if it matches no row; a DELETE that
matches none only warns; the refresh after a commit raises if the row is gone; unique keys
refuse a second membership (answered 409) and a second slug (flushed outside the `try`,
answered 500, not the 409 of `docs/06-api-design.md:92`); the foreign key of `audit_logs`
refuses the audit of a refusal for an id without workspace. `ProcessRestart` loses all
requests in flight.

The module shares no variable with `IngestionPipeline`: a document request resolves its
context as `Access` does and then changes other tables.

### How the readers correspond to the code

`KnowledgeBase` is at once the environment of `AgentRun` and `RagQuery` and an abstract
specification of `IngestionPipeline`: with `documents <- docStatus, generation <- chunks`
the pipeline implements it (`ImplementsCorpus`), so what a reader meets in the model is what
it may meet beside the real pipeline: an *indexed* document without chunks, chunks that are
replaced between two statements, a document that is deleted after its row was read.

`AgentRun` has one action for each provider call, read or commit of
`agents/service.py:start_investigation`, `orchestrator.py`, `tool_executor.py` and `tools/`.
`agentPc` is the step the request waits for; `run`, `toolCalls` and `runAudit` are rows;
`steps`, `observed` and `embedded` are the locals of the loop and the cache of the retrieval
service; `work` is the tool call in execution. A model's reply is chosen freely from what
`AgentPlanAction` parses (`ParsedPlan` is its normalisation), claims of sources are any
documents and chunks. `work.told` is what an output says of its input: that it was loaded in
part, that batches were dropped, nothing, or the fixed text of a summary that could not be
produced. `answer.limited` is the `max_steps_reached` the summary is told. `Breaks` is any
exception that neither `except` of the service names, or the death of the process: the
session closes. A chunk row is `<<document, generation, index>>`: ids are new at each
insertion, texts are not.

`RagQuery` has the requests of several API processes, since the handler never yields.
`clock` counts transactions: PostgreSQL's `now()`, the default of `created_at`, is the
start of the transaction that inserts, which is the refresh after the previous commit. A
model may name any chunks in its answer (`CompleteAnswer`); `BuildCitations` keeps those of
the context.

`UsageLog` is the part of the session that both, and the worker, share: `log_event` writes
under a savepoint and swallows its own failure; the next commit of the session, whatever it
is for, keeps the row; a session that is only closed loses it.

`ChunkEmbedding` opens the action `ReadAndEmbed` of the pipeline. In `Chunker`,
`chunk_extraction_result` is the code of that name, function by function (`ParagraphUnits`,
`HardSplit`, `FormatContent`, `OverlapSuffix`, `EmitChunk`, `AddUnit`), on sequences of
tokens that remember their place in the text, so that loss, repetition and order can be told.
`Decode` is the decoding of a slice of tokens (`_decode_tokens`): tokens that begin inside a
character (`Inside`, any set) belong to the character before, and where the slice has a part
of a character only, its tokens become U+FFFD (`Replacement`). One torn token counts as one
such character, which is a token again, and a token that ends one character and begins the
next counts with the first. Then one action per outcome of a batch, and the commit of
`tasks.py:507`.

`LoginLimiter` keeps the deque of one address as a log of all requests and the number
popped from its front. A thread reads the clock before it takes the lock; `MaxDelay` bounds
the wait in between, and the properties have it in their statement. A registration is a
search and an insertion, between which the unique key decides.

`WebClient` has the state that `ask/page.tsx`, `agent/page.tsx` and the dashboard hold, and
the requests in flight. An event and the effects of its render are one step, as in React;
`StartNewConversation` empties the thread of Ask (`ask/page.tsx:185-197`). `ShouldApply` is
`shouldApplyAskResponse` of `lib/ask/thread.ts` and its siblings for Agent and Admin; the
dashboard also drops what a later load has overtaken.

These parts share nothing but the corpus and `UsageLog`'s operators, so that a behaviour of
`Services` is a behaviour of one of them (`part`).

## 3. Runs

Deadlock is not checked in any of them: the system stops when no client asks for more.

| Run | Instance | Shows |
|---|---|---|
| `ingestion_faults` | 1 document, 2 workers, 1 API process, 2 jobs, 1 retry, 2 faults out of abort, broker, storage, api | types; a row has its file; a failed document has a failed latest job; deletions are complete; the jobs follow `JobLifecycle` |
| `ingestion_redelivery` | the same with one node loss, and `ExhaustionHandled` | a pending job has one message; one unfinished job; unfinished jobs are carried; completed jobs are served; no orphan files; attempts are bounded; settled jobs stay settled |
| `ingestion_liveness` | 1 worker, 2 jobs, one node loss, fair | every job settles, with two exceptions named in the property |
| `ingestion_exhausted` | 1 worker, no fault, fair | **violated**: a job whose retries are exhausted never becomes failed |
| `ingestion_replicas` | 2 API processes, no fault | **violated**: two reindexes pass the 409 check together |
| `ingestion_status_race` | 2 workers, no fault | **violated**: a reindex between the last two commits makes a document go from indexed to failed |
| `ingestion_half_done` | 1 worker, one node loss | **violated**: a completed job whose document stays processing |
| `membership` | 2 users, 2 requests in flight, 1 workspace id, 2 slugs, requests for owner, admin and member | the last owner falls only to a race; owners come from owners; admins spare owners; an ownerless workspace stays so; role changes are audited |
| `membership_last_owner` | the same | **violated**: two removals or demotions at once leave no owner |
| `services` | an investigation of 2 steps on 3 documents, one of which changes and one of which is foreign; 2 of 3 questions on the same, two of them of one user; 421 texts; 2 threads at the limiter; 2 registrations; one tab with 3 workspaces; fair investigations | audit and record of a run agree; citations are evidence; input left out is noted; the timeout is overrun by a bounded time; ended runs are accounted; questions, answers, citations and privacy of conversations; chunks cover the text, within their size, each with its own vector; batches are accounted; the limit of logins; sufficient Retry-After; one owner per account; the page follows the workspace; a run implements `InvestigationRun`, and ends |
| `agent_timeout` | the investigation alone, its timeout twice a provider call | **violated**: a run is completed after its timeout |
| `rag_usage` | the questions | **violated**: the usage row of a failed call is lost with its transaction |

Bounds. One document is enough because every action reads and writes rows of a single
document, and files and messages of it; documents meet only in the supply of workers and
API processes. Two workers are the `-c 2` of the deployment and let two runs of one job, or
of two jobs, overlap; two jobs are an upload and a reindex (the replicas run needs a
third). One retry instead of three reaches both sides of the limit. Two faults let a fault
hit the recovery from the first. Workers are symmetric; API processes are not many enough
to need it. The bound on jobs is in `JobIdLeft`, the bound on faults in `Fault`.

For the membership runs: every check is about one workspace and at most two members of it
(caller and target, who may be the same), and two requests are enough for one to come between
the steps of the other; a third would only repeat the part of the second. The workspace id is
unknown until a request creates it, so that both the known and the unknown id occur. A viewer
may do nothing in this model that a member may not, and is left out of the roles asked for
(`AskedRoles`); the proofs have all four. Users, requests and slugs are interchangeable in
the specification and in each property, so symmetry is sound, and no property there is a
liveness property.

For the run `services`: two steps of an investigation reach the step limit with one tool call
after another, and a timeout of half a provider call is passed by any call that takes time.
The summary of `d1` (three chunks of two tokens) needs three batches where two are completed,
and the comparison of `d1` and `d2` does not fit its prompt, so that both kinds of truncation
occur; one document changes, since a tool reads one after the other; two generations let a
replacement be told from the rows it replaced. A search returns at most two of the three
qualifying chunks. Of three questions, two by one user and one by another, any two are asked
(`MaxAsks`): two of one user, in one conversation or in two, one after the other or
interleaved, so that a question finds earlier ones in its prompt and two requests write into
one history; or two of different users, so that a foreign conversation is there to be
refused. All three at once have states by the million and add a third request to no property,
each of which speaks of one message or of a pair. Which unused id a new conversation gets
makes no difference, and the model takes one (`NewId`). The texts are all those of at most
two segments with at most two paragraphs of 1, 3 or 9 tokens or a heading, for chunks of 4
with an overlap of 2: a paragraph that fits, one that fits without overlap only, one that is
split in three. Six tokens begin inside a character (`InsideCharacters`), so that a cut of a
long paragraph, or the start of an overlap, falls into one of two tokens, of three, or into
none. The limiter admits two logins in four ticks, a thread waits for at most one tick, and
seven ticks are enough to fill the window, empty it and fill it again. Three workspaces, of
which two are administered, with four changes, let an answer come back one or two changes
late, and into the workspace it was asked from. `MaxTime`, `MaxSwitches`, `MaxLoads` and
`MaxThreads` bound what would grow for ever.

Fairness. Weak fairness for each worker's steps and each API process's steps: a worker that
is up takes messages and its task has a time limit; a request body is straight-line code.
Faults and client requests have none.
In `Services`, weak fairness for the steps of an investigation (`AgentWork`, neither its start
nor `Breaks`): the request is straight-line code on a thread of its own, a provider call
returns or runs into the client's timeout, and no lock is held between its statements.
`InvestigationEnds` then rests on the step limit: every loop records a call.

Exceptions. `ActiveJobIsCarried` and `EveryJobSettles` exempt two kinds of job by name.
`Exhausted`: a run of the job found its last retry used, the first finding. It is read from
the history variable and not from `attempt_count`, which does not count every worker start
(`docs/10-ingestion-pipeline.md:114`: "Increment on each worker start"): two runs that load
the same count write the same one, and it may even fall, so that a job whose retries are used
up need not show more than `MaxRetries` attempts. `StaleContent`: the chunks of a run that
outlived its job stand in the way of the INSERT, which fails permanently and leaves the job
processing; `docs/10-ingestion-pipeline.md:105` ("for idempotent upsert") and :143 ("Chunk
writes: upsert") say that chunks are upserted, and an upsert would not be refused. Without
the exemptions both properties fail by those causes. `AtMostOneActiveJob`,
`PendingHasOneCopy` and the refinement are checked with one API process, the deployment of
`docs/12-deployment-architecture.md`. `NoOrphanFile` is checked without API faults, since an
upload that fails after storing its file leaves it there. `LastOwnerFallsToARace` and
`AdminsSpareOwners` exempt a commit whose request was overtaken (`raced`): between its check
and its commit another request changed who owns the workspace. Without the exemption the
first fails as `membership_last_owner` does; the second when an admin's demotion of a member
is committed after an owner has promoted that member, which `docs/09` ("Admin cannot assign
or modify **Owner** role") does not foresee. `AuditMatchesRun` and `InvestigationEnds` admit
a request that broke off: its run stays *running* for ever, as nothing looks for such runs;
if it broke off between its last two commits the audit says what the run does not. (The
diagram of `docs/08`, lines 38-39, has the update of the run before the audit; the code
audits first.) `UnreadCitationsAreNoted` leaves out two outputs that do not say what they
left out although they cite all that was loaded: `compare_incidents`, which cuts off the end
of its prompt, and a summary for which no batch gave a usable part
(`summarize_document.py:115-116`), whose fixed text takes the place of the note. Neither
agrees with `AGENT-BATCH-002.md:64` ("noted in summarize output"). `CompletedWithinTimeout`
is what `docs/08` says of the timeout and is refuted by `agent_timeout`; `OverrunBounded` is
what the code keeps instead. `ChunksCoverDocument` exempts the tokens of a character that a
cut of a long paragraph falls into: neither slice has it whole, both decode to U+FFFD there,
and the character is lost (`Severed`); TLC refutes the property without this exemption. An
overlap that begins inside a character shows U+FFFD too, but the chunk before has the
character. `BatchesAccounted` leaves out the run that is retried, and
`QuestionsAnsweredUnlessFailed` the question that failed. `ChunkSizeBounded` has in its bound
what the code adds after it has measured. `ChangesAreAudited` exempts a target that was
removed and invited again between the two reads: `old_role` is then a role of the deleted
row, and a change may go without its event.

What properties do not say. `PendingHasOneCopy` and `AttemptsBounded` are upper bounds: a
pending job whose message could not be sent (`ingestion/service.py:34`) has no copy and stays
so, which `JobLifecycle` allows, and an attempt that the column does not count breaks
neither. A caller whose role was taken away after the check counts in the membership
properties as acting with the role it had. `EndedRunIsAccounted` speaks of the rows that
`log_event` wrote, not of those whose insertion failed and was swallowed.
`FailIngestionByIds` is reached only where `ExhaustionHandled` is TRUE; the Celery of the
repository never gets there (`ingestion_exhausted`).

Findings. The seven violated runs, `AtMostOneActiveJob` with two API processes among them, are
quoted against the repository's documents in `PROJECT.json`. One disagreement is in the model
and in no run: the refusal of a request for an id that no workspace has is audited before it
is answered, the foreign key of `audit_logs` (`001_initial_core_schema.py:525`) refuses the
row, and the answer is 500 (`TurnAway`), where `docs/implementation-notes/WS-002.md:29` and
`tests/api/test_workspace_context.py:154` have 403.

## 4. Proofs

Assumed: `NoDoc` is not a document; the three bounds are naturals; `Faults` is a set of
fault kinds and `ExhaustionHandled` a Boolean. `Docs`, `Workers` and `ApiProcs` are any
sets, infinite ones included.

* `TypeCorrect`: `TypeOK`, together with `BusyIsPlaced` (a busy process has a job or a
  document), because the type of the tables after a step depends on what it is indexed by.
* `RowsHaveFiles`: `RowHasFile` is not inductive: a `createDoc` step needs the file saved,
  and nobody else to remove it. `FileInv` adds that a request at `createDoc` is alone with
  a document that never had a row, and that one at `delFile` has deleted the row for good.
* The step lemmas of `IngestionProofs` (`WorkerStepEffect`, `ApiStepEffect`, ...) condense
  each of the 33 actions into one of a few effects on runs, messages and jobs. The theorems
  about jobs use only those.
* `OneCopyHolds`: `OneCopyInv` is inductive. `PendingHasOneCopy` alone is not: it needs
  that jobs are born in order and unreferenced before (`BirthOrder`), and that a run past
  its first commit has a job that is no longer pending, so that copies made by retries and
  node losses are copies of processing jobs, or replace the one copy there was
  (`RunsAgree`). `PendingJobsHaveOneCopy` and `SettledJobsStaySettled` follow; the latter
  rests on `RunsAgree` because a run writes *processing* only if it loaded *pending*, and
  then it has the only message.
* `OneActiveJob`: with exactly one API process. `OneJobInv` adds that only the latest job
  of a document is active and that none is while a request on that document is on its way
  to create the next. The second part is what the 409 check provides and what a second API
  process destroys (`ingestion_replicas`).

* Membership: `MembershipInv` is `MembershipTypeOK` and `Guarded` for every request.
  The type alone does not say why a commit is safe; `Guarded` says what each check leaves
  behind for the commit, that an admin's request has no owner as its target and makes none,
  and that a request taking an owner's role was not about the only one, as long as it is not
  `raced`. It is inductive because a commit of another request that could falsify it
  (`CommitStep`) sets `raced`. `MembershipTypeCorrect` is its first part;
  `ChangedByCommit` reduces every change of a role to a commit of its request, from which
  `LastOwnerTheorem`, `OwnershipTheorem` and `AdminsTheorem` follow. `StrandedTheorem` adds
  that a request acts for an owner only if its caller was one when it arrived.
  `RoleChangesAlwaysAudited` needs no more than `ChangeKnown`: a commit that
  changed the stored role leads to the refresh and the audit, and the comparison in between
  sees the change if the role first read was the one overwritten.
  `OneAtATime` assumes one slot: nobody is overtaken and `AlwaysAnOwner`, refuted by
  `membership_last_owner`, holds. Assumed: the names for nobody and nothing are no user,
  workspace or slug, and the roles asked for are roles. All sets may be infinite.

* Deletions: `DeletionInv` adds to `DeletionIsComplete` that the audit row is there before
  `delDoc`; rows cannot come back because both foreign keys need the document. Files:
  `OrphanInv` names the two places where a file has no row, just before `createDoc` and just
  before `delFile`; only an aborted request leaves them, so `NoFileIsOrphaned` assumes there
  are no API faults. Corpus: `CorpusInv` says that chunks and requests that delete
  rows are of documents that were created; with it `CorpusImplemented` maps each step of the
  pipeline to a commit of `KnowledgeBase` or to a stutter. This theorem is what lets agent and
  questions be verified without workers, queue and faults in the state.
* Life cycle: `LifecycleImplemented` maps each step of the pipeline to one of
  `JobLifecycle`, with one API process and no lost node. `LifecycleInv` adds to `OneJobInv`
  that a job is carried once, by a message, a run or the request about to send it
  (`OneRun`; a lost node redelivers and makes a second run, which could publish after the
  first has settled the job); that the job of a run before its last commit is open or its
  row is gone (`RunsOwnJobs`); and that the chunks a run has stored are still there when it
  completes, or withdrawn, or replaced by a run whose own job is deleted (`RunsServe`).
* Failed documents: `FailuresAgree`, under the same assumptions. A run writes both failures
  in one commit, the job's only if it has not read *failed* there: `RunsOwnJobs` says that it
  has not, and `OneJobInv` that the job, open until then, is the latest. `FailedInv` adds
  that a request on its way to create a job has reset the document before.
* Completed jobs: `CompletedJobsAreServed`, with one API process whose requests are not cut
  short, lost nodes included. `ServedInv` says that a run about to complete the latest job of
  a document has its chunks stored (`RunsHaveChunks`), and that a request ends with a pending
  job nobody has taken or with no job at all (`RequestsSettle`): between the two a reindex
  may have withdrawn the chunks of a completed job, and the property speaks of documents
  without a request.
* Unfinished jobs: `ActiveJobsAreCarried`, under the assumptions of completed jobs and from
  `OneJobInv`, `DeletionInv` and `ServedInv`. `CarriedInv` counts fewer copies than `Carried`
  (`CarriedOn`: no run that has only its message to acknowledge, none whose INSERT will be
  refused), because those end without touching the job, and adds that a run which has read a
  settled job, or goes on to index, has a settled job (`SettledIsSettled`), because its
  commit leaves the job as it is. `RunCarriesOn` goes through the steps of a run: unless it
  settles its job, a message of the job is left, the run goes on, or its retries are
  exhausted.
* Attempts: `AttemptsAlwaysBounded`, where no node is lost, for any number of API processes.
  `AttemptsInv` counts against the retry number of the one message of a job (`OneRun`).
  `AttemptsBoundedUnderFaults` assumes nothing: copies of a message multiply, so it sums over
  them. `AttemptsLeft(j)` is what the copies of job `j` still allow: `MaxRetries + 1 - r` for
  a message with retry `r` and for a run that has not counted its attempt, one less for a run
  that has. The sum is the size of a set of pairs of a copy and an attempt it allows, so that
  it changes by the change of one copy (`Restake`). A worker step never adds to it and takes
  one away when it counts an attempt (`AttemptsLeftWorker`); only a lost node adds, at most
  `MaxRetries + 1`, and that is a fault. `AttemptsAllowed` bounds by it the attempts a job
  has and those a run has loaded and is about to write over them, which two runs of one job
  may do with the same number.
* Investigations: `AgentInv` is the type and, by the step the request waits for, what the
  tool call in execution may cite and name (`WorkPlaced`), the record (`RunPlaced`), the rows
  logged and counted (`StepsCounted`), the audit (`AuditPlaced`), the usage rows
  (`UsagePlaced`), and that the loop has observed just what the logged calls cite
  (`EvidencePlaced`). None of the properties is inductive without the step: that a run ends
  with its audit is a fact about what each of the last four commits may find.
  `InvestigationImplemented` maps each action to a step of `InvestigationRun`; that no
  more than `MaxSteps` calls are logged is part of it, and that the summary is told of the
  limit just when that many are. It counts because `steps` is
  compared before a call and an unknown tool ends the loop.
* Questions: `RagInv` ties each request's step to the messages it has left (`AskSaved`),
  its context (`ContextOK`) and its conversation (`AskOwned`). Order rests on two facts: the
  open transaction of a session has saved no message yet (`AskFresh`), and no two open
  transactions started at once (`SessionsApart`).
* Limiter: `LimiterInv` says that a request is recorded at most `MaxDelay` after its timestamp
  was read, that what has left the deque has left the window, and that a refused client was
  told to come back no earlier than the entry expires. `PoppingStops` finds the number of
  popped entries as a least element of a set of naturals, which makes the CHOOSE of
  `PoppedAt` proper. The theorems hold for any limit, window, delay and number of threads.
* Client: `WebInv` says that Ask and Agent wait for at most one answer, that this answer
  continues the thread shown or finds an empty page, and that a load of the current
  generation is of the active workspace and was asked for since it was selected.
* Operators: the functions of `ToolBudget` and `Chunker` are folds, and a result about a
  fold is an induction over the elements read so far. The library's induction theorems take
  an operator, which the provers cannot instantiate; `Ladder` has a set of naturals in its
  place, and a predicate is used as the set of indices it holds at. `FoldExists` shows by it
  that the recursive function behind `FoldLeft` exists, and `WalkExists` gives the sequence of
  values a fold passes through (`Walk`), about which every further lemma speaks.
* Budgets: `BudgetInv`, added to `AgentInv`. `ClockPlaced` bounds the elapsed time at each
  step by the provider calls made since the last look at the clock; `BatchesFit`
  bounds the batches still to complete, which `OverrunAlwaysBounded` needs because a summary
  is up to `MaxSummaryBatches` calls; `ReadingFits` says that the chunks a tool has read and
  those in the batches left are all it cites, unless it says otherwise. They rest on
  `SelectedWithin` (what the selection takes is within the budget) and `BatchesHoldAll` (the
  batches hold every chunk).
* Chunks: `ChunkSizeAlwaysBounded` and `ChunksAlwaysCoverDocument` follow from
  `ChunksOfDocument`, for every document and setting. It goes function by function: the units
  are the tokens of the document in order, those of severed characters aside (`SplitInOrder`,
  from `Division` for the slices of a long paragraph, `Sliced` for what decoding leaves of
  them, and `Flattened` for the paragraphs of all segments); a chunk of units is what they
  and the overlap are, and so long (`Formatted`); and along the fold `ChunksHold` is
  invariant: the chunks so far and the units collected hold all the units read, and the
  overlap is the end of the last chunk.
* Embedding: `TextInv` says that the chunks are those of the text once there are any, and
  that the vectors are those of the batches behind, in their places, from which
  `EmbeddingsAlwaysMatchChunks` follows. `BatchesAlwaysAccounted` rests on `TextRowsKept`:
  rows are lost only when a retry closes the session, and a run that has stored its chunks
  or failed has committed last.
* `ServicesTypeCorrect` collects the types of the parts.
* `PartsAreSpecified`: `Spec` of `Services`, whose runs TLC checks, implies `AgentSpec`,
  `RagSpec`, `LoginSpec` and `WebSpec`, about which the theorems are.

Assumed in these: the named assumptions of each module (limits are positive naturals,
documents have a workspace and at least one chunk, names for nobody are nobody), and
nothing about the sizes of sets, `AllChunks` excepted.

Model-checked only: liveness (`EveryJobSettles`, `InvestigationEnds`), which is out of the
prover's reach.

## 5. Not modelled

Text, vectors, titles, error messages and their truncation; validation of uploads, which
writes nothing; the countdown of a retry, a message being takeable at any time; metrics,
heartbeat, health checks and logs; the database being down for good. The context and
permission check of a document request happen before its body (`Access` of the workspace
module). Tokens, the user lookup, password hashing, and the text and format of slugs.
`seed_demo`, which runs the task in its own process, is a worker without a queue;
migrations give the keys that the models use.

Extraction of text is a library's work per file type; its result is the input of
`Chunker`. Token boundaries that move when texts are joined are left out there, and
the metadata of a chunk but for its section. Scores are abstracted to whether they reach the
threshold. The adapters of the LLM providers only translate arguments and exceptions.

The Documents page of the client (`documents/page.tsx:67`) applies the answer to a list
request without comparing the workspace; it is listed as a hazard without a property. The
guards of Ask and Agent compare the workspace only, not the request: an answer that comes
after the user has gone to another workspace and back is shown, which the model has
(`PageFollowsWorkspace` asks for the right workspace, and for the right load on the dashboard
only). Dismissing the banner of an error is left out. A registration whose process dies after
the commit and before the answer is not modelled. A search for a free slug that two requests
make at once fails on the unique key (`RequestWorkspace`, `CreateWorkspace` have it) and no
property is about it.

## 6. Plan

The order was that of what can go wrong most: pipeline, membership, investigations,
questions, chunks, limiter, client. What is left:

1. theorems under weaker assumptions: `ActiveJobsAreCarried` and `CompletedJobsAreServed`
   for requests that are cut short, where the code leaves exceptions to name first;
2. a property of the Documents page and one of the search for slugs.
