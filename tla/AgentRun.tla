------------------------------ MODULE AgentRun ------------------------------
(***************************************************************************)
(* One request to start an investigation, from the insertion of its        *)
(* agent_runs row to the end of the request: the planning loop of the      *)
(* orchestrator, the tool executor and its five tools, the final summary,  *)
(* the audit row and the run record, with the usage rows of every provider *)
(* call.  The corpus changes between any two of its reads.                 *)
(*                                                                         *)
(* A step is one provider call, one read of the database or one commit,    *)
(* with everything the code does up to the next.  What a model answers is  *)
(* a nondeterministic choice: it may fail, be unusable, ask for anything   *)
(* and claim any source.  Prompts, texts and previews are left out.        *)
(***************************************************************************)
EXTENDS Retrieval, UsageLog, ToolBudget

CONSTANTS
    CallerWorkspace,
    MaxSteps,            \* MAX_AGENT_STEPS
    RunTimeout,          \* RUN_TIMEOUT_SECONDS
    CallTime,            \* the longest a provider call lasts
    MaxToolInput,        \* MAX_TOOL_INPUT_TOKENS
    MaxSummaryBatches,
    Comparisons,         \* the document lists that compare_incidents is given
    Filters              \* the sets of documents that search filters let through

ASSUME AgentAssumption ==
    /\ MaxSteps \in Nat \ {0} /\ RunTimeout \in Nat /\ CallTime \in Nat
    /\ MaxToolInput \in Nat \ {0} /\ MaxSummaryBatches \in Nat \ {0}
    /\ Comparisons \subseteq Seq(Documents)
    /\ Filters \subseteq SUBSET Documents

VARIABLES
    agentPc,      \* what the request does next
    run,          \* status and step_count of the agent_runs row
    toolCalls,    \* agent_tool_calls of the run: how many, and all they cite
    runAudit,     \* the statuses of its agent.run_completed audit rows
    elapsed,      \* time since the run started
    steps,        \* steps_taken
    observed,     \* aggregated_citations
    embedded,     \* queries in the embedding cache of the retrieval service
    work,         \* the tool call in execution
    answer,       \* citations and related documents of the final summary, and max_steps_reached
    agentUsage    \* usage rows of the session

rowVars == <<run, toolCalls, runAudit>>
loopVars == <<steps, observed, embedded>>
agentVars == <<agentPc, rowVars, elapsed, loopVars, work, answer, agentUsage>>

SearchTools == {"search_knowledge_base", "suggest_debugging_steps"}
DocumentTools == {"summarize_document", "extract_action_items"}
Tools == SearchTools \cup DocumentTools \cup {"compare_incidents"}

AgentPC == {"idle", "plan", "unknownTool", "embed", "search", "readDocument",
            "readChunks", "complete", "merge", "record", "summary", "audit",
            "update", "auditFailure", "updateFailure", "over", "broken"}
EndPC == {"idle", "over", "broken"}

\* query, filter, todo: what is still to read.  loaded: the chunks in hand, in
\* order.  batches: the prompts still to complete, as sets of chunks; read: the
\* chunks of the completed ones.  cites, sources, told: the output: its
\* citations, what it names as sources, and what it says of its input: nothing,
\* as if "all" of it was used; that it was "loaded in part", in its field
\* truncated; that batches of it were "dropped", in a note below the summary; that
\* no summary came of it; or that the tool failed.
NoWork == [tool |-> "none", query |-> {}, filter |-> {}, todo |-> <<>>,
           loaded |-> <<>>, batches |-> <<>>, partials |-> 0, read |-> {},
           cites |-> {}, sources |-> {}, told |-> "all"]

\* The outputs that say that their input was truncated.
Truncated == {"loaded in part", "dropped"}

\* limited: whether the summary was told that the steps ran out.
NoAnswer == [citations |-> {}, related |-> {}, limited |-> FALSE]

AgentTypeOK ==
    /\ agentPc \in AgentPC
    /\ run \in [status : {"none", "running", "completed", "failed"},
                stepCount : {-1} \cup Nat]
    /\ toolCalls \in [rows : Nat, cites : SUBSET AllChunks]
    /\ runAudit \subseteq {"completed", "failed"}
    /\ elapsed \in Nat /\ steps \in Nat
    /\ observed \subseteq AllChunks
    /\ embedded \subseteq Queries
    /\ work.tool \in Tools \cup {"none"}
    /\ work.cites \subseteq AllChunks
    /\ answer \in [citations : SUBSET AllChunks, related : SUBSET Documents, limited : BOOLEAN]
    /\ agentUsage \in Account

AgentInit ==
    /\ agentPc = "idle"
    /\ run = [status |-> "none", stepCount |-> -1]
    /\ toolCalls = [rows |-> 0, cites |-> {}]
    /\ runAudit = {}
    /\ elapsed = 0 /\ steps = 0
    /\ observed = {} /\ embedded = {}
    /\ work = NoWork /\ answer = NoAnswer /\ agentUsage = NewAccount

-----------------------------------------------------------------------------
(* Provider calls and commits                                              *)

\* A call takes its time and leaves a usage row, whether it succeeds or fails.
ProviderCall(op) ==
    /\ elapsed' \in {elapsed, elapsed + CallTime}
    /\ agentUsage' \in LogEvent(agentUsage, op)

complete_agent_step == ProviderCall("agent_step")

\* Mutant of CommitUsage (EndedRunIsAccounted): the repository only flushes.
FlushUsage == UNCHANGED agentUsage

CommitUsage == agentUsage' = Committed(agentUsage)

Proceed(pc) == agentPc' = pc

\* The run is created by a commit of its own, after the conversation the request
\* names, if any, was found to be the caller's.
StartInvestigation ==
    /\ agentPc = "idle"
    /\ Proceed("plan")
    /\ run' = [run EXCEPT !.status = "running"]
    /\ CommitUsage
    /\ UNCHANGED <<toolCalls, runAudit, elapsed, loopVars, work, answer>>

-----------------------------------------------------------------------------
(* The planning loop                                                       *)

\* Mutant of StepLeft (ImplementsInvestigation): one step too many.
StepLeftInclusive == steps <= MaxSteps

StepLeft == steps < MaxSteps

\* Mutant of InTime (OverrunBounded): the clock is not looked at.
NoClock == TRUE

InTime == elapsed <= RunTimeout

\* The loop is over: the summary is made whatever the time.
StepLimitReached ==
    /\ agentPc = "plan" /\ ~StepLeft
    /\ Proceed("summary")
    /\ UNCHANGED <<rowVars, elapsed, loopVars, work, answer, agentUsage>>

TimeoutExceeded ==
    /\ agentPc = "plan" /\ StepLeft /\ ~InTime
    /\ Proceed("auditFailure")
    /\ UNCHANGED <<rowVars, elapsed, loopVars, work, answer, agentUsage>>

Planning ==
    /\ agentPc = "plan" /\ StepLeft /\ InTime
    /\ complete_agent_step
    /\ UNCHANGED <<rowVars, loopVars, answer>>

\* What a model may reply, as action and tool_name.
Replies == [action : {"call_tool", "finish", "unregistered"} \cup Tools,
            tool : Tools \cup {"unregistered", "none"}]

\* AgentPlanAction reads a tool name in the place of the action as a call of it.
ParsedPlan(reply) ==
    IF reply.action \in {"call_tool", "finish"} THEN reply
    ELSE [action |-> "call_tool",
          tool |-> IF reply.tool = "none" THEN reply.action ELSE reply.tool]

Plans == {ParsedPlan(reply) : reply \in Replies}

\* The call fails or its reply is no plan: AgentCompletionError; a call of no
\* tool: AgentOrchestrationError.  Both end the run as failed.
NoUsablePlan ==
    /\ Planning
    /\ Proceed("auditFailure")
    /\ UNCHANGED work

PlanFinish ==
    /\ Planning
    /\ \E plan \in Plans : plan.action = "finish"
    /\ Proceed("summary")
    /\ UNCHANGED work

PlanUnknownTool ==
    /\ Planning
    /\ \E plan \in Plans : plan.action = "call_tool" /\ plan.tool = "unregistered"
    /\ Proceed("unknownTool")
    /\ UNCHANGED work

\* The failed call is on record before UnknownToolError ends the run.
RecordUnknownTool ==
    /\ agentPc = "unknownTool"
    /\ toolCalls' = [toolCalls EXCEPT !.rows = @ + 1]
    /\ CommitUsage
    /\ Proceed("auditFailure")
    /\ UNCHANGED <<run, runAudit, elapsed, loopVars, work, answer>>

-----------------------------------------------------------------------------
(* The tool executor                                                       *)

\* Mutant of CallToolInvalidly (ServicesTypeOK): a tool that is not registered is called.
CallUnregistered ==
    /\ Planning
    /\ \E plan \in Plans : plan.action = "call_tool" /\ plan.tool = "unregistered"
    /\ Proceed("record")
    /\ work' = [NoWork EXCEPT !.tool = "unregistered"]

\* Arguments that do not validate give an output without citations.
CallToolInvalidly ==
    /\ Planning
    /\ \E plan \in Plans : plan.action = "call_tool" /\ plan.tool \in Tools
    /\ Proceed("record")
    /\ work' = NoWork

\* A query that the retrieval service has embedded before is not embedded again.
CallSearchTool(tool, q, filter) ==
    /\ Planning
    /\ \E plan \in Plans : plan.action = "call_tool" /\ plan.tool = tool
    /\ tool = "suggest_debugging_steps" => filter = Documents
    /\ Proceed(IF q \in embedded THEN "search" ELSE "embed")
    /\ work' = [NoWork EXCEPT !.tool = tool, !.query = {q}, !.filter = filter]

CallDocumentTool(tool, documentIds) ==
    /\ Planning
    /\ \E plan \in Plans : plan.action = "call_tool" /\ plan.tool = tool
    /\ Proceed("readDocument")
    /\ work' = [NoWork EXCEPT !.tool = tool, !.todo = documentIds]

CallTool ==
    \/ \E tool \in SearchTools, q \in Queries, filter \in Filters \cup {Documents} :
          CallSearchTool(tool, q, filter)
    \/ \E tool \in DocumentTools, d \in Documents : CallDocumentTool(tool, <<d>>)
    \/ \E ids \in Comparisons : CallDocumentTool("compare_incidents", ids)

\* What is left of the tool call when its output is made.
Output(w) == [w EXCEPT !.query = {}, !.filter = {}, !.todo = <<>>, !.loaded = <<>>,
                       !.batches = <<>>, !.partials = 0]

\* An exception in a tool, or a document it may not use, is an output without
\* citations like any other: the run goes on.
FailedOutput == [NoWork EXCEPT !.tool = work.tool, !.told = "failed"]

\* Mutant of RecordToolCall (CitationsAreEvidence): only a search is logged with its
\* citations.
RecordSearchesOnly ==
    /\ agentPc = "record"
    /\ toolCalls' = [toolCalls EXCEPT !.rows = @ + 1,
                                      !.cites = IF work.tool \in SearchTools THEN @ \cup work.cites ELSE @]
    /\ observed' = observed \cup work.cites
    /\ steps' = steps + 1
    /\ work' = NoWork
    /\ CommitUsage
    /\ Proceed("plan")
    /\ UNCHANGED <<run, runAudit, elapsed, embedded, answer>>

\* Mutant of RecordToolCall (InvestigationEnds): a call without evidence is not counted.
RecordEvidenceOnly ==
    /\ agentPc = "record"
    /\ toolCalls' = [rows |-> toolCalls.rows + (IF work.cites = {} THEN 0 ELSE 1),
                     cites |-> toolCalls.cites \cup work.cites]
    /\ observed' = observed \cup work.cites
    /\ steps' = steps + (IF work.cites = {} THEN 0 ELSE 1)
    /\ work' = NoWork
    /\ CommitUsage
    /\ Proceed("plan")
    /\ UNCHANGED <<run, runAudit, elapsed, embedded, answer>>

\* The row is committed, and the usage rows of the step with it; then the loop
\* adds the output to what it has observed.
RecordToolCall ==
    /\ agentPc = "record"
    /\ toolCalls' = [rows |-> toolCalls.rows + 1, cites |-> toolCalls.cites \cup work.cites]
    /\ observed' = observed \cup work.cites
    /\ steps' = steps + 1
    /\ work' = NoWork
    /\ CommitUsage
    /\ Proceed("plan")
    /\ UNCHANGED <<run, runAudit, elapsed, embedded, answer>>

-----------------------------------------------------------------------------
(* search_knowledge_base and suggest_debugging_steps                       *)

EmbedQuery ==
    /\ agentPc = "embed"
    /\ ProviderCall("embedding_query")
    /\ embedded' = embedded \cup work.query
    /\ Proceed("search")
    /\ UNCHANGED <<rowVars, steps, observed, work, answer>>

EmbeddingFails ==
    /\ agentPc = "embed"
    /\ ProviderCall("embedding_query")
    /\ work' = FailedOutput
    /\ Proceed("record")
    /\ UNCHANGED <<rowVars, loopVars, answer>>

\* The matches are the citations, and their previews the content.
SearchKnowledgeBase ==
    /\ agentPc = "search" /\ work.tool = "search_knowledge_base"
    /\ \E q \in work.query : \E matches \in RetrievedChunks(q, CallerWorkspace, work.filter) :
          work' = Output([work EXCEPT !.cites = matches, !.read = matches])
    /\ Proceed("record")
    /\ UNCHANGED <<rowVars, elapsed, loopVars, answer, agentUsage>>

\* Without a match there is nothing to ground a step on, and no call.
SearchForSuggestions ==
    /\ agentPc = "search" /\ work.tool = "suggest_debugging_steps"
    /\ \E q \in work.query : \E matches \in RetrievedChunks(q, CallerWorkspace, work.filter) :
          IF matches = {}
          THEN work' = FailedOutput /\ Proceed("record")
          ELSE work' = [work EXCEPT !.cites = matches, !.batches = <<matches>>] /\ Proceed("complete")
    /\ UNCHANGED <<rowVars, elapsed, loopVars, answer, agentUsage>>

\* A step keeps the source the model names only if a citation is from it.
NormalizedSteps(claimed, allowed) == claimed \cap allowed

-----------------------------------------------------------------------------
(* summarize_document, extract_action_items and compare_incidents          *)

\* Another workspace's document and a missing one look the same.
DocumentUnavailable ==
    /\ agentPc = "readDocument"
    /\ VisibleStatus(CallerWorkspace, Head(work.todo)) # "indexed"
    /\ work' = FailedOutput
    /\ Proceed("record")
    /\ UNCHANGED <<rowVars, elapsed, loopVars, answer, agentUsage>>

ReadDocument ==
    /\ agentPc = "readDocument"
    /\ VisibleStatus(CallerWorkspace, Head(work.todo)) = "indexed"
    /\ Proceed("readChunks")
    /\ UNCHANGED <<rowVars, elapsed, loopVars, work, answer, agentUsage>>

\* The chunks went with a reindex or a deletion since the document row was read.
DocumentEmpty ==
    /\ agentPc = "readChunks"
    /\ list_chunks_for_document(CallerWorkspace, Head(work.todo)) = {}
    /\ work' = FailedOutput
    /\ Proceed("record")
    /\ UNCHANGED <<rowVars, elapsed, loopVars, answer, agentUsage>>

InputBudget(tool) ==
    CASE tool = "summarize_document" -> MaxToolInput * MaxSummaryBatches
      [] tool = "extract_action_items" -> MaxToolInput
      [] OTHER -> MaxToolInput \div 2

TokensOf(loaded) == [i \in DOMAIN loaded |-> ChunkTokens[DocumentOf(loaded[i])][IndexOf(loaded[i])]]
ChunksAt(loaded, S) == {loaded[i] : i \in S}

\* The chunks of a document that a tool loads, and the batches of a summary of it,
\* as sets of chunk indices.
LoadedCount == [tool \in Tools |->
    [d \in Documents |-> SelectedChunks(ChunkTokens[d], InputBudget(tool))]]
SummaryBatches == [d \in Documents |->
    PackIntoBatches(SubSeq(ChunkTokens[d], 1, LoadedCount["summarize_document"][d]), MaxToolInput)]

CompletedBatches(w) ==
    LET all == SummaryBatches[DocumentOf(w.loaded[1])]
    IN  SubSeq(all, 1, Min({Len(all), MaxSummaryBatches}))

BatchesOf(w) == [b \in DOMAIN CompletedBatches(w) |-> ChunksAt(w.loaded, CompletedBatches(w)[b])]

\* Mutant of SummarizeLoaded (UnreadCitationsAreNoted): dropped batches go unsaid.
SummarizeSilently(w) == [w EXCEPT !.batches = BatchesOf(w)]

\* One call per batch, for the first MaxSummaryBatches of them.
SummarizeLoaded(w) ==
    [w EXCEPT !.batches = BatchesOf(w),
              !.told = IF @ = "all" /\ Len(SummaryBatches[DocumentOf(w.loaded[1])]) > MaxSummaryBatches
                       THEN "dropped" ELSE @]

ExtractFromLoaded(w) == [w EXCEPT !.batches = <<ChunksAt(w.loaded, DOMAIN w.loaded)>>]

\* The documents go into one prompt, whose end is cut off when it is too long;
\* the output does not say so.
CompareLoaded(w) ==
    LET fitting == {i \in DOMAIN w.loaded : TokensUpTo(TokensOf(w.loaded), i) <= MaxToolInput}
    IN  [w EXCEPT !.batches = <<ChunksAt(w.loaded, fitting)>>]

Prompts(w) ==
    CASE w.tool = "summarize_document" -> SummarizeLoaded(w)
      [] w.tool = "extract_action_items" -> ExtractFromLoaded(w)
      [] OTHER -> CompareLoaded(w)

\* The chunks of one document, in order and within the tool's budget; all of them
\* are cited.
LoadChunks(w) ==
    LET d == Head(w.todo)
        n == LoadedCount[w.tool][d]
        rows == [i \in 1 .. n |-> <<d, generation[d], i>>]
    IN  [w EXCEPT !.todo = Tail(@), !.loaded = @ \o rows,
                  !.cites = @ \cup {rows[i] : i \in 1 .. n},
                  !.told = IF n < Len(ChunkTokens[d]) THEN "loaded in part" ELSE @]

ReadChunks ==
    /\ agentPc = "readChunks"
    /\ list_chunks_for_document(CallerWorkspace, Head(work.todo)) # {}
    /\ \E loaded \in {LoadChunks(work)} :
          IF loaded.todo # <<>>
           THEN work' = loaded /\ Proceed("readDocument")
           ELSE work' = Prompts(loaded) /\ Proceed("complete")
    /\ UNCHANGED <<rowVars, elapsed, loopVars, answer, agentUsage>>

\* Action items keep a source only if it is one of the loaded chunks.
NormalizedActionItems(claimed, allowed) == claimed \cap allowed

\* The sources a reply may leave in the output of the tool; the model may claim
\* any documents, and no chunk or every chunk.
SourcesKept(w) ==
    CASE w.tool = "suggest_debugging_steps" ->
           {NormalizedSteps(claimed, DocumentsOf(w.cites)) : claimed \in SUBSET Documents}
      [] w.tool = "extract_action_items" ->
           {NormalizedActionItems(claimed, w.cites) : claimed \in {{}, AllChunks}}
      [] OTHER -> {{}}

\* A batch is completed; a summary of it may come back empty.
CompleteBatch ==
    /\ agentPc = "complete" /\ Len(work.batches) > 1
    /\ complete_agent_step
    /\ \E produced \in {0, 1} :
          work' = [work EXCEPT !.batches = Tail(@), !.read = @ \cup Head(work.batches),
                               !.partials = @ + produced]
    /\ UNCHANGED <<agentPc, rowVars, loopVars, answer>>

\* Without a single partial summary a fixed text takes the place of the summary and of
\* the note below it; the field truncated stays.
Unsummarized(told) == IF told \in {"all", "dropped"} THEN "no summary" ELSE told

\* The last prompt of the tool is completed.
CompleteTool ==
    /\ agentPc = "complete" /\ Len(work.batches) = 1
    /\ complete_agent_step
    /\ \E produced \in {0, 1}, sources \in SourcesKept(work) :
          LET read == work.read \cup Head(work.batches)
              partials == work.partials + produced
              done == [work EXCEPT !.read = read, !.sources = sources,
                                   !.batches = <<>>, !.partials = partials]
          IN  IF work.tool = "summarize_document" /\ partials > 1
              THEN work' = done /\ Proceed("merge")
              ELSE /\ work' = Output([done EXCEPT !.told =
                         IF work.tool = "summarize_document" /\ partials = 0 THEN Unsummarized(@) ELSE @])
                   /\ Proceed("record")
    /\ UNCHANGED <<rowVars, loopVars, answer>>

MergePartialSummaries ==
    /\ agentPc = "merge"
    /\ complete_agent_step
    /\ work' = Output(work)
    /\ Proceed("record")
    /\ UNCHANGED <<rowVars, loopVars, answer>>

\* A call fails, or its reply is no JSON object or has a field of the wrong type:
\* the executor turns the exception into an output.
ToolFails ==
    /\ agentPc \in {"complete", "merge"}
    /\ complete_agent_step
    /\ work' = FailedOutput
    /\ Proceed("record")
    /\ UNCHANGED <<rowVars, loopVars, answer>>

-----------------------------------------------------------------------------
(* The summary and the end of the run                                      *)

max_steps_reached == steps >= MaxSteps

\* No citation: a fixed text, and no call.
InsufficientContextSummary ==
    /\ agentPc = "summary" /\ observed = {}
    /\ answer' = [NoAnswer EXCEPT !.limited = max_steps_reached]
    /\ Proceed("audit")
    /\ UNCHANGED <<rowVars, elapsed, loopVars, work, agentUsage>>

FilterRelated(claimed, cited) == claimed \cap DocumentsOf(cited)

GenerateSummary ==
    /\ agentPc = "summary" /\ observed # {}
    /\ complete_agent_step
    /\ \E claimed \in SUBSET Documents :
          answer' = [citations |-> observed, related |-> FilterRelated(claimed, observed),
                     limited |-> max_steps_reached]
    /\ Proceed("audit")
    /\ UNCHANGED <<rowVars, loopVars, work>>

SummaryFails ==
    /\ agentPc = "summary" /\ observed # {}
    /\ complete_agent_step
    /\ Proceed("auditFailure")
    /\ UNCHANGED <<rowVars, loopVars, work, answer>>

RecordCompletedAudit ==
    /\ agentPc = "audit"
    /\ runAudit' = runAudit \cup {"completed"}
    /\ CommitUsage
    /\ Proceed("update")
    /\ UNCHANGED <<run, toolCalls, elapsed, loopVars, work, answer>>

CompleteRun ==
    /\ agentPc = "update"
    /\ run' = [status |-> "completed", stepCount |-> toolCalls.rows]
    /\ CommitUsage
    /\ Proceed("over")
    /\ UNCHANGED <<toolCalls, runAudit, elapsed, loopVars, work, answer>>

\* Mutant of RecordFailedAudit (AuditMatchesRun): only success is audited.
SkipFailedAudit ==
    /\ agentPc = "auditFailure"
    /\ Proceed("updateFailure")
    /\ UNCHANGED <<rowVars, elapsed, loopVars, work, answer, agentUsage>>

RecordFailedAudit ==
    /\ agentPc = "auditFailure"
    /\ runAudit' = runAudit \cup {"failed"}
    /\ CommitUsage
    /\ Proceed("updateFailure")
    /\ UNCHANGED <<run, toolCalls, elapsed, loopVars, work, answer>>

FailRun ==
    /\ agentPc = "updateFailure"
    /\ run' = [run EXCEPT !.status = "failed"]
    /\ CommitUsage
    /\ Proceed("over")
    /\ UNCHANGED <<toolCalls, runAudit, elapsed, loopVars, work, answer>>

\* The process dies, a statement fails, or an exception that is neither of the two
\* the service catches goes up: the request ends and its session is closed.
Breaks ==
    /\ agentPc \notin EndPC
    /\ Proceed("broken")
    /\ work' = NoWork
    /\ agentUsage' = Closed(agentUsage)
    /\ UNCHANGED <<rowVars, elapsed, loopVars, answer>>

\* What get_run and list_tool_calls show of the run.
GetRun == [status |-> run.status, stepCount |-> run.stepCount, citations |-> toolCalls.cites]

AgentWork ==
    \/ StepLimitReached \/ TimeoutExceeded
    \/ NoUsablePlan \/ PlanFinish \/ PlanUnknownTool \/ RecordUnknownTool
    \/ CallToolInvalidly \/ CallTool \/ RecordToolCall
    \/ EmbedQuery \/ EmbeddingFails \/ SearchKnowledgeBase \/ SearchForSuggestions
    \/ DocumentUnavailable \/ ReadDocument \/ DocumentEmpty \/ ReadChunks
    \/ CompleteBatch \/ CompleteTool \/ MergePartialSummaries \/ ToolFails
    \/ InsufficientContextSummary \/ GenerateSummary \/ SummaryFails
    \/ RecordCompletedAudit \/ CompleteRun \/ RecordFailedAudit \/ FailRun

AgentNext == StartInvestigation \/ AgentWork \/ Breaks

\* The request against a corpus that others change.
AgentSpec ==
    /\ AgentInit /\ KnowledgeBaseInit
    /\ [][\/ AgentNext /\ UNCHANGED kbVars
          \/ KnowledgeBaseNext /\ UNCHANGED agentVars]_<<agentVars, kbVars>>

-----------------------------------------------------------------------------
(* Properties                                                              *)

Ended == run.status \in {"completed", "failed"}

\* A run that has ended has exactly one kind of agent.run_completed row, with its
\* own status; only a request that broke off leaves a run running, and only one
\* that broke off between the two commits leaves the audit ahead of the run.
AuditMatchesRun ==
    /\ Ended => runAudit = {run.status}
    /\ agentPc = "over" => Ended
    /\ run.status = "running" /\ runAudit # {} =>
          agentPc \in {"update", "updateFailure", "broken"}

\* Nothing a run cites comes from another workspace, although documents are reindexed
\* and deleted under it; the citations of a completed run are those of its logged
\* tool calls, so get_run shows what the request returned; its related documents
\* and the sources named by a tool are among what was cited.
CitationsAreEvidence ==
    /\ \A c \in observed \cup toolCalls.cites \cup work.cites :
          InWorkspace(CallerWorkspace, DocumentOf(c))
    /\ run.status = "completed" =>
          /\ answer.citations = GetRun.citations
          /\ answer.related \subseteq DocumentsOf(answer.citations)
    /\ work.sources \subseteq work.cites \cup DocumentsOf(work.cites)

\* A summary or an extraction that cites a chunk which was in none of its prompts says
\* that its input was truncated.  One output is left out, and does not keep this: the
\* text for no summary (summarize_document.py:115-116), which takes the place of the
\* note on dropped batches while the citations stay.  Nor does compare_incidents: see
\* CompareLoaded.
UnreadCitationsAreNoted ==
    agentPc = "record" /\ work.tool \in DocumentTools /\ work.told # "no summary" =>
        work.cites \subseteq work.read \/ work.told \in Truncated

\* docs/08: a run has a wall-clock timeout of 120 seconds, and fails beyond it.
CompletedWithinTimeout == run.status = "completed" => elapsed <= RunTimeout

\* The code looks at the clock between steps only, so that a run may exceed its timeout
\* (CompletedWithinTimeout does not hold), but by no more than one planning call, the
\* calls of one tool and the summary.
OverrunBounded == elapsed <= RunTimeout + (MaxSummaryBatches + 3) * CallTime

\* A run that has ended has the usage rows of all its provider calls, failed ones
\* included, although log_event never commits.
EndedRunIsAccounted == Ended => AllKept(agentUsage)

Investigation == INSTANCE InvestigationRun WITH
    status <- run.status, logged <- toolCalls.rows, counted <- run.stepCount,
    limited <- run.status = "completed" /\ answer.limited

\* The request implements the life of an agent run.
ImplementsInvestigation == Investigation!InvestigationSpec
=============================================================================
