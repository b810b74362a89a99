---------------------------- MODULE AgentRunProofs ----------------------------
(***************************************************************************)
(* Proofs about an investigation, for any corpus, any step limit, budgets  *)
(* and timeouts, and whatever the models answer: first what the record,    *)
(* the audit and the citations are, then what the budgets hold.            *)
(***************************************************************************)
EXTENDS AgentRun, OperatorProofs

-----------------------------------------------------------------------------
(* The inductive invariant                                                 *)

\* The steps of a tool call.
ToolPC == {"unknownTool", "embed", "search", "readDocument", "readChunks",
           "complete", "merge", "record"}

\* A chunk that the caller may cite.
Citable(c) == c \in AllChunks /\ InWorkspace(CallerWorkspace, DocumentOf(c))

WorkFields == {"tool", "query", "filter", "todo", "loaded", "batches", "partials",
               "read", "cites", "sources", "told"}

\* A tool call cites what it may, and names no source but what it cites.
WorkOK(w) ==
    /\ DOMAIN w = WorkFields
    /\ w.tool \in Tools \cup {"none"}
    /\ \A c \in w.cites : Citable(c)
    /\ w.sources \subseteq w.cites \cup DocumentsOf(w.cites)

\* Loading chunks is for a registered tool, and a search
\* starts without sources.
WorkFits(pc, w) ==
    /\ WorkOK(w)
    /\ pc \in {"readDocument", "readChunks"} => w.tool \in Tools
    /\ pc \in {"embed", "search"} => w.sources = {} /\ w.query \subseteq Queries

WorkPlaced == WorkFits(agentPc, work)

\* The record of the run follows the control point of the request.
RunPlaced ==
    /\ agentPc = "idle" => run.status = "none"
    /\ agentPc = "over" => Ended
    /\ agentPc \notin {"idle", "over"} => run.status = "running"

\* Every step of the loop is a row, until a call of an unknown tool ends the loop.
StepsCounted ==
    /\ agentPc \in {"idle", "plan", "summary"} \cup ToolPC => toolCalls.rows = steps
    /\ agentPc \in ToolPC => steps < MaxSteps
    /\ steps <= MaxSteps

AuditPlaced ==
    /\ agentPc \notin {"update", "updateFailure", "over", "broken"} => runAudit = {}
    /\ agentPc = "update" => runAudit = {"completed"}
    /\ agentPc = "updateFailure" => runAudit = {"failed"}
    /\ agentPc = "over" => runAudit = {run.status}

UsagePlaced ==
    /\ agentPc # "broken" => agentUsage.lost = {}
    /\ agentPc = "over" => agentUsage.open = {}

\* What the loop has observed is what the logged calls cite, and the answer is made
\* of it, told whether they are as many as there may be.
EvidencePlaced ==
    /\ observed = toolCalls.cites
    /\ \A c \in observed : Citable(c)
    /\ agentPc \in {"audit", "update"} \/ run.status = "completed" =>
           /\ answer.citations = observed /\ answer.related \subseteq DocumentsOf(observed)
           /\ answer.limited = (toolCalls.rows = MaxSteps)

AgentInv ==
    /\ AgentTypeOK
    /\ WorkPlaced /\ RunPlaced /\ StepsCounted
    /\ AuditPlaced /\ UsagePlaced /\ EvidencePlaced

-----------------------------------------------------------------------------
(* Usage rows                                                              *)

\* A provider call keeps the account in order.
LEMMA CallKeepsRows ==
    ASSUME AgentInv, NEW op \in UsageOperation, ProviderCall(op), agentPc # "broken"
    PROVE  agentUsage' \in Account /\ agentUsage'.lost = {} /\ elapsed' \in Nat
<1>1. agentUsage \in Account /\ agentUsage.lost = {} /\ elapsed \in Nat /\ CallTime \in Nat
  BY AgentAssumption DEF AgentInv, AgentTypeOK, UsagePlaced
<1> QED
  BY <1>1, LoggedRows DEF ProviderCall

-----------------------------------------------------------------------------
(* The tool call in execution                                              *)

LEMMA NoWorkOK == WorkOK(NoWork)
<1>1. DOMAIN NoWork = WorkFields
  BY DEF NoWork, WorkFields
<1>2. NoWork.tool = "none" /\ NoWork.cites = {} /\ NoWork.sources = {}
  BY DEF NoWork
<1> QED
  BY <1>1, <1>2 DEF WorkOK

\* What a tool call cites and names survives a change of its other fields.
LEMMA SameClaims ==
    ASSUME NEW v, NEW w, WorkOK(w), DOMAIN v = WorkFields,
           v.tool = w.tool, v.cites = w.cites, v.sources = w.sources
    PROVE  WorkOK(v)
  BY DEF WorkOK

LEMMA DocumentStarts ==
    ASSUME NEW tool \in Tools, NEW ids
    PROVE  /\ WorkOK([NoWork EXCEPT !.tool = tool, !.todo = ids])
           /\ [NoWork EXCEPT !.tool = tool, !.todo = ids].tool = tool
<1> DEFINE w == [NoWork EXCEPT !.tool = tool, !.todo = ids]
<1>1. DOMAIN w = WorkFields
  BY DEF NoWork, WorkFields
<1>2. w.tool = tool /\ w.cites = {} /\ w.sources = {}
  BY DEF NoWork
<1> HIDE DEF w
<1>3. WorkOK(w)
  BY <1>1, <1>2 DEF WorkOK
<1> QED
  BY <1>2, <1>3 DEF w

LEMMA FailedOutputOK ==
    ASSUME WorkOK(work)
    PROVE  WorkOK(FailedOutput)
<1> DEFINE v == [NoWork EXCEPT !.tool = work.tool, !.told = "failed"]
<1>1. DOMAIN v = WorkFields
  BY DEF NoWork, WorkFields
<1>2. v.tool = work.tool /\ v.cites = {} /\ v.sources = {}
  BY DEF NoWork
<1> HIDE DEF v
<1>3. WorkOK(v)
  BY <1>1, <1>2 DEF WorkOK
<1> QED
  BY <1>3 DEF v, FailedOutput

LEMMA OutputOK ==
    ASSUME NEW w, WorkOK(w)
    PROVE  WorkOK(Output(w))
<1>1. DOMAIN w = WorkFields
  BY DEF WorkOK
<1>2. DOMAIN Output(w) = WorkFields /\ Output(w).tool = w.tool
      /\ Output(w).cites = w.cites /\ Output(w).sources = w.sources
  BY <1>1 DEF Output, WorkFields
<1> QED
  BY <1>2, SameClaims

\* The prompts are made of what was loaded and change no claim.
LEMMA PromptsOK ==
    ASSUME NEW w, WorkOK(w)
    PROVE  WorkOK(Prompts(w))
<1>1. DOMAIN w = WorkFields
  BY DEF WorkOK
<1>2. ASSUME NEW b, NEW t
      PROVE  WorkOK([w EXCEPT !.batches = b, !.told = t]) /\ WorkOK([w EXCEPT !.batches = b])
  <2> DEFINE u == [w EXCEPT !.batches = b, !.told = t]
             v == [w EXCEPT !.batches = b]
  <2>1. DOMAIN u = WorkFields /\ u.tool = w.tool /\ u.cites = w.cites /\ u.sources = w.sources
    BY <1>1 DEF WorkFields
  <2>2. DOMAIN v = WorkFields /\ v.tool = w.tool /\ v.cites = w.cites /\ v.sources = w.sources
    BY <1>1 DEF WorkFields
  <2> HIDE DEF u, v
  <2>3. WorkOK(u) /\ WorkOK(v)
    BY <2>1, <2>2, SameClaims
  <2> QED
    BY <2>3 DEF u, v
<1>3. WorkOK(SummarizeLoaded(w))
  BY <1>2 DEF SummarizeLoaded
<1>4. WorkOK(ExtractFromLoaded(w))
  BY <1>2 DEF ExtractFromLoaded
<1>5. WorkOK(CompareLoaded(w))
  BY <1>2 DEF CompareLoaded
<1> QED
  BY <1>3, <1>4, <1>5 DEF Prompts

-----------------------------------------------------------------------------
(* The chunks that are read                                                *)

\* The chunks of a document that a tool loads are rows of the caller's workspace.
LEMMA LoadedRows ==
    ASSUME NEW tool \in Tools, NEW d, list_chunks_for_document(CallerWorkspace, d) # {},
           NEW i \in 1 .. LoadedCount[tool][d]
    PROVE  Citable(<<d, generation[d], i>>)
<1>1. InWorkspace(CallerWorkspace, d) /\ ChunkRows(d) # {}
  BY DEF list_chunks_for_document
<1>2. PICK c \in AllChunks : DocumentOf(c) = d /\ c[2] = generation[d]
  BY <1>1 DEF ChunkRows
<1>3. d \in Documents /\ generation[d] \in Generations
  BY <1>2 DEF AllChunks, DocumentOf
<1>4. LoadedCount[tool][d] = SelectedChunks(ChunkTokens[d], InputBudget(tool))
  BY <1>3 DEF LoadedCount
<1>5. ChunkTokens[d] \in Seq(Nat \ {0}) /\ ChunkTokens[d] # <<>>
  BY <1>3, ChunksAssumption
<1>6. LoadedCount[tool][d] \in DOMAIN ChunkTokens[d]
  BY <1>4, <1>5, SelectedWithin
<1>7. i \in DOMAIN ChunkTokens[d]
  BY <1>5, <1>6
<1>8. <<d, generation[d], i>> \in AllChunks
  BY <1>3, <1>7 DEF AllChunks
<1> QED
  BY <1>1, <1>8 DEF Citable, DocumentOf

LEMMA LoadChunksOK ==
    ASSUME NEW w, WorkOK(w), w.tool \in Tools,
           list_chunks_for_document(CallerWorkspace, Head(w.todo)) # {}
    PROVE  WorkOK(LoadChunks(w)) /\ LoadChunks(w).tool \in Tools
<1> DEFINE d == Head(w.todo)
           n == LoadedCount[w.tool][d]
           rows == [i \in 1 .. n |-> <<d, generation[d], i>>]
           more == {rows[i] : i \in 1 .. n}
           v == LoadChunks(w)
<1>1. DOMAIN w = WorkFields
  BY DEF WorkOK
<1>2. DOMAIN v = WorkFields /\ v.tool = w.tool /\ v.cites = w.cites \cup more
      /\ v.sources = w.sources
  BY <1>1 DEF LoadChunks, WorkFields
<1>3. \A c \in more : Citable(c)
  BY LoadedRows
<1> HIDE DEF more, v
<1>4. \A c \in v.cites : Citable(c)
  BY <1>2, <1>3 DEF WorkOK
<1>5. v.sources \subseteq v.cites \cup DocumentsOf(v.cites)
  BY <1>2 DEF WorkOK, DocumentsOf
<1>6. WorkOK(v) /\ v.tool \in Tools
  BY <1>2, <1>4, <1>5 DEF WorkOK
<1> QED
  BY <1>6 DEF v

\* What the similarity search returns may be cited.
LEMMA MatchesCitable ==
    ASSUME NEW q, NEW filter, NEW matches \in RetrievedChunks(q, CallerWorkspace, filter),
           NEW c \in matches
    PROVE  Citable(c)
<1> DEFINE rows == UNION {list_chunks_for_document(CallerWorkspace, d) : d \in filter}
<1>1. PICK S \in search_similar_with_scores(CallerWorkspace, filter) :
          matches = {k \in S : <<DocumentOf(k), IndexOf(k)>> \in Qualifying[q]}
  BY DEF RetrievedChunks
<1>2. c \in rows
  BY <1>1 DEF search_similar_with_scores
<1>3. PICK d \in filter : c \in list_chunks_for_document(CallerWorkspace, d)
  BY <1>2
<1>4. InWorkspace(CallerWorkspace, d) /\ c \in ChunkRows(d)
  BY <1>3 DEF list_chunks_for_document
<1> QED
  BY <1>4 DEF ChunkRows, Citable

-----------------------------------------------------------------------------
(* Every step keeps the invariant                                          *)

\* The types that a step must re-establish, without the work in hand.
LEMMA TypesFollow ==
    ASSUME agentPc' \in AgentPC,
           run' \in [status : {"none", "running", "completed", "failed"}, stepCount : {-1} \cup Nat],
           toolCalls' \in [rows : Nat, cites : SUBSET AllChunks],
           runAudit' \subseteq {"completed", "failed"}, elapsed' \in Nat, steps' \in Nat,
           observed' \subseteq AllChunks, embedded' \subseteq Queries, WorkOK(work'),
           answer' \in [citations : SUBSET AllChunks, related : SUBSET Documents, limited : BOOLEAN],
           agentUsage' \in Account
    PROVE  AgentTypeOK'
<1>1. work'.tool \in Tools \cup {"none"} /\ work'.cites \subseteq AllChunks
  BY DEF WorkOK, Citable
<1> QED
  BY <1>1 DEF AgentTypeOK

\* A step of a tool call, or the planning call that starts one.
LEMMA ToolStep ==
    ASSUME AgentInv, UNCHANGED <<rowVars, steps, observed, answer>>,
           agentPc \in ToolPC \/ (agentPc = "plan" /\ StepLeft), agentPc' \in ToolPC,
           WorkFits(agentPc', work'), elapsed' \in Nat, embedded' \subseteq Queries,
           agentUsage' \in Account, agentUsage'.lost = {}
    PROVE  AgentInv'
<1>1. /\ run' = run /\ toolCalls' = toolCalls /\ runAudit' = runAudit
      /\ steps' = steps /\ observed' = observed /\ answer' = answer
  BY DEF rowVars
<1>2. AgentTypeOK'
  <2>1. agentPc' \in AgentPC
    BY DEF AgentPC, ToolPC
  <2> QED
    BY <1>1, <2>1, TypesFollow DEF AgentInv, AgentTypeOK, WorkFits
<1>3. WorkPlaced' /\ RunPlaced'
  BY <1>1 DEF AgentInv, WorkPlaced, RunPlaced, ToolPC
<1>4. StepsCounted'
  BY <1>1 DEF AgentInv, StepsCounted, StepLeft, ToolPC
<1>5. AuditPlaced' /\ UsagePlaced'
  BY <1>1 DEF AgentInv, AuditPlaced, UsagePlaced, ToolPC
<1>6. EvidencePlaced'
  BY <1>1 DEF AgentInv, EvidencePlaced, ToolPC
<1> QED
  BY <1>2, <1>3, <1>4, <1>5, <1>6 DEF AgentInv

\* A step that leaves the loop or gives up the summary.
LEMMA LoopEnds ==
    ASSUME AgentInv, UNCHANGED <<rowVars, steps, observed, embedded, work, answer>>,
           agentPc \in {"plan", "summary"}, agentPc' \in {"summary", "auditFailure"},
           elapsed' \in Nat, agentUsage' \in Account, agentUsage'.lost = {}
    PROVE  AgentInv'
<1>1. /\ run' = run /\ toolCalls' = toolCalls /\ runAudit' = runAudit /\ work' = work
      /\ steps' = steps /\ observed' = observed /\ answer' = answer /\ embedded' = embedded
  BY DEF rowVars
<1>2. AgentTypeOK'
  <2>1. agentPc' \in AgentPC /\ WorkOK(work')
    BY <1>1 DEF AgentPC, AgentInv, WorkPlaced, WorkFits
  <2> QED
    BY <1>1, <2>1, TypesFollow DEF AgentInv, AgentTypeOK
<1>3. WorkPlaced' /\ RunPlaced' /\ StepsCounted'
  BY <1>1 DEF AgentInv, WorkPlaced, WorkFits, RunPlaced, StepsCounted, ToolPC
<1>4. AuditPlaced' /\ UsagePlaced' /\ EvidencePlaced'
  BY <1>1 DEF AgentInv, AuditPlaced, UsagePlaced, EvidencePlaced
<1> QED
  BY <1>2, <1>3, <1>4 DEF AgentInv

\* Facts about the state that most steps need.
LEMMA InvFacts ==
    ASSUME AgentInv
    PROVE  /\ agentUsage \in Account /\ elapsed \in Nat /\ embedded \subseteq Queries
           /\ agentPc # "broken" => agentUsage.lost = {}
           /\ WorkOK(work)
  BY DEF AgentInv, AgentTypeOK, UsagePlaced, WorkPlaced, WorkFits

LEMMA PlanningCall ==
    ASSUME AgentInv, Planning
    PROVE  /\ agentPc = "plan" /\ StepLeft
           /\ agentUsage' \in Account /\ agentUsage'.lost = {} /\ elapsed' \in Nat
           /\ UNCHANGED <<rowVars, steps, observed, embedded, answer>>
<1>1. agentPc = "plan" /\ StepLeft /\ UNCHANGED <<rowVars, steps, observed, embedded, answer>>
  BY DEF Planning, loopVars
<1>2. ProviderCall("agent_step") /\ "agent_step" \in UsageOperation
  BY DEF Planning, complete_agent_step, UsageOperation
<1> QED
  BY <1>1, <1>2, CallKeepsRows

LEMMA PlanEnds ==
    ASSUME AgentInv, StepLimitReached \/ TimeoutExceeded \/ NoUsablePlan \/ PlanFinish \/ SummaryFails
    PROVE  AgentInv'
<1>1. CASE StepLimitReached \/ TimeoutExceeded
  <2>1. /\ UNCHANGED <<rowVars, steps, observed, embedded, work, answer, elapsed, agentUsage>>
        /\ agentPc = "plan" /\ agentPc' \in {"summary", "auditFailure"}
    BY <1>1 DEF StepLimitReached, TimeoutExceeded, Proceed, loopVars
  <2> QED
    BY <2>1, InvFacts, LoopEnds
<1>2. CASE NoUsablePlan \/ PlanFinish
  <2>1. Planning /\ agentPc' \in {"summary", "auditFailure"} /\ work' = work
    BY <1>2 DEF NoUsablePlan, PlanFinish, Proceed
  <2> QED
    BY <2>1, PlanningCall, LoopEnds
<1>3. CASE SummaryFails
  <2>1. /\ UNCHANGED <<rowVars, steps, observed, embedded, work, answer>>
        /\ agentPc = "summary" /\ agentPc' = "auditFailure"
        /\ ProviderCall("agent_step") /\ "agent_step" \in UsageOperation
    BY <1>3 DEF SummaryFails, Proceed, loopVars, complete_agent_step, UsageOperation
  <2> QED
    BY <2>1, CallKeepsRows, LoopEnds
<1> QED
  BY <1>1, <1>2, <1>3

LEMMA PlanCalls ==
    ASSUME AgentInv, PlanUnknownTool \/ CallToolInvalidly \/ CallTool
    PROVE  AgentInv'
<1>1. ASSUME Planning, agentPc' \in ToolPC, WorkFits(agentPc', work')
      PROVE  AgentInv'
  BY <1>1, PlanningCall, InvFacts, ToolStep
<1>2. CASE PlanUnknownTool
  <2>1. Planning /\ agentPc' = "unknownTool" /\ work' = work
    BY <1>2 DEF PlanUnknownTool, Proceed
  <2> QED
    BY <1>1, <2>1, InvFacts DEF ToolPC, WorkFits
<1>3. CASE CallToolInvalidly
  <2>1. Planning /\ agentPc' = "record" /\ work' = NoWork
    BY <1>3 DEF CallToolInvalidly, Proceed
  <2> QED
    BY <1>1, <2>1, NoWorkOK DEF ToolPC, WorkFits
<1>4. ASSUME NEW tool \in SearchTools, NEW q \in Queries, NEW f \in Filters \cup {Documents},
             CallSearchTool(tool, q, f)
      PROVE  AgentInv'
  <2>1. Planning /\ agentPc' \in {"search", "embed"}
        /\ work' = [NoWork EXCEPT !.tool = tool, !.query = {q}, !.filter = f]
    BY <1>4 DEF CallSearchTool, Proceed
  <2>2. tool \in Tools
    BY DEF Tools
  <2>3. WorkOK(work') /\ work'.sources = {} /\ work'.query = {q}
    <3>1. DOMAIN work' = WorkFields
      BY <2>1 DEF NoWork, WorkFields
    <3>2. work'.tool = tool /\ work'.cites = {} /\ work'.sources = {} /\ work'.query = {q}
      BY <2>1 DEF NoWork
    <3> QED
      BY <2>2, <3>1, <3>2 DEF WorkOK
  <2>4. agentPc' \in ToolPC /\ WorkFits(agentPc', work')
    BY <2>1, <2>3 DEF ToolPC, WorkFits
  <2> QED
    BY <1>1, <2>1, <2>4
<1>5. ASSUME NEW tool \in Tools, NEW ids, CallDocumentTool(tool, ids)
      PROVE  AgentInv'
  <2>1. Planning /\ agentPc' = "readDocument"
        /\ work' = [NoWork EXCEPT !.tool = tool, !.todo = ids]
    BY <1>5 DEF CallDocumentTool, Proceed
  <2> QED
    BY <1>1, <1>5, <2>1, DocumentStarts DEF ToolPC, WorkFits
<1> QED
  BY <1>2, <1>3, <1>4, <1>5 DEF CallTool, Tools

\* The matches become the citations of a search that has none yet.
LEMMA CitingOK ==
    ASSUME NEW w, WorkOK(w), w.sources = {}, NEW q, NEW filter,
           NEW matches \in RetrievedChunks(q, CallerWorkspace, filter), NEW b
    PROVE  /\ WorkOK([w EXCEPT !.cites = matches, !.read = matches])
           /\ WorkOK([w EXCEPT !.cites = matches, !.batches = b])
<1> DEFINE u == [w EXCEPT !.cites = matches, !.read = matches]
           v == [w EXCEPT !.cites = matches, !.batches = b]
<1>1. DOMAIN w = WorkFields
  BY DEF WorkOK
<1>2. DOMAIN u = WorkFields /\ u.tool = w.tool /\ u.cites = matches /\ u.sources = {}
  BY <1>1 DEF WorkFields
<1>3. DOMAIN v = WorkFields /\ v.tool = w.tool /\ v.cites = matches /\ v.sources = {}
  BY <1>1 DEF WorkFields
<1>4. \A c \in matches : Citable(c)
  BY MatchesCitable
<1> HIDE DEF u, v
<1>5. WorkOK(u) /\ WorkOK(v)
  BY <1>2, <1>3, <1>4 DEF WorkOK
<1> QED
  BY <1>5 DEF u, v

\* Steps of a tool call that only read the database.
LEMMA ToolReads ==
    ASSUME AgentInv,
           SearchKnowledgeBase \/ SearchForSuggestions \/ DocumentUnavailable \/ ReadDocument
           \/ DocumentEmpty \/ ReadChunks
    PROVE  AgentInv'
<1>1. ASSUME UNCHANGED <<rowVars, elapsed, loopVars, answer, agentUsage>>,
             agentPc \in ToolPC, agentPc' \in ToolPC, WorkFits(agentPc', work')
      PROVE  AgentInv'
  <2>1. UNCHANGED <<rowVars, elapsed, steps, observed, embedded, answer, agentUsage>>
    BY <1>1 DEF loopVars
  <2>2. agentPc # "broken"
    BY <1>1 DEF ToolPC
  <2> QED
    BY <1>1, <2>1, <2>2, InvFacts, ToolStep
<1>2. WorkFits(agentPc, work) /\ WorkOK(work)
  BY InvFacts DEF AgentInv, WorkPlaced
<1>3. CASE SearchKnowledgeBase
  <2>1. agentPc = "search" /\ agentPc' = "record"
        /\ UNCHANGED <<rowVars, elapsed, loopVars, answer, agentUsage>>
    BY <1>3 DEF SearchKnowledgeBase, Proceed
  <2>2. work.sources = {}
    BY <1>2, <2>1 DEF WorkFits
  <2>3. PICK q \in work.query : \E matches \in RetrievedChunks(q, CallerWorkspace, work.filter) :
            work' = Output([work EXCEPT !.cites = matches, !.read = matches])
    BY <1>3 DEF SearchKnowledgeBase
  <2>4. PICK matches \in RetrievedChunks(q, CallerWorkspace, work.filter) :
            work' = Output([work EXCEPT !.cites = matches, !.read = matches])
    BY <2>3
  <2>5. WorkOK(work')
    BY <1>2, <2>2, <2>4, CitingOK, OutputOK
  <2> QED
    BY <1>1, <2>1, <2>5 DEF ToolPC, WorkFits
<1>4. CASE SearchForSuggestions
  <2>1. agentPc = "search" /\ UNCHANGED <<rowVars, elapsed, loopVars, answer, agentUsage>>
    BY <1>4 DEF SearchForSuggestions
  <2>2. work.sources = {}
    BY <1>2, <2>1 DEF WorkFits
  <2>3. PICK q \in work.query : \E matches \in RetrievedChunks(q, CallerWorkspace, work.filter) :
            IF matches = {}
            THEN work' = FailedOutput /\ agentPc' = "record"
            ELSE work' = [work EXCEPT !.cites = matches, !.batches = <<matches>>] /\ agentPc' = "complete"
    BY <1>4 DEF SearchForSuggestions, Proceed
  <2>4. PICK matches \in RetrievedChunks(q, CallerWorkspace, work.filter) :
            IF matches = {}
            THEN work' = FailedOutput /\ agentPc' = "record"
            ELSE work' = [work EXCEPT !.cites = matches, !.batches = <<matches>>] /\ agentPc' = "complete"
    BY <2>3
  <2>5. WorkOK(work') /\ agentPc' \in {"record", "complete"}
    <3>1. CASE matches = {}
      BY <1>2, <2>4, <3>1, FailedOutputOK
    <3>2. CASE matches # {}
      <4>1. work' = [work EXCEPT !.cites = matches, !.batches = <<matches>>] /\ agentPc' = "complete"
        BY <2>4, <3>2
      <4> QED
        BY <1>2, <2>2, <4>1, CitingOK
    <3> QED
      BY <3>1, <3>2
  <2> QED
    BY <1>1, <2>1, <2>5 DEF ToolPC, WorkFits
<1>5. CASE DocumentUnavailable \/ DocumentEmpty
  <2>1. /\ agentPc \in ToolPC /\ agentPc' = "record" /\ work' = FailedOutput
        /\ UNCHANGED <<rowVars, elapsed, loopVars, answer, agentUsage>>
    BY <1>5 DEF DocumentUnavailable, DocumentEmpty, Proceed, ToolPC
  <2> QED
    BY <1>1, <1>2, <2>1, FailedOutputOK DEF ToolPC, WorkFits
<1>6. CASE ReadDocument
  <2>1. /\ agentPc = "readDocument" /\ agentPc' = "readChunks" /\ work' = work
        /\ UNCHANGED <<rowVars, elapsed, loopVars, answer, agentUsage>>
    BY <1>6 DEF ReadDocument, Proceed
  <2> QED
    BY <1>1, <1>2, <2>1 DEF ToolPC, WorkFits
<1>7. CASE ReadChunks
  <2>1. /\ agentPc = "readChunks" /\ UNCHANGED <<rowVars, elapsed, loopVars, answer, agentUsage>>
        /\ list_chunks_for_document(CallerWorkspace, Head(work.todo)) # {}
    BY <1>7 DEF ReadChunks
  <2>2. \/ work' = LoadChunks(work) /\ agentPc' = "readDocument"
        \/ work' = Prompts(LoadChunks(work)) /\ agentPc' = "complete"
    BY <1>7 DEF ReadChunks, Proceed
  <2>3. WorkOK(LoadChunks(work)) /\ LoadChunks(work).tool \in Tools
    BY <1>2, <2>1, LoadChunksOK DEF WorkFits
  <2>4. WorkFits(agentPc', work')
    BY <2>2, <2>3, PromptsOK DEF WorkFits
  <2> QED
    BY <1>1, <2>1, <2>2, <2>4 DEF ToolPC
<1> QED
  BY <1>3, <1>4, <1>5, <1>6, <1>7

\* The sources that a tool leaves in its output are among what it cites.
LEMMA SourcesCited ==
    ASSUME NEW w, NEW sources \in SourcesKept(w)
    PROVE  sources \subseteq w.cites \cup DocumentsOf(w.cites)
  BY DEF SourcesKept, NormalizedSteps, NormalizedActionItems

LEMMA BatchOK ==
    ASSUME NEW w, WorkOK(w), NEW b, NEW read, NEW k
    PROVE  WorkOK([w EXCEPT !.batches = b, !.read = read, !.partials = k])
<1> DEFINE u == [w EXCEPT !.batches = b, !.read = read, !.partials = k]
<1>1. DOMAIN w = WorkFields
  BY DEF WorkOK
<1>2. DOMAIN u = WorkFields /\ u.tool = w.tool /\ u.cites = w.cites /\ u.sources = w.sources
  BY <1>1 DEF WorkFields
<1> HIDE DEF u
<1>3. WorkOK(u)
  BY <1>2, SameClaims
<1> QED
  BY <1>3 DEF u

LEMMA CompletedOK ==
    ASSUME NEW w, WorkOK(w), NEW read, NEW sources \in SourcesKept(w), NEW b, NEW k, NEW t
    PROVE  /\ WorkOK([w EXCEPT !.read = read, !.sources = sources, !.batches = b, !.partials = k])
           /\ WorkOK([[w EXCEPT !.read = read, !.sources = sources, !.batches = b,
                               !.partials = k] EXCEPT !.told = t])
<1> DEFINE v == [w EXCEPT !.read = read, !.sources = sources, !.batches = b, !.partials = k]
           x == [v EXCEPT !.told = t]
<1>1. DOMAIN w = WorkFields
  BY DEF WorkOK
<1>2. DOMAIN v = WorkFields /\ v.tool = w.tool /\ v.cites = w.cites /\ v.sources = sources
  BY <1>1 DEF WorkFields
<1>3. sources \subseteq w.cites \cup DocumentsOf(w.cites)
  BY SourcesCited
<1> HIDE DEF v
<1>4. DOMAIN x = WorkFields /\ x.tool = v.tool /\ x.cites = v.cites /\ x.sources = v.sources
  BY <1>2 DEF WorkFields
<1> HIDE DEF x
<1>5. WorkOK(v)
  BY <1>2, <1>3 DEF WorkOK
<1>6. WorkOK(x)
  BY <1>4, <1>5, SameClaims
<1> QED
  BY <1>5, <1>6 DEF v, x

\* Steps of a tool call that call a provider.
LEMMA ToolCalls ==
    ASSUME AgentInv,
           EmbedQuery \/ EmbeddingFails \/ CompleteBatch \/ CompleteTool
           \/ MergePartialSummaries \/ ToolFails
    PROVE  AgentInv'
<1>1. ASSUME NEW op \in UsageOperation, ProviderCall(op), UNCHANGED <<rowVars, steps, observed, answer>>,
             agentPc \in ToolPC, agentPc' \in ToolPC, WorkFits(agentPc', work'),
             embedded' \subseteq Queries
      PROVE  AgentInv'
  <2>1. agentPc # "broken"
    BY <1>1 DEF ToolPC
  <2>2. agentUsage' \in Account /\ agentUsage'.lost = {} /\ elapsed' \in Nat
    BY <1>1, <2>1, CallKeepsRows
  <2> QED
    BY <1>1, <2>2, ToolStep
<1>2. WorkFits(agentPc, work) /\ WorkOK(work) /\ embedded \subseteq Queries
  BY InvFacts DEF AgentInv, WorkPlaced
<1>3. "embedding_query" \in UsageOperation /\ "agent_step" \in UsageOperation
  BY DEF UsageOperation
<1>4. CASE EmbedQuery
  <2>1. /\ agentPc = "embed" /\ agentPc' = "search" /\ ProviderCall("embedding_query")
        /\ UNCHANGED <<rowVars, steps, observed, answer>> /\ work' = work
        /\ embedded' = embedded \cup work.query
    BY <1>4 DEF EmbedQuery, Proceed
  <2>2. WorkFits(agentPc', work')
    BY <1>2, <2>1 DEF WorkFits
  <2>3. embedded' \subseteq Queries
    BY <1>2, <2>1 DEF WorkFits
  <2> QED
    BY <1>1, <1>3, <2>1, <2>2, <2>3 DEF ToolPC
<1>5. CASE EmbeddingFails
  <2>1. /\ agentPc = "embed" /\ agentPc' = "record" /\ ProviderCall("embedding_query")
        /\ UNCHANGED <<rowVars, steps, observed, embedded, answer>> /\ work' = FailedOutput
    BY <1>5 DEF EmbeddingFails, Proceed, loopVars
  <2> QED
    BY <1>1, <1>2, <1>3, <2>1, FailedOutputOK DEF ToolPC, WorkFits
<1>6. ASSUME agentPc \in {"complete", "merge"}, agentPc' \in {"complete", "merge", "record"},
             complete_agent_step, UNCHANGED <<rowVars, loopVars, answer>>, WorkOK(work')
      PROVE  AgentInv'
  <2>1. ProviderCall("agent_step") /\ UNCHANGED <<rowVars, steps, observed, embedded, answer>>
    BY <1>6 DEF complete_agent_step, loopVars
  <2>2. agentPc \in ToolPC /\ agentPc' \in ToolPC /\ WorkFits(agentPc', work')
    BY <1>6 DEF ToolPC, WorkFits
  <2> QED
    BY <1>1, <1>2, <1>3, <2>1, <2>2
<1>7. CASE CompleteBatch
  <2>1. /\ agentPc = "complete" /\ agentPc' = agentPc /\ complete_agent_step
        /\ UNCHANGED <<rowVars, loopVars, answer>>
    BY <1>7 DEF CompleteBatch
  <2>2. PICK produced \in {0, 1} :
            work' = [work EXCEPT !.batches = Tail(@), !.read = @ \cup Head(work.batches),
                                 !.partials = @ + produced]
    BY <1>7 DEF CompleteBatch
  <2>3. WorkOK(work')
    BY <1>2, <2>2, BatchOK
  <2> QED
    BY <1>6, <2>1, <2>3
<1>8. CASE CompleteTool
  <2>1. /\ agentPc = "complete" /\ complete_agent_step /\ UNCHANGED <<rowVars, loopVars, answer>>
    BY <1>8 DEF CompleteTool
  <2>2. PICK produced \in {0, 1}, sources \in SourcesKept(work) :
          LET read == work.read \cup Head(work.batches)
              partials == work.partials + produced
              done == [work EXCEPT !.read = read, !.sources = sources,
                                   !.batches = <<>>, !.partials = partials]
          IN  IF work.tool = "summarize_document" /\ partials > 1
              THEN work' = done /\ agentPc' = "merge"
              ELSE /\ work' = Output([done EXCEPT !.told =
                         IF work.tool = "summarize_document" /\ partials = 0 THEN Unsummarized(@) ELSE @])
                   /\ agentPc' = "record"
    BY <1>8 DEF CompleteTool, Proceed
  <2> DEFINE read == work.read \cup Head(work.batches)
             partials == work.partials + produced
             done == [work EXCEPT !.read = read, !.sources = sources,
                                  !.batches = <<>>, !.partials = partials]
             told == IF work.tool = "summarize_document" /\ partials = 0 THEN Unsummarized(done.told)
                     ELSE done.told
             noted == [done EXCEPT !.told = told]
  <2>3. \/ work' = done /\ agentPc' = "merge"
        \/ work' = Output(noted) /\ agentPc' = "record"
    BY <2>2
  <2>4. WorkOK(done) /\ WorkOK(noted)
    <3> HIDE DEF read, partials, told
    <3> QED
      BY <1>2, CompletedOK
  <2> HIDE DEF done, noted
  <2>5. WorkOK(work') /\ agentPc' \in {"complete", "merge", "record"}
    BY <2>3, <2>4, OutputOK
  <2> QED
    BY <1>6, <2>1, <2>5
<1>9. CASE MergePartialSummaries
  <2>1. /\ agentPc = "merge" /\ agentPc' = "record" /\ complete_agent_step
        /\ UNCHANGED <<rowVars, loopVars, answer>> /\ work' = Output(work)
    BY <1>9 DEF MergePartialSummaries, Proceed
  <2> QED
    BY <1>2, <1>6, <2>1, OutputOK
<1>10. CASE ToolFails
  <2>1. /\ agentPc \in {"complete", "merge"} /\ agentPc' = "record" /\ complete_agent_step
        /\ UNCHANGED <<rowVars, loopVars, answer>> /\ work' = FailedOutput
    BY <1>10 DEF ToolFails, Proceed
  <2> QED
    BY <1>2, <1>6, <2>1, FailedOutputOK
<1> QED
  BY <1>4, <1>5, <1>7, <1>8, <1>9, <1>10

\* Logging a call of an unknown tool ends the loop with a row more than its steps.
LEMMA UnknownToolKeeps ==
    ASSUME AgentInv, RecordUnknownTool
    PROVE  AgentInv'
<1>1. /\ agentPc = "unknownTool" /\ agentPc' = "auditFailure"
      /\ run' = run /\ runAudit' = runAudit /\ elapsed' = elapsed /\ steps' = steps
      /\ observed' = observed /\ embedded' = embedded /\ work' = work /\ answer' = answer
      /\ toolCalls' = [toolCalls EXCEPT !.rows = @ + 1] /\ agentUsage' = Committed(agentUsage)
  BY DEF RecordUnknownTool, Proceed, CommitUsage, loopVars
<1>2. toolCalls \in [rows : Nat, cites : SUBSET AllChunks]
  BY DEF AgentInv, AgentTypeOK
<1>3. toolCalls' \in [rows : Nat, cites : SUBSET AllChunks] /\ toolCalls'.cites = toolCalls.cites
  BY <1>1, <1>2
<1>4. agentUsage' \in Account /\ agentUsage'.lost = {}
  BY <1>1, InvFacts, CommittedRows
<1>5. AgentTypeOK'
  <2>1. agentPc' \in AgentPC /\ WorkOK(work')
    BY <1>1, InvFacts DEF AgentPC
  <2> QED
    BY <1>1, <1>3, <1>4, <2>1, TypesFollow DEF AgentInv, AgentTypeOK
<1>6. WorkPlaced' /\ RunPlaced' /\ StepsCounted'
  BY <1>1 DEF AgentInv, WorkPlaced, WorkFits, RunPlaced, StepsCounted, ToolPC
<1>7. AuditPlaced' /\ UsagePlaced' /\ EvidencePlaced'
  BY <1>1, <1>3, <1>4 DEF AgentInv, AuditPlaced, UsagePlaced, EvidencePlaced, RunPlaced
<1> QED
  BY <1>5, <1>6, <1>7 DEF AgentInv

\* Logging a call keeps rows and steps, and what was logged and observed, together.
LEMMA RecordKeeps ==
    ASSUME AgentInv, RecordToolCall
    PROVE  AgentInv'
<1>1. /\ agentPc = "record" /\ agentPc' = "plan"
      /\ run' = run /\ runAudit' = runAudit /\ elapsed' = elapsed /\ steps' = steps + 1
      /\ observed' = observed \cup work.cites /\ embedded' = embedded /\ work' = NoWork
      /\ answer' = answer /\ agentUsage' = Committed(agentUsage)
      /\ toolCalls' = [rows |-> toolCalls.rows + 1, cites |-> toolCalls.cites \cup work.cites]
  BY DEF RecordToolCall, Proceed, CommitUsage
<1>2. toolCalls \in [rows : Nat, cites : SUBSET AllChunks] /\ steps \in Nat /\ observed \subseteq AllChunks
  BY DEF AgentInv, AgentTypeOK
<1>3. (\A c \in work.cites : Citable(c)) /\ work.cites \subseteq AllChunks
  BY InvFacts DEF WorkOK, Citable
<1>4. /\ toolCalls' \in [rows : Nat, cites : SUBSET AllChunks]
      /\ toolCalls'.cites = toolCalls.cites \cup work.cites /\ toolCalls'.rows = toolCalls.rows + 1
  BY <1>1, <1>2, <1>3
<1>5. agentUsage' \in Account /\ agentUsage'.lost = {}
  BY <1>1, InvFacts, CommittedRows
<1>6. AgentTypeOK'
  <2>1. agentPc' \in AgentPC /\ WorkOK(work') /\ observed' \subseteq AllChunks /\ steps' \in Nat
    BY <1>1, <1>2, <1>3, NoWorkOK DEF AgentPC
  <2> QED
    BY <1>1, <1>4, <1>5, <2>1, TypesFollow DEF AgentInv, AgentTypeOK
<1>7. WorkPlaced' /\ RunPlaced' /\ StepsCounted'
  <2>1. steps < MaxSteps /\ MaxSteps \in Nat /\ toolCalls.rows = steps
    BY <1>1, AgentAssumption DEF AgentInv, StepsCounted, ToolPC
  <2>2. steps' <= MaxSteps
    BY <1>1, <1>2, <2>1
  <2>3. StepsCounted'
    BY <1>1, <1>4, <2>1, <2>2 DEF StepsCounted, ToolPC
  <2> QED
    BY <1>1, <2>3, NoWorkOK DEF AgentInv, WorkPlaced, WorkFits, RunPlaced, ToolPC
<1>8. AuditPlaced' /\ UsagePlaced'
  BY <1>1, <1>5 DEF AgentInv, AuditPlaced, UsagePlaced
<1>9. EvidencePlaced'
  BY <1>1, <1>3, <1>4 DEF AgentInv, EvidencePlaced, RunPlaced
<1> QED
  BY <1>6, <1>7, <1>8, <1>9 DEF AgentInv

\* The final summary cites all that was observed.
LEMMA SummaryKeeps ==
    ASSUME AgentInv, InsufficientContextSummary \/ GenerateSummary
    PROVE  AgentInv'
<1>1. /\ agentPc = "summary" /\ agentPc' = "audit"
      /\ run' = run /\ toolCalls' = toolCalls /\ runAudit' = runAudit /\ steps' = steps
      /\ observed' = observed /\ embedded' = embedded /\ work' = work
  BY DEF InsufficientContextSummary, GenerateSummary, Proceed, rowVars, loopVars
<1>2. agentUsage' \in Account /\ agentUsage'.lost = {} /\ elapsed' \in Nat
  <2>1. CASE InsufficientContextSummary
    BY <1>1, <2>1, InvFacts DEF InsufficientContextSummary
  <2>2. CASE GenerateSummary
    <3>1. ProviderCall("agent_step") /\ "agent_step" \in UsageOperation
      BY <2>2 DEF GenerateSummary, complete_agent_step, UsageOperation
    <3> QED
      BY <1>1, <3>1, CallKeepsRows
  <2> QED
    BY <2>1, <2>2
<1>3. observed \subseteq AllChunks
  BY DEF AgentInv, AgentTypeOK
<1>4. /\ answer' \in [citations : SUBSET AllChunks, related : SUBSET Documents, limited : BOOLEAN]
      /\ answer'.citations = observed /\ answer'.related \subseteq DocumentsOf(observed)
      /\ answer'.limited = max_steps_reached
  <2>1. CASE InsufficientContextSummary
    <3>1. answer' = [citations |-> {}, related |-> {}, limited |-> max_steps_reached] /\ observed = {}
      BY <2>1 DEF InsufficientContextSummary, NoAnswer
    <3>2. max_steps_reached \in BOOLEAN
      BY DEF max_steps_reached
    <3> QED
      BY <3>1, <3>2
  <2>2. CASE GenerateSummary
    <3>1. PICK claimed \in SUBSET Documents :
              answer' = [citations |-> observed, related |-> claimed \cap DocumentsOf(observed),
                         limited |-> max_steps_reached]
      BY <2>2 DEF GenerateSummary, FilterRelated
    <3>2. max_steps_reached \in BOOLEAN
      BY DEF max_steps_reached
    <3> QED
      BY <1>3, <3>1, <3>2
  <2> QED
    BY <2>1, <2>2
<1>5. AgentTypeOK'
  <2>1. agentPc' \in AgentPC /\ WorkOK(work')
    BY <1>1, InvFacts DEF AgentPC
  <2> QED
    BY <1>1, <1>2, <1>4, <2>1, TypesFollow DEF AgentInv, AgentTypeOK
<1>6. WorkPlaced' /\ RunPlaced' /\ StepsCounted'
  BY <1>1 DEF AgentInv, WorkPlaced, WorkFits, RunPlaced, StepsCounted, ToolPC
<1>7. max_steps_reached = (toolCalls.rows = MaxSteps)
  <2>1. toolCalls.rows = steps /\ steps <= MaxSteps /\ steps \in Nat /\ MaxSteps \in Nat
    BY <1>1, AgentAssumption DEF AgentInv, AgentTypeOK, StepsCounted
  <2> QED
    BY <2>1 DEF max_steps_reached
<1>8. AuditPlaced' /\ UsagePlaced' /\ EvidencePlaced'
  BY <1>1, <1>2, <1>4, <1>7 DEF AgentInv, AuditPlaced, UsagePlaced, EvidencePlaced
<1> QED
  BY <1>5, <1>6, <1>8 DEF AgentInv

\* The audit row is written before the run record, with the status that it will have.
LEMMA AuditKeeps ==
    ASSUME AgentInv, RecordCompletedAudit \/ RecordFailedAudit
    PROVE  AgentInv'
<1>1. /\ run' = run /\ toolCalls' = toolCalls /\ elapsed' = elapsed /\ steps' = steps
      /\ observed' = observed /\ embedded' = embedded /\ work' = work /\ answer' = answer
      /\ agentUsage' = Committed(agentUsage)
  BY DEF RecordCompletedAudit, RecordFailedAudit, CommitUsage, loopVars
<1>2. \/ agentPc = "audit" /\ agentPc' = "update" /\ runAudit' = runAudit \cup {"completed"}
      \/ agentPc = "auditFailure" /\ agentPc' = "updateFailure" /\ runAudit' = runAudit \cup {"failed"}
  BY DEF RecordCompletedAudit, RecordFailedAudit, Proceed
<1>3. runAudit = {}
  BY <1>2 DEF AgentInv, AuditPlaced
<1>4. agentUsage' \in Account /\ agentUsage'.lost = {}
  BY <1>1, <1>2, InvFacts, CommittedRows
<1>5. AgentTypeOK'
  <2>1. agentPc' \in AgentPC /\ WorkOK(work') /\ runAudit' \subseteq {"completed", "failed"}
    BY <1>1, <1>2, <1>3, InvFacts DEF AgentPC
  <2> QED
    BY <1>1, <1>4, <2>1, TypesFollow DEF AgentInv, AgentTypeOK
<1>6. WorkPlaced' /\ RunPlaced' /\ StepsCounted'
  BY <1>1, <1>2 DEF AgentInv, WorkPlaced, WorkFits, RunPlaced, StepsCounted, ToolPC
<1>7. AuditPlaced' /\ UsagePlaced'
  BY <1>2, <1>3, <1>4 DEF AuditPlaced, UsagePlaced
<1>8. EvidencePlaced'
  BY <1>1, <1>2 DEF AgentInv, EvidencePlaced
<1> QED
  BY <1>5, <1>6, <1>7, <1>8 DEF AgentInv

\* The run record settles with the status that was audited.
LEMMA SettleKeeps ==
    ASSUME AgentInv, CompleteRun \/ FailRun
    PROVE  AgentInv'
<1>1. /\ toolCalls' = toolCalls /\ runAudit' = runAudit /\ elapsed' = elapsed /\ steps' = steps
      /\ observed' = observed /\ embedded' = embedded /\ work' = work /\ answer' = answer
      /\ agentUsage' = Committed(agentUsage) /\ agentPc' = "over"
  BY DEF CompleteRun, FailRun, CommitUsage, loopVars, Proceed
<1>2. /\ run \in [status : {"none", "running", "completed", "failed"}, stepCount : {-1} \cup Nat]
      /\ toolCalls.rows \in Nat
  BY DEF AgentInv, AgentTypeOK
<1>3. \/ agentPc = "update" /\ run' = [status |-> "completed", stepCount |-> toolCalls.rows]
      \/ agentPc = "updateFailure" /\ run' = [run EXCEPT !.status = "failed"]
  BY DEF CompleteRun, FailRun
<1>4. /\ run' \in [status : {"none", "running", "completed", "failed"}, stepCount : {-1} \cup Nat]
      /\ \/ agentPc = "update" /\ run'.status = "completed"
         \/ agentPc = "updateFailure" /\ run'.status = "failed"
  <2>1. CASE agentPc = "update" /\ run' = [status |-> "completed", stepCount |-> toolCalls.rows]
    BY <1>2, <2>1
  <2>2. CASE agentPc = "updateFailure" /\ run' = [run EXCEPT !.status = "failed"]
    BY <1>2, <2>2
  <2> QED
    BY <1>3, <2>1, <2>2
<1>5. agentUsage' \in Account /\ agentUsage'.lost = {} /\ agentUsage'.open = {}
  BY <1>1, <1>4, InvFacts, CommittedRows
<1>6. AgentTypeOK'
  <2>1. agentPc' \in AgentPC /\ WorkOK(work')
    BY <1>1, InvFacts DEF AgentPC
  <2> QED
    BY <1>1, <1>4, <1>5, <2>1, TypesFollow DEF AgentInv, AgentTypeOK
<1>7. WorkPlaced' /\ RunPlaced' /\ StepsCounted'
  BY <1>1, <1>4 DEF AgentInv, WorkPlaced, WorkFits, RunPlaced, StepsCounted, ToolPC, Ended
<1>8. AuditPlaced' /\ UsagePlaced'
  BY <1>1, <1>4, <1>5 DEF AgentInv, AuditPlaced, UsagePlaced
<1>9. EvidencePlaced'
  BY <1>1, <1>4 DEF AgentInv, EvidencePlaced
<1> QED
  BY <1>6, <1>7, <1>8, <1>9 DEF AgentInv

LEMMA StartKeeps ==
    ASSUME AgentInv, StartInvestigation
    PROVE  AgentInv'
<1>1. /\ agentPc = "idle" /\ agentPc' = "plan" /\ run' = [run EXCEPT !.status = "running"]
      /\ toolCalls' = toolCalls /\ runAudit' = runAudit /\ elapsed' = elapsed /\ steps' = steps
      /\ observed' = observed /\ embedded' = embedded /\ work' = work /\ answer' = answer
      /\ agentUsage' = Committed(agentUsage)
  BY DEF StartInvestigation, CommitUsage, loopVars, Proceed
<1>2. run \in [status : {"none", "running", "completed", "failed"}, stepCount : {-1} \cup Nat]
  BY DEF AgentInv, AgentTypeOK
<1>3. /\ run' \in [status : {"none", "running", "completed", "failed"}, stepCount : {-1} \cup Nat]
      /\ run'.status = "running"
  BY <1>1, <1>2
<1>4. agentUsage' \in Account /\ agentUsage'.lost = {}
  BY <1>1, InvFacts, CommittedRows
<1>5. AgentTypeOK'
  <2>1. agentPc' \in AgentPC /\ WorkOK(work')
    BY <1>1, InvFacts DEF AgentPC
  <2> QED
    BY <1>1, <1>3, <1>4, <2>1, TypesFollow DEF AgentInv, AgentTypeOK
<1>6. WorkPlaced' /\ RunPlaced' /\ StepsCounted'
  BY <1>1, <1>3 DEF AgentInv, WorkPlaced, WorkFits, RunPlaced, StepsCounted, ToolPC
<1>7. AuditPlaced' /\ UsagePlaced' /\ EvidencePlaced'
  BY <1>1, <1>3, <1>4 DEF AgentInv, AuditPlaced, UsagePlaced, EvidencePlaced
<1> QED
  BY <1>5, <1>6, <1>7 DEF AgentInv

\* A request that breaks off leaves its run running.
LEMMA BreakKeeps ==
    ASSUME AgentInv, Breaks
    PROVE  AgentInv'
<1>1. /\ agentPc \notin {"idle", "over", "broken"} /\ agentPc' = "broken" /\ run' = run
      /\ toolCalls' = toolCalls /\ runAudit' = runAudit /\ elapsed' = elapsed /\ steps' = steps
      /\ observed' = observed /\ embedded' = embedded /\ work' = NoWork /\ answer' = answer
      /\ agentUsage' = Closed(agentUsage)
  BY DEF Breaks, EndPC, loopVars, rowVars, Proceed
<1>2. agentUsage' \in Account
  BY <1>1, InvFacts, ClosedRows
<1>3. AgentTypeOK'
  <2>1. agentPc' \in AgentPC /\ WorkOK(work')
    BY <1>1, NoWorkOK DEF AgentPC
  <2> QED
    BY <1>1, <1>2, <2>1, TypesFollow DEF AgentInv, AgentTypeOK
<1>4. WorkPlaced' /\ RunPlaced' /\ StepsCounted'
  BY <1>1, NoWorkOK DEF AgentInv, WorkPlaced, WorkFits, RunPlaced, StepsCounted, ToolPC
<1>5. AuditPlaced' /\ UsagePlaced' /\ EvidencePlaced'
  BY <1>1 DEF AgentInv, AuditPlaced, UsagePlaced, EvidencePlaced
<1> QED
  BY <1>3, <1>4, <1>5 DEF AgentInv

-----------------------------------------------------------------------------
(* The theorems                                                            *)

LEMMA AgentInvInit == AgentInit => AgentInv
<1> SUFFICES ASSUME AgentInit PROVE AgentInv
  OBVIOUS
<1>1. /\ agentPc = "idle" /\ run.status = "none" /\ toolCalls.rows = 0 /\ toolCalls.cites = {}
      /\ steps = 0 /\ runAudit = {} /\ observed = {} /\ work = NoWork
      /\ agentUsage.lost = {}
  BY DEF AgentInit, NewAccount
<1>2. AgentTypeOK
  <2>1. NoAnswer \in [citations : SUBSET AllChunks, related : SUBSET Documents, limited : BOOLEAN]
    BY DEF NoAnswer
  <2>2. NewAccount \in Account
    BY DEF NewAccount, Account
  <2>3. NoWork.tool = "none" /\ NoWork.cites = {}
    BY DEF NoWork
  <2> QED
    BY <2>1, <2>2, <2>3 DEF AgentInit, AgentTypeOK, AgentPC
<1>3. WorkPlaced /\ RunPlaced /\ StepsCounted
  BY <1>1, NoWorkOK, AgentAssumption DEF WorkPlaced, WorkFits, RunPlaced, StepsCounted, ToolPC
<1>4. AuditPlaced /\ UsagePlaced /\ EvidencePlaced
  BY <1>1 DEF AuditPlaced, UsagePlaced, EvidencePlaced
<1> QED
  BY <1>2, <1>3, <1>4 DEF AgentInv

LEMMA AgentInvNext == AgentInv /\ AgentNext => AgentInv'
<1> SUFFICES ASSUME AgentInv, AgentNext PROVE AgentInv'
  OBVIOUS
<1>1. CASE StartInvestigation
  BY <1>1, StartKeeps
<1>2. CASE StepLimitReached \/ TimeoutExceeded \/ NoUsablePlan \/ PlanFinish \/ SummaryFails
  BY <1>2, PlanEnds
<1>3. CASE PlanUnknownTool \/ CallToolInvalidly \/ CallTool
  BY <1>3, PlanCalls
<1>4. CASE RecordUnknownTool
  BY <1>4, UnknownToolKeeps
<1>5. CASE RecordToolCall
  BY <1>5, RecordKeeps
<1>6. CASE SearchKnowledgeBase \/ SearchForSuggestions \/ DocumentUnavailable \/ ReadDocument
           \/ DocumentEmpty \/ ReadChunks
  BY <1>6, ToolReads
<1>7. CASE EmbedQuery \/ EmbeddingFails \/ CompleteBatch \/ CompleteTool
           \/ MergePartialSummaries \/ ToolFails
  BY <1>7, ToolCalls
<1>8. CASE InsufficientContextSummary \/ GenerateSummary
  BY <1>8, SummaryKeeps
<1>9. CASE RecordCompletedAudit \/ RecordFailedAudit
  BY <1>9, AuditKeeps
<1>10. CASE CompleteRun \/ FailRun
  BY <1>10, SettleKeeps
<1>11. CASE Breaks
  BY <1>11, BreakKeeps
<1> QED
  BY <1>1, <1>2, <1>3, <1>4, <1>5, <1>6, <1>7, <1>8, <1>9, <1>10, <1>11 DEF AgentNext, AgentWork

LEMMA AgentInvStill == AgentInv /\ UNCHANGED agentVars => AgentInv'
<1> SUFFICES ASSUME AgentInv, UNCHANGED agentVars PROVE AgentInv'
  OBVIOUS
<1>1. /\ agentPc' = agentPc /\ run' = run /\ toolCalls' = toolCalls /\ runAudit' = runAudit
      /\ elapsed' = elapsed /\ steps' = steps /\ observed' = observed /\ embedded' = embedded
      /\ work' = work /\ answer' = answer /\ agentUsage' = agentUsage
  BY DEF agentVars, rowVars, loopVars
<1>2. AgentTypeOK' /\ WorkPlaced' /\ RunPlaced' /\ StepsCounted'
  BY <1>1 DEF AgentInv, AgentTypeOK, WorkPlaced, RunPlaced, Ended, StepsCounted
<1>3. AuditPlaced' /\ UsagePlaced' /\ EvidencePlaced'
  BY <1>1 DEF AgentInv, AuditPlaced, UsagePlaced, EvidencePlaced
<1> QED
  BY <1>2, <1>3 DEF AgentInv

AgentStep == \/ AgentNext /\ UNCHANGED kbVars
             \/ KnowledgeBaseNext /\ UNCHANGED agentVars

LEMMA AgentInvHolds == AgentSpec => []AgentInv
<1>1. AgentInv /\ [AgentStep]_<<agentVars, kbVars>> => AgentInv'
  BY AgentInvNext, AgentInvStill DEF AgentStep
<1> QED
  BY <1>1, AgentInvInit, PTL DEF AgentSpec, AgentStep

\* The rows of a run and the state of its request keep their types.
THEOREM AgentTypeCorrect == AgentSpec => []AgentTypeOK
<1>1. AgentInv => AgentTypeOK
  BY DEF AgentInv
<1> QED
  BY <1>1, AgentInvHolds, PTL

\* start_run: an ended run has one audit row, with its own status, and the two differ
\* only while the request is between the two commits or broke off there.
THEOREM AuditAlwaysMatchesRun == AgentSpec => []AuditMatchesRun
<1>1. ASSUME AgentInv PROVE AuditMatchesRun
  <2>1. Ended => agentPc = "over"
    BY <1>1 DEF AgentInv, RunPlaced, Ended
  <2>2. agentPc \in AgentPC
    BY <1>1 DEF AgentInv, AgentTypeOK
  <2>3. agentPc = "over" => Ended /\ runAudit = {run.status} /\ run.status # "running"
    BY <1>1 DEF AgentInv, RunPlaced, AuditPlaced, Ended
  <2>4. run.status = "running" /\ runAudit # {} => agentPc \in {"update", "updateFailure", "broken"}
    BY <1>1, <2>3 DEF AgentInv, AuditPlaced
  <2> QED
    BY <2>1, <2>3, <2>4 DEF AuditMatchesRun
<1> QED
  BY <1>1, AgentInvHolds, PTL

\* Orchestrator and tools: whatever the models claim and however the corpus changes,
\* a run cites chunks of its own workspace that its logged calls cite.
THEOREM CitationsAlwaysEvidence == AgentSpec => []CitationsAreEvidence
<1>1. ASSUME AgentInv PROVE CitationsAreEvidence
  <2>1. \A c \in observed \cup toolCalls.cites \cup work.cites : InWorkspace(CallerWorkspace, DocumentOf(c))
    BY <1>1, InvFacts DEF AgentInv, EvidencePlaced, WorkOK, Citable
  <2>2. run.status = "completed" =>
            answer.citations = GetRun.citations /\ answer.related \subseteq DocumentsOf(answer.citations)
    BY <1>1 DEF AgentInv, EvidencePlaced, GetRun
  <2>3. work.sources \subseteq work.cites \cup DocumentsOf(work.cites)
    BY <1>1, InvFacts DEF WorkOK
  <2> QED
    BY <2>1, <2>2, <2>3 DEF CitationsAreEvidence
<1> QED
  BY <1>1, AgentInvHolds, PTL

\* log_event never commits, but the commit of the run record keeps every row.
THEOREM EndedRunAlwaysAccounted == AgentSpec => []EndedRunIsAccounted
<1>1. ASSUME AgentInv PROVE EndedRunIsAccounted
  <2>1. Ended => agentPc = "over"
    BY <1>1 DEF AgentInv, RunPlaced, Ended
  <2> QED
    BY <1>1, <2>1 DEF AgentInv, UsagePlaced, EndedRunIsAccounted, AllKept
<1> QED
  BY <1>1, AgentInvHolds, PTL

\* One action of the request is one step of the life of a run, or none.
LEMMA AgentRefines ==
    ASSUME AgentInv, AgentNext
    PROVE  [Investigation!InvestigationNext]_(Investigation!investigationVars)
<1> USE DEF Investigation!InvestigationNext, Investigation!investigationVars
<1> DEFINE told == run.status = "completed" /\ answer.limited
<1>1. CASE UNCHANGED <<run, toolCalls>> /\ told' = told
  BY <1>1
<1>2. run \in [status : {"none", "running", "completed", "failed"}, stepCount : {-1} \cup Nat]
      /\ toolCalls \in [rows : Nat, cites : SUBSET AllChunks]
  BY DEF AgentInv, AgentTypeOK
<1>3. CASE StartInvestigation
  <2>1. run.status = "none" /\ toolCalls' = toolCalls /\ run' = [run EXCEPT !.status = "running"]
    BY <1>3 DEF StartInvestigation, AgentInv, RunPlaced
  <2>2. run'.status = "running" /\ run'.stepCount = run.stepCount
    BY <1>2, <2>1
  <2>3. told' = told
    BY <2>1, <2>2
  <2> QED
    BY <2>1, <2>2, <2>3 DEF Investigation!Begin
<1>4. CASE RecordUnknownTool \/ RecordToolCall
  <2>1. agentPc \in ToolPC /\ run' = run /\ told' = told
    BY <1>4 DEF RecordUnknownTool, RecordToolCall, ToolPC
  <2>2. run.status = "running" /\ toolCalls.rows < MaxSteps
    BY <2>1 DEF AgentInv, RunPlaced, StepsCounted, ToolPC
  <2>3. toolCalls'.rows = toolCalls.rows + 1
    <3>1. CASE RecordUnknownTool
      BY <1>2, <3>1 DEF RecordUnknownTool
    <3>2. CASE RecordToolCall
      BY <3>2 DEF RecordToolCall
    <3> QED
      BY <1>4, <3>1, <3>2
  <2> QED
    BY <2>1, <2>2, <2>3 DEF Investigation!LogCall
<1>5. CASE CompleteRun
  <2>1. run.status = "running" /\ toolCalls' = toolCalls /\ answer' = answer
        /\ run' = [status |-> "completed", stepCount |-> toolCalls.rows]
    BY <1>5 DEF CompleteRun, AgentInv, RunPlaced
  <2>2. answer.limited = (toolCalls.rows = MaxSteps)
    BY <1>5 DEF CompleteRun, AgentInv, EvidencePlaced
  <2>3. told' = (toolCalls.rows = MaxSteps)
    BY <2>1, <2>2
  <2> QED
    BY <2>1, <2>3 DEF Investigation!Complete
<1>6. CASE FailRun
  <2>1. run.status = "running" /\ toolCalls' = toolCalls /\ run' = [run EXCEPT !.status = "failed"]
    BY <1>6 DEF FailRun, AgentInv, RunPlaced
  <2>2. run'.status = "failed" /\ run'.stepCount = run.stepCount
    BY <1>2, <2>1
  <2>3. told' = told
    BY <2>1, <2>2
  <2> QED
    BY <2>1, <2>2, <2>3 DEF Investigation!Fail
<1>7. ASSUME ~StartInvestigation, ~RecordUnknownTool, ~RecordToolCall, ~CompleteRun, ~FailRun
      PROVE  UNCHANGED <<run, toolCalls>> /\ told' = told
  <2>1. StepLimitReached \/ TimeoutExceeded \/ SearchKnowledgeBase \/ SearchForSuggestions
        \/ DocumentUnavailable \/ ReadDocument \/ DocumentEmpty \/ ReadChunks
        \/ EmbedQuery \/ EmbeddingFails \/ CompleteBatch \/ CompleteTool
        \/ MergePartialSummaries \/ ToolFails
        => UNCHANGED <<run, toolCalls, answer>>
    BY DEF StepLimitReached, TimeoutExceeded, SearchKnowledgeBase, SearchForSuggestions,
       DocumentUnavailable, ReadDocument, DocumentEmpty, ReadChunks, EmbedQuery, EmbeddingFails,
       CompleteBatch, CompleteTool, MergePartialSummaries, ToolFails, rowVars
  <2>2. NoUsablePlan \/ PlanFinish \/ PlanUnknownTool \/ CallToolInvalidly \/ CallTool
        => UNCHANGED <<run, toolCalls, answer>>
    BY DEF NoUsablePlan, PlanFinish, PlanUnknownTool, CallToolInvalidly, CallTool, CallSearchTool,
       CallDocumentTool, Planning, rowVars
  <2>3. SummaryFails \/ RecordCompletedAudit \/ RecordFailedAudit \/ Breaks
        => UNCHANGED <<run, toolCalls, answer>>
    BY DEF SummaryFails, RecordCompletedAudit, RecordFailedAudit, Breaks, rowVars
  <2>4. InsufficientContextSummary \/ GenerateSummary
        => UNCHANGED <<run, toolCalls>> /\ run.status = "running"
    BY DEF InsufficientContextSummary, GenerateSummary, rowVars, AgentInv, RunPlaced
  <2>5. \/ UNCHANGED <<run, toolCalls, answer>>
        \/ UNCHANGED <<run, toolCalls>> /\ run.status = "running"
    BY <1>7, <2>1, <2>2, <2>3, <2>4 DEF AgentNext, AgentWork
  <2> QED
    BY <2>5
<1> QED
  BY <1>1, <1>3, <1>4, <1>5, <1>6, <1>7

\* start_run, the orchestrator and the tool executor implement the life of a run that
\* is polled: created once, at most MaxSteps logged calls, settled at most once.
THEOREM InvestigationImplemented == AgentSpec => ImplementsInvestigation
<1>1. AgentInit => Investigation!InvestigationInit
  BY DEF AgentInit, Investigation!InvestigationInit
<1>2. AgentInv /\ [AgentStep]_<<agentVars, kbVars>>
          => [Investigation!InvestigationNext]_(Investigation!investigationVars)
  <2>1. ASSUME UNCHANGED agentVars PROVE UNCHANGED Investigation!investigationVars
    BY <2>1 DEF agentVars, rowVars, Investigation!investigationVars
  <2> QED
    BY <2>1, AgentRefines DEF AgentStep
<1> QED
  BY <1>1, <1>2, AgentInvHolds, PTL
     DEF AgentSpec, AgentStep, ImplementsInvestigation, Investigation!InvestigationSpec

-----------------------------------------------------------------------------
(* The calls made and the chunks read: the inductive invariant             *)

IsSequence(s) == Len(s) \in Nat /\ s = [i \in 1 .. Len(s) |-> s[i]]

\* How many provider calls there may have been since the loop looked at the clock.
CallsUpTo(pc, w) ==
    CASE pc = "idle" -> 0
      [] pc \in {"unknownTool", "embed", "readDocument", "readChunks"} -> 1
      [] pc = "search" -> 2
      [] pc = "complete" -> IF w.tool = "summarize_document"
                            THEN MaxSummaryBatches + 1 - Len(w.batches) ELSE MaxSummaryBatches + 1
      [] pc = "merge" -> MaxSummaryBatches + 1
      [] pc \in {"plan", "record", "summary"} -> MaxSummaryBatches + 2
      [] OTHER -> MaxSummaryBatches + 3

ClockPlaced == elapsed <= RunTimeout + CallsUpTo(agentPc, work) * CallTime

\* Only a summary has more than one prompt, and never too many.
BatchesFit(pc, w) ==
    pc = "complete" =>
        /\ IsSequence(w.batches) /\ Len(w.batches) <= MaxSummaryBatches
        /\ w.tool # "summarize_document" => Len(w.batches) = 1

\* What a summary or an extraction cites was read or is in a batch to come, unless
\* its output says that something is missing.
ReadingFits(pc, w) ==
    w.tool \in DocumentTools =>
        /\ pc \in {"readDocument", "readChunks"} =>
              w.todo = <<Head(w.todo)>> /\ w.loaded = <<>> /\ w.cites = {} /\ w.told = "all"
        /\ pc \in {"complete", "merge", "record"} =>
              w.told \in {"all", "no summary"} \cup Truncated \/ w.cites = {}
        /\ pc = "complete" /\ w.told = "all" =>
              \A c \in w.cites : c \in w.read \/ \E b \in 1 .. Len(w.batches) : c \in w.batches[b]
        /\ pc \in {"merge", "record"} /\ w.told = "all" => w.cites \subseteq w.read

BudgetInv ==
    /\ ClockPlaced
    /\ BatchesFit(agentPc, work)
    /\ ReadingFits(agentPc, work)

-----------------------------------------------------------------------------
(* The clock                                                               *)

LEMMA MoreCallsFit ==
    ASSUME NEW t \in Nat, NEW limit \in Nat, NEW e \in Nat, NEW i \in Nat, NEW j \in Nat,
           e <= limit + i * t
    PROVE  /\ i <= j => e <= limit + j * t
           /\ i < j => e + t <= limit + j * t
<1>1. ASSUME NEW k \in Nat PROVE k * t \in Nat /\ (i + k) * t = i * t + k * t
  OBVIOUS
<1>2. CASE i <= j
  <2>1. PICK k \in Nat : j = i + k
    <3>1. j - i \in Nat /\ j = i + (j - i)
      BY <1>2
    <3> QED
      BY <3>1
  <2>2. j * t = i * t + k * t /\ k * t \in Nat /\ i * t \in Nat
    BY <1>1, <2>1
  <2>3. i < j => k * t >= t
    <3>1. i < j => k - 1 \in Nat
      BY <2>1
    <3>2. \A n \in Nat : n * t \in Nat
      OBVIOUS
    <3>3. i < j => (k - 1) * t \in Nat /\ k * t = (k - 1) * t + t
      BY <3>1, <3>2
    <3> QED
      BY <2>2, <3>3
  <2> QED
    BY <2>2, <2>3
<1> QED
  BY <1>2

\* A call is made, or none, while there is room for it.
LEMMA ClockStep ==
    ASSUME elapsed \in Nat, NEW i \in Nat, elapsed <= RunTimeout + i * CallTime,
           NEW j \in Nat, j = CallsUpTo(agentPc', work'),
           \/ elapsed' = elapsed /\ i <= j
           \/ elapsed' \in {elapsed, elapsed + CallTime} /\ i < j
    PROVE  ClockPlaced'
<1>1. CallTime \in Nat /\ RunTimeout \in Nat
  BY AgentAssumption
<1>2. elapsed' <= RunTimeout + j * CallTime
  BY <1>1, MoreCallsFit
<1> QED
  BY <1>2 DEF ClockPlaced

-----------------------------------------------------------------------------
(* What is loaded and the prompts made of it                               *)

LEMMA OneIsSequence ==
    ASSUME NEW S
    PROVE  IsSequence(<<S>>) /\ Len(<<S>>) = 1 /\ <<S>>[1] = S
  BY DEF IsSequence

FirstRows(d, n) == [i \in 1 .. n |-> <<d, generation[d], i>>]

\* l is the tool call w after it has loaded d, the only document it is about.
Loaded(w, d, l) ==
    \E n \in Nat :
       /\ d \in Documents /\ n = LoadedCount[w.tool][d] /\ n \in 1 .. Len(ChunkTokens[d])
       /\ DOMAIN l = WorkFields /\ l.tool = w.tool /\ l.todo = <<>>
       /\ l.loaded = FirstRows(d, n)
       /\ \A c \in l.cites : \E i \in 1 .. n : c = <<d, generation[d], i>>

\* The only document of a summary or an extraction: all that is loaded is cited.
LEMMA OneDocumentLoaded ==
    ASSUME NEW w, WorkOK(w), NEW d, w.todo = <<d>>, w.loaded = <<>>, w.cites = {}, w.tool \in Tools,
           list_chunks_for_document(CallerWorkspace, d) # {}, NEW l, l = LoadChunks(w)
    PROVE  Loaded(w, d, l)
<1>1. WorkOK(w) /\ DOMAIN w = WorkFields
  BY DEF WorkOK
<1>2. d \in Documents
  <2>1. PICK c \in AllChunks : DocumentOf(c) = d
    BY DEF list_chunks_for_document, ChunkRows
  <2> QED
    BY <2>1 DEF AllChunks, DocumentOf
<1>3. PICK n : n = LoadedCount[w.tool][d]
  OBVIOUS
<1>4. n \in Nat /\ n \in 1 .. Len(ChunkTokens[d])
  <2>1. ChunkTokens[d] \in Seq(Nat \ {0}) /\ ChunkTokens[d] # <<>>
    BY <1>2, ChunksAssumption
  <2>2. n = SelectedChunks(ChunkTokens[d], InputBudget(w.tool))
    BY <1>2, <1>3 DEF LoadedCount
  <2>3. n \in 1 .. Len(ChunkTokens[d])
    BY <2>1, <2>2, SelectedWithin
  <2> QED
    BY <2>1, <2>3
<1> DEFINE rows == [i \in 1 .. n |-> <<d, generation[d], i>>]
<1>5. Head(w.todo) = d /\ Tail(w.todo) = <<>> /\ <<>> \o rows = rows
  <2>1. rows \in Seq({rows[i] : i \in 1 .. n})
    BY <1>4
  <2> QED
    BY <2>1, ConcatEmptySeq
<1>6. LoadChunks(w) =
         [w EXCEPT !.todo = <<>>, !.loaded = rows, !.cites = {rows[i] : i \in 1 .. n},
                      !.told = IF n < Len(ChunkTokens[d]) THEN "loaded in part" ELSE @]
  <2>1. w.cites \cup {rows[i] : i \in 1 .. n} = {rows[i] : i \in 1 .. n}
    OBVIOUS
  <2> QED
    BY <1>1, <1>3, <1>5, <2>1 DEF LoadChunks, WorkFields
<1>7. \A c \in {rows[i] : i \in 1 .. n} : \E i \in 1 .. n : c = <<d, generation[d], i>>
  OBVIOUS
<1> HIDE DEF rows
<1>8. /\ DOMAIN l = WorkFields /\ l.tool = w.tool /\ l.todo = <<>> /\ l.loaded = rows
      /\ l.cites = {rows[i] : i \in 1 .. n}
  BY <1>1, <1>6 DEF WorkFields
<1> QED
  BY <1>2, <1>3, <1>4, <1>7, <1>8 DEF rows, FirstRows, Loaded

\* Every chunk a summary has loaded is in a batch; those that are completed are all of
\* them, unless the output says otherwise.
LEMMA SummaryCovers ==
    ASSUME NEW d \in Documents, NEW n \in 1 .. Len(ChunkTokens[d]), n = LoadedCount["summarize_document"][d],
           NEW g, NEW l, l.loaded = [i \in 1 .. n |-> <<d, g, i>>]
    PROVE  /\ IsSequence(BatchesOf(l)) /\ Len(BatchesOf(l)) <= MaxSummaryBatches
           /\ Len(SummaryBatches[DocumentOf(l.loaded[1])]) \in Nat
           /\ Len(SummaryBatches[DocumentOf(l.loaded[1])]) <= MaxSummaryBatches =>
                \A i \in 1 .. n : \E b \in 1 .. Len(BatchesOf(l)) : <<d, g, i>> \in BatchesOf(l)[b]
<1> DEFINE tokens == SubSeq(ChunkTokens[d], 1, n)
           all == PackIntoBatches(tokens, MaxToolInput)
           m == Min({Len(all), MaxSummaryBatches})
<1>1. ChunkTokens[d] \in Seq(Nat \ {0}) /\ n \in Nat /\ n >= 1 /\ Len(ChunkTokens[d]) \in Nat
  BY ChunksAssumption
<1>2. tokens \in Seq(Nat \ {0}) /\ Len(tokens) = n
  <2>1. \A i \in 1 .. n : ChunkTokens[d][i] \in Nat \ {0}
    BY <1>1
  <2> QED
    BY <1>1, <2>1, SubSeqProperties
<1> HIDE DEF tokens
<1>3. /\ all \in Seq(SUBSET Nat) /\ Len(all) \in Nat
      /\ \A i \in 1 .. n : \E b \in 1 .. Len(all) : i \in all[b]
  <2>1. PICK b : b = all
    OBVIOUS
  <2>2. b \in Seq(SUBSET Nat) /\ \A i \in 1 .. Len(tokens) : \E k \in 1 .. Len(b) : i \in b[k]
    BY <1>2, <2>1, BatchesHoldAll
  <2> QED
    BY <1>2, <2>1, <2>2
<1>4. DocumentOf(l.loaded[1]) = d /\ SummaryBatches[d] = all
  <2>1. l.loaded[1] = <<d, g, 1>>
    BY <1>1
  <2> QED
    BY <2>1 DEF DocumentOf, SummaryBatches, tokens
<1> HIDE DEF all
<1>5. /\ m \in Nat /\ m <= Len(all) /\ m <= MaxSummaryBatches
      /\ Len(all) <= MaxSummaryBatches => m = Len(all)
  <2>1. MaxSummaryBatches \in Nat
    BY AgentAssumption
  <2>2. m = IF Len(all) <= MaxSummaryBatches THEN Len(all) ELSE MaxSummaryBatches
    BY <1>3, <2>1, MinOfTwo
  <2> QED
    BY <1>3, <2>1, <2>2
<1> DEFINE some == SubSeq(all, 1, m)
<1>6. CompletedBatches(l) = some
  BY <1>4 DEF CompletedBatches
<1> HIDE DEF m
<1>7. DOMAIN some = 1 .. m /\ \A b \in 1 .. m : some[b] = all[b]
  <2>1. \A b \in 1 .. m : all[b] \in SUBSET Nat
    BY <1>3, <1>5
  <2>2. some \in Seq(SUBSET Nat) /\ Len(some) = IF 1 <= m THEN m - 1 + 1 ELSE 0
    BY <1>5, <2>1, SubSeqProperties
  <2>3. Len(some) = m /\ DOMAIN some = 1 .. m
    BY <1>5, <2>2
  <2>4. \A b \in 1 .. m - 1 + 1 : some[b] = all[1 + b - 1]
    BY <1>5, <2>1, SubSeqProperties
  <2> QED
    BY <1>5, <2>3, <2>4
<1> HIDE DEF some
<1>8. BatchesOf(l) = [b \in 1 .. m |-> ChunksAt(l.loaded, all[b])]
  BY <1>6, <1>7 DEF BatchesOf
<1>9. Len(BatchesOf(l)) = m /\ IsSequence(BatchesOf(l))
  BY <1>5, <1>8 DEF IsSequence
<1>10. ASSUME Len(all) <= MaxSummaryBatches, NEW i \in 1 .. n
       PROVE  \E b \in 1 .. m : <<d, g, i>> \in ChunksAt(l.loaded, all[b])
  <2>1. PICK b \in 1 .. m : i \in all[b]
    BY <1>3, <1>5, <1>10
  <2>2. l.loaded[i] = <<d, g, i>>
    OBVIOUS
  <2> QED
    BY <2>1, <2>2 DEF ChunksAt
<1>11. ASSUME Len(all) <= MaxSummaryBatches, NEW i \in 1 .. n
       PROVE  \E b \in 1 .. Len(BatchesOf(l)) : <<d, g, i>> \in BatchesOf(l)[b]
  BY <1>8, <1>9, <1>10, <1>11
<1> QED
  BY <1>3, <1>4, <1>5, <1>9, <1>11

\* A summary or an extraction has a prompt for all it cites, or says so; and there is
\* one prompt at least to make for every tool but the summary.
LEMMA PromptsFit ==
    ASSUME AgentInv, BudgetInv, agentPc = "readChunks",
           list_chunks_for_document(CallerWorkspace, Head(work.todo)) # {}
    PROVE  LET w == Prompts(LoadChunks(work))
           IN  /\ BatchesFit("complete", w) /\ ReadingFits("complete", w)
               /\ w.tool = work.tool
<1>1. WorkOK(work) /\ work.tool \in Tools
  BY InvFacts DEF AgentInv, WorkPlaced, WorkFits
<1>2. PICK l : l = LoadChunks(work)
  OBVIOUS
<1>3. DOMAIN l = WorkFields /\ l.tool = work.tool
  BY <1>1, <1>2 DEF LoadChunks, WorkOK, WorkFields
<1>4. PICK w : w = Prompts(l)
  OBVIOUS
<1>5. MaxSummaryBatches \in Nat /\ 1 <= MaxSummaryBatches
  BY AgentAssumption
<1>6. CASE work.tool \notin DocumentTools
  <2>1. work.tool # "summarize_document" /\ work.tool # "extract_action_items"
    BY <1>6 DEF DocumentTools
  <2>2. w = CompareLoaded(l)
    BY <1>3, <1>4, <2>1 DEF Prompts
  <2>3. PICK S : w = [l EXCEPT !.batches = <<S>>]
    BY <2>2 DEF CompareLoaded
  <2>4. w.batches = <<S>> /\ w.tool = work.tool
    BY <1>3, <2>3 DEF WorkFields
  <2> QED
    BY <1>2, <1>4, <1>5, <1>6, <2>1, <2>4, OneIsSequence DEF BatchesFit, ReadingFits
<1>7. CASE work.tool \in DocumentTools
  <2>1. PICK d : work.todo = <<d>> /\ work.loaded = <<>> /\ work.cites = {} /\ Head(work.todo) = d
                 /\ work.told = "all"
    BY <1>7 DEF BudgetInv, ReadingFits
  <2>2. PICK n \in Nat :
            /\ d \in Documents /\ n = LoadedCount[work.tool][d] /\ n \in 1 .. Len(ChunkTokens[d])
            /\ l.loaded = FirstRows(d, n)
            /\ \A c \in l.cites : \E i \in 1 .. n : c = <<d, generation[d], i>>
    <3>1. list_chunks_for_document(CallerWorkspace, d) # {}
      BY <2>1
    <3>2. work.todo = <<d>> /\ work.loaded = <<>> /\ work.cites = {}
      BY <2>1
    <3>3. PICK v : v = work
      OBVIOUS
    <3>4. /\ WorkOK(v) /\ v.todo = <<d>> /\ v.loaded = <<>> /\ v.cites = {} /\ v.tool \in Tools
          /\ l = LoadChunks(v)
      BY <1>1, <1>2, <3>2, <3>3
    <3>5. Loaded(v, d, l)
      BY <3>1, <3>4, OneDocumentLoaded
    <3> QED
      BY <3>3, <3>5 DEF Loaded
  <2>3. l.told \in {"all", "loaded in part"}
    BY <1>1, <1>2, <2>1 DEF LoadChunks, WorkOK, WorkFields
  <2>4. CASE work.tool = "extract_action_items"
    <3>1. w = ExtractFromLoaded(l)
      BY <1>3, <1>4, <2>4 DEF Prompts
    <3>2. w = [l EXCEPT !.batches = <<ChunksAt(l.loaded, DOMAIN l.loaded)>>]
      BY <3>1 DEF ExtractFromLoaded
    <3>3. w.batches = <<ChunksAt(l.loaded, DOMAIN l.loaded)>> /\ w.tool = work.tool /\ w.cites = l.cites
          /\ w.told = l.told
      BY <1>3, <3>2 DEF WorkFields
    <3>4. \A c \in l.cites : c \in ChunksAt(l.loaded, DOMAIN l.loaded)
      BY <2>2 DEF ChunksAt, FirstRows
    <3>5. \A c \in w.cites : \E b \in 1 .. Len(w.batches) : c \in w.batches[b]
      BY <3>3, <3>4, OneIsSequence
    <3>6. w.told \in {"all"} \cup Truncated
      BY <2>3, <3>3 DEF Truncated
    <3> QED
      BY <1>2, <1>4, <1>5, <2>4, <3>3, <3>5, <3>6, OneIsSequence DEF BatchesFit, ReadingFits
  <2>5. CASE work.tool = "summarize_document"
    <3>1. w = SummarizeLoaded(l)
      BY <1>3, <1>4, <2>5 DEF Prompts
    <3>2. /\ w.batches = BatchesOf(l) /\ w.tool = work.tool /\ w.cites = l.cites
          /\ w.told = "all" => ~(Len(SummaryBatches[DocumentOf(l.loaded[1])]) > MaxSummaryBatches)
      BY <1>3, <3>1 DEF SummarizeLoaded, WorkFields
    <3>3. PICK g : g = generation[d]
      OBVIOUS
    <3>4. n = LoadedCount["summarize_document"][d] /\ l.loaded = [i \in 1 .. n |-> <<d, g, i>>]
      BY <2>2, <2>5, <3>3 DEF FirstRows
    <3>5. /\ IsSequence(BatchesOf(l)) /\ Len(BatchesOf(l)) <= MaxSummaryBatches
          /\ Len(SummaryBatches[DocumentOf(l.loaded[1])]) \in Nat
          /\ Len(SummaryBatches[DocumentOf(l.loaded[1])]) <= MaxSummaryBatches =>
                \A i \in 1 .. n : \E b \in 1 .. Len(BatchesOf(l)) : <<d, g, i>> \in BatchesOf(l)[b]
      BY <2>2, <3>4, SummaryCovers
    <3>6. w.told = "all" => \A c \in w.cites : \E b \in 1 .. Len(w.batches) : c \in w.batches[b]
      BY <1>5, <2>2, <3>2, <3>3, <3>5
    <3>7. w.told \in {"all"} \cup Truncated
      BY <1>3, <2>3, <3>1 DEF SummarizeLoaded, WorkFields, Truncated
    <3> QED
      BY <1>2, <1>4, <2>5, <3>2, <3>5, <3>6, <3>7 DEF BatchesFit, ReadingFits
  <2> QED
    BY <1>7, <2>4, <2>5 DEF DocumentTools
<1> QED
  BY <1>6, <1>7

-----------------------------------------------------------------------------
(* Every step keeps the calls counted and the chunks accounted for         *)

\* How many calls there may have been is a natural number.
LEMMA CallsCounted ==
    ASSUME AgentInv, BudgetInv
    PROVE  CallsUpTo(agentPc, work) \in Nat
<1>1. MaxSummaryBatches \in Nat /\ MaxSummaryBatches + 1 \in Nat /\ MaxSummaryBatches + 2 \in Nat
      /\ MaxSummaryBatches + 3 \in Nat
  BY AgentAssumption
<1>2. agentPc = "complete" => MaxSummaryBatches + 1 - Len(work.batches) \in Nat
  BY <1>1 DEF BudgetInv, BatchesFit, IsSequence
<1> QED
  BY <1>1, <1>2 DEF CallsUpTo

\* There are never more than those of one planning call, one tool and the summary.
LEMMA CallsWithin ==
    ASSUME AgentInv, BudgetInv
    PROVE  CallsUpTo(agentPc, work) <= MaxSummaryBatches + 3
<1> DEFINE m == MaxSummaryBatches
           n == Len(work.batches)
           i == CallsUpTo(agentPc, work)
<1>1. m \in Nat
  BY AgentAssumption
<1>2. agentPc = "complete" => n \in Nat
  BY DEF BudgetInv, BatchesFit, IsSequence
<1>3. i \in {0, 1, 2, m + 1, m + 2, m + 3} \/ (n \in Nat /\ i = m + 1 - n)
  BY <1>2 DEF CallsUpTo
<1> HIDE DEF m, n, i
<1>4. i <= m + 3
  BY <1>1, <1>3
<1> QED
  BY <1>4 DEF i, m

\* A step outside the tool calls, or one whose output has nothing to account for.
LEMMA NothingToRead ==
    ASSUME NEW pc, NEW w, pc # "complete",
           \/ pc \notin {"readDocument", "readChunks", "merge", "record"}
           \/ w.tool \notin DocumentTools
           \/ w.told # "all" /\ w.cites = {} /\ pc \in {"merge", "record"}
    PROVE  BatchesFit(pc, w) /\ ReadingFits(pc, w)
  BY DEF BatchesFit, ReadingFits

LEMMA FreshWork ==
    /\ NoWork.tool \notin DocumentTools
    /\ FailedOutput.told = "failed" /\ FailedOutput.cites = {}
  BY DEF NoWork, FailedOutput, DocumentTools

\* A planning call follows a look at the clock.
LEMMA PlanKeepsBudget ==
    ASSUME AgentInv, BudgetInv, Planning, NEW j \in Nat, j = CallsUpTo(agentPc', work'), 0 < j,
           BatchesFit(agentPc', work'), ReadingFits(agentPc', work')
    PROVE  BudgetInv'
<1>1. elapsed \in Nat /\ elapsed <= RunTimeout /\ elapsed' \in {elapsed, elapsed + CallTime}
  BY InvFacts DEF Planning, InTime, complete_agent_step, ProviderCall
<1>2. elapsed <= RunTimeout + 0 * CallTime
  BY <1>1, AgentAssumption
<1>3. ClockPlaced'
  BY <1>1, <1>2, ClockStep
<1> QED
  BY <1>3 DEF BudgetInv

\* Any other step.
LEMMA StepKeepsBudget ==
    ASSUME AgentInv, BudgetInv, NEW j \in Nat, j = CallsUpTo(agentPc', work'),
           \/ elapsed' = elapsed /\ CallsUpTo(agentPc, work) <= j
           \/ elapsed' \in {elapsed, elapsed + CallTime} /\ CallsUpTo(agentPc, work) < j,
           BatchesFit(agentPc', work'), ReadingFits(agentPc', work')
    PROVE  BudgetInv'
<1>1. elapsed \in Nat /\ CallsUpTo(agentPc, work) \in Nat
  BY InvFacts, CallsCounted
<1>2. elapsed <= RunTimeout + CallsUpTo(agentPc, work) * CallTime
  BY DEF BudgetInv, ClockPlaced
<1>3. ClockPlaced'
  <2>1. PICK i \in Nat : i = CallsUpTo(agentPc, work)
    BY <1>1
  <2> QED
    BY <1>1, <1>2, <2>1, ClockStep
<1> QED
  BY <1>3 DEF BudgetInv

\* The calls counted at each step of the request.
LEMMA CallsAt ==
    ASSUME NEW pc, NEW w
    PROVE  /\ pc \in {"unknownTool", "embed", "readDocument", "readChunks"} => CallsUpTo(pc, w) = 1
           /\ pc = "search" => CallsUpTo(pc, w) = 2
           /\ pc = "complete" /\ w.tool = "summarize_document" =>
                 CallsUpTo(pc, w) = MaxSummaryBatches + 1 - Len(w.batches)
           /\ pc = "complete" /\ w.tool # "summarize_document" => CallsUpTo(pc, w) = MaxSummaryBatches + 1
           /\ pc = "merge" => CallsUpTo(pc, w) = MaxSummaryBatches + 1
           /\ pc \in {"plan", "record", "summary"} => CallsUpTo(pc, w) = MaxSummaryBatches + 2
           /\ pc = "idle" => CallsUpTo(pc, w) = 0
           /\ pc \in {"auditFailure", "updateFailure", "audit", "update", "over", "broken"} =>
                 CallsUpTo(pc, w) = MaxSummaryBatches + 3
  BY DEF CallsUpTo

LEMMA CallNumbers ==
    /\ MaxSummaryBatches \in Nat /\ 1 <= MaxSummaryBatches
    /\ MaxSummaryBatches + 1 \in Nat /\ MaxSummaryBatches + 2 \in Nat /\ MaxSummaryBatches + 3 \in Nat
  BY AgentAssumption

LEMMA CallsPositive ==
    ASSUME NEW j, j \in {1, 2, MaxSummaryBatches + 1, MaxSummaryBatches + 2, MaxSummaryBatches + 3}
    PROVE  j \in Nat /\ 0 < j /\ j <= MaxSummaryBatches + 3
<1> DEFINE m == MaxSummaryBatches
<1>1. m \in Nat /\ 1 <= m
  BY AgentAssumption
<1> HIDE DEF m
<1>2. j \in {1, 2, m + 1, m + 2, m + 3}
  BY DEF m
<1>3. j \in Nat /\ 0 < j /\ j <= m + 3
  BY <1>1, <1>2
<1> QED
  BY <1>3 DEF m

LEMMA PlansKeepBudget ==
    ASSUME AgentInv, BudgetInv,
           NoUsablePlan \/ PlanFinish \/ PlanUnknownTool \/ CallToolInvalidly \/ CallTool
    PROVE  BudgetInv'
<1>1. CASE NoUsablePlan \/ PlanFinish \/ PlanUnknownTool
  <2>1. Planning /\ agentPc' \in {"auditFailure", "summary", "unknownTool"}
    BY <1>1 DEF NoUsablePlan, PlanFinish, PlanUnknownTool, Proceed
  <2>2. BatchesFit(agentPc', work') /\ ReadingFits(agentPc', work')
    BY <2>1, NothingToRead
  <2>3. CallsUpTo(agentPc', work') \in {1, 2, MaxSummaryBatches + 1, MaxSummaryBatches + 2, MaxSummaryBatches + 3}
    BY <2>1, CallsAt
  <2> QED
    BY <2>1, <2>2, <2>3, CallsPositive, PlanKeepsBudget
<1>2. CASE CallToolInvalidly
  <2>1. Planning /\ agentPc' = "record" /\ work' = NoWork
    BY <1>2 DEF CallToolInvalidly, Proceed
  <2>2. BatchesFit(agentPc', work') /\ ReadingFits(agentPc', work')
    BY <2>1, FreshWork, NothingToRead
  <2>3. CallsUpTo(agentPc', work') \in {1, 2, MaxSummaryBatches + 1, MaxSummaryBatches + 2, MaxSummaryBatches + 3}
    BY <2>1, CallsAt
  <2> QED
    BY <2>1, <2>2, <2>3, CallsPositive, PlanKeepsBudget
<1>3. ASSUME NEW tool \in SearchTools, NEW q, NEW filter, CallSearchTool(tool, q, filter)
      PROVE  BudgetInv'
  <2>1. /\ Planning /\ agentPc' \in {"search", "embed"}
        /\ work' = [NoWork EXCEPT !.tool = tool, !.query = {q}, !.filter = filter]
    BY <1>3 DEF CallSearchTool, Proceed
  <2>2. work'.tool = tool /\ tool \notin DocumentTools
    BY <2>1 DEF NoWork, SearchTools, DocumentTools
  <2>3. BatchesFit(agentPc', work') /\ ReadingFits(agentPc', work')
    BY <2>1, <2>2, NothingToRead
  <2>4. CallsUpTo(agentPc', work') \in {1, 2, MaxSummaryBatches + 1, MaxSummaryBatches + 2, MaxSummaryBatches + 3}
    BY <2>1, CallsAt
  <2> QED
    BY <2>1, <2>3, <2>4, CallsPositive, PlanKeepsBudget
<1>4. ASSUME NEW tool, NEW ids, CallDocumentTool(tool, ids), tool \in DocumentTools => ids = <<Head(ids)>>
      PROVE  BudgetInv'
  <2>1. /\ Planning /\ agentPc' = "readDocument"
        /\ work' = [NoWork EXCEPT !.tool = tool, !.todo = ids]
    BY <1>4 DEF CallDocumentTool, Proceed
  <2>2. work'.tool = tool /\ work'.todo = ids /\ work'.loaded = <<>> /\ work'.cites = {}
        /\ work'.told = "all"
    BY <2>1 DEF NoWork
  <2>3. BatchesFit(agentPc', work') /\ ReadingFits(agentPc', work')
    BY <1>4, <2>1, <2>2 DEF BatchesFit, ReadingFits
  <2>4. CallsUpTo(agentPc', work') \in {1, 2, MaxSummaryBatches + 1, MaxSummaryBatches + 2, MaxSummaryBatches + 3}
    BY <2>1, CallsAt
  <2> QED
    BY <2>1, <2>3, <2>4, CallsPositive, PlanKeepsBudget
<1>5. CASE CallTool
  <2>1. CASE \E tool \in SearchTools, q \in Queries, filter \in Filters \cup {Documents} :
                CallSearchTool(tool, q, filter)
    BY <1>3, <2>1
  <2>2. CASE \E tool \in DocumentTools, d \in Documents : CallDocumentTool(tool, <<d>>)
    BY <1>4, <2>2
  <2>3. CASE \E ids \in Comparisons : CallDocumentTool("compare_incidents", ids)
    <3>1. "compare_incidents" \notin DocumentTools
      BY DEF DocumentTools
    <3> QED
      BY <1>4, <2>3, <3>1
  <2> QED
    BY <1>5, <2>1, <2>2, <2>3 DEF CallTool
<1> QED
  BY <1>1, <1>2, <1>3, <1>5

\* The output of a tool that failed has nothing to account for.
LEMMA FailureKeepsBudget ==
    ASSUME AgentInv, BudgetInv, EmbeddingFails \/ DocumentUnavailable \/ DocumentEmpty \/ ToolFails
    PROVE  BudgetInv'
<1>1. /\ agentPc \in {"embed", "readDocument", "readChunks", "complete", "merge"}
      /\ agentPc' = "record" /\ work' = FailedOutput /\ elapsed' \in {elapsed, elapsed + CallTime}
  BY DEF EmbeddingFails, DocumentUnavailable, DocumentEmpty, ToolFails, Proceed, complete_agent_step, ProviderCall
<1>2. BatchesFit(agentPc', work') /\ ReadingFits(agentPc', work')
  BY <1>1, FreshWork, NothingToRead
<1>3. CallsUpTo(agentPc', work') = MaxSummaryBatches + 2
  BY <1>1, CallsAt
<1>4. CallsUpTo(agentPc, work) < MaxSummaryBatches + 2
  <2> DEFINE m == MaxSummaryBatches
             n == Len(work.batches)
             i == CallsUpTo(agentPc, work)
  <2>1. agentPc = "complete" => n \in Nat
    BY DEF BudgetInv, BatchesFit, IsSequence
  <2>2. i = 1 \/ i = m + 1 \/ (n \in Nat /\ i = m + 1 - n)
    BY <1>1, <2>1, CallsAt
  <2>3. m \in Nat /\ 1 <= m
    BY CallNumbers
  <2> HIDE DEF m, n, i
  <2>4. i < m + 2
    BY <2>2, <2>3
  <2> QED
    BY <2>4 DEF i, m
<1> QED
  BY <1>1, <1>2, <1>3, <1>4, CallNumbers, StepKeepsBudget

LEMMA SearchKeepsBudget ==
    ASSUME AgentInv, BudgetInv, EmbedQuery \/ SearchKnowledgeBase \/ SearchForSuggestions
    PROVE  BudgetInv'
<1>1. CASE EmbedQuery
  <2>1. /\ agentPc = "embed" /\ agentPc' = "search" /\ work' = work
        /\ elapsed' \in {elapsed, elapsed + CallTime}
    BY <1>1 DEF EmbedQuery, Proceed, ProviderCall
  <2>2. BatchesFit(agentPc', work') /\ ReadingFits(agentPc', work')
    BY <2>1, NothingToRead
  <2>3. CallsUpTo(agentPc', work') = 2 /\ CallsUpTo(agentPc, work) = 1
    BY <2>1, CallsAt
  <2> QED
    BY <2>1, <2>2, <2>3, StepKeepsBudget
<1>2. CASE SearchKnowledgeBase
  <2>1. /\ agentPc = "search" /\ agentPc' = "record" /\ elapsed' = elapsed
        /\ work.tool = "search_knowledge_base"
    BY <1>2 DEF SearchKnowledgeBase, Proceed
  <2>2. PICK m : work' = Output([work EXCEPT !.cites = m, !.read = m])
    BY <1>2 DEF SearchKnowledgeBase
  <2>3. DOMAIN work = WorkFields
    BY InvFacts DEF WorkOK
  <2>4. work'.tool = work.tool
    BY <2>2, <2>3 DEF Output, WorkFields
  <2>5. BatchesFit(agentPc', work') /\ ReadingFits(agentPc', work')
    BY <2>1, <2>4, NothingToRead DEF DocumentTools
  <2>6. CallsUpTo(agentPc', work') = MaxSummaryBatches + 2 /\ CallsUpTo(agentPc, work) = 2
    BY <2>1, CallsAt
  <2> QED
    BY <2>1, <2>5, <2>6, CallNumbers, StepKeepsBudget
<1>3. CASE SearchForSuggestions
  <2>1. /\ agentPc = "search" /\ elapsed' = elapsed /\ work.tool = "suggest_debugging_steps"
        /\ CallsUpTo(agentPc, work) = 2
    BY <1>3, CallsAt DEF SearchForSuggestions
  <2>2. PICK m : \/ agentPc' = "record" /\ work' = FailedOutput
                 \/ agentPc' = "complete" /\ work' = [work EXCEPT !.cites = m, !.batches = <<m>>]
    BY <1>3 DEF SearchForSuggestions, Proceed
  <2>3. CASE agentPc' = "record" /\ work' = FailedOutput
    <3>1. BatchesFit(agentPc', work') /\ ReadingFits(agentPc', work')
      BY <2>3, FreshWork, NothingToRead
    <3>2. CallsUpTo(agentPc', work') = MaxSummaryBatches + 2
      BY <2>3, CallsAt
    <3> QED
      BY <2>1, <3>1, <3>2, CallNumbers, StepKeepsBudget
  <2>4. CASE agentPc' = "complete" /\ work' = [work EXCEPT !.cites = m, !.batches = <<m>>]
    <3>1. DOMAIN work = WorkFields
      BY InvFacts DEF WorkOK
    <3>2. work'.tool = "suggest_debugging_steps" /\ work'.batches = <<m>>
      BY <2>1, <2>4, <3>1 DEF WorkFields
    <3>3. BatchesFit(agentPc', work') /\ ReadingFits(agentPc', work')
      BY <3>2, CallNumbers, OneIsSequence DEF BatchesFit, ReadingFits, DocumentTools
    <3>4. CallsUpTo(agentPc', work') = MaxSummaryBatches + 1
      BY <2>4, <3>2, CallsAt
    <3> QED
      BY <2>1, <3>3, <3>4, CallNumbers, StepKeepsBudget
  <2> QED
    BY <2>2, <2>3, <2>4
<1> QED
  BY <1>1, <1>2, <1>3

LEMMA LoadKeepsBudget ==
    ASSUME AgentInv, BudgetInv, ReadDocument \/ ReadChunks
    PROVE  BudgetInv'
<1>1. CASE ReadDocument
  <2>1. agentPc = "readDocument" /\ agentPc' = "readChunks" /\ work' = work /\ elapsed' = elapsed
    BY <1>1 DEF ReadDocument, Proceed
  <2>2. BatchesFit(agentPc', work') /\ ReadingFits(agentPc', work')
    BY <2>1 DEF BudgetInv, BatchesFit, ReadingFits
  <2>3. CallsUpTo(agentPc', work') = 1 /\ CallsUpTo(agentPc, work) = 1
    BY <2>1, CallsAt
  <2> QED
    BY <2>1, <2>2, <2>3, StepKeepsBudget
<1>2. CASE ReadChunks
  <2>1. /\ agentPc = "readChunks" /\ elapsed' = elapsed /\ CallsUpTo(agentPc, work) = 1
        /\ list_chunks_for_document(CallerWorkspace, Head(work.todo)) # {}
    BY <1>2, CallsAt DEF ReadChunks
  <2>2. WorkOK(work) /\ DOMAIN work = WorkFields /\ work.tool \in Tools
    BY <2>1, InvFacts DEF WorkOK, AgentInv, WorkPlaced, WorkFits
  <2>3. PICK l : /\ l = LoadChunks(work)
                 /\ \/ l.todo # <<>> /\ work' = l /\ agentPc' = "readDocument"
                    \/ l.todo = <<>> /\ work' = Prompts(l) /\ agentPc' = "complete"
    BY <1>2 DEF ReadChunks, Proceed
  <2>4. CASE l.todo # <<>> /\ work' = l /\ agentPc' = "readDocument"
    <3>1. l.tool = work.tool /\ l.todo = Tail(work.todo)
      BY <2>2, <2>3 DEF LoadChunks, WorkFields
    <3>2. work.tool \notin DocumentTools
      <4>1. work.tool \in DocumentTools => work.todo = <<Head(work.todo)>>
        BY <2>1 DEF BudgetInv, ReadingFits
      <4>2. Tail(<<Head(work.todo)>>) = <<>>
        OBVIOUS
      <4> QED
        BY <2>4, <3>1, <4>1, <4>2
    <3>3. BatchesFit(agentPc', work') /\ ReadingFits(agentPc', work')
      BY <2>4, <3>1, <3>2, NothingToRead
    <3>4. CallsUpTo(agentPc', work') = 1
      BY <2>4, CallsAt
    <3> QED
      BY <2>1, <3>3, <3>4, StepKeepsBudget
  <2>5. CASE l.todo = <<>> /\ work' = Prompts(l) /\ agentPc' = "complete"
    <3>1. BatchesFit("complete", work') /\ ReadingFits("complete", work') /\ work'.tool = work.tool
      BY <2>1, <2>3, <2>5, PromptsFit
    <3>2. IsSequence(work'.batches) /\ Len(work'.batches) \in Nat /\ Len(work'.batches) <= MaxSummaryBatches
      BY <3>1 DEF BatchesFit, IsSequence
    <3>3. CallsUpTo(agentPc', work') \in {MaxSummaryBatches + 1, MaxSummaryBatches + 1 - Len(work'.batches)}
      BY <2>5, CallsAt
    <3>4. CallsUpTo(agentPc', work') \in Nat /\ 1 <= CallsUpTo(agentPc', work')
      <4>1. PICK n : n = Len(work'.batches)
        OBVIOUS
      <4>2. PICK m : m = MaxSummaryBatches
        OBVIOUS
      <4>3. PICK j : j = CallsUpTo(agentPc', work')
        OBVIOUS
      <4>4. m \in Nat /\ 1 <= m /\ n \in Nat /\ n <= m /\ j \in {m + 1, m + 1 - n}
        BY <3>2, <3>3, <4>1, <4>2, <4>3, CallNumbers
      <4>5. j \in Nat /\ 1 <= j
        BY <4>4
      <4> QED
        BY <4>3, <4>5
    <3> QED
      BY <2>1, <2>5, <3>1, <3>4, StepKeepsBudget
  <2> QED
    BY <2>3, <2>4, <2>5
<1> QED
  BY <1>1, <1>2

LEMMA TailOfSequence ==
    ASSUME NEW s, IsSequence(s), 1 <= Len(s)
    PROVE  /\ IsSequence(Tail(s)) /\ Len(Tail(s)) = Len(s) - 1 /\ Head(s) = s[1]
           /\ \A i \in 1 .. Len(s) - 1 : Tail(s)[i] = s[i + 1]
<1>1. PICK S : \A i \in 1 .. Len(s) : s[i] \in S
  <2>1. \A i \in 1 .. Len(s) : s[i] \in {s[k] : k \in 1 .. Len(s)}
    OBVIOUS
  <2> QED
    BY <2>1
<1>2. s \in Seq(S) /\ Len(s) \in Nat /\ s # <<>>
  BY <1>1 DEF IsSequence
<1>3. /\ Tail(s) \in Seq(S) /\ Len(Tail(s)) = Len(s) - 1 /\ Head(s) = s[1]
      /\ \A i \in 1 .. Len(s) - 1 : Tail(s)[i] = s[i + 1]
  BY <1>2
<1>4. Tail(s) = [i \in 1 .. Len(Tail(s)) |-> Tail(s)[i]] /\ Len(Tail(s)) \in Nat
  <2>1. PICK t : t = Tail(s)
    OBVIOUS
  <2>2. t \in [1 .. Len(t) -> S] /\ Len(t) \in Nat
    <3>1. t \in Seq(S)
      BY <1>3, <2>1
    <3> QED
      BY <3>1, LenProperties
  <2>3. t = [i \in 1 .. Len(t) |-> t[i]]
    BY <2>2, Zenon
  <2> QED
    BY <2>1, <2>2, <2>3
<1> QED
  BY <1>3, <1>4 DEF IsSequence

\* Only a summary has a batch to complete before its last.
LEMMA BatchKeepsBudget ==
    ASSUME AgentInv, BudgetInv, CompleteBatch
    PROVE  BudgetInv'
<1>1. /\ agentPc = "complete" /\ agentPc' = "complete" /\ Len(work.batches) > 1
      /\ elapsed' \in {elapsed, elapsed + CallTime}
  BY DEF CompleteBatch, complete_agent_step, ProviderCall
<1>2. PICK p : work' = [work EXCEPT !.batches = Tail(@), !.read = @ \cup Head(work.batches), !.partials = p]
  <2>1. PICK produced \in {0, 1} :
            work' = [work EXCEPT !.batches = Tail(@), !.read = @ \cup Head(work.batches),
                                 !.partials = @ + produced]
    BY DEF CompleteBatch
  <2> QED
    BY <2>1
<1>3. /\ IsSequence(work.batches) /\ Len(work.batches) \in Nat /\ Len(work.batches) <= MaxSummaryBatches
      /\ work.tool = "summarize_document"
  BY <1>1 DEF BudgetInv, BatchesFit, IsSequence
<1>4. /\ work'.tool = work.tool /\ work'.batches = Tail(work.batches) /\ work'.told = work.told
      /\ work'.cites = work.cites /\ work'.read = work.read \cup Head(work.batches)
  BY <1>2, InvFacts DEF WorkOK, WorkFields
<1>5. PICK b : b = work.batches
  OBVIOUS
<1>6. /\ IsSequence(Tail(b)) /\ Len(Tail(b)) = Len(b) - 1 /\ Head(b) = b[1]
      /\ \A i \in 1 .. Len(b) - 1 : Tail(b)[i] = b[i + 1]
  BY <1>1, <1>3, <1>5, TailOfSequence
<1>7. BatchesFit(agentPc', work')
  <2>1. Len(Tail(b)) <= MaxSummaryBatches
    BY <1>3, <1>5, <1>6, CallNumbers
  <2> QED
    BY <1>3, <1>4, <1>5, <1>6, <2>1 DEF BatchesFit
<1>8. ReadingFits(agentPc', work')
  <2>1. SUFFICES ASSUME work.told = "all", NEW c \in work.cites
                 PROVE  c \in work'.read \/ \E i \in 1 .. Len(Tail(b)) : c \in Tail(b)[i]
    <3>1. work.tool \in DocumentTools => work.told \in {"all", "no summary"} \cup Truncated \/ work.cites = {}
      BY <1>1 DEF BudgetInv, ReadingFits
    <3> QED
      BY <1>1, <1>4, <1>5, <3>1 DEF ReadingFits
  <2>2. c \in work.read \/ \E i \in 1 .. Len(b) : c \in b[i]
    BY <1>1, <1>3, <1>5, <2>1 DEF BudgetInv, ReadingFits, DocumentTools
  <2>3. ASSUME NEW i \in 1 .. Len(b), c \in b[i]
        PROVE  c \in b[1] \/ \E k \in 1 .. Len(Tail(b)) : c \in Tail(b)[k]
    <3>1. Len(b) \in Nat
      BY <1>3, <1>5
    <3>2. CASE i # 1
      <4>1. i - 1 \in 1 .. Len(b) - 1 /\ (i - 1) + 1 = i
        BY <2>3, <3>1, <3>2
      <4>2. Tail(b)[i - 1] = b[i]
        BY <1>6, <4>1
      <4> QED
        BY <1>6, <2>3, <4>1, <4>2
    <3> QED
      BY <2>3, <3>2
  <2> QED
    BY <1>4, <1>5, <1>6, <2>2, <2>3
<1>9. CallsUpTo(agentPc, work) = MaxSummaryBatches + 1 - Len(b)
      /\ CallsUpTo(agentPc', work') = MaxSummaryBatches + 1 - Len(Tail(b))
  BY <1>1, <1>3, <1>4, <1>5, CallsAt
<1>10. CallsUpTo(agentPc', work') \in Nat /\ CallsUpTo(agentPc, work) < CallsUpTo(agentPc', work')
  <2> DEFINE m == MaxSummaryBatches
             n == Len(b)
             i == CallsUpTo(agentPc, work)
             j == CallsUpTo(agentPc', work')
  <2>1. m \in Nat /\ n \in Nat /\ n <= m /\ n > 1 /\ i = m + 1 - n /\ j = m + 1 - (n - 1)
    BY <1>1, <1>3, <1>5, <1>6, <1>9, CallNumbers
  <2> HIDE DEF m, n, i, j
  <2>2. j \in Nat /\ i < j
    BY <2>1
  <2> QED
    BY <2>2 DEF i, j
<1> QED
  BY <1>1, <1>7, <1>8, <1>10, StepKeepsBudget

\* What the output of a tool says of its call.
LEMMA OutputSays ==
    ASSUME NEW w, DOMAIN w = WorkFields
    PROVE  /\ Output(w).tool = w.tool /\ Output(w).told = w.told
           /\ Output(w).cites = w.cites /\ Output(w).read = w.read
  BY DEF Output, WorkFields

LEMMA ToolKeepsBudget ==
    ASSUME AgentInv, BudgetInv, CompleteTool
    PROVE  BudgetInv'
<1>1. /\ agentPc = "complete" /\ Len(work.batches) = 1 /\ elapsed' \in {elapsed, elapsed + CallTime}
  BY DEF CompleteTool, complete_agent_step, ProviderCall
<1>2. DOMAIN work = WorkFields
  BY InvFacts DEF WorkOK
<1>3. PICK produced \in {0, 1}, sources \in SourcesKept(work) :
        LET read == work.read \cup Head(work.batches)
            partials == work.partials + produced
            done == [work EXCEPT !.read = read, !.sources = sources,
                                 !.batches = <<>>, !.partials = partials]
        IN  IF work.tool = "summarize_document" /\ partials > 1
            THEN work' = done /\ agentPc' = "merge"
            ELSE /\ work' = Output([done EXCEPT !.told =
                       IF work.tool = "summarize_document" /\ partials = 0 THEN Unsummarized(@) ELSE @])
                 /\ agentPc' = "record"
  BY DEF CompleteTool, Proceed
<1>4. PICK done : done = [work EXCEPT !.read = work.read \cup Head(work.batches), !.sources = sources,
                                      !.batches = <<>>, !.partials = work.partials + produced]
  OBVIOUS
<1>5. /\ DOMAIN done = WorkFields /\ done.tool = work.tool /\ done.told = work.told
      /\ done.cites = work.cites /\ done.read = work.read \cup Head(work.batches)
  BY <1>2, <1>4 DEF WorkFields
<1>6. PICK noted : noted = [done EXCEPT !.told =
          IF work.tool = "summarize_document" /\ work.partials + produced = 0 THEN Unsummarized(@) ELSE @]
  OBVIOUS
<1>7. /\ DOMAIN noted = WorkFields /\ noted.tool = work.tool /\ noted.told \in {"no summary", work.told}
      /\ noted.cites = work.cites /\ noted.read = work.read \cup Head(work.batches)
  BY <1>5, <1>6 DEF WorkFields, Unsummarized
<1>8. /\ work'.tool = work.tool /\ work'.told \in {"no summary", work.told}
      /\ work'.cites = work.cites /\ work'.read = work.read \cup Head(work.batches)
      /\ (agentPc' = "merge" /\ work.tool = "summarize_document") \/ agentPc' = "record"
  <2>1. \/ work.tool = "summarize_document" /\ work' = done /\ agentPc' = "merge"
        \/ work' = Output(noted) /\ agentPc' = "record"
    BY <1>3, <1>4, <1>6
  <2> QED
    BY <1>5, <1>7, <2>1, OutputSays
<1>9. ReadingFits(agentPc', work')
  <2>1. SUFFICES ASSUME work.tool \in DocumentTools, work.told = "all", NEW c \in work.cites
                 PROVE  c \in work.read \cup Head(work.batches)
    <3>1. work.tool \in DocumentTools => work.told \in {"all", "no summary"} \cup Truncated \/ work.cites = {}
      BY <1>1 DEF BudgetInv, ReadingFits
    <3> QED
      BY <1>8, <3>1 DEF ReadingFits
  <2>2. c \in work.read \/ \E b \in 1 .. Len(work.batches) : c \in work.batches[b]
    BY <1>1, <2>1 DEF BudgetInv, ReadingFits
  <2>3. Head(work.batches) = work.batches[1]
    BY <1>1, TailOfSequence DEF BudgetInv, BatchesFit
  <2> QED
    BY <1>1, <2>2, <2>3
<1>10. BatchesFit(agentPc', work')
  BY <1>8 DEF BatchesFit
<1>11. CallsUpTo(agentPc', work') \in Nat /\ CallsUpTo(agentPc, work) < CallsUpTo(agentPc', work')
  <2> DEFINE m == MaxSummaryBatches
             i == CallsUpTo(agentPc, work)
             j == CallsUpTo(agentPc', work')
  <2>1. m \in Nat
    BY CallNumbers
  <2>2. \/ work.tool = "summarize_document" /\ i = m + 1 - 1
        \/ work.tool # "summarize_document" /\ i = m + 1
    BY <1>1, CallsAt
  <2>3. \/ work.tool = "summarize_document" /\ j = m + 1
        \/ j = m + 2
    BY <1>8, CallsAt
  <2> HIDE DEF m, i, j
  <2>4. j \in Nat /\ i < j
    BY <2>1, <2>2, <2>3
  <2> QED
    BY <2>4 DEF i, j
<1> QED
  BY <1>1, <1>9, <1>10, <1>11, StepKeepsBudget

LEMMA MergeKeepsBudget ==
    ASSUME AgentInv, BudgetInv, MergePartialSummaries
    PROVE  BudgetInv'
<1>1. /\ agentPc = "merge" /\ agentPc' = "record" /\ work' = Output(work)
      /\ elapsed' \in {elapsed, elapsed + CallTime}
  BY DEF MergePartialSummaries, Proceed, complete_agent_step, ProviderCall
<1>2. /\ work'.tool = work.tool /\ work'.told = work.told
      /\ work'.cites = work.cites /\ work'.read = work.read
  BY <1>1, InvFacts, OutputSays DEF WorkOK
<1>3. BatchesFit(agentPc', work') /\ ReadingFits(agentPc', work')
  BY <1>1, <1>2 DEF BudgetInv, BatchesFit, ReadingFits
<1>4. CallsUpTo(agentPc, work) = MaxSummaryBatches + 1 /\ CallsUpTo(agentPc', work') = MaxSummaryBatches + 2
  BY <1>1, CallsAt
<1> QED
  BY <1>1, <1>3, <1>4, CallNumbers, StepKeepsBudget

\* Outside a tool call there is nothing to read, and only the summary is a call.
LEMMA FrameKeepsBudget ==
    ASSUME AgentInv, BudgetInv,
           StartInvestigation \/ StepLimitReached \/ TimeoutExceeded \/ RecordUnknownTool \/ RecordToolCall
           \/ InsufficientContextSummary \/ GenerateSummary \/ SummaryFails \/ RecordCompletedAudit
           \/ CompleteRun \/ RecordFailedAudit \/ FailRun \/ Breaks
    PROVE  BudgetInv'
<1> DEFINE m == MaxSummaryBatches
           i == CallsUpTo(agentPc, work)
           j == CallsUpTo(agentPc', work')
<1>1. agentPc' \notin {"complete", "merge", "record", "readDocument", "readChunks"}
  BY DEF StartInvestigation, StepLimitReached, TimeoutExceeded, RecordUnknownTool, RecordToolCall,
     InsufficientContextSummary, GenerateSummary, SummaryFails, RecordCompletedAudit,
     CompleteRun, RecordFailedAudit, FailRun, Breaks, Proceed
<1>2. BatchesFit(agentPc', work') /\ ReadingFits(agentPc', work')
  BY <1>1, NothingToRead
<1>3. m \in Nat /\ 1 <= m
  BY CallNumbers
<1>4. CASE StartInvestigation
  <2>1. agentPc = "idle" /\ agentPc' = "plan" /\ elapsed' = elapsed
    BY <1>4 DEF StartInvestigation, Proceed
  <2>2. i = 0 /\ j = m + 2
    BY <2>1, CallsAt
  <2> HIDE DEF m, i, j
  <2>3. i <= j /\ j \in Nat
    BY <1>3, <2>2
  <2> QED
    BY <1>2, <2>1, <2>3, StepKeepsBudget DEF i, j
<1>5. CASE StepLimitReached \/ TimeoutExceeded \/ RecordUnknownTool \/ RecordToolCall
           \/ InsufficientContextSummary \/ RecordCompletedAudit
           \/ CompleteRun \/ RecordFailedAudit \/ FailRun
  <2>1. /\ \/ agentPc = "unknownTool" /\ agentPc' = "auditFailure"
           \/ agentPc \in {"plan", "record"} /\ agentPc' \in {"plan", "summary", "auditFailure"}
           \/ /\ agentPc \in {"summary", "audit", "auditFailure", "update", "updateFailure"}
              /\ agentPc' \in {"audit", "update", "updateFailure", "over"}
        /\ elapsed' = elapsed
    BY <1>5 DEF StepLimitReached, TimeoutExceeded, RecordUnknownTool, RecordToolCall,
       InsufficientContextSummary, RecordCompletedAudit, CompleteRun, RecordFailedAudit, FailRun, Proceed
  <2>2. \/ i = 1 /\ j = m + 3
        \/ i = m + 2 /\ j \in {m + 2, m + 3}
        \/ i \in {m + 2, m + 3} /\ j = m + 3
    BY <2>1, CallsAt
  <2> HIDE DEF m, i, j
  <2>3. i <= j /\ j \in Nat
    BY <1>3, <2>2
  <2> QED
    BY <1>2, <2>1, <2>3, StepKeepsBudget DEF i, j
<1>6. CASE GenerateSummary \/ SummaryFails
  <2>1. agentPc = "summary" /\ agentPc' \in {"audit", "auditFailure"}
        /\ elapsed' \in {elapsed, elapsed + CallTime}
    BY <1>6 DEF GenerateSummary, SummaryFails, Proceed, complete_agent_step, ProviderCall
  <2>2. i = m + 2 /\ j = m + 3
    BY <2>1, CallsAt
  <2> HIDE DEF m, i, j
  <2>3. i < j /\ j \in Nat
    BY <1>3, <2>2
  <2> QED
    BY <1>2, <2>1, <2>3, StepKeepsBudget DEF i, j
<1>7. CASE Breaks
  <2>1. agentPc' = "broken" /\ elapsed' = elapsed
    BY <1>7 DEF Breaks, Proceed
  <2>2. j = m + 3
    BY <2>1, CallsAt
  <2>3. i <= m + 3
    BY CallsWithin
  <2> HIDE DEF m, i, j
  <2>4. i <= j /\ j \in Nat
    BY <1>3, <2>2, <2>3
  <2> QED
    BY <1>2, <2>1, <2>4, StepKeepsBudget DEF i, j
<1> QED
  BY <1>4, <1>5, <1>6, <1>7

LEMMA BudgetInvInit == AgentInit => BudgetInv
<1> SUFFICES ASSUME AgentInit PROVE BudgetInv
  OBVIOUS
<1>1. agentPc = "idle" /\ elapsed = 0
  BY DEF AgentInit
<1>2. BatchesFit(agentPc, work) /\ ReadingFits(agentPc, work)
  BY <1>1, NothingToRead
<1>3. ClockPlaced
  <2>1. CallsUpTo(agentPc, work) = 0
    BY <1>1, CallsAt
  <2>2. 0 <= RunTimeout + 0 * CallTime
    BY AgentAssumption
  <2> QED
    BY <1>1, <2>1, <2>2 DEF ClockPlaced
<1> QED
  BY <1>2, <1>3 DEF BudgetInv

LEMMA BudgetInvNext ==
    ASSUME AgentInv, BudgetInv, [AgentStep]_<<agentVars, kbVars>>
    PROVE  BudgetInv'
<1>1. CASE UNCHANGED agentVars
  <2>1. agentPc' = agentPc /\ work' = work /\ elapsed' = elapsed
    BY <1>1 DEF agentVars
  <2> QED
    BY <2>1 DEF BudgetInv, ClockPlaced
<1>2. CASE AgentNext
  BY <1>2, PlansKeepBudget, FailureKeepsBudget, SearchKeepsBudget, LoadKeepsBudget, BatchKeepsBudget,
     ToolKeepsBudget, MergeKeepsBudget, FrameKeepsBudget DEF AgentNext, AgentWork
<1> QED
  BY <1>1, <1>2 DEF AgentStep

LEMMA BudgetInvHolds == AgentSpec => []BudgetInv
<1>1. AgentInv /\ BudgetInv /\ [AgentStep]_<<agentVars, kbVars>> => BudgetInv'
  BY BudgetInvNext
<1> QED
  BY <1>1, BudgetInvInit, AgentInvHolds, PTL DEF AgentSpec, AgentStep

\* The orchestrator looks at the clock between steps only: whatever is asked of which
\* tool, a run ends within one planning call, one tool and the summary of its timeout.
THEOREM OverrunAlwaysBounded == AgentSpec => []OverrunBounded
<1>1. ASSUME AgentInv, BudgetInv PROVE OverrunBounded
  <2>1. elapsed \in Nat /\ CallTime \in Nat /\ RunTimeout \in Nat /\ MaxSummaryBatches + 3 \in Nat
    BY <1>1, InvFacts, CallNumbers, AgentAssumption
  <2>2. PICK i \in Nat : i = CallsUpTo(agentPc, work)
    BY <1>1, CallsCounted
  <2>3. elapsed <= RunTimeout + i * CallTime /\ i <= MaxSummaryBatches + 3
    BY <1>1, <2>2, CallsWithin DEF BudgetInv, ClockPlaced
  <2> QED
    BY <2>1, <2>3, MoreCallsFit DEF OverrunBounded
<1> QED
  BY <1>1, AgentInvHolds, BudgetInvHolds, PTL

\* summarize_document and extract_action_items: whatever the size of the document and
\* however it falls into batches, a summary or an extraction that cites a chunk which was
\* in no prompt says that its input was truncated; only the text for no summary may not.
THEOREM UnreadCitationsAlwaysNoted == AgentSpec => []UnreadCitationsAreNoted
<1>1. BudgetInv => UnreadCitationsAreNoted
  BY DEF BudgetInv, ReadingFits, UnreadCitationsAreNoted
<1> QED
  BY <1>1, BudgetInvHolds, PTL
=============================================================================
