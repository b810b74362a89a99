------------------------------ MODULE WebClient ------------------------------
(***************************************************************************)
(* One tab of the web client: the page that is open (Ask, Agent or Admin), *)
(* the active workspace, and the answers of the API that come in after the *)
(* user has gone on to another workspace or page.                          *)
(*                                                                         *)
(* React renders a user's event, and runs the effects of that render, in   *)
(* one go: a change of the workspace and the clearing of the page are one  *)
(* step.  A page that is left loses its state, and an answer to it changes *)
(* nothing any more.  What the API answers is kept only as where it came   *)
(* from.  switches counts the changes of the workspace; the code does not. *)
(***************************************************************************)
EXTENDS Integers

CONSTANTS
    Sites,          \* the workspaces of the user
    Administered,   \* those whose dashboard the user may see
    Nowhere,        \* no active workspace: the list is empty or could not be loaded
    MaxSwitches,    \* bound on the changes of the workspace
    MaxLoads,       \* bound on the loads of a dashboard
    MaxThreads      \* bound on the conversations

ASSUME SitesAssumption ==
    /\ Administered \subseteq Sites /\ Nowhere \notin Sites
    /\ MaxSwitches \in Nat /\ MaxLoads \in Nat /\ MaxThreads \in Nat

VARIABLES
    page,       \* the page that is mounted
    active,     \* activeWorkspaceId
    view,       \* the state of the page
    inFlight,   \* its requests that have not been answered
    switches,
    begun       \* conversations the API has created

webVars == <<page, active, view, inFlight, switches, begun>>

Pages == {"ask", "agent", "admin"}

\* A conversation is <<workspace, number>>.
NoThread == <<Nowhere, 0>>
WebThreads == (Sites \X (1 .. MaxThreads)) \cup {NoThread}

\* Ask: conv is conversationId, turns the conversations its turns were asked in.
\* Agent: result is the workspace of the investigation shown.  Admin: data is where
\* and when the dashboard was asked for.  error: the workspace an error is from.
EmptyView == [conv |-> NoThread, turns |-> {}, result |-> {}, data |-> {}, error |-> {},
              busy |-> FALSE, loading |-> FALSE, generation |-> 0]

View == [conv : WebThreads, turns : SUBSET WebThreads, result : SUBSET Sites,
         data : SUBSET (Sites \X Nat), error : SUBSET Sites,
         busy : BOOLEAN, loading : BOOLEAN, generation : Nat]

Request == [site : Sites, era : Nat, conv : WebThreads, generation : Nat]

WebTypeOK ==
    /\ page \in Pages
    /\ active \in Sites \cup {Nowhere}
    /\ view \in View
    /\ inFlight \subseteq Request
    /\ switches \in Nat /\ begun \in 0 .. MaxThreads

WebInit ==
    /\ page = "ask" /\ active = Nowhere
    /\ view = EmptyView /\ inFlight = {}
    /\ switches = 0 /\ begun = 0

-----------------------------------------------------------------------------
(* The page follows the workspace                                          *)

\* The effect of a change: the page is emptied, but a form that waits for an
\* answer goes on waiting; the dashboard's loads so far are out of date.
Emptied(v) == [EmptyView EXCEPT !.busy = v.busy, !.generation = v.generation + 1]

LoadRequest(v, w, era) ==
    [site |-> w, era |-> era, conv |-> NoThread, generation |-> v.generation + 1]

\* loadDashboard: another generation, for a workspace the user administers.
LoadDashboard(v, w, era, requests) ==
    IF w \in Administered
    THEN /\ view' = [v EXCEPT !.generation = @ + 1, !.loading = TRUE, !.error = {}]
         /\ inFlight' = requests \cup {LoadRequest(v, w, era)}
    ELSE /\ view' = [v EXCEPT !.data = {}, !.error = {}, !.loading = FALSE]
         /\ inFlight' = requests

\* The effects that run when page p shows v for workspace w.
ShowPage(p, v, w, era, requests) ==
    IF p = "admin" THEN LoadDashboard(v, w, era, requests)
    ELSE view' = v /\ inFlight' = requests

\* The user selects another workspace, or the list of workspaces is loaded or lost.
ChangeWorkspace(w) ==
    /\ w # active /\ switches < MaxSwitches
    /\ active' = w
    /\ switches' = switches + 1
    /\ ShowPage(page, Emptied(view), w, switches', inFlight)
    /\ UNCHANGED <<page, begun>>

OpenPage(p) ==
    /\ p # page
    /\ page' = p
    /\ ShowPage(p, Emptied(EmptyView), active, switches, {})
    /\ UNCHANGED <<active, switches, begun>>

\* The retry of a dashboard that could not be loaded.
ReloadDashboard ==
    /\ page = "admin" /\ view.error # {}
    /\ view.generation < MaxLoads
    /\ LoadDashboard(view, active, switches, inFlight)
    /\ UNCHANGED <<page, active, switches, begun>>

\* The button under the form of questions.
StartNewConversation ==
    /\ page = "ask" /\ active \in Sites
    /\ view.conv # NoThread /\ ~view.busy
    /\ view' = [view EXCEPT !.conv = NoThread, !.turns = {}, !.error = {}]
    /\ UNCHANGED <<page, active, inFlight, switches, begun>>

-----------------------------------------------------------------------------
(* Requests and their answers                                              *)

\* submitQuestion and startInvestigation: one request at a time.
Submit ==
    /\ page \in {"ask", "agent"} /\ active \in Sites /\ ~view.busy
    /\ view' = [view EXCEPT !.busy = TRUE, !.error = {}, !.result = {}]
    /\ inFlight' = inFlight \cup
           {[site |-> active, era |-> switches, conv |-> view.conv, generation |-> 0]}
    /\ UNCHANGED <<page, active, switches, begun>>

\* Mutant of ShouldApply (PageFollowsWorkspace): an answer is always shown.
ApplyAlways(q) == TRUE

\* shouldApplyAskResponse and the same for Agent and Admin.
ShouldApply(q) == q.site = active

\* The form is free again; the answer is shown if it still applies, as in shown.
Receive(q, shown) ==
    /\ inFlight' = inFlight \ {q}
    /\ view' = IF ShouldApply(q) THEN [shown EXCEPT !.busy = FALSE] ELSE [view EXCEPT !.busy = FALSE]
    /\ UNCHANGED <<page, active, switches>>

\* A question without a conversation is answered in a new one.
QuestionAnswered(q) ==
    /\ page = "ask"
    /\ q.conv = NoThread => begun < MaxThreads
    /\ LET c == IF q.conv = NoThread THEN <<q.site, begun + 1>> ELSE q.conv
       IN  Receive(q, [view EXCEPT !.conv = c, !.turns = @ \cup {c}])
    /\ begun' = IF q.conv = NoThread THEN begun + 1 ELSE begun

InvestigationAnswered(q) ==
    /\ page = "agent"
    /\ Receive(q, [view EXCEPT !.result = {q.site}])
    /\ UNCHANGED begun

\* An error of the API or the network, or the client's own timeout.
RequestFails(q) ==
    /\ page \in {"ask", "agent"}
    /\ Receive(q, [view EXCEPT !.error = {q.site}])
    /\ UNCHANGED begun

\* A load that a later one or a change of the workspace has overtaken is dropped.
DashboardAnswered(q) ==
    /\ page = "admin"
    /\ inFlight' = inFlight \ {q}
    /\ \E error \in {{}, {q.site}} :
          view' = IF q.generation = view.generation /\ ShouldApply(q)
                  THEN [view EXCEPT !.data = {<<q.site, q.era>>}, !.error = error, !.loading = FALSE]
                  ELSE view
    /\ UNCHANGED <<page, active, switches, begun>>

WebNext ==
    \/ \E w \in Sites \cup {Nowhere} : ChangeWorkspace(w)
    \/ \E p \in Pages : OpenPage(p)
    \/ StartNewConversation \/ ReloadDashboard \/ Submit
    \/ \E q \in inFlight :
          QuestionAnswered(q) \/ InvestigationAnswered(q) \/ RequestFails(q) \/ DashboardAnswered(q)

WebSpec == WebInit /\ [][WebNext]_webVars

-----------------------------------------------------------------------------
(* Properties                                                              *)

DashboardShown == page = "admin" /\ ~view.loading /\ view.error = {}

\* Whatever order answers come in, the page shows the active workspace: the turns of
\* a thread are all of the conversation that the next question will continue, and it
\* is the workspace's own; results and errors are of the workspace, and a dashboard
\* was asked for after the workspace was last selected.  Nobody waits for nothing:
\* while a form or a dashboard is waiting there is a request to wait for.
PageFollowsWorkspace ==
    /\ \A c \in view.turns : c = view.conv /\ c[1] = active
    /\ view.result \cup view.error \subseteq {active}
    /\ DashboardShown => view.data \subseteq {<<active, switches>>}
    /\ page \in {"ask", "agent"} => (view.busy <=> inFlight # {})
    /\ view.loading => \E q \in inFlight : q.generation = view.generation /\ ShouldApply(q)
=============================================================================
