--------------------------- MODULE ServicesProofs ---------------------------
(***************************************************************************)
(* Proofs about a tab of the web client, for any set of workspaces and any *)
(* number of switches, loads and conversations; that the behaviours the    *)
(* runs check, which are of one part at a time, are behaviours of the      *)
(* specifications that the other proof modules are about; and, for any     *)
(* text, that an embedding run keeps its usage rows, chunks the whole text *)
(* and stores each chunk with its own vector.                              *)
(***************************************************************************)
EXTENDS Services, LoginLimiterProofs, AgentRunProofs, RagQueryProofs

-----------------------------------------------------------------------------
(* The web client: the inductive invariant                                 *)

\* Ask and Agent wait for at most one answer, and have nothing of a dashboard.
FormWaits ==
    page \in {"ask", "agent"} =>
        /\ view.busy <=> inFlight # {}
        /\ \A p, q \in inFlight : p = q
        /\ ~view.loading /\ view.data = {}

\* The turns are of one conversation, and the conversation of the active workspace.
OneThread ==
    /\ NoThread \notin view.turns
    /\ \A c \in view.turns : c = view.conv /\ c[1] = active

\* An answer that is awaited continues the thread on the page, or finds an empty page.
AnswerContinues ==
    \A q \in inFlight :
        /\ q.site \in Sites
        /\ q.conv = NoThread \/ q.conv[1] = q.site
        /\ q.conv = view.conv \/ view.turns = {}

\* The next question is asked in a conversation of the active workspace.
ThreadInPlace == view.conv = NoThread \/ view.conv[1] = active

\* A load of the current generation is of the active workspace and was asked for
\* since it was last selected.
LoadsInPlace ==
    page = "admin" =>
        /\ view.turns = {}
        /\ view.data \subseteq {<<active, switches>>}
        /\ \A q \in inFlight :
              /\ q.generation <= view.generation
              /\ q.generation = view.generation => q.site = active /\ q.era = switches
        /\ view.loading => \E q \in inFlight : q.generation = view.generation

ShownInPlace == view.result \cup view.error \subseteq {active}

WebInv ==
    /\ WebTypeOK
    /\ FormWaits
    /\ OneThread
    /\ AnswerContinues
    /\ ThreadInPlace
    /\ LoadsInPlace
    /\ ShownInPlace

ViewFields == {"conv", "turns", "result", "data", "error", "busy", "loading", "generation"}

-----------------------------------------------------------------------------
(* Views and requests                                                      *)

LEMMA EmptyViewOK == EmptyView \in View /\ NoThread \in WebThreads
<1> QED
  BY DEF EmptyView, View, NoThread, WebThreads

\* What the effect of a change leaves of a page.
LEMMA EmptiedFields ==
    ASSUME NEW v \in View
    PROVE  /\ Emptied(v) \in View
           /\ Emptied(v).conv = NoThread /\ Emptied(v).turns = {} /\ Emptied(v).result = {}
           /\ Emptied(v).data = {} /\ Emptied(v).error = {}
           /\ Emptied(v).busy = v.busy /\ ~Emptied(v).loading
           /\ Emptied(v).generation = v.generation + 1
<1> DEFINE e == Emptied(v)
<1>1. /\ v.busy \in BOOLEAN /\ v.generation + 1 \in Nat
      /\ {} \in SUBSET WebThreads /\ {} \in SUBSET Sites /\ {} \in SUBSET (Sites \X Nat)
  BY DEF View
<1>2. DOMAIN e = ViewFields
  BY DEF Emptied, EmptyView, ViewFields
<1>3. /\ e.conv = NoThread /\ e.turns = {} /\ e.result = {} /\ e.data = {} /\ e.error = {}
      /\ e.generation = v.generation + 1
  BY DEF Emptied, EmptyView
<1>4. e.busy = v.busy /\ e.loading = FALSE
  BY DEF Emptied, EmptyView
<1>5. e = [f \in ViewFields |-> e[f]]
  BY <1>2 DEF Emptied, EmptyView
<1> HIDE DEF e
<1>6. e \in View
  BY <1>1, <1>3, <1>4, <1>5, EmptyViewOK DEF View, ViewFields
<1> QED
  BY <1>3, <1>4, <1>6 DEF e

\* What a new load leaves of a page.
LEMMA LoadingFields ==
    ASSUME NEW v \in View
    PROVE  LET n == [v EXCEPT !.generation = @ + 1, !.loading = TRUE, !.error = {}]
           IN  /\ n \in View /\ n.conv = v.conv /\ n.turns = v.turns /\ n.result = v.result
               /\ n.data = v.data /\ n.error = {} /\ n.generation = v.generation + 1
<1> DEFINE n == [v EXCEPT !.generation = @ + 1, !.loading = TRUE, !.error = {}]
<1>1. /\ v.conv \in WebThreads /\ v.turns \in SUBSET WebThreads /\ v.result \in SUBSET Sites
      /\ v.data \in SUBSET (Sites \X Nat) /\ v.busy \in BOOLEAN
      /\ v.generation + 1 \in Nat /\ {} \in SUBSET Sites
  BY DEF View
<1>2. DOMAIN n = ViewFields
  BY DEF View, ViewFields
<1>3. /\ n.conv = v.conv /\ n.turns = v.turns /\ n.result = v.result
      /\ n.data = v.data /\ n.error = {} /\ n.generation = v.generation + 1
  BY DEF View
<1>4. n.busy = v.busy /\ n.loading = TRUE
  BY DEF View
<1>5. n = [f \in ViewFields |-> n[f]]
  BY <1>2 DEF View
<1> HIDE DEF n
<1>6. n \in View
  BY <1>1, <1>3, <1>4, <1>5 DEF View, ViewFields
<1> QED
  BY <1>3, <1>6 DEF n

\* Selecting a workspace w shows a page that is in order: v is the emptied page and
\* requests are those of before, none of them of a later generation.
LEMMA ShowKeeps ==
    ASSUME NEW p \in Pages, NEW v \in View, NEW w \in Sites \cup {Nowhere}, NEW era \in Nat,
           NEW requests \in SUBSET Request,
           v.conv = NoThread, v.turns = {}, v.result = {}, v.data = {}, v.error = {}, ~v.loading,
           \A q \in requests : q.site \in Sites /\ (q.conv = NoThread \/ q.conv[1] = q.site),
           p = "admin" => \A q \in requests : q.generation < v.generation,
           p \in {"ask", "agent"} => (v.busy <=> requests # {}) /\ \A q, k \in requests : q = k,
           ShowPage(p, v, w, era, requests),
           page' = p, active' = w, switches' = era, begun' \in 0 .. MaxThreads
    PROVE  WebInv'
<1>1. CASE p # "admin"
  <2>1. view' = v /\ inFlight' = requests
    BY <1>1 DEF ShowPage
  <2> QED
    BY <1>1, <2>1 DEF WebInv, WebTypeOK, FormWaits, OneThread, AnswerContinues, ThreadInPlace,
       LoadsInPlace, ShownInPlace
<1>2. CASE p = "admin" /\ w \notin Administered
  <2>1. inFlight' = requests /\ view' = [v EXCEPT !.data = {}, !.error = {}, !.loading = FALSE]
    BY <1>2 DEF ShowPage, LoadDashboard
  <2>2. view' = v
    BY <2>1 DEF View
  <2>3. v.generation \in Nat /\ \A q \in requests : q.generation \in Nat
    BY DEF View, Request
  <2> QED
    BY <1>2, <2>1, <2>2, <2>3 DEF WebInv, WebTypeOK, FormWaits, OneThread, AnswerContinues,
       ThreadInPlace, LoadsInPlace, ShownInPlace
<1>3. CASE p = "admin" /\ w \in Administered
  <2> DEFINE load == LoadRequest(v, w, era)
  <2>1. inFlight' = requests \cup {load} /\ view' = [v EXCEPT !.generation = @ + 1, !.loading = TRUE, !.error = {}]
    BY <1>3 DEF ShowPage, LoadDashboard
  <2>2. v.generation \in Nat /\ \A q \in requests : q.generation \in Nat
    BY DEF View, Request
  <2>3. /\ view' \in View /\ view'.conv = NoThread /\ view'.turns = {} /\ view'.result = {}
        /\ view'.data = {} /\ view'.error = {} /\ view'.generation = v.generation + 1
    BY <2>1, LoadingFields
  <2>4. w \in Sites /\ load \in Request /\ load.site = w /\ load.era = era /\ load.conv = NoThread
        /\ load.generation = v.generation + 1
    BY <1>3, <2>2, SitesAssumption, EmptyViewOK DEF LoadRequest, Request
  <2> HIDE DEF load
  <2> QED
    BY <1>3, <2>1, <2>2, <2>3, <2>4 DEF WebInv, WebTypeOK, FormWaits, OneThread, AnswerContinues,
       ThreadInPlace, LoadsInPlace, ShownInPlace
<1> QED
  BY <1>1, <1>2, <1>3

-----------------------------------------------------------------------------
(* The steps of the web client                                             *)

LEMMA ChangeKeeps ==
    ASSUME WebInv, NEW w \in Sites \cup {Nowhere}, ChangeWorkspace(w)
    PROVE  WebInv'
<1>1. view \in View /\ inFlight \in SUBSET Request /\ page \in Pages /\ switches' \in Nat /\ begun \in 0 .. MaxThreads
  BY DEF WebInv, WebTypeOK, ChangeWorkspace
<1>2. \A q \in inFlight : q.site \in Sites /\ (q.conv = NoThread \/ q.conv[1] = q.site)
  BY DEF WebInv, AnswerContinues
<1>3. page = "admin" => \A q \in inFlight : q.generation < Emptied(view).generation
  <2>1. view.generation \in Nat /\ \A q \in inFlight : q.generation \in Nat
    BY <1>1 DEF View, Request
  <2> QED
    BY <1>1, <2>1, EmptiedFields DEF WebInv, LoadsInPlace
<1>4. page \in {"ask", "agent"} => (Emptied(view).busy <=> inFlight # {}) /\ \A q, k \in inFlight : q = k
  BY <1>1, EmptiedFields DEF WebInv, FormWaits
<1>5. ShowPage(page, Emptied(view), w, switches', inFlight) /\ page' = page /\ active' = w /\ begun' = begun
  BY DEF ChangeWorkspace
<1> QED
  BY <1>1, <1>2, <1>3, <1>4, <1>5, EmptiedFields, ShowKeeps

LEMMA OpenKeeps ==
    ASSUME WebInv, NEW p \in Pages, OpenPage(p)
    PROVE  WebInv'
<1>1. active \in Sites \cup {Nowhere} /\ switches \in Nat /\ begun \in 0 .. MaxThreads
  BY DEF WebInv, WebTypeOK
<1>2. ShowPage(p, Emptied(EmptyView), active, switches, {}) /\ page' = p /\ active' = active
      /\ switches' = switches /\ begun' = begun
  BY DEF OpenPage
<1>3. ~EmptyView.busy
  BY DEF EmptyView
<1> QED
  BY <1>1, <1>2, <1>3, EmptyViewOK, EmptiedFields, ShowKeeps

LEMMA ReloadKeeps ==
    ASSUME WebInv, ReloadDashboard
    PROVE  WebInv'
<1>1. view \in View /\ inFlight \subseteq Request /\ page = "admin" /\ switches \in Nat
  BY DEF WebInv, WebTypeOK, ReloadDashboard
<1>2. view.generation \in Nat /\ \A q \in inFlight : q.generation \in Nat
  BY <1>1 DEF View, Request
<1>3. UNCHANGED <<page, active, switches, begun>>
  BY DEF ReloadDashboard
<1>4. CASE active \notin Administered
  <2>1. inFlight' = inFlight /\ view' = [view EXCEPT !.data = {}, !.error = {}, !.loading = FALSE]
    BY <1>4 DEF ReloadDashboard, LoadDashboard
  <2>2. /\ view' \in View /\ view'.conv = view.conv /\ view'.turns = view.turns /\ view'.result = view.result
        /\ view'.data = {} /\ view'.error = {} /\ ~view'.loading /\ view'.generation = view.generation
    BY <1>1, <2>1 DEF View
  <2> QED
    BY <1>1, <1>2, <1>3, <2>1, <2>2 DEF WebInv, WebTypeOK, FormWaits, OneThread, AnswerContinues,
       ThreadInPlace, LoadsInPlace, ShownInPlace
<1>5. CASE active \in Administered
  <2> DEFINE load == LoadRequest(view, active, switches)
  <2>1. inFlight' = inFlight \cup {load} /\ view' = [view EXCEPT !.generation = @ + 1, !.loading = TRUE, !.error = {}]
    BY <1>5 DEF ReloadDashboard, LoadDashboard
  <2>2. /\ view' \in View /\ view'.conv = view.conv /\ view'.turns = view.turns /\ view'.result = view.result
        /\ view'.data = view.data /\ view'.error = {} /\ view'.generation = view.generation + 1
    BY <1>1, <2>1, LoadingFields
  <2>3. active \in Sites /\ load \in Request /\ load.site = active /\ load.era = switches
        /\ load.conv = NoThread /\ load.generation = view.generation + 1
    BY <1>1, <1>2, <1>5, SitesAssumption, EmptyViewOK DEF LoadRequest, Request
  <2>4. load.conv = view.conv \/ view.turns = {}
    BY <1>1, <2>3 DEF WebInv, LoadsInPlace
  <2> HIDE DEF load
  <2> QED
    BY <1>1, <1>2, <1>3, <2>1, <2>2, <2>3, <2>4 DEF WebInv, WebTypeOK, FormWaits, OneThread,
       AnswerContinues, ThreadInPlace, LoadsInPlace, ShownInPlace
<1> QED
  BY <1>4, <1>5

\* A record with the fields of a view, each of its type, is one.
LEMMA ViewTyped ==
    ASSUME view' = [f \in ViewFields |-> view'[f]],
           view'.conv \in WebThreads, view'.turns \in SUBSET WebThreads, view'.result \in SUBSET Sites,
           view'.data \in SUBSET (Sites \X Nat), view'.error \in SUBSET Sites,
           view'.busy \in BOOLEAN, view'.loading \in BOOLEAN, view'.generation \in Nat
    PROVE  view' \in View
<1> QED
  BY DEF View, ViewFields

\* The types of what a step leaves alone.
LEMMA ViewTypes ==
    ASSUME view \in View
    PROVE  /\ view.conv \in WebThreads /\ view.turns \in SUBSET WebThreads /\ view.result \in SUBSET Sites
           /\ view.data \in SUBSET (Sites \X Nat) /\ view.error \in SUBSET Sites
           /\ view.busy \in BOOLEAN /\ view.loading \in BOOLEAN /\ view.generation \in Nat
           /\ DOMAIN view = ViewFields
<1> QED
  BY DEF View, ViewFields

LEMMA NewThreadKeeps ==
    ASSUME WebInv, StartNewConversation
    PROVE  WebInv'
<1>1. /\ view \in View /\ page = "ask" /\ ~view.busy
      /\ UNCHANGED <<page, active, inFlight, switches, begun>>
  BY DEF WebInv, WebTypeOK, StartNewConversation
<1>2. inFlight = {}
  BY <1>1 DEF WebInv, FormWaits
<1>3. /\ view'.conv = NoThread /\ view'.turns = {} /\ view'.error = {}
      /\ view'.result = view.result /\ view'.data = view.data /\ view'.busy = view.busy
      /\ view'.loading = view.loading /\ view'.generation = view.generation
      /\ view' = [f \in ViewFields |-> view'[f]]
  BY <1>1, ViewTypes DEF StartNewConversation, ViewFields
<1>4. view' \in View
  BY <1>1, <1>3, EmptyViewOK, ViewTypes, ViewTyped
<1> QED
  BY <1>1, <1>2, <1>3, <1>4 DEF WebInv, WebTypeOK, FormWaits, OneThread, AnswerContinues,
     ThreadInPlace, LoadsInPlace, ShownInPlace

LEMMA SubmitKeeps ==
    ASSUME WebInv, Submit
    PROVE  WebInv'
<1> DEFINE q == [site |-> active, era |-> switches, conv |-> view.conv, generation |-> 0]
<1>1. /\ view \in View /\ inFlight \subseteq Request /\ page \in {"ask", "agent"} /\ switches \in Nat
      /\ active \in Sites /\ ~view.busy /\ UNCHANGED <<page, active, switches, begun>>
  BY DEF WebInv, WebTypeOK, Submit
<1>2. inFlight = {}
  BY <1>1 DEF WebInv, FormWaits
<1>3. view.conv \in WebThreads /\ view.turns \in SUBSET WebThreads /\ {} \in SUBSET Sites
  BY <1>1 DEF View
<1>4. q \in Request /\ q.site = active /\ q.conv = view.conv
  BY <1>1, <1>3 DEF Request
<1>5. inFlight' = {q}
  BY <1>2 DEF Submit
<1>6. /\ view'.conv = view.conv /\ view'.turns = view.turns /\ view'.result = {} /\ view'.error = {}
      /\ view'.data = view.data /\ view'.generation = view.generation
  BY <1>1, ViewTypes DEF Submit, ViewFields
<1>7. view'.busy = TRUE /\ view'.loading = view.loading /\ view' = [f \in ViewFields |-> view'[f]]
  BY <1>1, ViewTypes DEF Submit, ViewFields
<1>8. view' \in View
  BY <1>1, <1>3, <1>6, <1>7, ViewTypes, ViewTyped
<1> HIDE DEF q
<1> QED
  BY <1>1, <1>4, <1>5, <1>6, <1>7, <1>8 DEF WebInv, WebTypeOK, FormWaits, OneThread, AnswerContinues,
     ThreadInPlace, LoadsInPlace, ShownInPlace

\* The answer to the one request of a form: the form is free, and what it shows is
\* what it showed, or the answer.
LEMMA ReceiveKeeps ==
    ASSUME WebInv, NEW q \in inFlight, page \in {"ask", "agent"}, begun' \in 0 .. MaxThreads,
           UNCHANGED <<page, active, switches>>, inFlight' = inFlight \ {q},
           view' \in View, ~view'.busy, view'.data = view.data, view'.loading = view.loading,
           NoThread \notin view'.turns, \A c \in view'.turns : c = view'.conv /\ c[1] = active,
           view'.conv = NoThread \/ view'.conv[1] = active,
           view'.result \cup view'.error \subseteq {active}
    PROVE  WebInv'
<1>1. inFlight' = {}
  BY DEF WebInv, FormWaits
<1> QED
  BY <1>1 DEF WebInv, WebTypeOK, FormWaits, OneThread, AnswerContinues, ThreadInPlace, LoadsInPlace, ShownInPlace

\* An answer or an error for another workspace only frees the form.
LEMMA DroppedKeeps ==
    ASSUME WebInv, NEW q \in inFlight, page \in {"ask", "agent"}, begun' \in 0 .. MaxThreads,
           NEW shown, Receive(q, shown), ~ShouldApply(q)
    PROVE  WebInv'
<1>1. view \in View /\ view' = [view EXCEPT !.busy = FALSE]
  BY DEF WebInv, WebTypeOK, Receive
<1>2. /\ view'.conv = view.conv /\ view'.turns = view.turns /\ view'.result = view.result
      /\ view'.error = view.error /\ view'.data = view.data /\ view'.generation = view.generation
  BY <1>1, ViewTypes DEF ViewFields
<1>3. view'.busy = FALSE /\ view'.loading = view.loading /\ view' = [f \in ViewFields |-> view'[f]]
  BY <1>1, ViewTypes DEF ViewFields
<1>4. view' \in View
  BY <1>1, <1>2, <1>3, ViewTypes, ViewTyped
<1> QED
  BY <1>2, <1>3, <1>4, ReceiveKeeps DEF WebInv, OneThread, ThreadInPlace, ShownInPlace, Receive

LEMMA QuestionKeepsPage ==
    ASSUME WebInv, NEW q \in inFlight, QuestionAnswered(q)
    PROVE  WebInv'
<1> DEFINE c == IF q.conv = NoThread THEN <<q.site, begun + 1>> ELSE q.conv
           shown == [view EXCEPT !.conv = c, !.turns = @ \cup {c}]
<1>1. /\ view \in View /\ q \in Request /\ q.site \in Sites /\ begun \in 0 .. MaxThreads
      /\ (q.conv = NoThread \/ q.conv[1] = q.site) /\ (q.conv = view.conv \/ view.turns = {})
  BY DEF WebInv, WebTypeOK, AnswerContinues
<1>2. page \in {"ask", "agent"} /\ Receive(q, shown) /\ (q.conv = NoThread => begun < MaxThreads)
  BY DEF QuestionAnswered
<1>3. begun' \in 0 .. MaxThreads
  BY <1>1, <1>2, SitesAssumption DEF QuestionAnswered
<1>4. c \in WebThreads /\ c # NoThread /\ c[1] = q.site
  <2>1. CASE q.conv = NoThread
    <3>1. begun + 1 \in 1 .. MaxThreads
      BY <1>1, <1>2, <2>1, SitesAssumption
    <3> QED
      BY <1>1, <2>1, <3>1 DEF WebThreads, NoThread
  <2>2. CASE q.conv # NoThread
    BY <1>1, <2>2 DEF Request
  <2> QED
    BY <2>1, <2>2
<1>5. view.turns \subseteq {c}
  <2>1. CASE view.turns # {}
    <3>1. q.conv = view.conv /\ view.turns \subseteq {view.conv} /\ view.conv # NoThread
      BY <1>1, <2>1 DEF WebInv, OneThread
    <3> QED
      BY <3>1
  <2> QED
    BY <2>1
<1> HIDE DEF c
<1>6. CASE ShouldApply(q)
  <2>1. view' = [shown EXCEPT !.busy = FALSE]
    BY <1>2, <1>6 DEF Receive
  <2>2. {c} \in SUBSET WebThreads /\ view.turns \cup {c} = {c}
    BY <1>4, <1>5
  <2>3. /\ view'.conv = c /\ view'.turns = view.turns \cup {c} /\ view'.result = view.result
        /\ view'.error = view.error /\ view'.data = view.data /\ view'.generation = view.generation
    BY <1>1, <2>1, ViewTypes DEF ViewFields
  <2>4. view'.busy = FALSE /\ view'.loading = view.loading /\ view' = [f \in ViewFields |-> view'[f]]
    BY <1>1, <2>1, ViewTypes DEF ViewFields
  <2>5. view' \in View
    BY <1>1, <1>4, <2>2, <2>3, <2>4, ViewTypes, ViewTyped
  <2>6. q.site = active
    BY <1>6 DEF ShouldApply
  <2> QED
    BY <1>2, <1>3, <1>4, <2>2, <2>3, <2>4, <2>5, <2>6, ReceiveKeeps DEF WebInv, ShownInPlace, Receive
<1>7. CASE ~ShouldApply(q)
  BY <1>2, <1>3, <1>7, DroppedKeeps
<1> QED
  BY <1>6, <1>7

LEMMA ResultKeeps ==
    ASSUME WebInv, NEW q \in inFlight, InvestigationAnswered(q) \/ RequestFails(q)
    PROVE  WebInv'
<1>1. /\ view \in View /\ q.site \in Sites /\ begun' \in 0 .. MaxThreads /\ page \in {"ask", "agent"}
  BY DEF WebInv, WebTypeOK, AnswerContinues, InvestigationAnswered, RequestFails
<1>2. PICK shown : /\ Receive(q, shown)
                   /\ shown \in {[view EXCEPT !.result = {q.site}], [view EXCEPT !.error = {q.site}]}
  BY DEF InvestigationAnswered, RequestFails
<1>3. CASE ShouldApply(q)
  <2>1. view' = [shown EXCEPT !.busy = FALSE]
    BY <1>2, <1>3 DEF Receive
  <2>2. /\ view'.conv = view.conv /\ view'.turns = view.turns
        /\ view'.result \in {view.result, {q.site}} /\ view'.error \in {view.error, {q.site}}
        /\ view'.data = view.data /\ view'.generation = view.generation
    BY <1>1, <1>2, <2>1, ViewTypes DEF ViewFields
  <2>3. view'.busy = FALSE /\ view'.loading = view.loading /\ view' = [f \in ViewFields |-> view'[f]]
    BY <1>1, <1>2, <2>1, ViewTypes DEF ViewFields
  <2>4. {q.site} \in SUBSET Sites
    BY <1>1
  <2>5. view' \in View
    BY <1>1, <2>2, <2>3, <2>4, ViewTypes, ViewTyped
  <2>6. q.site = active
    BY <1>3 DEF ShouldApply
  <2>7. view'.result \cup view'.error \subseteq {active}
    BY <2>2, <2>6 DEF WebInv, ShownInPlace
  <2> QED
    BY <1>1, <1>2, <2>2, <2>3, <2>5, <2>7, ReceiveKeeps DEF WebInv, OneThread, ThreadInPlace, Receive
<1>4. CASE ~ShouldApply(q)
  BY <1>1, <1>2, <1>4, DroppedKeeps
<1> QED
  BY <1>3, <1>4

\* The load of the current generation settles the page; any other is dropped.
LEMMA DashboardKeeps ==
    ASSUME WebInv, NEW q \in inFlight, DashboardAnswered(q)
    PROVE  WebInv'
<1>1. /\ view \in View /\ q \in Request /\ page = "admin" /\ inFlight' = inFlight \ {q}
      /\ UNCHANGED <<page, active, switches, begun>>
  BY DEF WebInv, WebTypeOK, DashboardAnswered
<1>2. CASE q.generation = view.generation
  <2>1. q.site = active /\ q.era = switches /\ q.site \in Sites /\ q.era \in Nat
    BY <1>1, <1>2 DEF WebInv, LoadsInPlace, AnswerContinues, Request
  <2>2. PICK error \in {{}, {q.site}} :
            view' = [view EXCEPT !.data = {<<q.site, q.era>>}, !.error = error, !.loading = FALSE]
    BY <1>2, <2>1 DEF DashboardAnswered, ShouldApply
  <2>3. /\ DOMAIN view' = ViewFields /\ view'.conv = view.conv /\ view'.turns = view.turns
        /\ view'.result = view.result /\ view'.data = {<<active, switches>>} /\ view'.error = error
        /\ view'.generation = view.generation
    BY <1>1, <2>1, <2>2 DEF View, ViewFields
  <2>4. view'.loading = FALSE /\ view'.busy = view.busy
    BY <1>1, <2>2 DEF View
  <2>5. /\ view.conv \in WebThreads /\ view.turns \in SUBSET WebThreads /\ view.result \in SUBSET Sites
        /\ view.busy \in BOOLEAN /\ view.generation \in Nat /\ error \in SUBSET Sites
        /\ {<<active, switches>>} \in SUBSET (Sites \X Nat)
    BY <1>1, <2>1 DEF View
  <2>6. view' = [f \in ViewFields |-> view'[f]]
    BY <1>1, <2>2, <2>3 DEF View
  <2>7. view' \in View
    BY <2>3, <2>4, <2>5, <2>6 DEF View, ViewFields
  <2>8. error \subseteq {active}
    BY <2>1
  <2> QED
    BY <1>1, <2>3, <2>4, <2>7, <2>8 DEF WebInv, WebTypeOK, FormWaits, OneThread, AnswerContinues,
       ThreadInPlace, LoadsInPlace, ShownInPlace
<1>3. CASE q.generation # view.generation
  <2>1. view' = view
    BY <1>3 DEF DashboardAnswered
  <2>2. view.loading => \E k \in inFlight' : k.generation = view.generation
    BY <1>1, <1>3 DEF WebInv, LoadsInPlace
  <2> QED
    BY <1>1, <2>1, <2>2 DEF WebInv, WebTypeOK, FormWaits, OneThread, AnswerContinues, ThreadInPlace,
       LoadsInPlace, ShownInPlace
<1> QED
  BY <1>2, <1>3

LEMMA WebInvInit == WebInit => WebInv
<1> SUFFICES ASSUME WebInit PROVE WebInv
  OBVIOUS
<1>1. /\ view \in View /\ view.conv = NoThread /\ view.turns = {} /\ view.result = {} /\ view.data = {}
      /\ view.error = {} /\ ~view.busy /\ ~view.loading /\ inFlight = {} /\ page = "ask"
  BY EmptyViewOK DEF WebInit, EmptyView
<1>2. active = Nowhere /\ switches = 0 /\ begun = 0
  BY DEF WebInit
<1> QED
  BY <1>1, <1>2, SitesAssumption DEF WebInv, WebTypeOK, Pages, FormWaits, OneThread, AnswerContinues,
     ThreadInPlace, LoadsInPlace, ShownInPlace

LEMMA WebInvStep == WebInv /\ [WebNext]_webVars => WebInv'
<1> SUFFICES ASSUME WebInv, [WebNext]_webVars PROVE WebInv'
  OBVIOUS
<1>1. ASSUME NEW w \in Sites \cup {Nowhere}, ChangeWorkspace(w) PROVE WebInv'
  BY <1>1, ChangeKeeps
<1>2. ASSUME NEW p \in Pages, OpenPage(p) PROVE WebInv'
  BY <1>2, OpenKeeps
<1>3. CASE ReloadDashboard
  BY <1>3, ReloadKeeps
<1>4. CASE Submit
  BY <1>4, SubmitKeeps
<1>9. CASE StartNewConversation
  BY <1>9, NewThreadKeeps
<1>5. ASSUME NEW q \in inFlight, QuestionAnswered(q) PROVE WebInv'
  BY <1>5, QuestionKeepsPage
<1>6. ASSUME NEW q \in inFlight, InvestigationAnswered(q) \/ RequestFails(q) PROVE WebInv'
  BY <1>6, ResultKeeps
<1>7. ASSUME NEW q \in inFlight, DashboardAnswered(q) PROVE WebInv'
  BY <1>7, DashboardKeeps
<1>8. CASE UNCHANGED webVars
  BY <1>8 DEF webVars, WebInv, WebTypeOK, FormWaits, OneThread, AnswerContinues, ThreadInPlace,
     LoadsInPlace, ShownInPlace
<1> QED
  BY <1>1, <1>2, <1>3, <1>4, <1>5, <1>6, <1>7, <1>8, <1>9 DEF WebNext

LEMMA WebInvHolds == WebSpec => []WebInv
<1> QED
  BY WebInvInit, WebInvStep, PTL DEF WebSpec

LEMMA WebInvShows == WebInv => PageFollowsWorkspace
<1> SUFFICES ASSUME WebInv PROVE PageFollowsWorkspace
  OBVIOUS
<1>1. page \in Pages
  BY DEF WebInv, WebTypeOK
<1>2. DashboardShown => view.data \subseteq {<<active, switches>>}
  BY DEF WebInv, LoadsInPlace, DashboardShown
<1>3. view.loading => \E q \in inFlight : q.generation = view.generation /\ ShouldApply(q)
  <2>1. CASE page = "admin"
    BY <2>1 DEF WebInv, LoadsInPlace, ShouldApply
  <2>2. CASE page \in {"ask", "agent"}
    BY <2>2 DEF WebInv, FormWaits
  <2> QED
    BY <1>1, <2>1, <2>2 DEF Pages
<1> QED
  BY <1>2, <1>3 DEF WebInv, OneThread, ShownInPlace, FormWaits, PageFollowsWorkspace

\* The pages Ask, Agent and Admin: whatever order answers come in, a page shows only
\* what belongs to the active workspace, and waits only while an answer is to come.
THEOREM PageAlwaysFollowsWorkspace == WebSpec => []PageFollowsWorkspace
<1> QED
  BY WebInvHolds, WebInvShows, PTL

-----------------------------------------------------------------------------
(* The parts of the services                                               *)

LEMMA OnePart ==
    ASSUME [Next]_vars
    PROVE  /\ [AttemptNext \/ SignupNext]_loginVars
           /\ [WebNext]_webVars
           /\ [\/ AgentNext /\ UNCHANGED kbVars
               \/ KnowledgeBaseNext /\ UNCHANGED agentVars]_<<agentVars, kbVars>>
           /\ [\/ RagNext /\ UNCHANGED kbVars
               \/ KnowledgeBaseNext /\ UNCHANGED ragVars]_<<ragVars, kbVars>>
<1>1. CASE CorpusChanges
  <2>1. KnowledgeBaseNext
    BY <1>1, PartsAssumption DEF CorpusChanges, KnowledgeBaseNext, DocumentChanges
  <2> QED
    BY <1>1, <2>1 DEF CorpusChanges
<1>2. CASE AgentPart
  BY <1>2 DEF AgentPart
<1>3. CASE RagPart
  BY <1>3 DEF RagPart
<1>4. CASE TextPart
  BY <1>4 DEF TextPart
<1>5. CASE LoginPart \/ SignupPart
  BY <1>5 DEF LoginPart, SignupPart
<1>6. CASE WebPart
  BY <1>6 DEF WebPart
<1>7. CASE UNCHANGED vars
  BY <1>7 DEF vars
<1> QED
  BY <1>1, <1>2, <1>3, <1>4, <1>5, <1>6, <1>7 DEF Next

LEMMA OneStart == Init => LoginInit /\ WebInit /\ AgentInit /\ RagInit /\ KnowledgeBaseInit
<1> QED
  BY DEF Init

\* A behaviour of the services is one of the investigations, the questions, the
\* logins and the web client, each with its corpus: what is proved of them holds
\* of what the runs check.
THEOREM PartsAreSpecified == Spec => AgentSpec /\ RagSpec /\ LoginSpec /\ WebSpec
<1>1. Spec => LoginSpec
  BY OneStart, OnePart, PTL DEF Spec, LoginSpec
<1>2. Spec => WebSpec
  BY OneStart, OnePart, PTL DEF Spec, WebSpec
<1>3. Spec => AgentSpec
  BY OneStart, OnePart, PTL DEF Spec, AgentSpec
<1>4. Spec => RagSpec
  BY OneStart, OnePart, PTL DEF Spec, RagSpec
<1> QED
  BY <1>1, <1>2, <1>3, <1>4

-----------------------------------------------------------------------------
(* The usage rows of an embedding run                                      *)

\* What one operation of a session does to its rows, whatever they are of.
LEMMA AccountRows ==
    ASSUME NEW open, NEW lost, NEW row
    PROVE  LET usage == [open |-> open, lost |-> lost] IN
           /\ LogEvent(usage, row) =
                 {usage, [open |-> open \cup {row}, lost |-> lost]}
           /\ Committed(usage) = [open |-> {}, lost |-> lost]
BY DEF LogEvent, Committed

\* Nothing is lost before the session of a retried run is closed, and a run that has
\* ended otherwise has committed last.
TextRowsKept ==
    /\ textUsage = [open |-> textUsage.open, lost |-> textUsage.lost]
    /\ textPc # "retry" => textUsage.lost = {}
    /\ textPc \in {"stored", "failed"} => textUsage.open = {}

\* Every step of an embedding run keeps its rows so.
LEMMA TextRowsStep ==
    ASSUME TextRowsKept, TextNext
    PROVE  TextRowsKept'
<1>1. PICK o, l : textUsage = [open |-> o, lost |-> l] /\ (textPc # "retry" => l = {})
  BY DEF TextRowsKept
<1>2. CASE ChunkText \/ RetryBatch
  BY <1>2 DEF ChunkText, RetryBatch, TextRowsKept
<1>3. CASE EmbedBatch
  <2>1. PICK row : textUsage' \in LogEvent(textUsage, row)
    BY <1>3 DEF EmbedBatch, LogBatch
  <2>2. textUsage' \in {[open |-> o, lost |-> l], [open |-> o \cup {row}, lost |-> l]}
    BY <1>1, <2>1, AccountRows
  <2>3. l = {} /\ textPc' \in {"embedded", "embedding"}
    BY <1>1, <1>3 DEF EmbedBatch
  <2> QED
    BY <2>2, <2>3 DEF TextRowsKept
<1>4. CASE FailBatch
  <2>1. PICK row, u : u \in LogEvent(textUsage, row) /\ textUsage' = Committed(u)
    BY <1>4 DEF FailBatch
  <2>2. u \in {[open |-> o, lost |-> l], [open |-> o \cup {row}, lost |-> l]}
    BY <1>1, <2>1, AccountRows
  <2>3. textUsage' = [open |-> {}, lost |-> l]
    BY <2>1, <2>2, AccountRows
  <2>4. l = {} /\ textPc' = "failed"
    BY <1>1, <1>4 DEF FailBatch
  <2> QED
    BY <2>3, <2>4 DEF TextRowsKept
<1>5. CASE RetryTask
  <2>1. PICK u : textUsage' = Closed(u) /\ textPc' = "retry"
    BY <1>5 DEF RetryTask
  <2> QED
    BY <2>1 DEF Closed, TextRowsKept
<1>6. CASE StoreEmbedded
  <2>1. textUsage' = [open |-> {}, lost |-> l]
    BY <1>1, <1>6, AccountRows DEF StoreEmbedded
  <2> QED
    BY <1>1, <1>6, <2>1 DEF StoreEmbedded, TextRowsKept
<1> QED
  BY <1>2, <1>3, <1>4, <1>5, <1>6 DEF TextNext

\* An embedding run that stores its chunks, or fails for good, keeps the usage rows of
\* all its batches, for texts of any size and any batch size: every way out of it but
\* the retry ends with a commit.
THEOREM BatchesAlwaysAccounted == Spec => []BatchesAccounted
<1>1. Init => TextRowsKept
  BY DEF Init, TextInit, NewAccount, TextRowsKept
<1>2. TextRowsKept /\ [Next]_vars => TextRowsKept'
  <2> SUFFICES ASSUME TextRowsKept, [Next]_vars PROVE TextRowsKept'
    OBVIOUS
  <2>1. CASE TextPart
    BY <2>1, TextRowsStep DEF TextPart
  <2>2. CASE UNCHANGED textVars
    BY <2>2 DEF textVars, TextRowsKept
  <2> QED
    BY <2>1, <2>2 DEF Next, CorpusChanges, AgentPart, RagPart, LoginPart, SignupPart, WebPart, vars
<1>3. TextRowsKept => BatchesAccounted
  BY DEF TextRowsKept, BatchesAccounted, AllKept
<1> QED
  BY <1>1, <1>2, <1>3, PTL DEF Spec

-----------------------------------------------------------------------------
(* The types of the services                                               *)

\* The types of the state that has no specification of its own.
CommonTypes ==
    /\ part \in Parts
    /\ KnowledgeBaseTypeOK
    /\ textPc \in TextPC /\ attempt \in {0, 1}

LEMMA CorpusTyped ==
    ASSUME KnowledgeBaseTypeOK, NEW d \in Documents, DocumentChanges(d)
    PROVE  KnowledgeBaseTypeOK'
<1>1. documents \in [Documents -> DocumentStatus] /\ generation \in [Documents -> Generations \cup {0}]
  BY DEF KnowledgeBaseTypeOK
<1>2. ASSUME NEW from, NEW to \in DocumentStatus, SetStatus(d, from, to) PROVE KnowledgeBaseTypeOK'
  BY <1>1, <1>2 DEF SetStatus, KnowledgeBaseTypeOK
<1>3. CASE StatusChanges(d)
  BY <1>2, <1>3 DEF StatusChanges, Upload, StartProcessing, MarkIndexed, MarkFailed, RemoveDocument,
     DocumentStatus
<1>4. CASE ChunksChange(d)
  BY <1>1, <1>4 DEF ChunksChange, WithdrawChunks, ReplaceChunks, KnowledgeBaseTypeOK
<1> QED
  BY <1>3, <1>4 DEF DocumentChanges

LEMMA CommonTypesStep ==
    ASSUME CommonTypes, [Next]_vars
    PROVE  CommonTypes'
<1>1. CASE CorpusChanges
  <2>1. UNCHANGED part /\ UNCHANGED textVars /\ \E d \in Documents : DocumentChanges(d)
    BY <1>1, PartsAssumption DEF CorpusChanges, DocumentChanges
  <2> QED
    BY <2>1, CorpusTyped DEF CommonTypes, textVars
<1>2. CASE TextPart
  <2>1. UNCHANGED part /\ UNCHANGED kbVars /\ TextNext
    BY <1>2 DEF TextPart
  <2>2. textPc' \in TextPC /\ attempt' \in {0, 1}
    BY <2>1 DEF CommonTypes, TextNext, ChunkText, EmbedBatch, RetryBatch, FailBatch, RetryTask, StoreEmbedded,
       TextPC
  <2> QED
    BY <2>1, <2>2 DEF CommonTypes, kbVars, KnowledgeBaseTypeOK
<1>3. CASE UNCHANGED <<part, kbVars, textVars>>
  BY <1>3 DEF CommonTypes, kbVars, textVars, KnowledgeBaseTypeOK
<1> QED
  BY <1>1, <1>2, <1>3 DEF Next, AgentPart, RagPart, LoginPart, SignupPart, WebPart, vars

\* The rows, sessions and requests of every service keep their types, whichever part a
\* behaviour is of.
THEOREM ServicesTypeCorrect == Spec => []ServicesTypeOK
<1>1. Init => CommonTypes
  <2>1. KnowledgeBaseInit => KnowledgeBaseTypeOK
    BY DEF KnowledgeBaseInit, KnowledgeBaseTypeOK, DocumentStatus
  <2> QED
    BY <2>1 DEF Init, TextInit, TextPC, CommonTypes
<1>2. CommonTypes /\ [Next]_vars => CommonTypes'
  BY CommonTypesStep
<1>3. Spec => []CommonTypes
  BY <1>1, <1>2, PTL DEF Spec
<1>4. RagInv => RagTypeOK
  <2> SUFFICES ASSUME RagInv PROVE RagTypeOK
    OBVIOUS
  <2>1. ASSUME NEW r \in Asks
        PROVE  /\ ask[r].pc \in AskPC /\ ask[r].conv \subseteq Conversations
               /\ ask[r].since \in 0 .. clock /\ ask[r].prompt \subseteq messages
               /\ ask[r].usage \in Account
    BY <2>1 DEF RagInv, AskOK, AskTyped, AskOwned
  <2> QED
    BY <2>1 DEF RagInv, MessagesOK, RagTypeOK
<1>5. WebInv => WebTypeOK
  BY DEF WebInv
<1>6. AgentTypeOK /\ LoginTypeOK /\ RagTypeOK /\ WebTypeOK /\ CommonTypes => ServicesTypeOK
  BY DEF CommonTypes, ServicesTypeOK
<1> QED
  BY <1>3, <1>4, <1>5, <1>6, PartsAreSpecified, AgentTypeCorrect, LoginTypeCorrect, RagInvHolds,
     WebInvHolds, PTL

-----------------------------------------------------------------------------
(* The chunks and the vectors of a text                                    *)

\* The list is what the chunker makes of the text, from the first step on.
ChunksMade ==
    /\ text \in Document
    /\ textPc = "extracted" => chunkList = <<>>
    /\ textPc # "extracted" => chunkList = chunk_extraction_result(text)

\* The vectors so far are of the first chunks, in their order.
VectorsInPlace ==
    /\ embeddings \in Seq(Seq(Tok))
    /\ textPc = "extracted" => embeddings = <<>>
    /\ Len(embeddings) <= Len(chunkList)
    /\ \A i \in 1 .. Len(embeddings) : embeddings[i] = chunkList[i].content
    /\ textPc \in {"embedded", "stored"} => Len(embeddings) = Len(chunkList)

TextInv == ChunksMade /\ VectorsInPlace

LEMMA ChunkListTyped ==
    ASSUME ChunksMade
    PROVE  chunkList \in Seq(Chunk) /\ Len(chunkList) \in Nat /\ DOMAIN chunkList = 1 .. Len(chunkList)
<1>1. chunkList \in Seq(Chunk)
  <2>1. CASE textPc = "extracted"
    BY <2>1, EmptySeq DEF ChunksMade
  <2>2. CASE textPc # "extracted"
    BY <2>2, ChunksOfDocument DEF ChunksMade
  <2> QED
    BY <2>1, <2>2
<1> QED
  BY <1>1

\* The first step makes the list; it is empty or its embedding begins.
LEMMA ChunkTextInv ==
    ASSUME TextInv, ChunkText
    PROVE  TextInv'
<1>1. ChunksMade'
  BY DEF ChunkText, TextInv, ChunksMade
<1>2. chunkList' \in Seq(Chunk)
  BY ChunksOfDocument DEF ChunkText, TextInv, ChunksMade
<1>3. embeddings' = embeddings /\ embeddings = <<>> /\ Len(embeddings) = 0 /\ embeddings \in Seq(Seq(Tok))
  BY EmptySeq DEF ChunkText, TextInv, VectorsInPlace
<1>4. textPc' = IF chunkList' = <<>> THEN "embedded" ELSE "embedding"
  BY DEF ChunkText
<1>5. textPc' \in {"embedded", "stored"} => Len(chunkList') = 0
  BY <1>4, EmptySeq
<1>6. Len(chunkList') \in Nat /\ \A i : i \notin 1 .. 0
  BY <1>2
<1>7. textPc' # "extracted"
  BY <1>4
<1> QED
  BY <1>1, <1>3, <1>5, <1>6, <1>7 DEF TextInv, VectorsInPlace

\* A batch adds the vectors of the chunks that follow those embedded so far.
LEMMA EmbedBatchInv ==
    ASSUME TextInv, EmbedBatch
    PROVE  TextInv'
<1>1. chunkList \in Seq(Chunk) /\ embeddings \in Seq(Seq(Tok))
  BY ChunkListTyped DEF TextInv, VectorsInPlace
<1>2. PICK n \in Nat, l \in Nat, b \in Nat \ {0} :
         n = Len(chunkList) /\ l = Len(embeddings) /\ b = BatchSize /\ l <= n
  BY <1>1, TextsAssumption DEF TextInv, VectorsInPlace
<1>3. PICK h \in Nat : h = Min({l + b, n}) /\ h >= l /\ h <= n
  <2>1. Min({l + b, n}) = IF l + b <= n THEN l + b ELSE n
    BY MinOfTwo
  <2> QED
    BY <1>2, <2>1
<1>4. PICK batch : batch = Batch /\ batch = SubSeq(chunkList, l + 1, h)
  BY <1>2, <1>3 DEF Batch, BatchStart
<1>5. /\ batch \in Seq(Chunk) /\ Len(batch) = h - l
      /\ \A i \in 1 .. h - l : l + i \in 1 .. n /\ batch[i] = chunkList[l + i]
  <2>1. l + 1 \in Int /\ h \in Int /\ \A i \in l + 1 .. h : chunkList[i] \in Chunk
    <3>1. \A i \in l + 1 .. h : i \in 1 .. n
      BY <1>3
    <3> QED
      BY <1>1, <1>2, <3>1
  <2>2. /\ batch \in Seq(Chunk)
        /\ Len(batch) = IF l + 1 <= h THEN h - (l + 1) + 1 ELSE 0
        /\ \A i \in 1 .. h - (l + 1) + 1 : batch[i] = chunkList[(l + 1) + i - 1]
    BY <1>4, <2>1, SubSeqProperties
  <2>3. h - (l + 1) + 1 = h - l /\ \A i \in 1 .. h - l : (l + 1) + i - 1 = l + i /\ l + i \in 1 .. n
    BY <1>3
  <2>4. ~(l + 1 <= h) => h - l = 0
    BY <1>3
  <2> QED
    BY <2>2, <2>3, <2>4
<1>6. PICK vectors \in Seq(Seq(Tok)) :
         /\ vectors = [i \in DOMAIN Batch |-> Batch[i].content]
         /\ Len(vectors) = h - l /\ \A i \in 1 .. h - l : vectors[i] = chunkList[l + i].content
  <2>1. PICK m \in Nat : m = h - l
    BY <1>3
  <2>2. PICK vectors : vectors = [i \in 1 .. m |-> batch[i].content]
    OBVIOUS
  <2>3. [i \in DOMAIN Batch |-> Batch[i].content] = vectors
    BY <1>4, <1>5, <2>1, <2>2
  <2>4. \A i \in 1 .. m : batch[i].content \in Seq(Tok)
    <3>1. \A i \in 1 .. m : batch[i] \in Chunk
      BY <1>5, <2>1
    <3> QED
      BY <3>1 DEF Chunk
  <2>5. vectors \in [1 .. m -> Seq(Tok)]
    BY <2>2, <2>4
  <2>6. vectors \in Seq(Seq(Tok)) /\ Len(vectors) = m
    BY <2>5
  <2>7. \A i \in 1 .. m : vectors[i] = chunkList[l + i].content
    BY <1>5, <2>1, <2>2
  <2> QED
    BY <2>1, <2>3, <2>6, <2>7
<1>7. PICK all \in Seq(Seq(Tok)) : all = embeddings' /\ all = embeddings \o vectors
  BY <1>1, <1>6, ConcatProperties DEF EmbedBatch
<1>8. Len(all) = h /\ \A i \in 1 .. Len(all) : all[i] = chunkList[i].content
  <2>1. /\ Len(all) = Len(embeddings) + Len(vectors)
        /\ \A i \in 1 .. Len(all) :
              \/ i \in 1 .. Len(embeddings) /\ all[i] = embeddings[i]
              \/ /\ i > Len(embeddings) /\ i - Len(embeddings) \in 1 .. Len(vectors)
                 /\ all[i] = vectors[i - Len(embeddings)]
    BY <1>1, <1>7, Appended
  <2>2. Len(all) = h
    BY <1>2, <1>3, <1>6, <2>1
  <2>3. ASSUME NEW i \in 1 .. Len(all) PROVE all[i] = chunkList[i].content
    <3>1. CASE i \in 1 .. Len(embeddings) /\ all[i] = embeddings[i]
      BY <3>1 DEF TextInv, VectorsInPlace
    <3>2. CASE i > l /\ i - l \in 1 .. h - l /\ all[i] = vectors[i - l]
      <4>1. l + (i - l) = i
        OBVIOUS
      <4> QED
        BY <1>6, <3>2, <4>1
    <3> QED
      BY <1>2, <1>6, <2>1, <3>1, <3>2
  <2> QED
    BY <2>2, <2>3
<1>9. /\ chunkList' = chunkList /\ text' = text /\ textPc = "embedding"
      /\ textPc' = IF Len(all) = n THEN "embedded" ELSE "embedding"
  BY <1>2, <1>7 DEF EmbedBatch
<1>10. ChunksMade'
  BY <1>9 DEF TextInv, ChunksMade
<1>11. VectorsInPlace'
  BY <1>2, <1>3, <1>7, <1>8, <1>9 DEF VectorsInPlace
<1> QED
  BY <1>10, <1>11 DEF TextInv

THEOREM TextInvHolds == Spec => []TextInv
<1>1. Init => TextInv
  <2> SUFFICES ASSUME Init PROVE TextInv
    OBVIOUS
  <2>1. text \in Document /\ textPc = "extracted" /\ chunkList = <<>> /\ embeddings = <<>>
    BY TextsAssumption DEF Init, TextInit
  <2>2. embeddings \in Seq(Seq(Tok)) /\ Len(embeddings) = 0 /\ Len(chunkList) = 0 /\ \A i : i \notin 1 .. 0
    BY <2>1, EmptySeq
  <2> QED
    BY <2>1, <2>2 DEF TextInv, ChunksMade, VectorsInPlace
<1>2. TextInv /\ [Next]_vars => TextInv'
  <2> SUFFICES ASSUME TextInv, [Next]_vars PROVE TextInv'
    OBVIOUS
  <2>1. CASE TextPart
    <3>1. CASE RetryBatch \/ FailBatch \/ RetryTask \/ StoreEmbedded
      <4>1. UNCHANGED <<text, chunkList, embeddings>> /\ textPc # "extracted" /\ textPc' # "extracted"
        BY <3>1 DEF RetryBatch, FailBatch, RetryTask, StoreEmbedded
      <4>2. textPc' \in {"embedded", "stored"} => textPc \in {"embedded", "stored"}
        BY <3>1 DEF RetryBatch, FailBatch, RetryTask, StoreEmbedded
      <4> QED
        BY <4>1, <4>2 DEF TextInv, ChunksMade, VectorsInPlace
    <3> QED
      BY <2>1, <3>1, ChunkTextInv, EmbedBatchInv DEF TextPart, TextNext
  <2>2. CASE UNCHANGED textVars
    BY <2>2 DEF textVars, TextInv, ChunksMade, VectorsInPlace
  <2> QED
    BY <2>1, <2>2 DEF Next, CorpusChanges, AgentPart, RagPart, LoginPart, SignupPart, WebPart, vars
<1> QED
  BY <1>1, <1>2, PTL DEF Spec

\* However the vectors of a text come in batches, and however often a batch is tried,
\* each chunk that is stored has the vector of its own text and the index of its place.
THEOREM EmbeddingsAlwaysMatchChunks == Spec => []EmbeddingsMatchChunks
<1>1. TextInv => EmbeddingsMatchChunks
  <2> SUFFICES ASSUME TextInv, textPc \in {"embedded", "stored"}, NEW i \in DOMAIN chunkList
               PROVE  /\ Len(embeddings) = Len(chunkList)
                      /\ chunkList[i].index = i - 1 /\ embeddings[i] = chunkList[i].content
    BY DEF EmbeddingsMatchChunks, TextInv, VectorsInPlace
  <2>1. i \in 1 .. Len(chunkList)
    BY ChunkListTyped DEF TextInv
  <2>2. PICK units \in Seq(Unit) : ChunksHold(units, TokensOfText(text), chunkList, Len(units))
    BY ChunksOfDocument DEF TextInv, ChunksMade
  <2> QED
    BY <2>1, <2>2 DEF TextInv, VectorsInPlace, ChunksHold
<1> QED
  BY <1>1, TextInvHolds, PTL

\* Whatever the paragraphs of a text and wherever its headings are, a chunk exceeds the
\* configured size by no more than the overlap, a stamped heading and two joints.
THEOREM ChunkSizeAlwaysBounded == Spec => []ChunkSizeBounded
<1>1. TextInv => ChunkSizeBounded
  <2> SUFFICES ASSUME TextInv, NEW i \in 1 .. Len(chunkList)
               PROVE  Len(chunkList[i].content) <= ChunkSize + ChunkOverlap + HeadingTokens + 2
    BY ChunkListTyped DEF ChunkSizeBounded, TextInv
  <2>1. textPc # "extracted"
    BY EmptySeq DEF TextInv, ChunksMade
  <2>2. PICK units \in Seq(Unit) : ChunksHold(units, TokensOfText(text), chunkList, Len(units))
    BY <2>1, ChunksOfDocument DEF TextInv, ChunksMade
  <2> QED
    BY <2>2 DEF ChunksHold, ChunkBound
<1> QED
  BY <1>1, TextInvHolds, PTL

\* For every text, chunk size, overlap and length of headings, and whichever tokens begin
\* inside a character: no token of the text is lost but those of a character that a cut
\* of a long paragraph falls into, the tokens of a chunk are in the order of the text,
\* and what a chunk has in common with the one before it is the end of that one.
THEOREM ChunksAlwaysCoverDocument == Spec => []ChunksCoverDocument
<1>1. TextInv => ChunksCoverDocument
  <2> SUFFICES ASSUME TextInv, textPc # "extracted" PROVE ChunksCoverDocument
    BY DEF ChunksCoverDocument
  <2>1. PICK T : T = TokensOfText(text)
    OBVIOUS
  <2>2. PICK units \in Seq(Unit) :
           T \ Severed(text) \subseteq OfUnits(units, Len(units)) /\ ChunksHold(units, T, chunkList, Len(units))
    BY <2>1, ChunksOfDocument DEF TextInv, ChunksMade
  <2>3. chunkList \in Seq(Chunk) /\ DOMAIN chunkList = 1 .. Len(chunkList)
    BY ChunkListTyped DEF TextInv
  <2>4. \A i \in 1 .. Len(chunkList) : /\ chunkList[i].content \in Seq(Tok)
                                       /\ DOMAIN chunkList[i].content = 1 .. Len(chunkList[i].content)
    <3>1. \A i \in 1 .. Len(chunkList) : chunkList[i] \in Chunk
      BY <2>3
    <3> QED
      BY <3>1 DEF Chunk
  <2>5. TokensOfText(text) \ Severed(text) \subseteq
            UNION {ToSet(chunkList[i].content) : i \in DOMAIN chunkList}
    BY <2>1, <2>2, <2>3 DEF ChunksHold
  <2>6. ASSUME NEW i \in 1 .. Len(chunkList), NEW mine, mine = chunkList[i].content,
               NEW own, own = ToSet(mine) \cap T
        PROVE  /\ \A j, k \in DOMAIN mine :
                     j < k /\ mine[j] \in own /\ mine[k] \in own => Before(mine[j], mine[k])
               /\ i > 1 =>
                     LET last == chunkList[i - 1].content
                     IN  \A x \in own :
                             \/ \A y \in ToSet(last) \cap T : Before(y, x)
                             \/ \E k \in DOMAIN last : last[k] = x /\ k > Len(last) - ChunkOverlap
    <3>1. Sorted(mine, T) /\ DOMAIN mine = 1 .. Len(mine)
      BY <2>2, <2>4, <2>6 DEF ChunksHold
    <3>2. \A j, k \in DOMAIN mine :
             j < k /\ mine[j] \in own /\ mine[k] \in own => Before(mine[j], mine[k])
      BY <2>6, <3>1 DEF Sorted
    <3>3. ASSUME i > 1, NEW last, last = chunkList[i - 1].content, NEW x \in own
          PROVE  \/ \A y \in ToSet(last) \cap T : Before(y, x)
                 \/ \E k \in DOMAIN last : last[k] = x /\ k > Len(last) - ChunkOverlap
      <4>1. i - 1 \in 1 .. Len(chunkList)
        BY <2>3, <3>3
      <4>2. DOMAIN last = 1 .. Len(last)
        BY <2>4, <3>3, <4>1
      <4>3. Continues(last, mine, T)
        BY <2>2, <2>6, <3>3 DEF ChunksHold
      <4> QED
        BY <2>6, <3>3, <4>2, <4>3 DEF Continues, Repeated
    <3> QED
      BY <3>2, <3>3
  <2>7. \A i \in DOMAIN chunkList :
           LET mine == chunkList[i].content
               own == ToSet(mine) \cap TokensOfText(text)
           IN  /\ \A j, k \in DOMAIN mine :
                     j < k /\ mine[j] \in own /\ mine[k] \in own => Before(mine[j], mine[k])
               /\ i > 1 =>
                     LET last == chunkList[i - 1].content
                     IN  \A x \in own :
                             \/ \A y \in ToSet(last) \cap TokensOfText(text) : Before(y, x)
                             \/ \E k \in DOMAIN last : last[k] = x /\ k > Len(last) - ChunkOverlap
    BY <2>1, <2>3, <2>6
  <2> QED
    BY <2>5, <2>7 DEF ChunksCoverDocument
<1> QED
  BY <1>1, TextInvHolds, PTL
=============================================================================
