-------------------------- MODULE MembershipProofs --------------------------
(***************************************************************************)
(* Proofs about workspace membership, for any sets of users, workspaces    *)
(* and concurrent requests.                                                *)
(***************************************************************************)
EXTENDS WorkspaceMembership, TLAPS

-----------------------------------------------------------------------------
(* Records                                                                 *)

\* The idle record is well typed and promises nothing.
LEMMA IdleRecord == Idle \in RequestRecord /\ WellPlaced(Idle) /\ Guarded(Idle)
<1>1. Idle \in RequestRecord
  BY DEF Idle, RequestRecord, Roles, NoRole, Steps, Ops, Responses, Events
<1>2. Idle.pc = "idle"
  BY DEF Idle
<1> QED
  BY <1>1, <1>2 DEF WellPlaced, Guarded

\* A record with an answer in it is well typed and promises nothing.
LEMMA AnswerRecord ==
    ASSUME NEW w \in Workspaces \cup {NoWorkspace}, NEW response \in Responses,
           NEW events \in SUBSET Events
    PROVE  /\ Reply(w, response, events) \in RequestRecord
           /\ Reply(w, response, events).pc = "idle"
           /\ WellPlaced(Reply(w, response, events))
           /\ Guarded(Reply(w, response, events))
<1>1. Reply(w, response, events) \in RequestRecord
  BY DEF Reply, Idle, RequestRecord, Roles, NoRole, Steps, Ops
<1>2. Reply(w, response, events).pc = "idle"
  BY DEF Reply, Idle
<1> QED
  BY <1>1, <1>2 DEF WellPlaced, Guarded

\* Setting the two flags of a record leaves it well typed.
LEMMA FlagRecord ==
    ASSUME NEW rec \in RequestRecord, NEW g \in BOOLEAN, NEW h \in BOOLEAN
    PROVE  [rec EXCEPT !.gone = g, !.raced = h] \in RequestRecord
<1>1. [rec EXCEPT !.gone = g] \in RequestRecord
  BY DEF RequestRecord
<1>2. ASSUME NEW q \in RequestRecord PROVE [q EXCEPT !.raced = h] \in RequestRecord
  BY DEF RequestRecord
<1> QED
  BY <1>1, <1>2

\* So does loading a role, with or without the role first read.
LEMMA LoadedRecord ==
    ASSUME NEW rec \in RequestRecord, NEW p \in Steps, NEW o \in Roles \cup {NoRole}
    PROVE  /\ [rec EXCEPT !.pc = p, !.old = o, !.loaded = o] \in RequestRecord
           /\ [rec EXCEPT !.pc = p, !.gone = FALSE, !.loaded = o] \in RequestRecord
<1>1. [rec EXCEPT !.pc = p, !.old = o, !.loaded = o] \in RequestRecord
  BY ZenonT(30) DEF RequestRecord
<1>2. [rec EXCEPT !.pc = p, !.gone = FALSE, !.loaded = o] \in RequestRecord
  BY ZenonT(30) DEF RequestRecord
<1> QED
  BY <1>1, <1>2

-----------------------------------------------------------------------------
(* How a step may change the state                                         *)

\* A step that only gives one request a record which relies on nothing false.
LEMMA QuietStep ==
    ASSUME MembershipInv, NEW r \in Requests, NEW rec \in RequestRecord,
           WellPlaced(rec), Guarded(rec), req' = [req EXCEPT ![r] = rec],
           UNCHANGED <<slugOf, roleOf>>
    PROVE  MembershipInv'
<1>1. Created' = Created /\ \A w : Owners(w)' = Owners(w)
  BY DEF Created, Owners
<1>2. req' \in [Requests -> RequestRecord]
  BY DEF MembershipInv, MembershipTypeOK
<1>3. ASSUME NEW q \in Requests PROVE WellPlaced(req'[q]) /\ Guarded(req'[q])
  BY DEF MembershipInv, MembershipTypeOK
<1>4. ASSUME NEW q \in Requests PROVE WellPlaced(req[q])' /\ Guarded(req[q])'
  BY <1>1, <1>3 DEF WellPlaced, Guarded
<1> QED
  BY <1>1, <1>2, <1>4 DEF MembershipInv, MembershipTypeOK

\* Answering is such a step.
LEMMA AnswerStep ==
    ASSUME MembershipInv, NEW r \in Requests, NEW response \in Responses,
           Answer(r, response) \/ Deny(r)
    PROVE  MembershipInv'
<1>1. req[r].ws \in Workspaces \cup {NoWorkspace}
  BY DEF MembershipInv, MembershipTypeOK, RequestRecord
<1>2. CASE Answer(r, response)
  <2>1. {} \in SUBSET Events
    OBVIOUS
  <2> QED
    BY <1>1, <1>2, <2>1, AnswerRecord, QuietStep DEF Answer, Answered
<1>3. CASE Deny(r)
  <2>1. {"failed_authorization"} \in SUBSET Events /\ "Forbidden" \in Responses
    BY DEF Events, Responses
  <2> QED
    BY <1>1, <1>3, <2>1, AnswerRecord, QuietStep DEF Deny, Answered
<1> QED
  BY <1>2, <1>3

\* Another request's commit leaves a record what it relies on, or marks it as raced.
LEMMA CommitStep ==
    ASSUME MembershipInv, NEW r \in Requests, NEW w \in Created, NEW u \in Users,
           NEW role \in Roles \cup {NoRole}, NEW next \in RequestRecord,
           WellPlaced(next), next.pc \notin {"count", "fetch", "write"},
           CommitRole(r, w, u, role, next)
    PROVE  MembershipInv'
<1> DEFINE marked(q) ==
      [req[q] EXCEPT
         !.gone  = @ \/ (role = NoRole /\ HoldsRow(q, w, u)),
         !.raced = @ \/ /\ req[q].ws = w
                        /\ req[q].pc \in {"count", "fetch", "write"}
                        /\ (roleOf[w][u] = "owner") # (role = "owner")]
<1>1. /\ roleOf' = [roleOf EXCEPT ![w][u] = role]
      /\ slugOf' = slugOf
      /\ req' = [q \in Requests |-> IF q = r THEN next ELSE marked(q)]
  BY DEF CommitRole
<1>2. w \in Workspaces /\ Created' = Created
  BY <1>1 DEF Created
<1>3. roleOf' \in [Workspaces -> [Users -> Roles \cup {NoRole}]]
  BY <1>1, <1>2 DEF MembershipInv, MembershipTypeOK
<1>4. ASSUME NEW v \in Workspaces \ Created, NEW x \in Users PROVE roleOf'[v][x] = NoRole
  BY <1>1, <1>2, <1>4 DEF MembershipInv, MembershipTypeOK
<1>5. ASSUME NEW q \in Requests PROVE marked(q) \in RequestRecord
  <2>1. req[q] \in RequestRecord
    BY DEF MembershipInv, MembershipTypeOK
  <2>2. marked(q).gone \in BOOLEAN /\ marked(q).raced \in BOOLEAN
    BY <2>1 DEF RequestRecord
  <2>3. marked(q) = [req[q] EXCEPT !.gone = marked(q).gone, !.raced = marked(q).raced]
    BY <2>1 DEF RequestRecord
  <2> QED
    BY <2>1, <2>2, <2>3, FlagRecord
<1>6. req' \in [Requests -> RequestRecord]
  BY <1>1, <1>5
<1>7. ASSUME NEW q \in Requests PROVE WellPlaced(req[q])'
  <2>1. CASE q = r
    BY <1>1, <1>2, <2>1 DEF WellPlaced
  <2>2. CASE q # r
    <3>1. WellPlaced(req[q]) /\ req[q] \in RequestRecord
      BY DEF MembershipInv, MembershipTypeOK
    <3>2. req'[q] = marked(q)
      BY <1>1, <2>2
    <3>3. /\ req'[q].pc = req[q].pc /\ req'[q].op = req[q].op
          /\ req'[q].ws = req[q].ws /\ req'[q].target = req[q].target
          /\ req'[q].role = req[q].role /\ req'[q].ctx = req[q].ctx
          /\ req'[q].old = req[q].old /\ req'[q].user = req[q].user
          /\ req'[q].slug = req[q].slug
      BY <3>1, <3>2 DEF RequestRecord
    <3> QED
      BY <1>2, <3>1, <3>3 DEF WellPlaced
  <2> QED
    BY <2>1, <2>2
<1>8. ASSUME NEW q \in Requests PROVE Guarded(req[q])'
  <2>1. CASE q = r
    BY <1>1, <2>1 DEF Guarded
  <2>2. CASE q # r
    <3>1. /\ Guarded(req[q]) /\ req[q] \in RequestRecord /\ WellPlaced(req[q])
      BY DEF MembershipInv, MembershipTypeOK
    <3>2. req'[q] = marked(q)
      BY <1>1, <2>2
    <3>3. /\ req'[q].pc = req[q].pc /\ req'[q].op = req[q].op
          /\ req'[q].ws = req[q].ws /\ req'[q].target = req[q].target
          /\ req'[q].role = req[q].role /\ req'[q].ctx = req[q].ctx
      BY <3>1, <3>2 DEF RequestRecord
    <3>4. ASSUME req[q].pc \in {"count", "fetch", "write"}, ~req'[q].raced
          PROVE  /\ ~req[q].raced
                 /\ Owners(req[q].ws)' = Owners(req[q].ws)
                 /\ \A x \in Users :
                      roleOf'[req[q].ws][x] = "owner" <=> roleOf[req[q].ws][x] = "owner"
      <4>1. /\ ~req[q].raced
            /\ req[q].ws = w => ((roleOf[w][u] = "owner") <=> (role = "owner"))
        <5>1. req'[q].raced = (req[q].raced \/ (/\ req[q].ws = w
                                 /\ req[q].pc \in {"count", "fetch", "write"}
                                 /\ (roleOf[w][u] = "owner") # (role = "owner")))
          BY <3>1, <3>2 DEF RequestRecord
        <5> QED
          BY <3>4, <5>1
      <4>2. req[q].ws \in Workspaces
        BY <3>1, <3>4 DEF WellPlaced, Created
      <4>3. \A x \in Users :
              roleOf'[req[q].ws][x] = "owner" <=> roleOf[req[q].ws][x] = "owner"
        BY <1>1, <1>2, <4>1, <4>2 DEF MembershipInv, MembershipTypeOK
      <4> QED
        BY <3>3, <4>1, <4>3 DEF Owners
    <3>5. req[q].pc \in {"count", "fetch", "write"} => req[q].target \in Users
      BY <3>1 DEF WellPlaced
    <3> QED
      BY <3>1, <3>3, <3>4, <3>5 DEF Guarded
  <2> QED
    BY <2>1, <2>2
<1> QED
  BY <1>1, <1>2, <1>3, <1>4, <1>6, <1>7, <1>8 DEF MembershipInv, MembershipTypeOK

-----------------------------------------------------------------------------
(* Every step keeps the invariant                                          *)

\* What the invariant says about one request.
LEMMA RequestFacts ==
    ASSUME MembershipInv, NEW r \in Requests
    PROVE  req[r] \in RequestRecord /\ WellPlaced(req[r]) /\ Guarded(req[r])
BY DEF MembershipInv, MembershipTypeOK

\* A request that arrives: it is turned away, or starts with the caller's role.
LEMMA ArrivalStep ==
    ASSUME MembershipInv, NEW r \in Requests, Arrival(r)
    PROVE  MembershipInv'
<1>1. ASSUME NEW u \in Users, NEW s \in Slugs, RequestWorkspace(r, u, s)
      PROVE  MembershipInv'
  <2>1. CASE req' = [req EXCEPT ![r] = Reply(NoWorkspace, "DuplicateSlug", {})]
    <3>1. "DuplicateSlug" \in Responses /\ {} \in SUBSET Events
      BY DEF Responses
    <3> QED
      BY <1>1, <2>1, <3>1, AnswerRecord, QuietStep DEF RequestWorkspace
  <2>2. CASE req' = [req EXCEPT ![r] =
               [Idle EXCEPT !.pc = "create", !.op = "create", !.user = u, !.slug = s]]
    <3> DEFINE rec ==
          [Idle EXCEPT !.pc = "create", !.op = "create", !.user = u, !.slug = s]
    <3>1. rec \in RequestRecord
      BY DEF Idle, RequestRecord, Roles, NoRole, Steps, Ops, Responses, Events
    <3>2. rec.pc = "create" /\ rec.user = u /\ rec.slug = s
      BY DEF Idle
    <3>3. WellPlaced(rec) /\ Guarded(rec)
      BY <3>2 DEF WellPlaced, Guarded
    <3> QED
      BY <1>1, <2>2, <3>1, <3>3, QuietStep DEF RequestWorkspace
  <2> QED
    BY <1>1, <2>1, <2>2 DEF RequestWorkspace
<1>2. ASSUME NEW w \in Workspaces, TurnAway(r, w)
      PROVE  MembershipInv'
  <2>1. /\ "Forbidden" \in Responses /\ "ServerError" \in Responses
        /\ {} \in SUBSET Events /\ {"failed_authorization"} \in SUBSET Events
    BY DEF Responses, Events
  <2>2. CASE w \in Created
    BY <1>2, <2>1, <2>2, AnswerRecord, QuietStep DEF TurnAway
  <2>3. CASE w \notin Created
    BY <1>2, <2>1, <2>3, AnswerRecord, QuietStep DEF TurnAway
  <2> QED
    BY <2>2, <2>3
<1>3. ASSUME NEW u \in Users, NEW w \in Workspaces, NEW action \in Permissions,
             Access(r, u, w, action)
      PROVE  MembershipInv'
  <2>1. "OK" \in Responses /\ {} \in SUBSET Events
    BY DEF Responses
  <2>2. CASE ~Allowed(u, w, action)
    BY <1>2, <1>3, <2>2 DEF Access
  <2>3. CASE Allowed(u, w, action)
    BY <1>3, <2>1, <2>3, AnswerRecord, QuietStep DEF Access
  <2> QED
    BY <2>2, <2>3
<1>4. ASSUME NEW u \in Users, NEW w \in Workspaces, NEW t \in Users \cup {NoUser},
             NEW op \in {"invite", "update", "remove"}, NEW role \in Roles \cup {NoRole},
             role = NoRole <=> op = "remove",
             ManageMembers(r, u, w, op, t, role)
      PROVE  MembershipInv'
  <2> DEFINE rec == [Idle EXCEPT !.pc = "target", !.op = op, !.user = u, !.ws = w,
                            !.target = t, !.role = role, !.ctx = roleOf[w][u]]
  <2>1. CASE ~Allowed(u, w, "manage_members")
    BY <1>2, <1>4, <2>1 DEF ManageMembers
  <2>2. CASE Allowed(u, w, "manage_members")
    <3>1. roleOf[w][u] \in {"owner", "admin"}
      <4>1. roleOf[w][u] \in Roles
        BY <2>2 DEF Allowed, MembershipInv, MembershipTypeOK
      <4>2. /\ "manage_members" \notin PermissionMatrix["member"]
            /\ "manage_members" \notin PermissionMatrix["viewer"]
        BY DEF PermissionMatrix
      <4>3. "manage_members" \in PermissionMatrix[roleOf[w][u]]
        BY <2>2 DEF Allowed
      <4> QED
        BY <4>1, <4>2, <4>3 DEF Roles
    <3>2. w \in Created
      BY <3>1 DEF MembershipInv, MembershipTypeOK, NoRole
    <3>3. rec \in RequestRecord
      BY <3>1 DEF Idle, RequestRecord, Roles, NoRole, Steps, Ops, Responses, Events
    <3>4. /\ rec.pc = "target" /\ rec.op = op /\ rec.ws = w /\ rec.role = role
          /\ rec.ctx = roleOf[w][u]
      BY DEF Idle
    <3>5. WellPlaced(rec) /\ Guarded(rec)
      BY <1>4, <3>1, <3>2, <3>4 DEF WellPlaced, Guarded
    <3> QED
      BY <1>4, <2>2, <3>3, <3>5, QuietStep DEF ManageMembers
  <2> QED
    BY <2>1, <2>2
<1>5. AskedRoles \subseteq Roles /\ NoRole \notin Roles
  BY MembershipAssumption DEF Roles, NoRole
<1> QED
  BY <1>1, <1>3, <1>4, <1>5 DEF Arrival

\* The workspace and its first owner appear together.
LEMMA CreateStep ==
    ASSUME MembershipInv, NEW r \in Requests, CreateWorkspace(r)
    PROVE  MembershipInv'
<1>1. CASE Answer(r, "ServerError")
  BY <1>1, AnswerStep DEF Responses
<1>2. ASSUME NEW w \in Workspaces \ Created,
             slugOf' = [slugOf EXCEPT ![w] = req[r].slug],
             roleOf' = [roleOf EXCEPT ![w][req[r].user] = "owner"],
             req' = [req EXCEPT ![r] = Answered(r, "OK", {})]
      PROVE  MembershipInv'
  <2>1. /\ req[r] \in RequestRecord /\ req[r].user \in Users /\ req[r].slug \in Slugs
        /\ req[r].ws \in Workspaces \cup {NoWorkspace}
    BY RequestFacts DEF CreateWorkspace, WellPlaced, RequestRecord
  <2>2. /\ Answered(r, "OK", {}) \in RequestRecord
        /\ Answered(r, "OK", {}).pc = "idle"
    BY <2>1, AnswerRecord DEF Answered, Responses
  <2>3. /\ slugOf' \in [Workspaces -> Slugs \cup {NoSlug}]
        /\ roleOf' \in [Workspaces -> [Users -> Roles \cup {NoRole}]]
        /\ req' \in [Requests -> RequestRecord]
    BY <1>2, <2>1, <2>2 DEF MembershipInv, MembershipTypeOK, Roles
  <2>4. Created' = Created \cup {w}
    BY <1>2, <2>1, MembershipAssumption DEF Created, MembershipInv, MembershipTypeOK
  <2>5. ASSUME NEW v \in Workspaces \ Created', NEW x \in Users PROVE roleOf'[v][x] = NoRole
    BY <1>2, <2>1, <2>4, <2>5 DEF MembershipInv, MembershipTypeOK
  <2>6. ASSUME NEW v \in Created PROVE Owners(v)' = Owners(v) /\ roleOf'[v] = roleOf[v]
    BY <1>2, <2>6 DEF Owners, Created, MembershipInv, MembershipTypeOK
  <2>7. ASSUME NEW q \in Requests PROVE WellPlaced(req[q])' /\ Guarded(req[q])'
    <3>1. CASE q = r
      <4>1. req'[q].pc = "idle"
        BY <1>2, <2>2, <3>1 DEF MembershipInv, MembershipTypeOK
      <4> QED
        BY <4>1 DEF WellPlaced, Guarded
    <3>2. CASE q # r
      <4>1. req'[q] = req[q]
        BY <1>2, <3>2 DEF MembershipInv, MembershipTypeOK
      <4>2. WellPlaced(req[q]) /\ Guarded(req[q])
        BY RequestFacts
      <4>3. req[q].pc \in {"count", "fetch", "write"} =>
              /\ Owners(req[q].ws)' = Owners(req[q].ws)
              /\ roleOf'[req[q].ws] = roleOf[req[q].ws]
        BY <2>6, <4>1, <4>2 DEF WellPlaced
      <4>4. WellPlaced(req[q])'
        BY <2>4, <4>1, <4>2 DEF WellPlaced
      <4>5. Guarded(req[q])'
        BY <4>1, <4>2, <4>3 DEF Guarded
      <4> QED
        BY <4>4, <4>5
    <3> QED
      BY <3>1, <3>2
  <2> QED
    BY <2>3, <2>5, <2>7 DEF MembershipInv, MembershipTypeOK
<1> QED
  BY <1>1, <1>2 DEF CreateWorkspace

\* An invitation passes its checks, or is refused.
LEMMA InviteStep ==
    ASSUME MembershipInv, NEW r \in Requests, CheckInvitee(r) \/ InsertMember(r)
    PROVE  MembershipInv'
<1> DEFINE w == req[r].ws
           t == req[r].target
<1>1. req[r] \in RequestRecord /\ WellPlaced(req[r]) /\ Guarded(req[r])
  BY RequestFacts
<1>2. {"Forbidden", "NotFound", "AlreadyMember"} \subseteq Responses
  BY DEF Responses
<1>3. CASE CheckInvitee(r)
  <2>1. CASE Deny(r) \/ Answer(r, "NotFound") \/ Answer(r, "AlreadyMember")
    BY <1>2, <2>1, AnswerStep
  <2>2. CASE /\ ~(req[r].ctx = "admin" /\ req[r].role = "owner")
             /\ t # NoUser
             /\ GoTo(r, "write")
    <3> DEFINE rec == [req[r] EXCEPT !.pc = "write"]
    <3>1. rec \in RequestRecord
      BY <1>1 DEF RequestRecord, Steps
    <3>2. /\ rec.pc = "write" /\ rec.op = "invite" /\ rec.ws = w /\ rec.target = t
          /\ rec.role = req[r].role /\ rec.ctx = req[r].ctx
      BY <1>1, <1>3 DEF RequestRecord, CheckInvitee
    <3>3. t \in Users /\ req[r].ctx \in {"owner", "admin"} /\ w \in Created
          /\ req[r].role # NoRole
      BY <1>1, <1>3, <2>2 DEF RequestRecord, WellPlaced, CheckInvitee
    <3>4. WellPlaced(rec) /\ Guarded(rec)
      BY <2>2, <3>2, <3>3 DEF WellPlaced, Guarded
    <3>5. req' = [req EXCEPT ![r] = rec]
      BY <2>2 DEF GoTo
    <3> QED
      BY <2>2, <3>1, <3>4, <3>5, QuietStep DEF GoTo
  <2> QED
    BY <1>3, <2>1, <2>2 DEF CheckInvitee
<1>4. CASE InsertMember(r)
  <2>1. CASE Answer(r, "AlreadyMember")
    BY <1>2, <2>1, AnswerStep
  <2>2. CASE CommitRole(r, w, t, req[r].role, [req[r] EXCEPT !.pc = "refresh"])
    <3> DEFINE rec == [req[r] EXCEPT !.pc = "refresh"]
    <3>1. rec \in RequestRecord
      BY <1>1 DEF RequestRecord, Steps
    <3>2. rec.pc = "refresh" /\ WellPlaced(rec)
      BY <1>1, <1>4 DEF RequestRecord, WellPlaced, InsertMember
    <3>3. t \in Users /\ w \in Created /\ req[r].role \in Roles \cup {NoRole}
      BY <1>1, <1>4 DEF RequestRecord, WellPlaced, InsertMember
    <3> QED
      BY <2>2, <3>1, <3>2, <3>3, CommitStep
  <2> QED
    BY <1>4, <2>1, <2>2 DEF InsertMember
<1> QED
  BY <1>3, <1>4

\* After the first read an admin's request has no owner as its target, and one that takes
\* an owner's role goes on to count.
LEMMA ReadStep ==
    ASSUME MembershipInv, NEW r \in Requests, ReadTarget(r)
    PROVE  MembershipInv'
<1> DEFINE w == req[r].ws
           t == req[r].target
           old == GetMember(w, t)
           next == IF old = "owner" /\ req[r].role # "owner" THEN "count" ELSE "fetch"
           rec == [req[r] EXCEPT !.pc = next, !.old = old, !.loaded = old]
<1>1. req[r] \in RequestRecord /\ WellPlaced(req[r])
  BY RequestFacts
<1>2. CASE Answer(r, "NotFound") \/ Deny(r)
  BY <1>2, AnswerStep DEF Responses
<1>3. CASE /\ old # NoRole /\ ~Escalates(r, old)
           /\ req' = [req EXCEPT ![r] = rec]
           /\ UNCHANGED <<slugOf, roleOf>>
  <2>1. /\ req[r].ctx \in {"owner", "admin"} /\ w \in Created
        /\ req[r].op \in {"update", "remove"}
        /\ req[r].role = NoRole <=> req[r].op = "remove"
    BY <1>1 DEF WellPlaced, ReadTarget
  <2>2. t \in Users /\ old = roleOf[w][t] /\ old \in Roles
    BY <1>3, <2>1 DEF GetMember, Created, MembershipInv, MembershipTypeOK
  <2>3. next \in {"count", "fetch"}
    OBVIOUS
  <2>4. rec \in RequestRecord
    <3>1. next \in Steps /\ old \in Roles \cup {NoRole}
      BY <2>2, <2>3 DEF Steps
    <3> QED
      BY <1>1, <3>1, LoadedRecord
  <2>5. /\ rec.pc = next /\ rec.op = req[r].op /\ rec.ws = w /\ rec.target = t
        /\ rec.role = req[r].role /\ rec.ctx = req[r].ctx /\ rec.old = old
    BY <1>1 DEF RequestRecord
  <2>6. WellPlaced(rec)
    BY <2>1, <2>2, <2>3, <2>5 DEF WellPlaced
  <2>7. /\ req[r].ctx = "admin" => old # "owner" /\ req[r].role # "owner"
        /\ next = "count" => old = "owner"
        /\ next = "fetch" /\ req[r].role # "owner" => t \notin Owners(w)
    BY <1>3, <2>2 DEF Escalates, Owners
  <2>8. Guarded(rec)
    BY <2>1, <2>2, <2>3, <2>5, <2>7 DEF Guarded
  <2> QED
    BY <1>3, <2>4, <2>6, <2>8, QuietStep
<1> QED
  BY <1>2, <1>3 DEF ReadTarget

\* After the count the target, if it is an owner, is not the only one.
LEMMA CountStep ==
    ASSUME MembershipInv, NEW r \in Requests, CountOwners(r)
    PROVE  MembershipInv'
<1> DEFINE w == req[r].ws
           t == req[r].target
           rec == [req[r] EXCEPT !.pc = "fetch", !.raced = FALSE]
<1>1. req[r] \in RequestRecord /\ WellPlaced(req[r]) /\ Guarded(req[r])
  BY RequestFacts
<1>2. CASE Answer(r, "LastOwner")
  BY <1>2, AnswerStep DEF Responses
<1>3. CASE /\ ~OneOwner(w)
           /\ req' = [req EXCEPT ![r] = rec]
           /\ UNCHANGED <<slugOf, roleOf>>
  <2>1. rec \in RequestRecord
    BY <1>1 DEF RequestRecord, Steps
  <2>2. /\ rec.pc = "fetch" /\ rec.op = req[r].op /\ rec.ws = w /\ rec.target = t
        /\ rec.role = req[r].role /\ rec.ctx = req[r].ctx /\ rec.old = req[r].old
    BY <1>1 DEF RequestRecord
  <2>3. WellPlaced(rec)
    BY <1>1, <2>2 DEF WellPlaced, CountOwners
  <2>4. req[r].ctx = "owner"
    BY <1>1 DEF Guarded, CountOwners
  <2>5. t \in Owners(w) => Owners(w) \ {t} # {}
    BY <1>3 DEF OneOwner, Owners
  <2>6. Guarded(rec)
    BY <2>2, <2>4, <2>5 DEF Guarded
  <2> QED
    BY <1>3, <2>1, <2>3, <2>6, QuietStep
<1> QED
  BY <1>2, <1>3 DEF CountOwners

\* Reading the row again changes nothing the request relies on.
LEMMA FetchStep ==
    ASSUME MembershipInv, NEW r \in Requests, FetchMember(r)
    PROVE  MembershipInv'
<1> DEFINE w == req[r].ws
           t == req[r].target
           current == roleOf[w][t]
<1>1. req[r] \in RequestRecord /\ WellPlaced(req[r]) /\ Guarded(req[r])
  BY RequestFacts
<1>2. /\ w \in Workspaces /\ t \in Users /\ current \in Roles \cup {NoRole}
      /\ req[r].pc = "fetch" /\ req[r].op # "invite"
  BY <1>1 DEF WellPlaced, FetchMember, Created, MembershipInv, MembershipTypeOK
<1>3. ASSUME NEW rec \in RequestRecord, rec.pc = "write", rec.op = req[r].op, rec.ws = w,
             rec.target = t, rec.role = req[r].role, rec.ctx = req[r].ctx,
             rec.old = req[r].old, rec.raced = req[r].raced
      PROVE  WellPlaced(rec) /\ Guarded(rec)
  BY <1>1, <1>2, <1>3 DEF WellPlaced, Guarded
<1>4. CASE Answer(r, "ServerError")
  BY <1>4, AnswerStep DEF Responses
<1>5. CASE GoTo(r, "write")
  <2> DEFINE rec == [req[r] EXCEPT !.pc = "write"]
  <2>1. rec \in RequestRecord
    BY <1>1 DEF RequestRecord, Steps
  <2>2. /\ rec.pc = "write" /\ rec.op = req[r].op /\ rec.ws = w /\ rec.target = t
        /\ rec.role = req[r].role /\ rec.ctx = req[r].ctx /\ rec.old = req[r].old
        /\ rec.raced = req[r].raced
    BY <1>1 DEF RequestRecord
  <2>3. WellPlaced(rec) /\ Guarded(rec)
    BY <1>3, <2>1, <2>2
  <2>4. req' = [req EXCEPT ![r] = rec]
    BY <1>5 DEF GoTo
  <2> QED
    BY <1>5, <2>1, <2>3, <2>4, QuietStep DEF GoTo
<1>6. CASE /\ req' = [req EXCEPT ![r] =
                [@ EXCEPT !.pc = "write", !.gone = FALSE, !.loaded = current]]
           /\ UNCHANGED <<slugOf, roleOf>>
  <2> DEFINE rec == [req[r] EXCEPT !.pc = "write", !.gone = FALSE, !.loaded = current]
  <2>1. rec \in RequestRecord
    BY <1>1, <1>2, LoadedRecord DEF Steps
  <2>2. /\ rec.pc = "write" /\ rec.op = req[r].op /\ rec.ws = w /\ rec.target = t
        /\ rec.role = req[r].role /\ rec.ctx = req[r].ctx /\ rec.old = req[r].old
        /\ rec.raced = req[r].raced
    BY <1>1 DEF RequestRecord
  <2>3. WellPlaced(rec) /\ Guarded(rec)
    BY <1>3, <2>1, <2>2
  <2> QED
    BY <1>6, <2>1, <2>3, QuietStep
<1> QED
  BY <1>4, <1>5, <1>6 DEF FetchMember

\* A role change or a removal is committed, or found to have nothing to do.
LEMMA WriteStep ==
    ASSUME MembershipInv, NEW r \in Requests, WriteRole(r) \/ DeleteRow(r)
    PROVE  MembershipInv'
<1> DEFINE w == req[r].ws
           t == req[r].target
<1>1. req[r] \in RequestRecord /\ WellPlaced(req[r]) /\ Guarded(req[r])
  BY RequestFacts
<1>2. t \in Users /\ w \in Created /\ req[r].role \in Roles \cup {NoRole}
  BY <1>1 DEF RequestRecord, WellPlaced, WriteRole, DeleteRow
<1>3. CASE Answer(r, "ServerError") \/ Answer(r, "OK")
  BY <1>3, AnswerStep DEF Responses
<1>4. CASE WriteRole(r) /\ GoTo(r, "refresh")
  <2> DEFINE rec == [req[r] EXCEPT !.pc = "refresh"]
  <2>1. rec \in RequestRecord
    BY <1>1 DEF RequestRecord, Steps
  <2>2. rec.pc = "refresh" /\ WellPlaced(rec)
    BY <1>1, <1>4 DEF RequestRecord, WellPlaced, WriteRole
  <2>3. Guarded(rec)
    BY <2>2 DEF Guarded
  <2>4. req' = [req EXCEPT ![r] = rec]
    BY <1>4 DEF GoTo
  <2> QED
    BY <1>4, <2>1, <2>2, <2>3, <2>4, QuietStep DEF GoTo
<1>5. ASSUME WriteRole(r),
             CommitRole(r, w, t, req[r].role,
               [req[r] EXCEPT !.pc = "refresh", !.changed = (roleOf[w][t] # req[r].role)])
      PROVE  MembershipInv'
  <2> DEFINE differs == roleOf[w][t] # req[r].role
  <2>1. differs \in BOOLEAN
    OBVIOUS
  <2> HIDE DEF differs
  <2> DEFINE rec == [req[r] EXCEPT !.pc = "refresh", !.changed = differs]
  <2>2. rec \in RequestRecord
    BY <1>1, <2>1 DEF RequestRecord, Steps
  <2>3. rec.pc = "refresh" /\ WellPlaced(rec)
    BY <1>1, <1>5 DEF RequestRecord, WellPlaced, WriteRole
  <2>4. CommitRole(r, w, t, req[r].role, rec)
    BY <1>5 DEF differs
  <2> HIDE DEF rec
  <2> QED
    BY <1>2, <2>2, <2>3, <2>4, CommitStep
<1>6. CASE CommitRole(r, w, t, NoRole, Answered(r, "OK", {}))
  <2>1. /\ Answered(r, "OK", {}) \in RequestRecord
        /\ Answered(r, "OK", {}).pc = "idle"
        /\ WellPlaced(Answered(r, "OK", {}))
    BY <1>1, AnswerRecord DEF Answered, Responses, RequestRecord
  <2> QED
    BY <1>2, <1>6, <2>1, CommitStep
<1> QED
  BY <1>3, <1>4, <1>5, <1>6 DEF WriteRole, DeleteRow

\* The steps after the commit.
LEMMA FinishStep ==
    ASSUME MembershipInv, NEW r \in Requests, Refresh(r) \/ AuditRoleChange(r)
    PROVE  MembershipInv'
<1>1. req[r] \in RequestRecord /\ WellPlaced(req[r])
  BY RequestFacts
<1>2. CASE Answer(r, "ServerError") \/ Answer(r, "OK")
  BY <1>2, AnswerStep DEF Responses
<1>3. CASE Refresh(r) /\ GoTo(r, "audit")
  <2> DEFINE rec == [req[r] EXCEPT !.pc = "audit"]
  <2>1. rec \in RequestRecord
    BY <1>1 DEF RequestRecord, Steps
  <2>2. rec.pc = "audit" /\ WellPlaced(rec)
    BY <1>1, <1>3 DEF RequestRecord, WellPlaced, Refresh
  <2>3. Guarded(rec)
    BY <2>2 DEF Guarded
  <2>4. req' = [req EXCEPT ![r] = rec]
    BY <1>3 DEF GoTo
  <2> QED
    BY <1>3, <2>1, <2>2, <2>3, <2>4, QuietStep DEF GoTo
<1>4. CASE AuditRoleChange(r)
  <2>1. PICK events \in SUBSET Events : events = {"member.role_changed"}
    BY DEF Events
  <2>2. PICK ws \in Workspaces \cup {NoWorkspace} : ws = req[r].ws
    BY <1>1 DEF RequestRecord
  <2>3. PICK response \in Responses : response = IF req[r].gone THEN "ServerError" ELSE "OK"
    BY DEF Responses
  <2>4. req' = [req EXCEPT ![r] = Reply(ws, response, events)] /\ UNCHANGED <<slugOf, roleOf>>
    BY <1>4, <2>1, <2>2, <2>3 DEF AuditRoleChange, Answered
  <2> QED
    BY <2>4, AnswerRecord, QuietStep
<1> QED
  BY <1>2, <1>3, <1>4 DEF Refresh

\* A restarted process has only idle slots.
LEMMA RestartStep ==
    ASSUME MembershipInv, ProcessRestart
    PROVE  MembershipInv'
<1>1. \A r \in Requests : req'[r] = Idle
  BY DEF ProcessRestart
<1>2. Idle.pc = "idle"
  BY DEF Idle
<1>3. \A r \in Requests : WellPlaced(req[r])' /\ Guarded(req[r])'
  BY <1>1, <1>2 DEF WellPlaced, Guarded
<1>4. req' \in [Requests -> RequestRecord]
  BY IdleRecord DEF ProcessRestart
<1>5. UNCHANGED <<slugOf, roleOf>> /\ Created' = Created
  BY DEF ProcessRestart, Created
<1> QED
  BY <1>3, <1>4, <1>5 DEF MembershipInv, MembershipTypeOK

-----------------------------------------------------------------------------
(* The invariant                                                           *)

\* Nobody is a member of anything at first, and every slot is idle.
LEMMA InitInv == Init => MembershipInv
<1> SUFFICES ASSUME Init PROVE MembershipInv
  OBVIOUS
<1>1. Created = {}
  BY DEF Init, Created
<1>2. req \in [Requests -> RequestRecord]
  BY IdleRecord DEF Init
<1>3. \A r \in Requests : WellPlaced(req[r]) /\ Guarded(req[r])
  BY IdleRecord DEF Init
<1> QED
  BY <1>1, <1>2, <1>3 DEF Init, MembershipInv, MembershipTypeOK

\* Each step keeps the invariant.
LEMMA NextInv == MembershipInv /\ [Next]_vars => MembershipInv'
<1> SUFFICES ASSUME MembershipInv, [Next]_vars PROVE MembershipInv'
  OBVIOUS
<1>1. ASSUME NEW r \in Requests, Arrival(r) PROVE MembershipInv'
  BY <1>1, ArrivalStep
<1>2. ASSUME NEW r \in Requests, Handling(r) PROVE MembershipInv'
  BY <1>2, CreateStep, InviteStep, ReadStep, CountStep, FetchStep, WriteStep, FinishStep
     DEF Handling
<1>3. CASE ProcessRestart
  BY <1>3, RestartStep
<1>4. CASE UNCHANGED vars
  <2>1. /\ Created' = Created /\ \A w : Owners(w)' = Owners(w)
    BY <1>4 DEF vars, Created, Owners
  <2>2. \A r \in Requests : WellPlaced(req[r])' /\ Guarded(req[r])'
    BY <1>4, <2>1, RequestFacts DEF vars, WellPlaced, Guarded
  <2> QED
    BY <1>4, <2>1, <2>2 DEF vars, MembershipInv, MembershipTypeOK
<1> QED
  BY <1>1, <1>2, <1>3, <1>4 DEF Next

\* The invariant holds in every reachable state.
LEMMA InvHolds == Spec => []MembershipInv
BY InitInv, NextInv, PTL DEF Spec

\* Types are right, members belong to existing workspaces, and requests past a check hold
\* what the check provides.
THEOREM MembershipTypeCorrect == Spec => []MembershipTypeOK
<1>1. MembershipInv => MembershipTypeOK
  BY DEF MembershipInv
<1> QED
  BY <1>1, InvHolds, PTL

-----------------------------------------------------------------------------
(* Who changes the members of a workspace                                  *)

\* A request that arrives changes no table.
LEMMA ArrivalQuiet ==
    ASSUME NEW r \in Requests, Arrival(r)
    PROVE  roleOf' = roleOf /\ slugOf' = slugOf
<1>1. ASSUME NEW w, TurnAway(r, w) PROVE roleOf' = roleOf /\ slugOf' = slugOf
  BY <1>1 DEF TurnAway
<1>2. ASSUME NEW u, NEW s, RequestWorkspace(r, u, s)
      PROVE  roleOf' = roleOf /\ slugOf' = slugOf
  BY <1>2 DEF RequestWorkspace
<1>3. ASSUME NEW u, NEW w, NEW action, Access(r, u, w, action)
      PROVE  roleOf' = roleOf /\ slugOf' = slugOf
  BY <1>1, <1>3 DEF Access
<1>4. ASSUME NEW u, NEW w, NEW op, NEW t, NEW role, ManageMembers(r, u, w, op, t, role)
      PROVE  roleOf' = roleOf /\ slugOf' = slugOf
  BY <1>1, <1>4 DEF ManageMembers
<1> QED
  BY <1>2, <1>3, <1>4 DEF Arrival

\* The roles in an existing workspace change only by the commit of a request about it,
\* which gives its target the role it asks for.
LEMMA ChangedByCommit ==
    ASSUME MembershipInv, Next, NEW w \in Created, roleOf'[w] # roleOf[w]
    PROVE  \E r \in Requests :
             /\ Commits(r, w)
             /\ req[r].target \in Users
             /\ roleOf' = [roleOf EXCEPT ![w][req[r].target] = req[r].role]
             /\ req[r].op = "invite" => roleOf[w][req[r].target] = NoRole
<1>1. w \in Workspaces
  BY DEF Created
<1>2. PICK r \in Requests : Handling(r)
  <2>1. ASSUME NEW r \in Requests, Arrival(r) PROVE roleOf' = roleOf
    BY <2>1, ArrivalQuiet
  <2>2. ProcessRestart => roleOf' = roleOf
    BY DEF ProcessRestart
  <2> QED
    BY <2>1, <2>2 DEF Next
<1>3. req[r] \in RequestRecord /\ WellPlaced(req[r])
  BY RequestFacts
<1>4. req[r].pc = "write" => req[r].target \in Users
  BY <1>3 DEF WellPlaced
<1>5. ASSUME NEW x, Answer(r, x) \/ GoTo(r, x) PROVE FALSE
  BY <1>5 DEF Answer, GoTo
<1>6. CASE CreateWorkspace(r)
  <2>1. PICK v \in Workspaces \ Created :
          roleOf' = [roleOf EXCEPT ![v][req[r].user] = "owner"]
    BY <1>6, <1>5 DEF CreateWorkspace
  <2>2. v # w
    OBVIOUS
  <2> QED
    BY <1>1, <2>1, <2>2 DEF MembershipInv, MembershipTypeOK
<1>7. CASE InsertMember(r)
  <2>1. /\ req[r].pc = "write" /\ req[r].op = "invite"
        /\ roleOf[req[r].ws][req[r].target] = NoRole
        /\ CommitRole(r, req[r].ws, req[r].target, req[r].role,
                      [req[r] EXCEPT !.pc = "refresh"])
    BY <1>7, <1>5 DEF InsertMember
  <2>2. /\ req[r].ws = w /\ req'[r] = [req[r] EXCEPT !.pc = "refresh"]
        /\ roleOf' = [roleOf EXCEPT ![w][req[r].target] = req[r].role]
    BY <1>1, <1>4, <2>1 DEF CommitRole, MembershipInv, MembershipTypeOK
  <2>3. req'[r].pc = "refresh"
    BY <1>3, <2>2 DEF RequestRecord
  <2> QED
    BY <1>4, <2>1, <2>2, <2>3 DEF Commits
<1>8. CASE WriteRole(r)
  <2> DEFINE next == [req[r] EXCEPT !.pc = "refresh",
                        !.changed = (roleOf[req[r].ws][req[r].target] # req[r].role)]
  <2>1. /\ req[r].pc = "write" /\ req[r].op = "update"
        /\ CommitRole(r, req[r].ws, req[r].target, req[r].role, next)
    BY <1>8, <1>5 DEF WriteRole
  <2>2. next.pc = "refresh"
    BY <1>3 DEF RequestRecord
  <2> HIDE DEF next
  <2>3. /\ req[r].ws = w /\ req'[r] = next
        /\ roleOf' = [roleOf EXCEPT ![w][req[r].target] = req[r].role]
    BY <1>1, <1>4, <2>1 DEF CommitRole, MembershipInv, MembershipTypeOK
  <2> QED
    BY <1>4, <2>1, <2>2, <2>3 DEF Commits
<1>9. CASE DeleteRow(r)
  <2>1. /\ req[r].pc = "write" /\ req[r].op = "remove" /\ req[r].role = NoRole
        /\ CommitRole(r, req[r].ws, req[r].target, NoRole, Answered(r, "OK", {}))
    BY <1>3, <1>9 DEF DeleteRow, Answer, WellPlaced
  <2>2. /\ req[r].ws = w /\ req'[r] = Answered(r, "OK", {})
        /\ roleOf' = [roleOf EXCEPT ![w][req[r].target] = req[r].role]
    BY <1>1, <1>4, <2>1 DEF CommitRole, MembershipInv, MembershipTypeOK
  <2>3. req'[r].pc = "idle"
    BY <2>2 DEF Answered, Reply, Idle
  <2> QED
    BY <1>4, <2>1, <2>2, <2>3 DEF Commits
<1>10. CASE \/ CheckInvitee(r) \/ ReadTarget(r) \/ CountOwners(r) \/ FetchMember(r)
            \/ Refresh(r) \/ AuditRoleChange(r)
  <2>1. roleOf' = roleOf
    BY <1>10 DEF CheckInvitee, ReadTarget, CountOwners, FetchMember, Refresh,
                 AuditRoleChange, Answer, Deny, GoTo
  <2> QED
    BY <2>1
<1> QED
  BY <1>2, <1>6, <1>7, <1>8, <1>9, <1>10 DEF Handling

\* The same when one member's ownership changes, with what the request relied on.
LEMMA OwnershipChange ==
    ASSUME MembershipInv, Next, NEW w \in Created, NEW u \in Users,
           (roleOf[w][u] = "owner") # (roleOf'[w][u] = "owner")
    PROVE  \E r \in Requests :
             /\ Commits(r, w) /\ req[r].target = u
             /\ roleOf' = [roleOf EXCEPT ![w][u] = req[r].role]
             /\ roleOf'[w][u] = req[r].role
             /\ roleOf[w][u] = "owner" => req[r].op # "invite"
             /\ Guarded(req[r]) /\ WellPlaced(req[r])
<1>1. roleOf'[w] # roleOf[w]
  OBVIOUS
<1>2. PICK r \in Requests :
        /\ Commits(r, w)
        /\ req[r].target \in Users
        /\ roleOf' = [roleOf EXCEPT ![w][req[r].target] = req[r].role]
        /\ req[r].op = "invite" => roleOf[w][req[r].target] = NoRole
  BY <1>1, ChangedByCommit
<1>3. roleOf \in [Workspaces -> [Users -> Roles \cup {NoRole}]] /\ w \in Workspaces
  BY DEF MembershipInv, MembershipTypeOK, Created
<1>4. req[r].target = u
  BY <1>2, <1>3
<1>5. roleOf'[w][u] = req[r].role
  BY <1>2, <1>3, <1>4
<1> QED
  BY <1>2, <1>4, <1>5, RequestFacts DEF NoRole

-----------------------------------------------------------------------------
(* The properties                                                          *)

\* The step that takes away the last owner.
LEMMA LastOwnerStep ==
    ASSUME MembershipInv, Next, NEW w \in Workspaces, Owners(w) # {}, Owners(w)' = {}
    PROVE  \E r \in Requests : Commits(r, w) /\ req[r].raced
<1>1. PICK u \in Users : roleOf[w][u] = "owner"
  BY DEF Owners
<1>2. w \in Created
  BY <1>1 DEF MembershipInv, MembershipTypeOK, NoRole
<1>3. \A x \in Users : roleOf'[w][x] # "owner"
  BY DEF Owners
<1>4. PICK r \in Requests :
        /\ Commits(r, w) /\ req[r].target = u
        /\ roleOf' = [roleOf EXCEPT ![w][u] = req[r].role]
        /\ roleOf'[w][u] = req[r].role
        /\ req[r].op # "invite"
        /\ Guarded(req[r]) /\ WellPlaced(req[r])
  BY <1>1, <1>2, <1>3, OwnershipChange
<1>5. ASSUME ~req[r].raced PROVE FALSE
  <2>1. req[r].pc = "write" /\ req[r].ws = w /\ req[r].role # "owner"
    BY <1>3, <1>4 DEF Commits
  <2>2. u \in Owners(w)
    BY <1>1 DEF Owners
  <2>3. Owners(w) \ {u} # {}
    BY <1>4, <1>5, <2>1, <2>2 DEF Guarded
  <2>4. PICK v \in Users : v # u /\ roleOf[w][v] = "owner"
    BY <2>3 DEF Owners
  <2>5. roleOf'[w][v] = "owner"
    BY <1>4, <2>4 DEF MembershipInv, MembershipTypeOK
  <2> QED
    BY <1>3, <2>5
<1> QED
  BY <1>4, <1>5

\* A workspace loses its last owner only to a request that another one has overtaken.
THEOREM LastOwnerTheorem == Spec => LastOwnerFallsToARace
<1>1. ASSUME MembershipInv, Next, NEW w \in Workspaces, Owners(w) # {}, Owners(w)' = {}
      PROVE  \E r \in Requests : Commits(r, w) /\ req[r].raced
  BY <1>1, LastOwnerStep
<1>2. MembershipInv /\ [Next]_vars =>
        [\A w \in Workspaces :
           Owners(w) # {} /\ Owners(w)' = {} =>
              \E r \in Requests : Commits(r, w) /\ req[r].raced]_vars
  BY <1>1
<1> QED
  BY <1>2, InvHolds, PTL DEF Spec, LastOwnerFallsToARace

\* Ownership of an existing workspace is given only in an owner's name.
THEOREM OwnershipTheorem == Spec => OnlyOwnersMakeOwners
<1>1. ASSUME MembershipInv, Next, NEW w \in Created, NEW u \in Users,
             roleOf[w][u] # "owner", roleOf'[w][u] = "owner"
      PROVE  \E r \in Requests : Commits(r, w) /\ req[r].ctx = "owner"
  <2>1. PICK r \in Requests :
          Commits(r, w) /\ roleOf'[w][u] = req[r].role /\ Guarded(req[r])
    BY <1>1, OwnershipChange
  <2>2. req[r].ctx = "owner"
    BY <1>1, <2>1 DEF Commits, Guarded
  <2> QED
    BY <2>1, <2>2
<1>2. MembershipInv /\ [Next]_vars =>
        [\A w \in Created, u \in Users :
           roleOf[w][u] # "owner" /\ roleOf'[w][u] = "owner" =>
              \E r \in Requests : Commits(r, w) /\ req[r].ctx = "owner"]_vars
  BY <1>1
<1> QED
  BY <1>2, InvHolds, PTL DEF Spec, OnlyOwnersMakeOwners

\* Ownership is taken only in an owner's name, or by a request that was overtaken.
THEOREM AdminsTheorem == Spec => AdminsSpareOwners
<1>1. ASSUME MembershipInv, Next, NEW w \in Workspaces, NEW u \in Users,
             roleOf[w][u] = "owner", roleOf'[w][u] # "owner"
      PROVE  \E r \in Requests :
               Commits(r, w) /\ req[r].target = u
                 /\ (req[r].ctx = "owner" \/ req[r].raced)
  <2>1. w \in Created
    BY <1>1 DEF MembershipInv, MembershipTypeOK, NoRole
  <2>2. PICK r \in Requests :
          /\ Commits(r, w) /\ req[r].target = u
          /\ req[r].op # "invite"
          /\ Guarded(req[r]) /\ WellPlaced(req[r])
    BY <1>1, <2>1, OwnershipChange
  <2>3. req[r].ctx \in {"owner", "admin"}
    BY <2>2 DEF Commits, WellPlaced
  <2>4. req[r].ctx = "owner" \/ req[r].raced
    BY <1>1, <2>2, <2>3 DEF Commits, Guarded
  <2> QED
    BY <2>2, <2>4
<1>2. MembershipInv /\ [Next]_vars =>
        [\A w \in Workspaces, u \in Users :
           roleOf[w][u] = "owner" /\ roleOf'[w][u] # "owner" =>
              \E r \in Requests :
                 Commits(r, w) /\ req[r].target = u
                   /\ (req[r].ctx = "owner" \/ req[r].raced)]_vars
  BY <1>1
<1> QED
  BY <1>2, InvHolds, PTL DEF Spec, AdminsSpareOwners

\* How a slot may change by its own step: it acts for an owner only if it did before, and
\* it is not overtaken by itself.
Follows(before, after) ==
    /\ after.ctx = "owner" => before.ctx = "owner" /\ after.ws = before.ws
    /\ after.raced => before.raced

\* A request acts for an owner of a workspace only if it did so before, or its caller is
\* an owner now; and only another request overtakes it.
LEMMA SlotChange ==
    ASSUME MembershipInv, Next, NEW q \in Requests
    PROVE  /\ req'[q].ctx = "owner" =>
                \/ req[q].ctx = "owner" /\ req'[q].ws = req[q].ws
                \/ \E u \in Users : u \in Owners(req'[q].ws)
           /\ req'[q].raced => req[q].raced \/ \E r \in Requests : r # q
<1> DEFINE Overtaken == \E r \in Requests : r # q
           Kept == /\ req'[q].ctx = "owner" =>
                        req[q].ctx = "owner" /\ req'[q].ws = req[q].ws
                   /\ req'[q].raced => req[q].raced \/ Overtaken
           Now == /\ \E u \in Users : u \in Owners(req'[q].ws)
                  /\ ~req'[q].raced
<1>1. /\ req[q] \in RequestRecord
      /\ req \in [Requests -> RequestRecord]
  BY RequestFacts DEF MembershipInv, MembershipTypeOK
<1>2. ASSUME NEW old, NEW ws, NEW response, NEW events
      PROVE  Follows(old, Reply(ws, response, events))
  BY DEF Follows, Reply, Idle, NoRole
<1>3. ASSUME NEW r \in Requests, NEW rec, req' = [req EXCEPT ![r] = rec],
             Follows(req[r], rec)
      PROVE  Kept
  <2>1. CASE q = r
    BY <1>1, <1>3, <2>1 DEF Follows
  <2>2. CASE q # r
    BY <1>1, <1>3, <2>2
  <2> QED
    BY <2>1, <2>2
<1>4. ASSUME NEW r \in Requests, NEW x, Answer(r, x) \/ Deny(r) PROVE Kept
  BY <1>2, <1>3, <1>4 DEF Answer, Deny, Answered
<1>5. ASSUME NEW r \in Requests, NEW x, GoTo(r, x) PROVE Kept
  <2>1. req[r] \in RequestRecord
    BY RequestFacts
  <2>2. Follows(req[r], [req[r] EXCEPT !.pc = x])
    BY <2>1 DEF RequestRecord, Follows
  <2> QED
    BY <1>3, <1>5, <2>2 DEF GoTo
<1>6. ASSUME NEW r \in Requests, Arrival(r) PROVE Kept \/ Now
  <2>1. ASSUME NEW ws, TurnAway(r, ws) PROVE Kept
    BY <1>2, <1>3, <2>1 DEF TurnAway
  <2>2. ASSUME NEW u, NEW s, RequestWorkspace(r, u, s) PROVE Kept
    <3> DEFINE rec ==
          [Idle EXCEPT !.pc = "create", !.op = "create", !.user = u, !.slug = s]
    <3>1. Follows(req[r], rec)
      BY DEF Idle, NoRole, Follows
    <3>2. CASE req' = [req EXCEPT ![r] = rec]
      BY <1>3, <3>1, <3>2
    <3>3. CASE req' = [req EXCEPT ![r] = Reply(NoWorkspace, "DuplicateSlug", {})]
      BY <1>2, <1>3, <3>3
    <3> QED
      BY <2>2, <3>2, <3>3 DEF RequestWorkspace
  <2>3. ASSUME NEW u, NEW ws, NEW action, Access(r, u, ws, action) PROVE Kept
    BY <1>2, <1>3, <2>1, <2>3 DEF Access
  <2>4. ASSUME NEW u \in Users, NEW ws \in Workspaces, NEW op, NEW t, NEW role,
               ManageMembers(r, u, ws, op, t, role)
        PROVE  Kept \/ Now
    <3> DEFINE rec == [Idle EXCEPT !.pc = "target", !.op = op, !.user = u, !.ws = ws,
                            !.target = t, !.role = role, !.ctx = roleOf[ws][u]]
    <3>1. rec.ctx = roleOf[ws][u] /\ rec.ws = ws /\ ~rec.raced
      BY DEF Idle
    <3>2. CASE TurnAway(r, ws)
      BY <2>1, <3>2
    <3>3. CASE req' = [req EXCEPT ![r] = rec]
      <4>1. CASE q = r
        <5>1. req'[q] = rec
          BY <1>1, <3>3, <4>1
        <5>2. CASE roleOf[ws][u] = "owner"
          <6>1. u \in Owners(req'[q].ws)
            BY <3>1, <5>1, <5>2 DEF Owners
          <6>2. ~req'[q].raced
            BY <3>1, <5>1
          <6> QED
            BY <6>1, <6>2
        <5>3. CASE roleOf[ws][u] # "owner"
          <6>1. req'[q].ctx # "owner" /\ ~req'[q].raced
            BY <3>1, <5>1, <5>3
          <6> QED
            BY <6>1
        <5> QED
          BY <5>2, <5>3
      <4>2. CASE q # r
        BY <1>1, <3>3, <4>2
      <4> QED
        BY <4>1, <4>2
    <3> QED
      BY <2>4, <3>2, <3>3 DEF ManageMembers
  <2> QED
    BY <1>6, <2>2, <2>3, <2>4 DEF Arrival
<1>7. ASSUME NEW r \in Requests, NEW u, NEW role, NEW next, NEW ws,
             CommitRole(r, ws, u, role, next),
             Follows(req[r], next)
      PROVE  Kept
  <2>1. CASE q = r
    <3>1. req'[q] = next
      BY <1>7, <2>1 DEF CommitRole
    <3> QED
      BY <1>7, <2>1, <3>1 DEF Follows
  <2>2. CASE q # r
    BY <1>1, <1>7, <2>2 DEF CommitRole, RequestRecord
  <2> QED
    BY <2>1, <2>2
<1>8. ASSUME NEW r \in Requests, Handling(r) PROVE Kept
  <2>1. req[r] \in RequestRecord
    BY RequestFacts
  <2>2. CASE CreateWorkspace(r)
    BY <1>2, <1>3, <1>4, <2>2 DEF CreateWorkspace, Answered
  <2>3. CASE CheckInvitee(r)
    BY <1>4, <1>5, <2>3 DEF CheckInvitee
  <2>4. CASE InsertMember(r)
    <3> DEFINE next == [req[r] EXCEPT !.pc = "refresh"]
    <3>1. Follows(req[r], next)
      BY <2>1 DEF RequestRecord, Follows
    <3> HIDE DEF next
    <3> QED
      BY <1>4, <1>7, <2>4, <3>1 DEF InsertMember, next
  <2>5. CASE ReadTarget(r)
    <3> DEFINE old == GetMember(req[r].ws, req[r].target)
               rec == [req[r] EXCEPT
                         !.pc = IF old = "owner" /\ req[r].role # "owner"
                                THEN "count" ELSE "fetch",
                         !.old = old, !.loaded = old]
    <3>1. Follows(req[r], rec)
      BY <2>1 DEF RequestRecord, Follows
    <3>2. CASE req' = [req EXCEPT ![r] = rec]
      BY <1>3, <3>1, <3>2
    <3> QED
      BY <1>4, <2>5, <3>2 DEF ReadTarget
  <2>6. CASE CountOwners(r)
    <3> DEFINE rec == [req[r] EXCEPT !.pc = "fetch", !.raced = FALSE]
    <3>1. Follows(req[r], rec)
      BY <2>1 DEF RequestRecord, Follows
    <3>2. CASE req' = [req EXCEPT ![r] = rec]
      BY <1>3, <3>1, <3>2
    <3> QED
      BY <1>4, <2>6, <3>2 DEF CountOwners
  <2>7. CASE FetchMember(r)
    <3> DEFINE rec == [req[r] EXCEPT !.pc = "write", !.gone = FALSE,
                                     !.loaded = roleOf[req[r].ws][req[r].target]]
    <3>1. Follows(req[r], rec)
      BY <2>1 DEF RequestRecord, Follows
    <3>2. CASE req' = [req EXCEPT ![r] = rec]
      BY <1>3, <3>1, <3>2
    <3> QED
      BY <1>4, <1>5, <2>7, <3>2 DEF FetchMember
  <2>8. CASE WriteRole(r)
    <3> DEFINE next == [req[r] EXCEPT !.pc = "refresh",
                  !.changed = (roleOf[req[r].ws][req[r].target] # req[r].role)]
    <3>1. Follows(req[r], next)
      BY <2>1 DEF RequestRecord, Follows
    <3> HIDE DEF next
    <3>2. CASE CommitRole(r, req[r].ws, req[r].target, req[r].role, next)
      BY <1>7, <3>1, <3>2
    <3> QED
      BY <1>4, <1>5, <2>8, <3>2 DEF WriteRole, next
  <2>9. CASE DeleteRow(r)
    BY <1>2, <1>4, <1>7, <2>9 DEF DeleteRow, Answered
  <2>10. CASE Refresh(r) \/ AuditRoleChange(r)
    BY <1>2, <1>3, <1>4, <1>5, <2>10 DEF Refresh, AuditRoleChange, Answered
  <2> QED
    BY <1>8, <2>2, <2>3, <2>4, <2>5, <2>6, <2>7, <2>8, <2>9, <2>10 DEF Handling
<1>9. ProcessRestart => req'[q].ctx # "owner" /\ ~req'[q].raced
  BY DEF ProcessRestart, Idle, NoRole
<1> QED
  BY <1>6, <1>8, <1>9 DEF Next

\* Only the creation of a workspace touches the slugs.
LEMMA SlugsChangeByCreation ==
    ASSUME MembershipInv, Next, slugOf' # slugOf
    PROVE  \E r \in Requests : CreateWorkspace(r)
<1>1. ASSUME NEW r \in Requests, Handling(r), ~CreateWorkspace(r) PROVE slugOf' = slugOf
  BY <1>1 DEF Handling, CheckInvitee, InsertMember, ReadTarget, CountOwners, FetchMember,
              WriteRole, DeleteRow, Refresh, AuditRoleChange, Answer, Deny, GoTo, CommitRole
<1>2. ProcessRestart => slugOf' = slugOf
  BY DEF ProcessRestart
<1> QED
  BY <1>1, <1>2, ArrivalQuiet DEF Next

\* Workspaces are never deleted.
LEMMA WorkspacesStay ==
    ASSUME MembershipInv, Next
    PROVE  Created \subseteq Created'
<1>1. ASSUME NEW w \in Workspaces, NEW s \in Slugs, slugOf' = [slugOf EXCEPT ![w] = s]
      PROVE  Created \subseteq Created'
  BY <1>1, MembershipAssumption DEF Created, MembershipInv, MembershipTypeOK
<1>2. slugOf' = slugOf => Created \subseteq Created'
  BY DEF Created
<1>3. ASSUME NEW r \in Requests, CreateWorkspace(r) PROVE Created \subseteq Created'
  <2>1. req[r].slug \in Slugs
    BY <1>3, RequestFacts DEF CreateWorkspace, WellPlaced
  <2> QED
    BY <1>1, <1>2, <1>3, <2>1 DEF CreateWorkspace, Answer
<1> QED
  BY <1>2, <1>3, SlugsChangeByCreation

\* A workspace without owner, and without a request that acts for one, stays so.
THEOREM StrandedTheorem == Spec => StrandedForever
<1>1. ASSUME MembershipInv, Next, NEW w \in Workspaces, Stranded(w)
      PROVE  Stranded(w)'
  <2>1. w \in Created' /\ w \in Created
    BY <1>1, WorkspacesStay DEF Stranded
  <2>2. ASSUME NEW u \in Users PROVE roleOf'[w][u] # "owner"
    <3>1. roleOf[w][u] # "owner"
      BY <1>1 DEF Stranded, Owners
    <3>2. ASSUME roleOf'[w][u] = "owner" PROVE FALSE
      <4>1. PICK r \in Requests :
              Commits(r, w) /\ roleOf'[w][u] = req[r].role /\ Guarded(req[r])
        BY <1>1, <2>1, <3>1, <3>2, OwnershipChange
      <4>2. req[r].ctx = "owner" /\ req[r].ws = w
        BY <3>2, <4>1 DEF Commits, Guarded
      <4> QED
        BY <1>1, <4>2 DEF Stranded
    <3> QED
      BY <3>2
  <2>3. ASSUME NEW r \in Requests, req'[r].ws = w, req'[r].ctx = "owner" PROVE FALSE
    <3>1. \/ req[r].ctx = "owner" /\ req[r].ws = w
          \/ \E u \in Users : u \in Owners(w)
      BY <1>1, <2>3, SlotChange
    <3> QED
      BY <1>1, <3>1 DEF Stranded
  <2> QED
    BY <2>1, <2>2, <2>3 DEF Stranded, Owners
<1>2. MembershipInv /\ [Next]_vars =>
        [\A w \in Workspaces : Stranded(w) => Stranded(w)']_vars
  BY <1>1
<1> QED
  BY <1>2, InvHolds, PTL DEF Spec, StrandedForever

\* A workspace appears with an owner.
LEMMA FounderStep ==
    ASSUME MembershipInv, Next, NEW w \in Workspaces, w \notin Created, w \in Created'
    PROVE  Owners(w)' # {}
<1>1. PICK r \in Requests : CreateWorkspace(r)
  <2>1. slugOf' # slugOf
    BY DEF Created
  <2> QED
    BY <2>1, SlugsChangeByCreation
<1>2. req[r].user \in Users
  BY <1>1, RequestFacts DEF CreateWorkspace, WellPlaced
<1>3. PICK v \in Workspaces \ Created :
        /\ slugOf' = [slugOf EXCEPT ![v] = req[r].slug]
        /\ roleOf' = [roleOf EXCEPT ![v][req[r].user] = "owner"]
  <2>1. slugOf' # slugOf
    BY DEF Created
  <2> QED
    BY <1>1, <2>1 DEF CreateWorkspace, Answer
<1>4. v = w
  BY <1>3 DEF Created, MembershipInv, MembershipTypeOK
<1>5. roleOf'[w][req[r].user] = "owner"
  BY <1>2, <1>3, <1>4 DEF MembershipInv, MembershipTypeOK
<1> QED
  BY <1>2, <1>5 DEF Owners

\* Requests that do not overlap: with one slot no request is overtaken, and a created
\* workspace always has an owner.
THEOREM OneAtATime ==
    ASSUME \A q, r \in Requests : q = r
    PROVE  Spec => []AlwaysAnOwner
<1> DEFINE Alone == AlwaysAnOwner /\ \A r \in Requests : ~req[r].raced
<1>1. Init => Alone
  BY DEF Init, AlwaysAnOwner, Created, Idle
<1>2. MembershipInv /\ Alone /\ [Next]_vars => Alone'
  <2> SUFFICES ASSUME MembershipInv, Alone, Next PROVE Alone'
    BY DEF vars, AlwaysAnOwner, Created, Owners
  <2>1. ASSUME NEW r \in Requests PROVE ~req'[r].raced
    BY SlotChange
  <2>2. ASSUME NEW w \in Workspaces, w \in Created', Owners(w)' = {} PROVE FALSE
    <3>1. CASE w \in Created
      BY <2>2, <3>1, LastOwnerStep DEF AlwaysAnOwner
    <3>2. CASE w \notin Created
      BY <2>2, <3>2, FounderStep
    <3> QED
      BY <3>1, <3>2
  <2> QED
    BY <2>1, <2>2 DEF AlwaysAnOwner, Created
<1> QED
  BY <1>1, <1>2, InvHolds, PTL DEF Spec

-----------------------------------------------------------------------------
(* Role changes and their events                                           *)

\* A commit that changed the stored role is followed by the two steps that audit it, and
\* the comparison there sees the change if the role first read was the one overwritten.
ChangeKnown(q) ==
    q.changed =>
        /\ q.pc \in {"refresh", "audit"}
        /\ q.pc = "refresh" /\ q.old = q.loaded => q.op = "update" /\ q.old # q.role

\* An answer with success to a request whose change is known comes with its event.
EventLeft(before, after) ==
    before.changed /\ before.old = before.loaded /\ after.pc = "idle" /\ after.resp = "OK"
    => "member.role_changed" \in after.audit

Audited(before, after) ==
    ChangeKnown(before) => ChangeKnown(after) /\ EventLeft(before, after)

\* No step of anybody takes away what a request knows of its change.
LEMMA AuditedStep ==
    ASSUME MembershipInv, Next, NEW q \in Requests
    PROVE  Audited(req[q], req'[q])
<1>1. /\ req[q] \in RequestRecord /\ WellPlaced(req[q])
      /\ req \in [Requests -> RequestRecord]
  BY RequestFacts DEF MembershipInv, MembershipTypeOK
<1>2. ASSUME NEW before \in RequestRecord, NEW ws, NEW response, NEW events,
             \/ before.pc \notin {"refresh", "audit"}
             \/ response # "OK"
             \/ "member.role_changed" \in events
      PROVE  Audited(before, Reply(ws, response, events))
  <2>1. /\ ~Reply(ws, response, events).changed
        /\ Reply(ws, response, events).resp = response
        /\ Reply(ws, response, events).audit = events
    BY DEF Reply, Idle
  <2> QED
    BY <1>2, <2>1 DEF Audited, ChangeKnown, EventLeft
<1>3. ASSUME NEW before \in RequestRecord, NEW after,
             before.pc \notin {"refresh", "audit"}, after.changed => before.changed
      PROVE  Audited(before, after)
  BY <1>3 DEF Audited, ChangeKnown, EventLeft
<1>4. ASSUME NEW before \in RequestRecord
      PROVE  Audited(before, before)
  BY DEF Audited, ChangeKnown, EventLeft
<1>5. ASSUME NEW r \in Requests, NEW rec, req' = [req EXCEPT ![r] = rec],
             Audited(req[r], rec)
      PROVE  Audited(req[q], req'[q])
  BY <1>1, <1>4, <1>5
<1>6. ASSUME NEW r \in Requests, NEW x, Answer(r, x) \/ Deny(r),
             req[r].pc \notin {"refresh", "audit"} \/ Answer(r, "ServerError")
      PROVE  Audited(req[q], req'[q])
  <2>1. req[r] \in RequestRecord
    BY RequestFacts
  <2>2. CASE req[r].pc \notin {"refresh", "audit"}
    BY <1>2, <1>5, <1>6, <2>1, <2>2 DEF Answer, Deny, Answered
  <2>3. CASE Answer(r, "ServerError")
    BY <1>2, <1>5, <2>1, <2>3 DEF Answer, Answered
  <2> QED
    BY <1>6, <2>2, <2>3
<1>7. ASSUME NEW r \in Requests, NEW x, GoTo(r, x), req[r].pc \notin {"refresh", "audit"}
      PROVE  Audited(req[q], req'[q])
  <2>1. req[r] \in RequestRecord
    BY RequestFacts
  <2>2. [req[r] EXCEPT !.pc = x].changed = req[r].changed
    BY <2>1 DEF RequestRecord
  <2> QED
    BY <1>3, <1>5, <1>7, <2>1, <2>2 DEF GoTo
<1>8. ASSUME NEW r \in Requests, NEW u, NEW role, NEW next, NEW ws,
             CommitRole(r, ws, u, role, next), Audited(req[r], next)
      PROVE  Audited(req[q], req'[q])
  <2>1. CASE q = r
    BY <1>8, <2>1 DEF CommitRole
  <2>2. CASE q # r
    <3>1. /\ req'[q].pc = req[q].pc /\ req'[q].op = req[q].op /\ req'[q].role = req[q].role
          /\ req'[q].old = req[q].old /\ req'[q].loaded = req[q].loaded
          /\ req'[q].changed = req[q].changed
      BY <1>1, <1>8, <2>2 DEF CommitRole, RequestRecord
    <3> QED
      BY <3>1 DEF Audited, ChangeKnown, EventLeft
  <2> QED
    BY <2>1, <2>2
<1>9. ASSUME NEW r \in Requests, Arrival(r) PROVE Audited(req[q], req'[q])
  <2>1. /\ req[r] \in RequestRecord
        /\ req[r].pc = "idle"
    <3>1. req[r].pc = "idle"
      BY <1>9, Zenon DEF Arrival, RequestWorkspace, Access, ManageMembers
    <3> QED
      BY <3>1, RequestFacts
  <2>2. ASSUME NEW ws, NEW response, NEW events,
               req' = [req EXCEPT ![r] = Reply(ws, response, events)]
        PROVE  Audited(req[q], req'[q])
    BY <1>2, <1>5, <2>1, <2>2
  <2>3. ASSUME NEW ws, TurnAway(r, ws) PROVE Audited(req[q], req'[q])
    BY <2>2, <2>3 DEF TurnAway
  <2>4. ASSUME NEW rec, ~rec.changed, req' = [req EXCEPT ![r] = rec]
        PROVE  Audited(req[q], req'[q])
    BY <1>3, <1>5, <2>1, <2>4
  <2>5. ASSUME NEW u, NEW s, RequestWorkspace(r, u, s) PROVE Audited(req[q], req'[q])
    <3> DEFINE rec ==
          [Idle EXCEPT !.pc = "create", !.op = "create", !.user = u, !.slug = s]
    <3>1. ~rec.changed
      BY DEF Idle
    <3>2. CASE req' = [req EXCEPT ![r] = rec]
      BY <2>4, <3>1, <3>2
    <3> QED
      BY <2>2, <2>5, <3>2 DEF RequestWorkspace
  <2>6. ASSUME NEW u, NEW ws, NEW action, Access(r, u, ws, action)
        PROVE  Audited(req[q], req'[q])
    BY <2>2, <2>3, <2>6 DEF Access
  <2>7. ASSUME NEW u, NEW ws, NEW op, NEW t, NEW role, ManageMembers(r, u, ws, op, t, role)
        PROVE  Audited(req[q], req'[q])
    <3> DEFINE rec == [Idle EXCEPT !.pc = "target", !.op = op, !.user = u, !.ws = ws,
                            !.target = t, !.role = role, !.ctx = roleOf[ws][u]]
    <3>1. ~rec.changed
      BY DEF Idle
    <3>2. CASE req' = [req EXCEPT ![r] = rec]
      BY <2>4, <3>1, <3>2
    <3> QED
      BY <2>3, <2>7, <3>2 DEF ManageMembers
  <2> QED
    BY <1>9, <2>5, <2>6, <2>7 DEF Arrival
<1>10. ASSUME NEW r \in Requests, WriteRole(r) PROVE Audited(req[q], req'[q])
  <2> DEFINE next == [req[r] EXCEPT !.pc = "refresh",
                        !.changed = (roleOf[req[r].ws][req[r].target] # req[r].role)]
  <2>1. req[r] \in RequestRecord /\ req[r].pc = "write" /\ req[r].op = "update"
    BY <1>10, RequestFacts DEF WriteRole
  <2>2. CASE /\ req[r].loaded # req[r].role
             /\ CommitRole(r, req[r].ws, req[r].target, req[r].role, next)
    <3>1. /\ next.pc = "refresh" /\ next.op = "update" /\ next.role = req[r].role
          /\ next.old = req[r].old /\ next.loaded = req[r].loaded
      BY <2>1 DEF RequestRecord
    <3>2. Audited(req[r], next)
      BY <2>2, <3>1 DEF Audited, ChangeKnown, EventLeft
    <3> HIDE DEF next
    <3> QED
      BY <1>8, <2>2, <3>2
  <2> QED
    BY <1>6, <1>7, <1>10, <2>1, <2>2 DEF WriteRole
<1>11. ASSUME NEW r \in Requests, Refresh(r) PROVE Audited(req[q], req'[q])
  <2>1. req[r] \in RequestRecord /\ req[r].pc = "refresh"
    BY <1>11, RequestFacts DEF Refresh
  <2>2. CASE Answer(r, "ServerError")
    BY <1>6, <2>2
  <2>3. CASE GoTo(r, "audit")
    <3>1. /\ [req[r] EXCEPT !.pc = "audit"].pc = "audit"
          /\ [req[r] EXCEPT !.pc = "audit"].changed = req[r].changed
      BY <2>1 DEF RequestRecord
    <3>2. Audited(req[r], [req[r] EXCEPT !.pc = "audit"])
      BY <3>1 DEF Audited, ChangeKnown, EventLeft
    <3> QED
      BY <1>5, <2>3, <3>2 DEF GoTo
  <2>4. CASE Answer(r, "OK") /\ ~(req[r].op = "update" /\ req[r].old # req[r].role)
    <3>1. ~Answered(r, "OK", {}).changed
      BY DEF Answered, Reply, Idle
    <3>2. Audited(req[r], Answered(r, "OK", {}))
      BY <2>1, <2>4, <3>1 DEF Audited, ChangeKnown, EventLeft
    <3> QED
      BY <1>5, <2>4, <3>2 DEF Answer
  <2> QED
    BY <1>11, <2>2, <2>3, <2>4 DEF Refresh
<1>12. ASSUME NEW r \in Requests, Handling(r) PROVE Audited(req[q], req'[q])
  <2>1. req[r] \in RequestRecord
    BY RequestFacts
  <2>2. CASE CreateWorkspace(r)
    BY <1>2, <1>5, <1>6, <2>1, <2>2 DEF CreateWorkspace, Answered
  <2>3. CASE CheckInvitee(r)
    BY <1>6, <1>7, <2>3 DEF CheckInvitee
  <2>4. CASE InsertMember(r)
    <3> DEFINE next == [req[r] EXCEPT !.pc = "refresh"]
    <3>1. req[r].pc = "write" /\ next.changed = req[r].changed
      BY <2>1, <2>4 DEF RequestRecord, InsertMember
    <3>2. Audited(req[r], next)
      BY <1>3, <2>1, <3>1
    <3> HIDE DEF next
    <3> QED
      BY <1>6, <1>8, <2>4, <3>1, <3>2 DEF InsertMember, next
  <2>5. CASE ReadTarget(r)
    <3> DEFINE old == GetMember(req[r].ws, req[r].target)
               rec == [req[r] EXCEPT
                         !.pc = IF old = "owner" /\ req[r].role # "owner"
                                THEN "count" ELSE "fetch",
                         !.old = old, !.loaded = old]
    <3>1. req[r].pc = "target" /\ rec.changed = req[r].changed
      BY <2>1, <2>5 DEF RequestRecord, ReadTarget
    <3>2. Audited(req[r], rec)
      BY <1>3, <2>1, <3>1
    <3>3. CASE req' = [req EXCEPT ![r] = rec]
      <4> HIDE DEF rec
      <4> QED
        BY <1>5, <3>2, <3>3
    <3> QED
      BY <1>6, <2>5, <3>1, <3>3 DEF ReadTarget
  <2>6. CASE CountOwners(r)
    <3> DEFINE rec == [req[r] EXCEPT !.pc = "fetch", !.raced = FALSE]
    <3>1. req[r].pc = "count" /\ rec.changed = req[r].changed
      BY <2>1, <2>6 DEF RequestRecord, CountOwners
    <3>2. CASE req' = [req EXCEPT ![r] = rec]
      BY <1>3, <1>5, <2>1, <3>1, <3>2
    <3> QED
      BY <1>6, <2>6, <3>1, <3>2 DEF CountOwners
  <2>7. CASE FetchMember(r)
    <3> DEFINE rec == [req[r] EXCEPT !.pc = "write", !.gone = FALSE,
                                     !.loaded = roleOf[req[r].ws][req[r].target]]
    <3>1. req[r].pc = "fetch" /\ rec.changed = req[r].changed
      BY <2>1, <2>7 DEF RequestRecord, FetchMember
    <3>2. CASE req' = [req EXCEPT ![r] = rec]
      BY <1>3, <1>5, <2>1, <3>1, <3>2
    <3> QED
      BY <1>6, <1>7, <2>7, <3>1, <3>2 DEF FetchMember
  <2>8. CASE DeleteRow(r)
    <3>1. req[r].pc = "write"
      BY <2>8 DEF DeleteRow
    <3> QED
      BY <1>2, <1>6, <1>8, <2>1, <2>8, <3>1 DEF DeleteRow, Answered
  <2>9. CASE AuditRoleChange(r)
    <3>1. PICK ws, response, events :
             /\ ws = req[r].ws /\ events = {"member.role_changed"}
             /\ response = IF req[r].gone THEN "ServerError" ELSE "OK"
      OBVIOUS
    <3>2. req' = [req EXCEPT ![r] = Reply(ws, response, events)] /\ req[r].pc = "audit"
      BY <2>9, <3>1 DEF AuditRoleChange, Answered
    <3>3. "member.role_changed" \in events
      BY <3>1
    <3>4. Audited(req[r], Reply(ws, response, events))
      BY <1>2, <2>1, <3>3
    <3> QED
      BY <1>5, <3>2, <3>4
  <2> QED
    BY <1>10, <1>11, <1>12, <2>2, <2>3, <2>4, <2>5, <2>6, <2>7, <2>8, <2>9 DEF Handling
<1>13. ProcessRestart => Audited(req[q], req'[q])
  BY DEF ProcessRestart, Idle, Audited, ChangeKnown, EventLeft
<1> QED
  BY <1>9, <1>12, <1>13 DEF Next

\* A successful answer to a role change that changed the member comes with the event
\* member.role_changed, whatever other requests did between the two reads, the commit
\* and the audit.
THEOREM RoleChangesAlwaysAudited == Spec => ChangesAreAudited
<1> DEFINE Known == \A r \in Requests : ChangeKnown(req[r])
<1>1. Init => Known
  BY DEF Init, Idle, ChangeKnown
<1>2. MembershipInv /\ Known /\ [Next]_vars => Known'
  BY AuditedStep DEF vars, Audited, ChangeKnown
<1>3. MembershipInv /\ Known /\ [Next]_vars =>
        [\A r \in Requests :
           /\ req[r].changed /\ req[r].old = req[r].loaded
           /\ req'[r].pc = "idle" /\ req'[r].resp = "OK"
           => "member.role_changed" \in req'[r].audit]_vars
  BY AuditedStep DEF Audited, EventLeft
<1> QED
  BY <1>1, <1>2, <1>3, InvHolds, PTL DEF Spec, ChangesAreAudited
=============================================================================
