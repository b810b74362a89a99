------------------------ MODULE WorkspaceMembership ------------------------
(***************************************************************************)
(* Workspaces, their members and the requests that change them.            *)
(*                                                                         *)
(* The handlers of api/routes/workspaces.py are plain functions: FastAPI   *)
(* runs them on a pool of threads, each with a database session of its     *)
(* own, so requests interleave between their statements.  One step here is *)
(* one SELECT or one commit, with the code up to the next one.  PostgreSQL *)
(* is at READ COMMITTED: a SELECT sees what is committed, a commit is      *)
(* atomic, nothing is locked by reading.                                   *)
(*                                                                         *)
(* Names, emails, timestamps and IP addresses are left out; of audit_logs  *)
(* a request keeps the events it appended itself.                          *)
(*                                                                         *)
(* A definition introduced as "Mutant of X" is X with a plausible bug, put *)
(* in the place of X to break the property it names; nothing uses it.      *)
(***************************************************************************)
CONSTANTS
    Users,        \* registered users
    NoUser,       \* an email or id no user has
    Workspaces,   \* workspace ids; a request may name one that is not created
    NoWorkspace,  \* the request names no workspace
    Slugs,
    NoSlug,
    Requests,     \* slots for requests in flight (threads of the pool)
    AskedRoles    \* the roles that clients ask for

Roles == {"owner", "admin", "member", "viewer"}
NoRole == "none"

ASSUME MembershipAssumption ==
    /\ NoUser \notin Users
    /\ NoWorkspace \notin Workspaces
    /\ NoSlug \notin Slugs
    /\ AskedRoles \subseteq Roles

VARIABLES
    slugOf,   \* workspaces.slug, NoSlug where there is no such workspace
    roleOf,   \* workspace_members.role, NoRole where there is no such row
    req       \* what each slot is executing, or the answer it gave last

vars == <<slugOf, roleOf, req>>

Created == {w \in Workspaces : slugOf[w] # NoSlug}
Owners(w) == {u \in Users : roleOf[w][u] = "owner"}

\* WorkspaceRepository.get_member: the role of u in w, NoRole if u is not a member.
GetMember(w, u) == IF u \in Users THEN roleOf[w][u] ELSE NoRole

-----------------------------------------------------------------------------
(* Requests                                                                *)

Responses == {"none", "OK", "Forbidden", "NotFound", "AlreadyMember", "LastOwner",
              "DuplicateSlug", "ServerError"}
Events == {"failed_authorization", "member.role_changed"}
Steps == {"idle", "target", "count", "fetch", "write", "refresh", "audit", "create"}
Ops == {"none", "create", "invite", "update", "remove"}

RequestRecord ==
    [pc      : Steps,
     op      : Ops,
     user    : Users \cup {NoUser},
     ws      : Workspaces \cup {NoWorkspace},
     target  : Users \cup {NoUser},
     role    : Roles \cup {NoRole},   \* the role asked for
     ctx     : Roles \cup {NoRole},   \* WorkspaceContext.role
     old     : Roles \cup {NoRole},   \* the target's role when first read
     loaded  : Roles \cup {NoRole},   \* the same attribute of the session's object
     gone    : BOOLEAN,               \* the row behind that object is deleted
     changed : BOOLEAN,               \* history: the commit changed the stored role
     raced   : BOOLEAN,               \* history: since the last check another
                                      \* request changed who owns the workspace
     slug    : Slugs \cup {NoSlug},
     resp    : Responses,
     audit   : SUBSET Events]

Idle == [pc |-> "idle", op |-> "none", user |-> NoUser, ws |-> NoWorkspace,
         target |-> NoUser, role |-> NoRole, ctx |-> NoRole, old |-> NoRole,
         loaded |-> NoRole, gone |-> FALSE, changed |-> FALSE, raced |-> FALSE,
         slug |-> NoSlug, resp |-> "none", audit |-> {}]

\* A slot whose request, about workspace w, is answered.
Reply(w, response, events) ==
    [Idle EXCEPT !.ws = w, !.resp = response, !.audit = events]

Answered(r, response, events) == Reply(req[r].ws, response, events)

Answer(r, response) ==
    /\ req' = [req EXCEPT ![r] = Answered(r, response, {})]
    /\ UNCHANGED <<slugOf, roleOf>>

\* PermissionService.record_authorization_failure, then WorkspaceForbiddenError.
Deny(r) ==
    /\ req' = [req EXCEPT ![r] = Answered(r, "Forbidden", {"failed_authorization"})]
    /\ UNCHANGED <<slugOf, roleOf>>

GoTo(r, step) ==
    /\ req' = [req EXCEPT ![r].pc = step]
    /\ UNCHANGED <<slugOf, roleOf>>

\* Requests whose session holds an object for the row of user u in workspace w.
HoldsRow(r, w, u) ==
    /\ req[r].ws = w /\ req[r].target = u
    /\ \/ req[r].pc \in {"count", "fetch", "refresh", "audit"}
       \/ req[r].pc = "write" /\ req[r].op # "invite"

\* Commit a role of u in w (NoRole: delete the row) for request r, which goes on as
\* next.  The others learn of it only when they try to use the row.
CommitRole(r, w, u, role, next) ==
    /\ roleOf' = [roleOf EXCEPT ![w][u] = role]
    /\ req' = [q \in Requests |->
         IF q = r THEN next
         ELSE [req[q] EXCEPT
                 !.gone  = @ \/ (role = NoRole /\ HoldsRow(q, w, u)),
                 !.raced = @ \/ /\ req[q].ws = w
                                /\ req[q].pc \in {"count", "fetch", "write"}
                                /\ (roleOf[w][u] = "owner") # (role = "owner")]]
    /\ UNCHANGED slugOf

-----------------------------------------------------------------------------
(* Context and permission, resolved before every handler of a workspace    *)

Permissions == {"document_mutate", "query_rag", "run_agent", "manage_members",
                "view_admin_dashboard", "delete_workspace", "view_documents"}

\* Mutant of PermissionMatrix for OnlyOwnersMakeOwners: members manage members.
MembersManageMembers ==
    [owner  |-> Permissions,
     admin  |-> Permissions \ {"delete_workspace"},
     member |-> {"document_mutate", "query_rag", "run_agent", "view_documents",
                 "manage_members"},
     viewer |-> {"query_rag", "run_agent", "view_documents"}]

PermissionMatrix ==
    [owner  |-> Permissions,
     admin  |-> Permissions \ {"delete_workspace"},
     member |-> {"document_mutate", "query_rag", "run_agent", "view_documents"},
     viewer |-> {"query_rag", "run_agent", "view_documents"}]

Allowed(u, w, action) ==
    roleOf[w][u] # NoRole /\ action \in PermissionMatrix[roleOf[w][u]]

\* get_workspace_context and require_permission turn the caller away.  The refusal is
\* audited; the audit row refers to the workspace by a foreign key, so that it cannot be
\* inserted for an id that no workspace has.
TurnAway(r, w) ==
    /\ req' = [req EXCEPT ![r] =
         IF w \in Created
         THEN Reply(w, "Forbidden", {"failed_authorization"})
         ELSE Reply(w, "ServerError", {})]
    /\ UNCHANGED <<slugOf, roleOf>>

\* A request to any other route of a workspace: its handler is not modelled here.
Access(r, u, w, action) ==
    /\ req[r].pc = "idle"
    /\ \/ /\ ~Allowed(u, w, action)
          /\ TurnAway(r, w)
       \/ /\ Allowed(u, w, action)
          /\ req' = [req EXCEPT ![r] = Reply(w, "OK", {})]
          /\ UNCHANGED <<slugOf, roleOf>>

\* A request to invite, update or remove a member.
ManageMembers(r, u, w, op, t, role) ==
    /\ req[r].pc = "idle"
    /\ \/ /\ ~Allowed(u, w, "manage_members")
          /\ TurnAway(r, w)
       \/ /\ Allowed(u, w, "manage_members")
          /\ req' = [req EXCEPT ![r] =
               [Idle EXCEPT !.pc = "target", !.op = op, !.user = u, !.ws = w,
                            !.target = t, !.role = role, !.ctx = roleOf[w][u]]]
          /\ UNCHANGED <<slugOf, roleOf>>

-----------------------------------------------------------------------------
(* Creating a workspace                                                    *)

TakenSlugs == {slugOf[w] : w \in Created}

\* _resolve_slug: a slug given by the client is refused when it is taken; a slug made
\* from the name is the first of its series that is free.
RequestWorkspace(r, u, s) ==
    /\ req[r].pc = "idle"
    /\ \/ /\ s \in TakenSlugs
          /\ req' = [req EXCEPT ![r] = Reply(NoWorkspace, "DuplicateSlug", {})]
       \/ /\ s \notin TakenSlugs
          /\ req' = [req EXCEPT ![r] =
               [Idle EXCEPT !.pc = "create", !.op = "create", !.user = u, !.slug = s]]
    /\ UNCHANGED <<slugOf, roleOf>>

\* create_workspace_with_owner.  The INSERT of the workspace is flushed outside the try
\* block, so a slug taken meanwhile raises an IntegrityError that nobody handles.
CreateWorkspace(r) ==
    /\ req[r].pc = "create"
    /\ \/ /\ req[r].slug \in TakenSlugs
          /\ Answer(r, "ServerError")
       \/ /\ req[r].slug \notin TakenSlugs
          /\ \E w \in Workspaces \ Created :
               /\ slugOf' = [slugOf EXCEPT ![w] = req[r].slug]
               /\ roleOf' = [roleOf EXCEPT ![w][req[r].user] = "owner"]
          /\ req' = [req EXCEPT ![r] = Answered(r, "OK", {})]

-----------------------------------------------------------------------------
(* Inviting a member                                                       *)

\* invite_member up to add_member.
CheckInvitee(r) ==
    LET w == req[r].ws
        t == req[r].target
        escalates == req[r].ctx = "admin" /\ req[r].role = "owner"
    IN
    /\ req[r].pc = "target" /\ req[r].op = "invite"
    /\ \/ escalates /\ Deny(r)
       \/ ~escalates /\ t = NoUser /\ Answer(r, "NotFound")
       \/ ~escalates /\ GetMember(w, t) # NoRole /\ Answer(r, "AlreadyMember")
       \/ ~escalates /\ t # NoUser /\ GetMember(w, t) = NoRole /\ GoTo(r, "write")

\* add_member: the unique key decides between two invitations.
InsertMember(r) ==
    LET w == req[r].ws
        t == req[r].target
    IN
    /\ req[r].pc = "write" /\ req[r].op = "invite"
    /\ \/ /\ roleOf[w][t] # NoRole
          /\ Answer(r, "AlreadyMember")
       \/ /\ roleOf[w][t] = NoRole
          /\ CommitRole(r, w, t, req[r].role, [req[r] EXCEPT !.pc = "refresh"])

-----------------------------------------------------------------------------
(* Changing a role and removing a member                                   *)

\* Mutant of Escalates for AdminsSpareOwners: an owner may be demoted or removed.
EscalatesToOwner(r, old) == req[r].ctx = "admin" /\ req[r].role = "owner"

\* Mutant of Escalates for StrandedForever: anybody may be made an owner.
EscalatesOverOwner(r, old) == req[r].ctx = "admin" /\ old = "owner"

\* An admin's request is refused when it is about an owner or makes one.
Escalates(r, old) ==
    req[r].ctx = "admin" /\ (old = "owner" \/ req[r].role = "owner")

\* Mutant of ReadTarget for MembershipTypeOK: MemberNotFoundError is not raised.
ReadTargetUnchecked(r) ==
    /\ req[r].pc = "target" /\ req[r].op \in {"update", "remove"}
    /\ req[r].target # NoUser
    /\ req' = [req EXCEPT ![r] =
         [@ EXCEPT !.pc = "fetch", !.old = roleOf[req[r].ws][req[r].target],
                   !.loaded = roleOf[req[r].ws][req[r].target]]]
    /\ UNCHANGED <<slugOf, roleOf>>

\* The first SELECT of update_member_role or remove_member and the checks on it.  What
\* follows counts the owners if the target is one and will not stay one.
ReadTarget(r) ==
    LET w == req[r].ws
        t == req[r].target
        old == GetMember(w, t)
        loses == old = "owner" /\ req[r].role # "owner"
    IN
    /\ req[r].pc = "target" /\ req[r].op \in {"update", "remove"}
    /\ \/ old = NoRole /\ Answer(r, "NotFound")
       \/ old # NoRole /\ Escalates(r, old) /\ Deny(r)
       \/ /\ old # NoRole /\ ~Escalates(r, old)
          /\ req' = [req EXCEPT ![r] =
               [@ EXCEPT !.pc = IF loses THEN "count" ELSE "fetch",
                         !.old = old, !.loaded = old]]
          /\ UNCHANGED <<slugOf, roleOf>>

\* Mutant of OneOwner for LastOwnerFallsToARace: the count is compared with zero.
NoOwner(w) == Owners(w) = {}

\* count_owners(...) == 1
OneOwner(w) == \E u \in Users : Owners(w) = {u}

CountOwners(r) ==
    /\ req[r].pc = "count"
    /\ \/ OneOwner(req[r].ws) /\ Answer(r, "LastOwner")
       \/ /\ ~OneOwner(req[r].ws)
          /\ req' = [req EXCEPT ![r] = [@ EXCEPT !.pc = "fetch", !.raced = FALSE]]
          /\ UNCHANGED <<slugOf, roleOf>>

\* The repository selects the row again.  The session's identity map gives back the
\* object it has, with the attributes it has; only another row, of a member removed and
\* invited again meanwhile, is loaded afresh.  ValueError if there is none.
FetchMember(r) ==
    LET current == roleOf[req[r].ws][req[r].target] IN
    /\ req[r].pc = "fetch"
    /\ \/ ~req[r].gone /\ GoTo(r, "write")
       \/ req[r].gone /\ current = NoRole /\ Answer(r, "ServerError")
       \/ /\ req[r].gone /\ current # NoRole
          /\ req' = [req EXCEPT ![r] =
               [@ EXCEPT !.pc = "write", !.gone = FALSE, !.loaded = current]]
          /\ UNCHANGED <<slugOf, roleOf>>

\* The commit of update_member_role: an UPDATE only if the role differs from the one
\* loaded; it raises when it matches no row.
WriteRole(r) ==
    LET w == req[r].ws
        t == req[r].target
        role == req[r].role
    IN
    /\ req[r].pc = "write" /\ req[r].op = "update"
    /\ \/ req[r].loaded = role /\ GoTo(r, "refresh")
       \/ req[r].loaded # role /\ req[r].gone /\ Answer(r, "ServerError")
       \/ /\ req[r].loaded # role /\ ~req[r].gone
          /\ CommitRole(r, w, t, role,
               [req[r] EXCEPT !.pc = "refresh", !.changed = (roleOf[w][t] # role)])

\* The commit of remove_member.  A DELETE that matches no row is only warned about.
DeleteRow(r) ==
    /\ req[r].pc = "write" /\ req[r].op = "remove"
    /\ \/ req[r].gone /\ Answer(r, "OK")
       \/ /\ ~req[r].gone
          /\ CommitRole(r, req[r].ws, req[r].target, NoRole, Answered(r, "OK", {}))

\* Mutant of Refresh for ChangesAreAudited: the old role is read from the object, which
\* is the one that was just updated.
RefreshComparingLive(r) ==
    /\ req[r].pc = "refresh"
    /\ \/ req[r].gone /\ Answer(r, "ServerError")
       \/ ~req[r].gone /\ Answer(r, "OK")

\* The refresh after the commit, which raises if the row is gone again, and the test
\* old_role != new_role.
Refresh(r) ==
    /\ req[r].pc = "refresh"
    /\ \/ req[r].gone /\ Answer(r, "ServerError")
       \/ /\ ~req[r].gone
          /\ IF req[r].op = "update" /\ req[r].old # req[r].role
             THEN GoTo(r, "audit")
             ELSE Answer(r, "OK")

\* The audit row of a role change, in a commit of its own.  The answer then loads the
\* member again, which the commit has expired, and raises if the row is gone; nobody
\* looks at the audit row in between.
AuditRoleChange(r) ==
    /\ req[r].pc = "audit"
    /\ req' = [req EXCEPT ![r] =
         Answered(r, IF req[r].gone THEN "ServerError" ELSE "OK", {"member.role_changed"})]
    /\ UNCHANGED <<slugOf, roleOf>>

\* The API process dies with all its requests; their open transactions roll back.
ProcessRestart ==
    /\ req' = [r \in Requests |-> Idle]
    /\ UNCHANGED <<slugOf, roleOf>>

-----------------------------------------------------------------------------
Init ==
    /\ slugOf = [w \in Workspaces |-> NoSlug]
    /\ roleOf = [w \in Workspaces |-> [u \in Users |-> NoRole]]
    /\ req = [r \in Requests |-> Idle]

\* A client sends a request.
Arrival(r) ==
    \E u \in Users :
       \/ \E s \in Slugs : RequestWorkspace(r, u, s)
       \/ \E w \in Workspaces, action \in Permissions : Access(r, u, w, action)
       \/ \E w \in Workspaces, t \in Users \cup {NoUser}, role \in AskedRoles :
             \/ ManageMembers(r, u, w, "invite", t, role)
             \/ ManageMembers(r, u, w, "update", t, role)
             \/ ManageMembers(r, u, w, "remove", t, NoRole)

\* A request in flight takes its next step.
Handling(r) ==
    \/ CreateWorkspace(r)
    \/ CheckInvitee(r) \/ InsertMember(r)
    \/ ReadTarget(r) \/ CountOwners(r) \/ FetchMember(r)
    \/ WriteRole(r) \/ DeleteRow(r) \/ Refresh(r) \/ AuditRoleChange(r)

Next ==
    \/ \E r \in Requests : Arrival(r) \/ Handling(r)
    \/ ProcessRestart

Spec == Init /\ [][Next]_vars

-----------------------------------------------------------------------------
(* Properties                                                              *)

\* A request that works on members acts for an owner or an admin; past its first check it
\* has a target, and one that updates or removes knows a role of that target.
WellPlaced(q) ==
    /\ q.pc \in {"target", "count", "fetch", "write", "refresh", "audit"} =>
         /\ q.ctx \in {"owner", "admin"}
         /\ q.ws \in Created
         /\ q.op \in {"invite", "update", "remove"}
         /\ q.role = NoRole <=> q.op = "remove"
    /\ q.pc \in {"count", "fetch", "write", "refresh", "audit"} =>
         /\ q.target \in Users
         /\ q.op # "invite" => q.old \in Roles
    /\ q.pc \in {"count", "fetch"} => q.op # "invite"
    /\ q.pc = "create" => q.user \in Users /\ q.slug \in Slugs

\* Variables have their types, only existing workspaces have members, and every request
\* holds what its step needs.
MembershipTypeOK ==
    /\ slugOf \in [Workspaces -> Slugs \cup {NoSlug}]
    /\ roleOf \in [Workspaces -> [Users -> Roles \cup {NoRole}]]
    /\ req \in [Requests -> RequestRecord]
    /\ \A w \in Workspaces \ Created, u \in Users : roleOf[w][u] = NoRole
    /\ \A r \in Requests : WellPlaced(req[r])

\* The step of r that commits a role.
Commits(r, w) == req[r].pc = "write" /\ req[r].ws = w /\ req'[r].pc # "write"

\* A workspace never loses its last owner to a request alone: the count of owners guards
\* the step, unless another request changed who owns the workspace after that count (or,
\* for a target that was no owner, after it was read).
LastOwnerFallsToARace ==
    [][\A w \in Workspaces :
         Owners(w) # {} /\ Owners(w)' = {} =>
            \E r \in Requests : Commits(r, w) /\ req[r].raced]_vars

\* Whoever becomes an owner of an existing workspace was made one by a request that acts
\* for an owner: no chain of invitations and role changes gets around the matrix and the
\* rules for admins.
OnlyOwnersMakeOwners ==
    [][\A w \in Created, u \in Users :
         roleOf[w][u] # "owner" /\ roleOf'[w][u] = "owner" =>
            \E r \in Requests : Commits(r, w) /\ req[r].ctx = "owner"]_vars

\* An owner is demoted or removed by a request that acts for an owner, or by an admin's
\* only if the target was made an owner after that request had looked.
AdminsSpareOwners ==
    [][\A w \in Workspaces, u \in Users :
         roleOf[w][u] = "owner" /\ roleOf'[w][u] # "owner" =>
            \E r \in Requests :
               Commits(r, w) /\ req[r].target = u
                 /\ (req[r].ctx = "owner" \/ req[r].raced)]_vars

\* A workspace without owner, and without a request in flight that acts for one, never
\* has an owner again: nobody left may make one.
Stranded(w) ==
    /\ w \in Created
    /\ Owners(w) = {}
    /\ \A r \in Requests : ~(req[r].ws = w /\ req[r].ctx = "owner")

StrandedForever == [][\A w \in Workspaces : Stranded(w) => Stranded(w)']_vars

\* A role change that is answered with success, and changed the stored role of the member
\* it had looked at, left its member.role_changed event.
ChangesAreAudited ==
    [][\A r \in Requests :
         /\ req[r].changed /\ req[r].old = req[r].loaded
         /\ req'[r].pc = "idle" /\ req'[r].resp = "OK"
         => "member.role_changed" \in req'[r].audit]_vars

\* What a request past its checks relies on: no admin's request makes an owner, and
\* unless it was raced, its target is no owner if it acts for an admin, and not the only
\* owner if it takes the role away.
Guarded(q) ==
    /\ q.pc = "count" => q.ctx = "owner"
    /\ q.pc \in {"count", "fetch", "write"} =>
         /\ q.role = "owner" => q.ctx = "owner"
         /\ q.op # "invite" /\ ~q.raced =>
              /\ q.ctx = "admin" => roleOf[q.ws][q.target] # "owner"
              /\ q.pc # "count" /\ q.role # "owner" =>
                   (q.target \in Owners(q.ws) => Owners(q.ws) \ {q.target} # {})

\* The inductive invariant behind the properties above.
MembershipInv ==
    /\ MembershipTypeOK
    /\ \A r \in Requests : Guarded(req[r])

\* A created workspace has an owner.
AlwaysAnOwner == \A w \in Created : Owners(w) # {}
=============================================================================
