----------------------------- MODULE BearerAccess -----------------------------
(***************************************************************************)
(* A call with a bearer token on its way to the handler: InternalAuthGuard,*)
(* which reads the session, the user, the memberships and the verified     *)
(* address in a statement each, then the guard that the handler demands.   *)
(* Meanwhile the session is rotated or revoked, and the user is edited.    *)
(***************************************************************************)
EXTENDS SessionLife, ResourceTree, ApiDemands, Naturals

CONSTANTS
    Assignable,  \* the roles that edits of the user hand out
    EditBound    \* edits of the user in a behaviour

ASSUME AssignableAssumption == Assignable \subseteq RoleName /\ EditBound \in Nat
\* Workspaces are numbers, in the order of their names.
ASSUME WorkspaceAssumption == Workspace \subseteq Nat

VARIABLES
    user,      \* users.status, the roles of the active memberships, whether the
               \* address is verified, and the workspaces that are active
    edits,     \* edits of the user so far
    statuses,  \* the values users.status has had
    active,    \* user_sessions.active_workspace_id
    held,      \* the values that column has had
    bearer     \* the call: where it is, what it has read, and (history) the moments
               \* the user's rows have been through since it arrived

userVars == <<user, edits, statuses>>
rowVars == <<session, spent, user, edits, statuses, active, held>>
bearerVars == <<rowVars, bearer>>

NoRole == "none"
NoMembership == [w \in Workspace |-> NoRole]
Memberships == [Workspace -> Assignable \cup {NoRole}]

NoBearer == [pc |-> "idle", token |-> FirstToken, late |-> FALSE, stored |-> None,
             role |-> NoMembership, verified |-> FALSE, workspace |-> None,
           moments |-> {}]

\* listActiveMemberships: the memberships in workspaces that are active.
Listed(m) == [w \in Workspace |-> IF w \in m.open THEN m.role[w] ELSE NoRole]

BearerAt(pc) == bearer.pc = pc
BearerGoes(pc) == bearer' = [bearer EXCEPT !.pc = pc]
BearerRefused == bearer' = NoBearer
OnlyBearer == UNCHANGED rowVars

\* The rows change: a call that is under way has seen one moment more.
Witnessed ==
    bearer' = IF BearerAt("idle") THEN bearer ELSE [bearer EXCEPT !.moments = @ \cup {user'}]

----------------------------------------------------------------------------
(* What happens to the session and the user meanwhile *)

RotateSession(t) ==
    /\ Rotate(t)
    \* The column is written back as the refresh had read it.
    /\ active' \in held
    /\ UNCHANGED <<userVars, held, bearer>>

RevokeSession ==
    /\ ~session.revoked
    /\ Revoke
    /\ UNCHANGED <<userVars, active, held, bearer>>

\* The memberships are replaced with the status in one transaction, and only an
\* active user's memberships are active.
EditUser(on, role) ==
    /\ edits < EditBound
    /\ user' = [user EXCEPT !.active = on, !.role = IF on THEN role ELSE NoMembership]
    /\ edits' = edits + 1
    /\ statuses' = statuses \cup {on}
    /\ Witnessed
    /\ UNCHANGED <<session, spent, active, held>>

\* An edit that says nothing of the status writes back the one it has read.
EditNameOnly(on) ==
    /\ edits < EditBound
    /\ on \in statuses
    /\ user' = [user EXCEPT !.active = on]
    /\ edits' = edits + 1
    /\ Witnessed
    /\ UNCHANGED <<session, spent, statuses, active, held>>

\* The address is verified, or a late password reset takes that back (Accounts).
ChangeVerification ==
    /\ edits < EditBound
    /\ user' = [user EXCEPT !.verified = ~@]
    /\ edits' = edits + 1
    /\ Witnessed
    /\ UNCHANGED <<session, spent, statuses, active, held>>

\* A workspace is archived, or taken into use again.
EditWorkspace(w) ==
    /\ edits < EditBound
    /\ user' = [user EXCEPT !.open = IF w \in @ THEN @ \ {w} ELSE @ \cup {w}]
    /\ edits' = edits + 1
    /\ Witnessed
    /\ UNCHANGED <<session, spent, statuses, active, held>>

----------------------------------------------------------------------------
(* InternalAuthGuard *)

\* A token that the session has or had.  The call is late when the token was no
\* longer good on arrival.
Arrive(t) ==
    /\ BearerAt("idle")
    /\ t \in spent \cup {session.access}
    /\ bearer' = [NoBearer EXCEPT !.pc = "findSession", !.token = t,
                                  !.late = session.revoked \/ t \in spent, !.moments = {user}]
    /\ UNCHANGED rowVars

FindSession ==
    /\ BearerAt("findSession")
    /\ IF ~session.revoked /\ session.access = bearer.token /\ user.active
          THEN BearerGoes("readActor") ELSE BearerRefused
    /\ OnlyBearer

\* The session again, by its id: a token replaced in between goes unnoticed.
ReadActor ==
    /\ BearerAt("readActor")
    /\ IF ~session.revoked /\ user.active
          THEN bearer' = [bearer EXCEPT !.pc = "readMemberships", !.stored = active]
          ELSE BearerRefused
    /\ OnlyBearer

ReadMemberships ==
    /\ BearerAt("readMemberships")
    /\ bearer' = [bearer EXCEPT !.pc = "readVerification", !.role = Listed(user)]
    /\ OnlyBearer

Joined(role) == {w \in Workspace : role[w] # NoRole}
FirstOf(W) == CHOOSE w \in W : \A v \in W : w <= v

\* The workspace the session was in, if the user still belongs to it, else the
\* first by name.
ReadVerification ==
    /\ BearerAt("readVerification")
    /\ IF Joined(bearer.role) = {} THEN BearerRefused
       ELSE bearer' = [bearer EXCEPT
              !.pc = "touchVisit", !.verified = user.verified,
              !.workspace = IF bearer.stored \in Joined(bearer.role) THEN bearer.stored
                            ELSE FirstOf(Joined(bearer.role))]
    /\ OnlyBearer

\* UPDATE user_sessions ... WHERE id: whatever has become of the session.
TouchVisit ==
    /\ BearerAt("touchVisit")
    /\ IF bearer.workspace # bearer.stored
          THEN active' = bearer.workspace /\ held' = held \cup {bearer.workspace}
          ELSE UNCHANGED <<active, held>>
    /\ BearerGoes("authorize")
    /\ UNCHANGED <<session, spent, userVars>>

----------------------------------------------------------------------------
(* WorkspaceMembershipGuard: the workspace of the row the call names, or None *)

WorkspaceOfRequest(q) == workspaceOf[q]
WorkspaceOfSubmission(s) == workspaceOf[requestOf[s]]
WorkspaceOfItem(i) == workspaceOf[requestOf[submissionOf[i]]]

\* Mistake: what was noted on the row goes before what the row refers to.
WorkspaceNotedOn(r) ==
    CASE r.metadata # None   -> r.metadata
      [] r.item # None       -> WorkspaceOfItem(r.item)
      [] r.submission # None -> WorkspaceOfSubmission(r.submission)
      [] r.request # None    -> WorkspaceOfRequest(r.request)
      [] OTHER               -> None

\* The narrowest reference first, and what was noted on the row only without one.
WorkspaceOfRow(r) ==
    CASE r.item # None       -> WorkspaceOfItem(r.item)
      [] r.item = None /\ r.submission # None -> WorkspaceOfSubmission(r.submission)
      [] r.item = None /\ r.submission = None /\ r.request # None ->
            WorkspaceOfRequest(r.request)
      [] OTHER               -> r.metadata

WorkspaceOfFile(r) == WorkspaceOfRow(r)
WorkspaceOfStoredFile(r) == WorkspaceOfRow(r)
WorkspaceOfExport(r) == WorkspaceOfRow(r)

\* The widest reference first, and the active workspace without one.
FileContext(body, activeWorkspace) ==
    IF body.request # None THEN WorkspaceOfRequest(body.request)
    ELSE IF body.submission # None THEN WorkspaceOfSubmission(body.submission)
    ELSE IF body.item # None THEN WorkspaceOfItem(body.item)
    ELSE activeWorkspace

ExportContext(body, activeWorkspace) ==
    IF body.request # None THEN WorkspaceOfRequest(body.request)
    ELSE IF body.submission # None THEN WorkspaceOfSubmission(body.submission)
    ELSE activeWorkspace

Target(kind) ==
    CASE kind = "none"           -> {None}
      [] kind = "workspace"      -> Workspace
      [] kind = "client"         -> Client
      [] kind = "template"       -> Template
      [] kind = "request"        -> Request
      [] kind = "submission"     -> Submission
      [] kind = "submissionItem" -> Item
      [] kind \in {"fileId", "storageKey"} -> FileRow
      [] kind = "exportJob"      -> ExportRow
      [] kind = "fileContext"    -> Body
      [] kind = "exportContext"  -> {r \in Body : r.item = None}

\* The workspace a call may name itself is one of its organization (bound).
Resolved(kind, x, activeWorkspace) ==
    CASE kind = "workspace"      -> x
      [] kind \in {"client", "template"} -> workspaceOf[x]
      [] kind = "request"        -> WorkspaceOfRequest(x)
      [] kind = "submission"     -> WorkspaceOfSubmission(x)
      [] kind = "submissionItem" -> WorkspaceOfItem(x)
      [] kind = "fileId"         -> WorkspaceOfFile(x)
      [] kind = "storageKey"     -> WorkspaceOfStoredFile(x)
      [] kind = "exportJob"      -> WorkspaceOfExport(x)
      [] kind = "fileContext"    -> FileContext(x, activeWorkspace)
      [] kind = "exportContext"  -> ExportContext(x, activeWorkspace)

----------------------------------------------------------------------------
(* What each guard asks of the actor that was read *)

RolesIn(role) == {role[w] : w \in Joined(role)}
OrganizationWide == {"organization_owner", "organization_admin"}

MembershipGuard(b, kind, x) ==
    LET w == Resolved(kind, x, b.workspace)
    IN  /\ w # None
        /\ RolesIn(b.role) \cap OrganizationWide # {} \/ w \in Joined(b.role)

OwnerGuard(b) == "organization_owner" \in RolesIn(b.role)

PolicyGuard(b, one) ==
    /\ one \cap VerifiedEmailRequired # {} => b.verified
    /\ one \cap UNION {PermissionsOf(r) : r \in RolesIn(b.role)} # {}

Admitted(b, d, x) ==
    CASE d.guard = "membership" -> MembershipGuard(b, d.kind, x)
      [] d.guard = "owner"      -> OwnerGuard(b)
      [] d.guard = "policy"     -> PolicyGuard(b, d.one)
      [] d.guard = "bearer"     -> TRUE

\* What the handler of the call demands matters from here on.  The rows that the
\* membership guard reads do not change: one step.
Authorize(d, x) ==
    /\ BearerAt("authorize")
    /\ IF Admitted(bearer, d, x) THEN BearerGoes("handler") ELSE BearerRefused
    /\ OnlyBearer

\* The handler runs and answers.
AnswerBearer ==
    /\ BearerAt("handler")
    /\ BearerRefused
    /\ OnlyBearer

----------------------------------------------------------------------------
\* A session was opened in a workspace of its user.
BearerInit ==
    /\ SessionInit
    /\ user \in [active : {TRUE}, role : Memberships, verified : BOOLEAN, open : {Workspace}]
    /\ edits = 0
    /\ statuses = {TRUE}
    /\ active \in Joined(user.role)
    /\ held = {active}
    /\ bearer = NoBearer

BearerNext ==
    \/ \E t \in Tokens : RotateSession(t)
    \/ RevokeSession
    \/ \E on \in BOOLEAN, role \in Memberships : EditUser(on, role)
    \/ \E on \in BOOLEAN : EditNameOnly(on)
    \/ ChangeVerification
    \/ \E w \in Workspace : EditWorkspace(w)
    \/ \E t \in Tokens : Arrive(t)
    \/ FindSession \/ ReadActor \/ ReadMemberships \/ ReadVerification \/ TouchVisit
    \/ \E d \in Demand : \E x \in Target(d.kind) : Authorize(d, x)
    \/ AnswerBearer

----------------------------------------------------------------------------
\* The reference for the guards: the call's row lies in a workspace the user has
\* joined, told from the top of the tree down.  Of a file or an export that is what
\* its narrowest reference names, of a body what its widest does, and the other
\* references with it if they belong together: those that do not go unchecked.
StoredKinds == {"fileId", "storageKey", "exportJob"}
BodyKinds == {"fileContext", "exportContext"}

LiesIn(kind, x, w, activeWorkspace) ==
    IF kind \in StoredKinds \cup BodyKinds
    THEN IF Named(x) # {}
         THEN /\ (IF kind \in StoredKinds THEN Narrowest(x) ELSE Widest(x)) \in Inside(w)
              /\ BelongTogether(x) => Named(x) \subseteq Inside(w)
         ELSE w = IF kind \in BodyKinds THEN activeWorkspace ELSE x.metadata
    ELSE x \in Inside(w)

MayEnter(role, kind, x, activeWorkspace) ==
    \E w \in Workspace :
        /\ LiesIn(kind, x, w, activeWorkspace)
        /\ \/ role[w] # NoRole
           \/ \E v \in Workspace : role[v] \in OrganizationWide

MayAct(role, permissions) ==
    \E w \in Workspace : role[w] # NoRole /\ PermissionsOf(role[w]) \cap permissions # {}

EntitledBy(role, d, x) ==
    /\ Joined(role) # {}
    /\ d.guard = "membership" => MayEnter(role, d.kind, x, bearer.workspace)
    /\ d.guard = "policy" => MayAct(role, d.one)
    /\ d.guard = "owner" => \E w \in Workspace : role[w] = "organization_owner"

\* Whatever is edited, rotated or revoked between the statements of the guards, they
\* let a call pass only if its token was good on arrival, and since then there was
\* a moment in which the user was active, one in which all the roles that the user
\* held let the call at this row (a file, an export or a body: at the reference that
\* decides) or gave this permission, and one in which the
\* address was verified if that is asked for: no mix of the memberships of two
\* moments gets a call to a handler (A1874-2048, workspace-membership.guard 38-79,
\* organization-policy.guard 29-58).
BearerIsEntitled ==
    BearerAt("authorize") =>
        /\ ~bearer.late
        /\ \E m \in bearer.moments : m.active
        /\ \A d \in Demand : \A x \in Target(d.kind) : Admitted(bearer, d, x) =>
              /\ \E m \in bearer.moments : EntitledBy(Listed(m), d, x)
              /\ d.one \cap VerifiedEmailRequired # {} => \E m \in bearer.moments : m.verified
=============================================================================
