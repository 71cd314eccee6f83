------------------------------ MODULE AccessProofs ------------------------------
(***************************************************************************)
(* Who reaches a handler is entitled to it, for every organization: any    *)
(* tree of workspaces and rows, any sets of visitors, tokens and edits.    *)
(***************************************************************************)
EXTENDS Access, WellFoundedInduction, TLAPS

----------------------------------------------------------------------------
(* The portal link: the count never passes maxUses and an exhausted link is *)
(* closed; and, as long as no two visits overlap, a closed link stays closed *)
(* and every token issued is a use of the row.                               *)

CountInv == TypeOK /\ CountWithinMaxUses /\ ExhaustedIsClosed

LEMMA CountInit == Init => CountInv
<1> SUFFICES ASSUME Init PROVE CountInv
    OBVIOUS
<1>1. MaxUses \in Nat /\ MaxUses # 0
    BY UsesAssumption
<1>2. TypeOK
    BY DEF Init, TypeOK, Statuses, NoVisit
<1>3. \A v \in Visitors : visit[v].pc = "idle"
    BY DEF Init, NoVisit
<1>4. link.usedCount = 0
    BY DEF Init
<1> QED
    BY <1>1, <1>2, <1>3, <1>4 DEF CountInv, CountWithinMaxUses, ExhaustedIsClosed, At

LEMMA CountStep == CountInv /\ [Next]_vars => CountInv'
<1> USE DEF CountInv
<1> SUFFICES ASSUME CountInv, [Next]_vars PROVE CountInv'
    OBVIOUS
<1>0. MaxUses \in Nat \ {0}
    BY UsesAssumption
<1>1. ASSUME NEW v \in Visitors, NEW consume \in BOOLEAN, ReadLink(v, consume)
      PROVE  CountInv'
    BY <1>0, <1>1 DEF ReadLink, TypeOK, CountWithinMaxUses, ExhaustedIsClosed, Statuses, At
<1>2. ASSUME NEW v \in Visitors, Refuse(v)
      PROVE  CountInv'
    <2>1. link'.usedCount = link.usedCount /\ link'.status \in {"expired", "consumed"}
        BY <1>2 DEF Refuse, TypeOK
    <2>2. link' \in [status : Statuses, usedCount : Nat]
        BY <1>2 DEF Refuse, TypeOK, Statuses
    <2> QED
        BY <1>0, <1>2, <2>1, <2>2 DEF Refuse, Leave, NoVisit, TypeOK, CountWithinMaxUses,
           ExhaustedIsClosed, Statuses, At
<1>3. ASSUME NEW v \in Visitors, WriteUse(v)
      PROVE  CountInv'
    <2>1. visit[v].read.usedCount \in Nat /\ visit[v].read.usedCount < MaxUses
        BY <1>3 DEF WriteUse, TypeOK, CountWithinMaxUses, At
    <2>2. link'.usedCount = visit[v].read.usedCount + 1
          /\ link' \in [status : Statuses, usedCount : Nat]
          /\ ExhaustedIsClosed'
        BY <1>0, <1>3, <2>1 DEF WriteUse, Statuses, ExhaustedIsClosed
    <2>3. TypeOK'
        BY <1>3, <2>2 DEF WriteUse, Goto, TypeOK
    <2>4. \A w \in Visitors : visit'[w].pc = "use" =>
              visit[w].pc = "use" /\ visit'[w].read = visit[w].read
        BY <1>3 DEF WriteUse, Goto, TypeOK
    <2>5. CountWithinMaxUses'
        <3>1. link'.usedCount <= MaxUses
            BY <1>0, <2>1, <2>2
        <3>2. ASSUME NEW w \in Visitors, visit'[w].pc = "use"
              PROVE  visit'[w].read.usedCount < MaxUses
            BY <2>4, <3>2 DEF CountWithinMaxUses, At
        <3> QED
            BY <3>1, <3>2 DEF CountWithinMaxUses, At
    <2> QED
        BY <2>2, <2>3, <2>5
<1>4. ASSUME NEW v \in Visitors, EmitAndGrant(v) \/ Fail(v)
      PROVE  CountInv'
    <2>1. link' = link /\ visit' = [visit EXCEPT ![v] = NoVisit]
        BY <1>4 DEF EmitAndGrant, Fail, Leave
    <2>2. granted' \in Nat /\ pastExpiry' \in BOOLEAN /\ overlapped' \in BOOLEAN
        BY <1>4 DEF EmitAndGrant, Fail, TypeOK
    <2> QED
        BY <2>1, <2>2 DEF NoVisit, Statuses, TypeOK, CountWithinMaxUses,
           ExhaustedIsClosed, At
<1>5. ASSUME Expire \/ UNCHANGED vars
      PROVE  CountInv'
    BY <1>5 DEF Expire, vars, TypeOK, CountWithinMaxUses, ExhaustedIsClosed, At
<1> QED
    BY <1>1, <1>2, <1>3, <1>4, <1>5 DEF Next, Step

\* verifyPortalLink never writes a count above maxUses, and closes the row when
\* it writes maxUses, however its calls interleave (L726-742).
THEOREM CountCorrect == Spec => [](CountWithinMaxUses /\ ExhaustedIsClosed)
<1>1. Init => CountInv
    BY CountInit
<1>2. CountInv /\ [Next]_vars => CountInv'
    BY CountStep
<1>3. CountInv => CountWithinMaxUses /\ ExhaustedIsClosed
    BY DEF CountInv
<1> QED
    BY <1>1, <1>2, <1>3, PTL DEF Spec

----------------------------------------------------------------------------
\* As long as no two visits overlap there is one visit at most in progress; what
\* it decided on is what the row still holds, and a use that it has written and
\* no token has been issued for yet is counted in the row.
SerialInv ==
    /\ CountInv
    /\ ~overlapped =>
          /\ granted <= link.usedCount
          /\ \A v, w \in Visitors : ~At(v, "idle") /\ ~At(w, "idle") => v = w
          /\ \A v \in Visitors :
                /\ At(v, "use") => visit[v].read = link /\ link.status = "active"
                /\ At(v, "emit") /\ visit[v].consume => granted < link.usedCount

LEMMA SerialStep == SerialInv /\ [Next]_vars => SerialInv'
<1> SUFFICES ASSUME SerialInv, [Next]_vars PROVE SerialInv'
    OBVIOUS
<1>0. CountInv' /\ CountInv /\ MaxUses \in Nat /\ link.usedCount \in Nat /\ granted \in Nat
    BY CountStep, UsesAssumption DEF SerialInv, CountInv, TypeOK
<1>t. visit \in [Visitors ->
          [pc : {"idle", "markExpired", "markConsumed", "use", "emit"}, consume : BOOLEAN,
           read : [status : Statuses, usedCount : Nat]]]
    BY <1>0 DEF CountInv, TypeOK
<1>1. ASSUME NEW v \in Visitors, NEW consume \in BOOLEAN, ReadLink(v, consume)
      PROVE  SerialInv'
    <2> SUFFICES ASSUME ~overlapped' PROVE SerialInv'
        BY <1>0 DEF SerialInv
    <2>1. ~overlapped /\ \A w \in Visitors \ {v} : visit[w].pc = "idle"
        BY <1>1 DEF ReadLink, At
    <2>2. \A w \in Visitors \ {v} : visit'[w].pc = "idle"
        BY <1>1, <1>t, <2>1 DEF ReadLink
    <2>3. visit'[v].read = link /\ link'.status = "active" /\ link' = link
          /\ (visit'[v].pc = "emit" => ~visit'[v].consume) /\ granted' = granted
        BY <1>1, <1>t DEF ReadLink
    <2> QED
        BY <1>0, <2>1, <2>2, <2>3 DEF SerialInv, At
<1>2. ASSUME NEW v \in Visitors, Refuse(v)
      PROVE  SerialInv'
    BY <1>0, <1>2, <1>t DEF Refuse, Leave, NoVisit, SerialInv, At, CountInv, TypeOK
<1>3. ASSUME NEW v \in Visitors, WriteUse(v)
      PROVE  SerialInv'
    <2>1. link'.usedCount = visit[v].read.usedCount + 1
        BY <1>3 DEF WriteUse
    <2> QED
        BY <1>0, <1>3, <1>t, <2>1 DEF WriteUse, Goto, SerialInv, At
<1>4. ASSUME NEW v \in Visitors, EmitAndGrant(v)
      PROVE  SerialInv'
    BY <1>0, <1>4, <1>t DEF EmitAndGrant, Leave, NoVisit, SerialInv, At
<1>5. ASSUME NEW v \in Visitors, Fail(v)
      PROVE  SerialInv'
    BY <1>0, <1>5, <1>t DEF Fail, Leave, NoVisit, SerialInv, At
<1>6. ASSUME Expire \/ UNCHANGED vars
      PROVE  SerialInv'
    BY <1>0, <1>6 DEF Expire, vars, SerialInv, At
<1> QED
    BY <1>1, <1>2, <1>3, <1>4, <1>5, <1>6 DEF Next, Step

LEMMA SerialInit == Init => SerialInv
    BY CountInit DEF Init, SerialInv, NoVisit, At

\* As long as visits do not overlap, every token issued is a use counted in the
\* row, failures of the event insert included (L726-742).
THEOREM SerialGrants == Spec => []GrantsAreCounted
<1>1. SerialInv => GrantsAreCounted
    BY DEF SerialInv, GrantsAreCounted
<1> QED
    BY SerialInit, SerialStep, <1>1, PTL DEF Spec

\* As long as visits do not overlap, nothing reopens a closed link: only a visit
\* that overlaps another writes back a status it read before (L732-741).
THEOREM SerialClose == Spec => ClosedIsFinal
<1>1. ASSUME SerialInv, [Next]_vars
      PROVE  [~overlapped /\ link.status # "active" => link'.status # "active"]_vars
    <2> SUFFICES ASSUME Next, ~overlapped, link.status # "active"
                 PROVE  link'.status # "active"
        BY <1>1
    <2>1. ASSUME NEW v \in Visitors, Step(v)
          PROVE  link'.status # "active"
        <3>1. ~WriteUse(v)
            BY <1>1 DEF SerialInv, WriteUse
        <3>2. CASE Refuse(v)
            BY <1>1, <3>2 DEF Refuse, SerialInv, CountInv, TypeOK
        <3> QED
            BY <2>1, <3>1, <3>2 DEF Step, ReadLink, EmitAndGrant, Fail
    <2>2. CASE Expire
        BY <2>2 DEF Expire
    <2> QED
        BY <2>1, <2>2 DEF Next
<1> QED
    BY SerialInit, SerialStep, <1>1, PTL DEF Spec, ClosedIsFinal

----------------------------------------------------------------------------
(* The tree: what the guards find from the bottom up is where the reference *)
(* looks from the top down.                                                 *)

LEMMA WorkspaceOfItsRows ==
    ASSUME NEW w \in Workspace
    PROVE  /\ w \in Inside(w)
           /\ \A x \in Client \cup Template \cup Request : workspaceOf[x] = w => x \in Inside(w)
           /\ \A s \in Submission : WorkspaceOfSubmission(s) = w => s \in Inside(w)
           /\ \A i \in Item : WorkspaceOfItem(i) = w => i \in Inside(w)
BY TreeAssumption DEF Inside, WorkspaceOfSubmission, WorkspaceOfItem

LEMMA RowsHaveWorkspaces ==
    /\ \A x \in Client \cup Template \cup Request : workspaceOf[x] \in Workspace
    /\ \A s \in Submission : WorkspaceOfSubmission(s) \in Workspace
    /\ \A i \in Item : WorkspaceOfItem(i) \in Workspace
BY TreeAssumption DEF WorkspaceOfSubmission, WorkspaceOfItem

\* All that a row names, if its references belong together, lies in one workspace.
LEMMA NamedTogether ==
    ASSUME NEW r \in References, BelongTogether(r)
    PROVE  /\ r.item # None => Named(r) \subseteq Inside(WorkspaceOfItem(r.item))
           /\ r.item = None /\ r.submission # None =>
                 Named(r) \subseteq Inside(WorkspaceOfSubmission(r.submission))
           /\ r.request # None => Named(r) \subseteq Inside(WorkspaceOfRequest(r.request))
           /\ r.request = None /\ r.submission # None =>
                 Named(r) \subseteq Inside(WorkspaceOfSubmission(r.submission))
<1>0. /\ r.item \in Item \cup {None} /\ r.submission \in Submission \cup {None}
      /\ r.request \in Request \cup {None}
    BY DEF References
<1>1. ASSUME r.item # None
      PROVE  Named(r) \subseteq Inside(WorkspaceOfItem(r.item))
    <2>1. r.item \in Item /\ WorkspaceOfItem(r.item) \in Workspace
        BY <1>0, <1>1, RowsHaveWorkspaces
    <2>2. r.item \in Inside(WorkspaceOfItem(r.item))
        BY <2>1, WorkspaceOfItsRows
    <2>3. r.submission # None => r.submission \in Inside(WorkspaceOfItem(r.item))
        BY <1>0, <1>1, <2>1, WorkspaceOfItsRows
           DEF BelongTogether, WorkspaceOfItem, WorkspaceOfSubmission
    <2>4. r.request # None => r.request \in Inside(WorkspaceOfItem(r.item))
        BY <1>0, <1>1, <2>1, WorkspaceOfItsRows DEF BelongTogether, WorkspaceOfItem
    <2> QED
        BY <2>2, <2>3, <2>4 DEF Named
<1>2. ASSUME r.submission # None, r.item = None \/ r.request = None
      PROVE  Named(r) \subseteq Inside(WorkspaceOfSubmission(r.submission))
    <2>1. r.submission \in Submission /\ WorkspaceOfSubmission(r.submission) \in Workspace
        BY <1>0, <1>2, RowsHaveWorkspaces
    <2>2. r.submission \in Inside(WorkspaceOfSubmission(r.submission))
        BY <2>1, WorkspaceOfItsRows
    <2>3. r.request # None => r.request \in Inside(WorkspaceOfSubmission(r.submission))
        BY <1>0, <1>2, <2>1, WorkspaceOfItsRows DEF BelongTogether, WorkspaceOfSubmission
    <2>4. r.item # None => r.item \in Inside(WorkspaceOfSubmission(r.submission))
        BY <1>0, <1>2, <2>1, WorkspaceOfItsRows
           DEF BelongTogether, WorkspaceOfItem, WorkspaceOfSubmission
    <2> QED
        BY <2>2, <2>3, <2>4 DEF Named
<1>3. ASSUME r.request # None
      PROVE  Named(r) \subseteq Inside(WorkspaceOfRequest(r.request))
    <2>1. r.request \in Request /\ WorkspaceOfRequest(r.request) \in Workspace
        BY <1>0, <1>3, RowsHaveWorkspaces DEF WorkspaceOfRequest
    <2>2. r.request \in Inside(WorkspaceOfRequest(r.request))
        BY <2>1, WorkspaceOfItsRows DEF WorkspaceOfRequest
    <2>3. r.submission # None => r.submission \in Inside(WorkspaceOfRequest(r.request))
        BY <1>0, <1>3, <2>1, WorkspaceOfItsRows
           DEF BelongTogether, WorkspaceOfRequest, WorkspaceOfSubmission
    <2>4. r.item # None => r.item \in Inside(WorkspaceOfRequest(r.request))
        BY <1>0, <1>3, <2>1, WorkspaceOfItsRows
           DEF BelongTogether, WorkspaceOfRequest, WorkspaceOfItem
    <2> QED
        BY <2>2, <2>3, <2>4 DEF Named
<1> QED
    BY <1>1, <1>2, <1>3

LEMMA WorkspaceOfReferences ==
    ASSUME NEW r \in References, WorkspaceOfRow(r) # None
    PROVE  /\ WorkspaceOfRow(r) \in Workspace
           /\ IF Named(r) # {}
              THEN /\ Narrowest(r) \in Inside(WorkspaceOfRow(r))
                   /\ BelongTogether(r) => Named(r) \subseteq Inside(WorkspaceOfRow(r))
              ELSE WorkspaceOfRow(r) = r.metadata
<1>0. /\ r.item \in Item \cup {None} /\ r.submission \in Submission \cup {None}
      /\ r.request \in Request \cup {None} /\ r.metadata \in Workspace \cup {None}
    BY DEF References
<1>1. CASE r.item # None
    <2>1. WorkspaceOfRow(r) = WorkspaceOfItem(r.item) /\ Named(r) # {}
        BY <1>1 DEF WorkspaceOfRow, Named
    <2> QED
        BY <1>0, <1>1, <2>1, NamedTogether, RowsHaveWorkspaces, WorkspaceOfItsRows DEF Narrowest
<1>2. CASE r.item = None /\ r.submission # None
    <2>1. WorkspaceOfRow(r) = WorkspaceOfSubmission(r.submission) /\ Named(r) # {}
        BY <1>2 DEF WorkspaceOfRow, Named
    <2> QED
        BY <1>0, <1>2, <2>1, NamedTogether, RowsHaveWorkspaces, WorkspaceOfItsRows DEF Narrowest
<1>3. CASE r.item = None /\ r.submission = None /\ r.request # None
    <2>1. WorkspaceOfRow(r) = WorkspaceOfRequest(r.request) /\ Named(r) # {}
        BY <1>3 DEF WorkspaceOfRow, Named
    <2>2. WorkspaceOfRequest(r.request) \in Workspace
        BY <1>0, <1>3, RowsHaveWorkspaces DEF WorkspaceOfRequest
    <2> QED
        BY <1>0, <1>3, <2>1, <2>2, NamedTogether, WorkspaceOfItsRows DEF Narrowest, WorkspaceOfRequest
<1>4. CASE r.item = None /\ r.submission = None /\ r.request = None
    <2>1. WorkspaceOfRow(r) = r.metadata /\ Named(r) = {}
        BY <1>4 DEF WorkspaceOfRow, Named
    <2> QED
        BY <1>0, <2>1
<1> QED
    BY <1>1, <1>2, <1>3, <1>4

LEMMA ContextOfBody ==
    ASSUME NEW r \in Body, NEW a \in Workspace
    PROVE  /\ FileContext(r, a) \in Workspace
           /\ IF Named(r) # {}
              THEN /\ Widest(r) \in Inside(FileContext(r, a))
                   /\ BelongTogether(r) => Named(r) \subseteq Inside(FileContext(r, a))
              ELSE FileContext(r, a) = a
           /\ r.item = None => ExportContext(r, a) = FileContext(r, a)
<1>0. /\ r \in References
      /\ r.item \in Item \cup {None} /\ r.submission \in Submission \cup {None}
      /\ r.request \in Request \cup {None}
    BY DEF Body, References
<1>1. CASE r.request # None
    <2>1. FileContext(r, a) = WorkspaceOfRequest(r.request) /\ Named(r) # {}
          /\ ExportContext(r, a) = FileContext(r, a)
        BY <1>1 DEF FileContext, ExportContext, Named
    <2>2. WorkspaceOfRequest(r.request) \in Workspace
        BY <1>0, <1>1, RowsHaveWorkspaces DEF WorkspaceOfRequest
    <2> QED
        BY <1>0, <1>1, <2>1, <2>2, NamedTogether,
           WorkspaceOfItsRows DEF Widest, WorkspaceOfRequest
<1>2. CASE r.request = None /\ r.submission # None
    <2>1. FileContext(r, a) = WorkspaceOfSubmission(r.submission) /\ Named(r) # {}
          /\ ExportContext(r, a) = FileContext(r, a)
        BY <1>2 DEF FileContext, ExportContext, Named
    <2> QED
        BY <1>0, <1>2, <2>1, NamedTogether, RowsHaveWorkspaces,
           WorkspaceOfItsRows DEF Widest
<1>3. CASE r.request = None /\ r.submission = None /\ r.item # None
    <2>1. FileContext(r, a) = WorkspaceOfItem(r.item) /\ Named(r) # {}
        BY <1>3 DEF FileContext, Named
    <2> QED
        BY <1>0, <1>3, <2>1, NamedTogether, RowsHaveWorkspaces,
           WorkspaceOfItsRows DEF Widest
<1>4. CASE r.request = None /\ r.submission = None /\ r.item = None
    BY <1>4 DEF FileContext, ExportContext, Named
<1> QED
    BY <1>1, <1>2, <1>3, <1>4

MembershipKinds ==
    {"workspace", "client", "template", "request", "submission", "submissionItem",
     "fileId", "storageKey", "exportJob", "fileContext", "exportContext"}

LEMMA DemandsOfMembership ==
    ASSUME NEW d \in Demand, d.guard = "membership"
    PROVE  d.kind \in MembershipKinds
BY DEF Demand, MembershipKinds, AuthController, ApplicationsController,
   CommunicationsController, UsersController, WorkspacesController, IntegrationsController,
   WebhooksController, AuditEventsController, ClientsController, TemplatesController,
   RequestsController, SubmissionsController, ReviewsController, FilesController,
   ExportsController, Signed, Owner, Policy, Member

\* The workspace in which the membership guard asks for a role is one in which the
\* row of the call lies.
LEMMA ResolvedInside ==
    ASSUME NEW k \in MembershipKinds, NEW x \in Target(k), NEW a \in Workspace,
           Resolved(k, x, a) # None
    PROVE  /\ Resolved(k, x, a) \in Workspace
           /\ LiesIn(k, x, Resolved(k, x, a), a)
<1>1. CASE k = "workspace"
    BY <1>1, WorkspaceOfItsRows DEF Resolved, Target, LiesIn, StoredKinds, BodyKinds
<1>2. CASE k = "client"
    BY <1>2, WorkspaceOfItsRows, RowsHaveWorkspaces DEF Resolved, Target, LiesIn, StoredKinds, BodyKinds
<1>3. CASE k = "template"
    BY <1>3, WorkspaceOfItsRows, RowsHaveWorkspaces DEF Resolved, Target, LiesIn, StoredKinds, BodyKinds
<1>4. CASE k = "request"
    BY <1>4, WorkspaceOfItsRows, RowsHaveWorkspaces DEF Resolved, Target, LiesIn, StoredKinds, BodyKinds, WorkspaceOfRequest
<1>5. CASE k = "submission"
    BY <1>5, WorkspaceOfItsRows, RowsHaveWorkspaces DEF Resolved, Target, LiesIn, StoredKinds, BodyKinds
<1>6. CASE k = "submissionItem"
    BY <1>6, WorkspaceOfItsRows, RowsHaveWorkspaces DEF Resolved, Target, LiesIn, StoredKinds, BodyKinds
<1>7. CASE k \in {"fileId", "storageKey", "exportJob"}
    <2>1. x \in References
        BY <1>7, TreeAssumption DEF Target
    <2>2. Resolved(k, x, a) = WorkspaceOfRow(x)
        BY <1>7 DEF Resolved, WorkspaceOfFile, WorkspaceOfStoredFile, WorkspaceOfExport
    <2> QED
        BY <1>7, <2>1, <2>2, WorkspaceOfReferences DEF LiesIn, StoredKinds, BodyKinds
<1>8. CASE k = "fileContext"
    <2>1. x \in Body /\ Resolved(k, x, a) = FileContext(x, a)
        BY <1>8 DEF Target, Resolved
    <2> QED
        BY <1>8, <2>1, ContextOfBody DEF LiesIn, StoredKinds, BodyKinds
<1>9. CASE k = "exportContext"
    <2>1. x \in Body /\ x.item = None /\ Resolved(k, x, a) = ExportContext(x, a)
        BY <1>9 DEF Target, Resolved
    <2> QED
        BY <1>9, <2>1, ContextOfBody DEF LiesIn, StoredKinds, BodyKinds
<1> QED
    BY <1>1, <1>2, <1>3, <1>4, <1>5, <1>6, <1>7, <1>8, <1>9 DEF MembershipKinds

----------------------------------------------------------------------------
(* The guards: what they admit, the roles that were read entitle to.        *)

\* The first workspace by name is one of them.
LEMMA FirstIsOneOfThem ==
    ASSUME NEW W, W \subseteq Workspace, W # {}
    PROVE  FirstOf(W) \in W
<1>1. W \subseteq Nat
    BY WorkspaceAssumption
<1>2. \E w \in W : \A v \in W : <<v, w>> \notin OpToRel(<, Nat)
    BY <1>1, NatLessThanWellFounded, WFMin
<1>3. \E w \in W : \A v \in W : w <= v
    <2>1. \A v, w \in Nat : <<v, w>> \in OpToRel(<, Nat) <=> v < w
        BY DEF OpToRel
    <2>2. PICK w \in W : \A v \in W : <<v, w>> \notin OpToRel(<, Nat)
        BY <1>2
    <2>3. \A v \in W : ~(v < w)
        BY <1>1, <2>1, <2>2
    <2> QED
        BY <1>1, <2>3
<1> QED
    BY <1>3 DEF FirstOf

LEMMA AdmittedIsEntitled ==
    ASSUME NEW b, b.role \in Memberships, Joined(b.role) # {}, b.workspace \in Workspace,
           NEW d \in Demand, NEW x \in Target(d.kind), Admitted(b, d, x)
    PROVE  /\ d.guard = "membership" => MayEnter(b.role, d.kind, x, b.workspace)
           /\ d.guard = "policy" => MayAct(b.role, d.one)
           /\ d.guard = "owner" => \E w \in Workspace : b.role[w] = "organization_owner"
<1>1. \A r \in RolesIn(b.role) : \E w \in Workspace : b.role[w] = r /\ r # NoRole
    BY DEF RolesIn, Joined
<1>2. ASSUME d.guard = "membership" PROVE MayEnter(b.role, d.kind, x, b.workspace)
    <2> DEFINE w == Resolved(d.kind, x, b.workspace)
    <2>1. w # None /\ (RolesIn(b.role) \cap OrganizationWide # {} \/ w \in Joined(b.role))
        BY <1>2 DEF Admitted, MembershipGuard
    <2>2. w \in Workspace /\ LiesIn(d.kind, x, w, b.workspace)
        BY <1>2, <2>1, DemandsOfMembership, ResolvedInside
    <2>3. b.role[w] # NoRole \/ \E v \in Workspace : b.role[v] \in OrganizationWide
        BY <1>1, <2>1 DEF Joined
    <2> QED
        BY <2>2, <2>3 DEF MayEnter
<1>3. ASSUME d.guard = "policy" PROVE MayAct(b.role, d.one)
    <2>1. d.one \cap UNION {PermissionsOf(r) : r \in RolesIn(b.role)} # {}
        BY <1>3 DEF Admitted, PolicyGuard
    <2>2. PICK r \in RolesIn(b.role) : d.one \cap PermissionsOf(r) # {}
        BY <2>1
    <2> QED
        BY <1>1, <2>2 DEF MayAct
<1>4. ASSUME d.guard = "owner"
      PROVE  \E w \in Workspace : b.role[w] = "organization_owner"
    BY <1>1, <1>4 DEF Admitted, OwnerGuard
<1> QED
    BY <1>2, <1>3, <1>4

\* The policy guard alone asks for permissions.
LEMMA VerificationAsked ==
    ASSUME NEW d \in Demand, NEW x, NEW b, Admitted(b, d, x),
           d.one \cap VerifiedEmailRequired # {}
    PROVE  b.verified
<1>1. d.guard = "policy" \/ d.one = {}
    BY DEF Demand, AuthController, ApplicationsController,
   CommunicationsController, UsersController, WorkspacesController, IntegrationsController,
   WebhooksController, AuditEventsController, ClientsController, TemplatesController,
   RequestsController, SubmissionsController, ReviewsController, FilesController,
   ExportsController, Signed, Owner, Policy, Member
<1> QED
    BY <1>1 DEF Admitted, PolicyGuard

----------------------------------------------------------------------------
(* A bearer call: what it has read was so at a moment it has seen.          *)

UserRow == [active : BOOLEAN, role : Memberships, verified : BOOLEAN, open : SUBSET Workspace]

BearerStage == {"idle", "findSession", "readActor", "readMemberships", "readVerification",
                "touchVisit", "authorize", "handler"}

AnyToken == Tokens \cup {FirstToken}

BearerCall == [pc : BearerStage, token : AnyToken, late : BOOLEAN,
               stored : Workspace \cup {None}, role : Memberships, verified : BOOLEAN,
               workspace : Workspace \cup {None}, moments : SUBSET UserRow]

RowTypes ==
    /\ session \in [revoked : BOOLEAN, access : AnyToken]
    /\ session.access \notin spent
    /\ user \in UserRow /\ statuses \subseteq BOOLEAN
    /\ active \in Workspace /\ held \subseteq Workspace

\* What is known of a call b, stage by stage.
Knows(b) ==
    /\ b \in BearerCall
    /\ b.pc # "idle" => user \in b.moments
    /\ b.pc # "idle" /\ b.late => session.revoked \/ b.token \in spent
    /\ b.pc \notin {"idle", "findSession"} => ~b.late /\ \E m \in b.moments : m.active
    /\ b.pc \in {"readVerification", "touchVisit", "authorize", "handler"} =>
          \E m \in b.moments : b.role = Listed(m)
    /\ b.pc \in {"touchVisit", "authorize", "handler"} =>
          /\ \E m \in b.moments : b.verified = m.verified
          /\ Joined(b.role) # {} /\ b.workspace \in Workspace

BearerInv == RowTypes /\ Knows(bearer)

LEMMA ListedIsMemberships ==
    ASSUME NEW m \in UserRow
    PROVE  Listed(m) \in Memberships
BY DEF Listed, UserRow, Memberships

LEMMA BearerEntitled == BearerInv => BearerIsEntitled
<1> SUFFICES ASSUME BearerInv, bearer.pc = "authorize" PROVE BearerIsEntitled
    BY DEF BearerIsEntitled, BearerAt
<1>1. /\ ~bearer.late /\ \E m \in bearer.moments : m.active
      /\ \E m \in bearer.moments : bearer.role = Listed(m)
      /\ \E m \in bearer.moments : bearer.verified = m.verified
      /\ Joined(bearer.role) # {} /\ bearer.workspace \in Workspace
      /\ bearer.role \in Memberships
    BY DEF BearerInv, Knows, BearerCall
<1>2. ASSUME NEW d \in Demand, NEW x \in Target(d.kind), Admitted(bearer, d, x)
      PROVE  /\ \E m \in bearer.moments : EntitledBy(Listed(m), d, x)
             /\ d.one \cap VerifiedEmailRequired # {} => \E m \in bearer.moments : m.verified
    <2>1. EntitledBy(bearer.role, d, x)
        BY <1>1, <1>2, AdmittedIsEntitled DEF EntitledBy
    <2>2. d.one \cap VerifiedEmailRequired # {} => bearer.verified
        BY <1>2, VerificationAsked
    <2> QED
        BY <1>1, <2>1, <2>2
<1> QED
    BY <1>1, <1>2 DEF BearerIsEntitled

LEMMA NoMembershipIsOne == NoMembership \in Memberships
BY DEF NoMembership, Memberships

LEMMA BearerStarts == BearerInit => BearerInv
<1> SUFFICES ASSUME BearerInit PROVE BearerInv
    OBVIOUS
<1>1. RowTypes
    BY DEF BearerInit, SessionInit, RowTypes, UserRow, AnyToken, Joined
<1>2. Knows(bearer)
    BY NoMembershipIsOne DEF BearerInit, NoBearer, Knows, BearerCall, BearerStage, AnyToken
<1> QED
    BY <1>1, <1>2 DEF BearerInv

\* The rows change, which the call only witnesses: what it has read stays true of
\* a moment it has seen.
LEMMA RowsChange ==
    ASSUME BearerInv, RowTypes',
           session.revoked => session'.revoked, spent \subseteq spent',
           \/ user' = user /\ bearer' = bearer
           \/ Witnessed
    PROVE  BearerInv'
<1>1. CASE user' = user /\ bearer' = bearer
    BY <1>1 DEF BearerInv, Knows
<1>2. CASE Witnessed /\ bearer.pc = "idle"
    BY <1>2 DEF BearerInv, Knows, Witnessed, BearerAt
<1>3. CASE Witnessed /\ bearer.pc # "idle"
    <2>1. bearer' = [bearer EXCEPT !.moments = @ \cup {user'}] /\ user' \in UserRow
        BY <1>3 DEF Witnessed, BearerAt, RowTypes
    <2>2. /\ bearer' \in BearerCall /\ bearer'.moments = bearer.moments \cup {user'}
          /\ bearer'.pc = bearer.pc /\ bearer'.late = bearer.late /\ bearer'.token = bearer.token
          /\ bearer'.role = bearer.role /\ bearer'.verified = bearer.verified
          /\ bearer'.workspace = bearer.workspace
        BY <2>1 DEF BearerInv, Knows, BearerCall
    <2> QED
        BY <2>2 DEF BearerInv, Knows
<1> QED
    BY <1>1, <1>2, <1>3

LEMMA CallGoesOn ==
    ASSUME BearerInv, OnlyBearer, Knows(bearer')
    PROVE  BearerInv'
BY DEF BearerInv, OnlyBearer, rowVars, userVars, RowTypes, Knows

LEMMA EndedKnows ==
    ASSUME BearerInv
    PROVE  Knows(NoBearer)
BY NoMembershipIsOne DEF NoBearer, Knows, BearerCall, BearerStage, AnyToken

LEMMA RowSteps ==
    ASSUME BearerInv,
           \/ \E t \in Tokens : RotateSession(t)
           \/ RevokeSession
           \/ \E on \in BOOLEAN, role \in Memberships : EditUser(on, role)
           \/ \E on \in BOOLEAN : EditNameOnly(on)
           \/ ChangeVerification
           \/ \E w \in Workspace : EditWorkspace(w)
    PROVE  BearerInv'
<1>0. RowTypes
    BY DEF BearerInv
<1>1. ASSUME NEW t \in Tokens, RotateSession(t) PROVE BearerInv'
    <2>1. /\ t \notin spent /\ t # session.access
          /\ session' = [session EXCEPT !.access = t] /\ spent' = spent \cup {session.access}
          /\ active' \in held /\ user' = user /\ statuses' = statuses
          /\ held' = held /\ bearer' = bearer
        BY <1>1 DEF RotateSession, Rotate, userVars
    <2>2. RowTypes' /\ session'.revoked = session.revoked
        BY <1>0, <2>1 DEF RowTypes, AnyToken
    <2> QED
        BY <2>1, <2>2, RowsChange
<1>2. CASE RevokeSession
    <2>1. RowTypes' /\ session'.revoked /\ spent' = spent /\ user' = user /\ bearer' = bearer
        BY <1>0, <1>2 DEF RevokeSession, Revoke, RowTypes, userVars
    <2> QED
        BY <2>1, RowsChange
<1>3. ASSUME session' = session, spent' = spent, active' = active, held' = held,
             statuses' \subseteq BOOLEAN, user' \in UserRow, Witnessed
      PROVE  BearerInv'
    <2>1. RowTypes'
        BY <1>0, <1>3 DEF RowTypes
    <2> QED
        BY <1>3, <2>1, RowsChange
<1>4. ASSUME NEW on \in BOOLEAN, NEW role \in Memberships, EditUser(on, role) PROVE BearerInv'
    <2>1. user' \in UserRow
        <3>1. (IF on THEN role ELSE NoMembership) \in Memberships
            BY NoMembershipIsOne
        <3> QED
            BY <1>0, <1>4, <3>1 DEF EditUser, RowTypes, UserRow
    <2>2. statuses' \subseteq BOOLEAN
        BY <1>0, <1>4 DEF EditUser, RowTypes
    <2> QED
        BY <1>3, <1>4, <2>1, <2>2 DEF EditUser
<1>5. ASSUME NEW on \in BOOLEAN, EditNameOnly(on) PROVE BearerInv'
    <2>1. user' \in UserRow /\ statuses' \subseteq BOOLEAN
        BY <1>0, <1>5 DEF EditNameOnly, RowTypes, UserRow
    <2> QED
        BY <1>3, <1>5, <2>1 DEF EditNameOnly
<1>6. CASE ChangeVerification
    <2>1. user' \in UserRow /\ statuses' \subseteq BOOLEAN
        BY <1>0, <1>6 DEF ChangeVerification, RowTypes, UserRow
    <2> QED
        BY <1>3, <1>6, <2>1 DEF ChangeVerification
<1>7. ASSUME NEW w \in Workspace, EditWorkspace(w) PROVE BearerInv'
    <2>1. user' \in UserRow /\ statuses' \subseteq BOOLEAN
        BY <1>0, <1>7 DEF EditWorkspace, RowTypes, UserRow
    <2> QED
        BY <1>3, <1>7, <2>1 DEF EditWorkspace
<1> QED
    BY <1>1, <1>2, <1>4, <1>5, <1>6, <1>7

LEMMA CallSteps ==
    ASSUME BearerInv,
           \/ \E t \in Tokens : Arrive(t)
           \/ FindSession \/ ReadActor \/ ReadMemberships \/ ReadVerification \/ TouchVisit
           \/ \E d \in Demand : \E x \in Target(d.kind) : Authorize(d, x)
           \/ AnswerBearer
    PROVE  BearerInv'
<1> USE DEF BearerAt, BearerGoes
<1>0. RowTypes /\ Knows(bearer) /\ bearer \in BearerCall /\ Knows(NoBearer)
    BY EndedKnows DEF BearerInv, Knows
<1>1. ASSUME NEW t \in Tokens, Arrive(t) PROVE BearerInv'
    <2> DEFINE late == session.revoked \/ t \in spent
               b == [NoBearer EXCEPT !.pc = "findSession", !.token = t,
                                     !.late = late, !.moments = {user}]
    <2>1. late \in BOOLEAN /\ (late => session.revoked \/ t \in spent)
        BY <1>0 DEF RowTypes
    <2>2. bearer' = b /\ OnlyBearer
        BY <1>1 DEF Arrive, OnlyBearer
    <2> HIDE DEF late
    <2>3. /\ b \in BearerCall
          /\ b.pc = "findSession" /\ b.token = t /\ b.late = late /\ b.moments = {user}
        <3>1. user \in UserRow
            BY <1>0 DEF RowTypes
        <3> QED
            BY <2>1, <3>1, NoMembershipIsOne DEF NoBearer, BearerCall, BearerStage, AnyToken
    <2> HIDE DEF b
    <2>4. Knows(b)
        BY <1>0, <2>1, <2>3 DEF Knows
    <2> QED
        BY <2>2, <2>4, CallGoesOn
<1>2. CASE FindSession
    <2> DEFINE b == [bearer EXCEPT !.pc = "readActor"]
    <2>1. OnlyBearer /\ bearer.pc = "findSession"
          /\ \/ bearer' = NoBearer
             \/ /\ bearer' = b
                /\ ~session.revoked /\ session.access = bearer.token /\ user.active
        BY <1>2 DEF FindSession, BearerRefused
    <2>2. ASSUME ~session.revoked, session.access = bearer.token, user.active PROVE Knows(b)
        <3>1. bearer.token \notin spent
            BY <1>0, <2>2 DEF RowTypes
        <3> QED
            BY <1>0, <2>1, <2>2, <3>1 DEF Knows, BearerCall, BearerStage
    <2> QED
        BY <1>0, <2>1, <2>2, CallGoesOn
<1>3. CASE ReadActor
    <2> DEFINE b == [bearer EXCEPT !.pc = "readMemberships", !.stored = active]
    <2>1. OnlyBearer /\ bearer.pc = "readActor" /\ (bearer' = NoBearer \/ bearer' = b)
        BY <1>3 DEF ReadActor, BearerRefused
    <2>2. Knows(b)
        BY <1>0, <2>1 DEF Knows, BearerCall, BearerStage, RowTypes
    <2> QED
        BY <1>0, <2>1, <2>2, CallGoesOn
<1>4. CASE ReadMemberships
    <2> DEFINE b == [bearer EXCEPT !.pc = "readVerification", !.role = Listed(user)]
    <2>1. bearer.pc = "readMemberships" /\ Listed(user) \in Memberships
        BY <1>0, <1>4, ListedIsMemberships DEF ReadMemberships, RowTypes
    <2>2. Knows(b)
        BY <1>0, <2>1 DEF Knows, BearerCall, BearerStage
    <2> QED
        BY <1>4, <2>2, CallGoesOn DEF ReadMemberships
<1>5. CASE ReadVerification
    <2> DEFINE w == IF bearer.stored \in Joined(bearer.role) THEN bearer.stored
                    ELSE FirstOf(Joined(bearer.role))
               b == [bearer EXCEPT !.pc = "touchVisit", !.verified = user.verified, !.workspace = w]
    <2>1. OnlyBearer /\ bearer.pc = "readVerification"
          /\ (bearer' = NoBearer \/ (bearer' = b /\ Joined(bearer.role) # {}))
        BY <1>5 DEF ReadVerification, BearerRefused
    <2>2. ASSUME Joined(bearer.role) # {} PROVE Knows(b)
        <3>1. Joined(bearer.role) \subseteq Workspace
            BY DEF Joined
        <3>2. w \in Workspace
            BY <2>2, <3>1, FirstIsOneOfThem
        <3>3. user.verified \in BOOLEAN /\ user \in bearer.moments
            BY <1>0, <2>1 DEF RowTypes, UserRow, Knows
        <3> HIDE DEF w
        <3> QED
            BY <1>0, <2>1, <2>2, <3>2, <3>3 DEF Knows, BearerCall, BearerStage
    <2> QED
        BY <1>0, <2>1, <2>2, CallGoesOn
<1>6. CASE TouchVisit
    <2> DEFINE b == [bearer EXCEPT !.pc = "authorize"]
    <2>1. bearer.pc = "touchVisit" /\ bearer' = b /\ session' = session /\ spent' = spent
          /\ user' = user /\ statuses' = statuses
        BY <1>6 DEF TouchVisit, userVars
    <2>2. bearer.workspace \in Workspace
        BY <1>0, <2>1 DEF Knows
    <2>3. active' \in Workspace /\ held' \subseteq Workspace
        BY <1>0, <1>6, <2>2 DEF TouchVisit, RowTypes
    <2>4. RowTypes'
        BY <1>0, <2>1, <2>3 DEF RowTypes
    <2>5. Knows(b)
        BY <1>0, <2>1 DEF Knows, BearerCall, BearerStage
    <2>6. Knows(bearer)'
        BY <2>1, <2>5 DEF Knows
    <2> QED
        BY <2>4, <2>6 DEF BearerInv
<1>7. ASSUME NEW d \in Demand, NEW x \in Target(d.kind), Authorize(d, x) PROVE BearerInv'
    <2> DEFINE b == [bearer EXCEPT !.pc = "handler"]
    <2>1. OnlyBearer /\ bearer.pc = "authorize" /\ (bearer' = NoBearer \/ bearer' = b)
        BY <1>7 DEF Authorize, BearerRefused
    <2>2. Knows(b)
        BY <1>0, <2>1 DEF Knows, BearerCall, BearerStage
    <2> QED
        BY <1>0, <2>1, <2>2, CallGoesOn
<1>8. CASE AnswerBearer
    BY <1>0, <1>8, CallGoesOn DEF AnswerBearer, BearerRefused
<1> QED
    BY <1>1, <1>2, <1>3, <1>4, <1>5, <1>6, <1>7, <1>8

----------------------------------------------------------------------------
(* A portal call *)

GuestCall == [pc : {"idle", "verify", "assertSubmission", "assertItem", "handler"},
              token : Nat, late : BOOLEAN, handler : {"none", "autosave", "upload"},
              submission : Submission \cup {None}, item : Item \cup {None}]

GuestInv ==
    /\ SerialInv
    /\ bound \in Binding /\ lapsed \in Nat
    /\ guest \in GuestCall
    /\ guest.pc # "idle" => guest.token \in 1..granted
    /\ guest.pc = "verify" /\ guest.late => guest.token <= lapsed
    /\ guest.pc \in {"assertSubmission", "assertItem", "handler"} => ~guest.late
    /\ guest.pc \in {"assertItem", "handler"} =>
          /\ requestOf[guest.submission] = bound.request
          /\ bound.recipient # None => recipientOf[guest.submission] = bound.recipient
    /\ guest.pc = "handler" /\ guest.item # None => submissionOf[guest.item] = guest.submission

LEMMA GuestEntitled == GuestInv => GuestIsEntitled
<1> SUFFICES ASSUME GuestInv, guest.pc = "handler" PROVE GuestIsEntitled
    BY DEF GuestIsEntitled, GuestAt
<1>1. granted \in Nat /\ link.usedCount \in Nat /\ guest.token \in Nat
    BY DEF GuestInv, SerialInv, CountInv, TypeOK, GuestCall
<1>2. guest.token \in 1..granted
    BY DEF GuestInv
<1>3. ~overlapped => guest.token <= link.usedCount
    BY <1>1, <1>2 DEF GuestInv, SerialInv
<1> QED
    BY <1>2, <1>3 DEF GuestInv, GuestIsEntitled

LEMMA GuestStarts == PortalInit => GuestInv
BY SerialInit DEF PortalInit, GuestInv, NoGuest, GuestCall

\* No step of the link takes a token back.
LEMMA TokensAreKept ==
    ASSUME SerialInv, [Next]_linkVars
    PROVE  SerialInv' /\ granted \in Nat /\ granted' \in Nat /\ granted <= granted'
<1>1. SerialInv' /\ granted \in Nat /\ granted' \in Nat
    BY SerialStep DEF linkVars, SerialInv, CountInv, TypeOK
<1>2. granted' = granted \/ granted' = granted + 1
    BY DEF linkVars, vars, Next, Step, ReadLink, Refuse, WriteUse, EmitAndGrant, Fail, Expire
<1> QED
    BY <1>1, <1>2

LEMMA GuestSteps ==
    ASSUME GuestInv, PortalNext
    PROVE  GuestInv'
<1> USE DEF GuestAt, GuestGoes
<1>0. /\ SerialInv /\ granted \in Nat /\ lapsed \in Nat /\ bound \in Binding /\ guest \in GuestCall
      /\ guest.token \in Nat
    BY DEF GuestInv, SerialInv, CountInv, TypeOK, GuestCall
<1>n. NoGuest \in GuestCall /\ NoGuest.pc = "idle"
    BY DEF NoGuest, GuestCall
<1>s. ASSUME UNCHANGED linkVars PROVE SerialInv' /\ granted' = granted
    BY <1>0, <1>s, SerialStep DEF linkVars, vars
<1>t. ASSUME TurnedAway, OnlyGuest PROVE GuestInv'
    BY <1>0, <1>n, <1>s, <1>t DEF TurnedAway, OnlyGuest, GuestInv
<1>1. CASE Next /\ UNCHANGED accessVars
    <2>1. SerialInv' /\ granted' \in Nat /\ granted <= granted'
        BY <1>0, <1>1, TokensAreKept
    <2>2. bound' = bound /\ lapsed' = lapsed /\ guest' = guest
        BY <1>1 DEF accessVars
    <2> QED
        BY <1>0, <2>1, <2>2 DEF GuestInv
<1>2. CASE Lapse
    BY <1>0, <1>2, <1>s DEF Lapse, GuestInv
<1>3. ASSUME NEW t \in 1..GrantBound, NEW s \in Submission \cup {None}, NEW i \in Item \cup {None},
             NEW h \in {"autosave", "upload"}, Enter(t, h, s, i)
      PROVE  GuestInv'
    <2>1. guest' = [pc |-> "verify", token |-> t, late |-> t <= lapsed, handler |-> h,
                    submission |-> s, item |-> i]
          /\ t \in 1..granted /\ OnlyGuest
        BY <1>3 DEF Enter, NoGuest
    <2>2. t \in Nat /\ (t <= lapsed) \in BOOLEAN
        BY <1>0, <2>1
    <2>3. guest' \in GuestCall
        BY <2>1, <2>2 DEF GuestCall
    <2> QED
        BY <1>0, <1>s, <2>1, <2>3 DEF OnlyGuest, GuestInv
<1>4. CASE VerifyToken
    <2> DEFINE g == [guest EXCEPT !.pc = "assertSubmission",
                        !.submission = IF guest.handler = "upload" THEN TokenPayload.submission ELSE @]
    <2>1. OnlyGuest /\ guest.pc = "verify" /\ (TurnedAway \/ (guest' = g /\ ~(guest.token <= lapsed)))
        BY <1>4 DEF VerifyToken
    <2>2. TokenPayload.submission \in Submission \cup {None}
        BY <1>0 DEF TokenPayload, Binding
    <2>3. g \in GuestCall /\ g.pc = "assertSubmission" /\ g.token = guest.token /\ g.late = guest.late
        BY <1>0, <2>2 DEF GuestCall
    <2> HIDE DEF g
    <2>4. CASE TurnedAway
        BY <1>t, <2>1, <2>4
    <2>5. CASE guest' = g /\ ~(guest.token <= lapsed)
        BY <1>0, <1>s, <2>1, <2>3, <2>5 DEF OnlyGuest, GuestInv
    <2> QED
        BY <2>1, <2>4, <2>5
<1>5. CASE AssertSubmission
    <2> DEFINE g == [guest EXCEPT !.pc = IF guest.item = None THEN "handler" ELSE "assertItem"]
    <2>1. OnlyGuest /\ guest.pc = "assertSubmission"
          /\ (TurnedAway \/ (guest' = g /\ SubmissionIsOpen(guest.submission)))
        BY <1>5 DEF AssertSubmission
    <2>2. /\ g \in GuestCall /\ g.token = guest.token /\ g.late = guest.late
          /\ g.pc \in {"handler", "assertItem"} /\ (g.pc = "handler" => g.item = None)
          /\ g.submission = guest.submission /\ g.item = guest.item
        BY <1>0 DEF GuestCall
    <2> HIDE DEF g
    <2>3. CASE TurnedAway
        BY <1>t, <2>1, <2>3
    <2>4. CASE guest' = g /\ SubmissionIsOpen(guest.submission)
        BY <1>0, <1>s, <2>1, <2>2, <2>4 DEF OnlyGuest, GuestInv, SubmissionIsOpen, TokenPayload
    <2> QED
        BY <2>1, <2>3, <2>4
<1>6. CASE AssertItem
    <2> DEFINE g == [guest EXCEPT !.pc = "handler"]
    <2>1. OnlyGuest /\ guest.pc = "assertItem"
          /\ (TurnedAway \/ (guest' = g /\ submissionOf[guest.item] = guest.submission))
        BY <1>6 DEF AssertItem
    <2>2. /\ g \in GuestCall /\ g.token = guest.token /\ g.late = guest.late /\ g.pc = "handler"
          /\ g.submission = guest.submission /\ g.item = guest.item
        BY <1>0 DEF GuestCall
    <2> HIDE DEF g
    <2>3. CASE TurnedAway
        BY <1>t, <2>1, <2>3
    <2>4. CASE guest' = g /\ submissionOf[guest.item] = guest.submission
        BY <1>0, <1>s, <2>1, <2>2, <2>4 DEF OnlyGuest, GuestInv
    <2> QED
        BY <2>1, <2>3, <2>4
<1>7. CASE AnswerGuest
    BY <1>t, <1>7 DEF AnswerGuest
<1> QED
    BY <1>1, <1>2, <1>3, <1>4, <1>5, <1>6, <1>7 DEF PortalNext

----------------------------------------------------------------------------
\* By whichever door: whoever gets as far as a handler is entitled to it, for every
\* organization and whatever happens to its sessions, users, workspaces and links
\* between the statements of the guards (A1874-2048, workspace-membership.guard
\* 38-79, organization-policy.guard 29-58, portal.controller 94-197).
THEOREM EntitledOnly == AccessSpec => []HandlersRunForTheEntitled
<1> DEFINE Inv == BearerInv /\ GuestInv
<1>1. AccessInit => Inv
    BY BearerStarts, GuestStarts DEF AccessInit
<1>2. Inv /\ [AccessNext]_allVars => Inv'
    <2> SUFFICES ASSUME Inv, [AccessNext]_allVars PROVE Inv'
        OBVIOUS
    <2>1. ASSUME UNCHANGED bearerVars PROVE BearerInv'
        BY <2>1 DEF bearerVars, rowVars, userVars, BearerInv, RowTypes, Knows
    <2>2. ASSUME UNCHANGED <<linkVars, accessVars>> PROVE GuestInv'
        <3>1. SerialInv'
            BY <2>2, SerialStep DEF linkVars, GuestInv
        <3>2. granted' = granted /\ bound' = bound /\ lapsed' = lapsed /\ guest' = guest
            BY <2>2 DEF linkVars, vars, accessVars
        <3> QED
            BY <3>1, <3>2 DEF GuestInv
    <2>3. ASSUME BearerNext PROVE BearerInv'
        BY <2>3, RowSteps, CallSteps DEF BearerNext
    <2>4. ASSUME PortalNext PROVE GuestInv'
        BY <2>4, GuestSteps
    <2> QED
        BY <2>1, <2>2, <2>3, <2>4 DEF AccessNext, allVars
<1>3. Inv => HandlersRunForTheEntitled
    BY BearerEntitled, GuestEntitled DEF HandlersRunForTheEntitled
<1> QED
    BY <1>1, <1>2, <1>3, PTL DEF AccessSpec
=============================================================================
