-------------------------------- MODULE Records --------------------------------
(***************************************************************************)
(* The services that keep plain records: clients, templates, workspaces    *)
(* and OAuth applications, and the audit events that are only added.  An   *)
(* edit reads the row, merges what is given into what it has read and      *)
(* writes the whole row back by its id; a creation takes its createdAt     *)
(* before it inserts.  Calls overlap between the two statements, and a     *)
(* secret that was stored is returned only after one more, the insert of   *)
(* an audit event, which is among those of RecordEvent.                    *)
(*                                                                         *)
(* Names, addresses and descriptions are left out, except that the place   *)
(* of a row in its list is kept: the creation time, or a workspace's name. *)
(***************************************************************************)
EXTENDS Naturals, FiniteSets

CONSTANTS
    Row,     \* rows that are there or may be created
    Call,    \* calls of the API, each is made once; also the secrets they make
    None,
    There,   \* the rows of the start
    Place    \* positions in a list: creation times, or names of workspaces

ASSUME RecordNames ==
    /\ None \notin Row \cup Call
    /\ There \subseteq Row /\ IsFiniteSet(There)
    /\ Place \subseteq Nat

ClientStatus == {"active", "archived"}
TemplateStatus == {"draft", "published", "archived"}
WorkspaceStatus == {"active", "disabled", "archived"}
ApplicationStatus == {"active", "paused", "revoked"}
ApplicationType == {"confidential", "public"}
Kind == {"client", "template", "workspace", "application", "event"}

VARIABLES
    row,      \* the tables
    call,     \* what each call does and has read
    clock,    \* the latest creation time
    handed,   \* observed: the secret that was last given to an application's owner
    lost,     \* observed: secrets that were stored and never given to anybody
    overrun   \* observed: applications whose credentials were written by two calls at a time

NoRow == [kind |-> "none", status |-> "none", dated |-> FALSE, type |-> "none",
          secret |-> None, place |-> 0]

NoCall == [pc |-> "idle", kind |-> "none", row |-> None, read |-> NoRow, place |-> 0]

Exists(r) == row[r].kind # "none"
At(c, pc) == call[c].pc = pc
Become(c, record) == call' = [call EXCEPT ![c] = record]
End(c) == Become(c, [NoCall EXCEPT !.pc = "done"])

----------------------------------------------------------------------------
(* Creating *)

StartCreate(c, k) ==
    /\ At(c, "idle")
    /\ clock + 1 \in Place
    /\ clock' = clock + 1
    /\ Become(c, [NoCall EXCEPT !.pc = "insert", !.kind = k, !.place = clock + 1])
    /\ UNCHANGED <<row, handed, lost, overrun>>

\* The call has stored a secret in row r and will return it.
ToHandOver(c, r) == Become(c, [NoCall EXCEPT !.pc = "handOver", !.row = r])

OnItsWay(r) == {c \in Call : At(c, "handOver") /\ call[c].row = r}

Insert(c, r, k, record) ==
    /\ At(c, "insert") /\ call[c].kind = k
    /\ ~Exists(r)
    /\ row' = [row EXCEPT ![r] = [record EXCEPT !.kind = k]]
    /\ IF record.secret = None THEN End(c) ELSE ToHandOver(c, r)
    /\ UNCHANGED <<clock, handed, lost, overrun>>

CreateClient(c, r) ==
    Insert(c, r, "client", [NoRow EXCEPT !.status = "active", !.place = call[c].place])

CreateTemplate(c, r, status) ==
    Insert(c, r, "template", [NoRow EXCEPT !.status = status, !.place = call[c].place,
                                           !.dated = status = "archived"])

CreateWorkspace(c, r, status, name) ==
    Insert(c, r, "workspace", [NoRow EXCEPT !.status = status, !.place = name])

CreateApplication(c, r, type) ==
    Insert(c, r, "application",
           [NoRow EXCEPT !.status = "active", !.type = type, !.place = call[c].place,
                         !.secret = IF type = "confidential" THEN c ELSE None])

\* AuditLogService.record.
RecordEvent(c, r) ==
    Insert(c, r, "event", [NoRow EXCEPT !.status = "active", !.place = call[c].place])

\* The audit event is stored and the secret returned.
HandOver(c) ==
    /\ At(c, "handOver")
    /\ handed' = [handed EXCEPT ![call[c].row] = c]
    /\ End(c)
    /\ UNCHANGED <<row, clock, lost, overrun>>

\* The audit event is turned down, or the process ends: the secret is stored as
\* a hash only, so that nobody will ever know it.
HandOverFails(c) ==
    /\ At(c, "handOver")
    /\ lost' = lost \cup {c}
    /\ End(c)
    /\ UNCHANGED <<row, clock, handed, overrun>>

----------------------------------------------------------------------------
(* Editing *)

\* getClient, getTemplate, getWorkspace and getApplication.
StartEdit(c, r) ==
    /\ At(c, "idle")
    /\ Exists(r) /\ row[r].kind # "event"
    /\ Become(c, [NoCall EXCEPT !.pc = "edit", !.kind = row[r].kind, !.row = r, !.read = row[r]])
    /\ UNCHANGED <<row, clock, handed, lost, overrun>>

\* What is not given is written back as it was read.
Given(given, read) == IF given = "keep" THEN read ELSE given

UpdatedClient(read, status) ==
    [read EXCEPT !.status = Given(status, @),
                 !.dated = CASE status = "archived" -> TRUE
                             [] status = "active"   -> FALSE
                             [] OTHER               -> @]

\* Mistake: a template that is published again keeps its date.
UpdatedTemplateKeepingDate(read, status) ==
    [read EXCEPT !.status = Given(status, @),
                 !.dated = CASE status = "archived" -> TRUE
                             [] status = "draft"    -> FALSE
                             [] OTHER               -> @]

UpdatedTemplate(read, status) ==
    [read EXCEPT !.status = Given(status, @),
                 !.dated = CASE status = "archived"               -> TRUE
                             [] status \in {"draft", "published"} -> FALSE
                             [] OTHER                             -> @]

UpdatedWorkspace(read, status, name) ==
    [read EXCEPT !.status = Given(status, @), !.place = name]

\* Mistake: a public application keeps its secret.
UpdatedApplicationKeepingSecret(read, type, status) ==
    [read EXCEPT !.type = Given(type, @), !.status = Given(status, @)]

\* The status goes back as it was read, too: such an edit undoes a revocation
\* that came in between.
UpdatedApplication(read, type, status) ==
    [read EXCEPT !.type = Given(type, @),
                 !.status = Given(status, @),
                 !.secret = IF Given(type, read.type) = "public" THEN None ELSE @]

\* The UPDATE names the row by its id only.
Write(c, k, record) ==
    /\ At(c, "edit") /\ call[c].kind = k
    /\ row' = [row EXCEPT ![call[c].row] = record]
    /\ End(c)
    /\ UNCHANGED <<clock, handed, lost>>

UpdateClient(c, status) ==
    /\ Write(c, "client", UpdatedClient(call[c].read, status))
    /\ UNCHANGED overrun

UpdateTemplate(c, status) ==
    /\ Write(c, "template", UpdatedTemplate(call[c].read, status))
    /\ UNCHANGED overrun

\* The name is given or kept; another row may have it.
UpdateWorkspace(c, status, name) ==
    /\ Write(c, "workspace", UpdatedWorkspace(call[c].read, status, name))
    /\ UNCHANGED overrun

Credentials(record) == <<record.type, record.secret>>

\* The row was given other credentials since it was read.
Overruns(c) ==
    IF Credentials(row[call[c].row]) # Credentials(call[c].read) THEN {call[c].row} ELSE {}

UpdateApplication(c, type, status) ==
    /\ Write(c, "application", UpdatedApplication(call[c].read, type, status))
    /\ overrun' = overrun \cup Overruns(c)

\* Only a confidential application, as it was read, gets a new secret.  The
\* UPDATE sets the secret and nothing else.
RotateApplicationSecret(c) ==
    LET r == call[c].row
    IN  /\ At(c, "edit") /\ call[c].read.type = "confidential"
        /\ row' = [row EXCEPT ![r].secret = c]
        /\ overrun' = overrun \cup
               (IF row[r].type = "public" \/ OnItsWay(r) # {} THEN {r} ELSE {})
        /\ ToHandOver(c, r)
        /\ UNCHANGED <<clock, handed, lost>>

\* A foreign key or a unique index turns the statement down.
StatementFails(c) ==
    /\ call[c].pc \in {"insert", "edit"}
    /\ End(c)
    /\ UNCHANGED <<row, clock, handed, lost, overrun>>

----------------------------------------------------------------------------

InitialRow(k, status, type, place) ==
    [kind |-> k, status |-> status, dated |-> k \in {"client", "template"} /\ status = "archived",
     type |-> type, secret |-> IF type = "confidential" THEN "initial" ELSE None, place |-> place]

StatusOf(k) == CASE k = "client"      -> ClientStatus
                 [] k = "template"    -> TemplateStatus
                 [] k = "workspace"   -> WorkspaceStatus
                 [] k = "application" -> ApplicationStatus
                 [] OTHER             -> {"active"}

TypeOf(k) == IF k = "application" THEN ApplicationType ELSE {"none"}

\* At the start there are rows of one kind, at their places in its list.
RecordsInit ==
    /\ \E k \in Kind :
           \E place \in [There -> 1..Cardinality(There)],
              status \in [There -> StatusOf(k)], type \in [There -> TypeOf(k)] :
               /\ \A a, b \in There : place[a] = place[b] => a = b
               /\ row = [r \in Row |-> IF r \in There
                                       THEN InitialRow(k, status[r], type[r], place[r])
                                       ELSE NoRow]
    /\ clock = Cardinality(There)
    /\ call = [c \in Call |-> NoCall]
    /\ handed = [r \in Row |-> row[r].secret]
    /\ lost = {} /\ overrun = {}

Create(c) ==
    \/ \E k \in Kind : StartCreate(c, k)
    \/ \E r \in Row :
           \/ CreateClient(c, r) \/ RecordEvent(c, r)
           \/ \E status \in TemplateStatus : CreateTemplate(c, r, status)
           \/ \E status \in WorkspaceStatus, name \in Place : CreateWorkspace(c, r, status, name)
           \/ \E type \in ApplicationType : CreateApplication(c, r, type)

Update(c) ==
    \/ \E r \in Row : StartEdit(c, r)
    \/ \E status \in ClientStatus \cup {"keep"} : UpdateClient(c, status)
    \/ \E status \in TemplateStatus \cup {"keep"} : UpdateTemplate(c, status)
    \/ \E status \in WorkspaceStatus \cup {"keep"}, name \in Place : UpdateWorkspace(c, status, name)
    \/ \E type \in ApplicationType \cup {"keep"}, status \in ApplicationStatus \cup {"keep"} :
           UpdateApplication(c, type, status)
    \/ RotateApplicationSecret(c)

Answer(c) == HandOver(c) \/ HandOverFails(c)

RecordsNext == \E c \in Call : Create(c) \/ Update(c) \/ Answer(c) \/ StatementFails(c)

recordVars == <<row, call, clock, handed, lost, overrun>>

RecordsSpec == RecordsInit /\ [][RecordsNext]_recordVars

----------------------------------------------------------------------------
(* Properties *)

RowRecord == [kind : Kind \cup {"none"},
              status : {"none"} \cup ClientStatus \cup TemplateStatus \cup WorkspaceStatus
                           \cup ApplicationStatus,
              dated : BOOLEAN, type : ApplicationType \cup {"none"},
              secret : Call \cup {None, "initial"}, place : Nat]

CallRecord == [pc : {"idle", "insert", "edit", "handOver", "done"}, kind : Kind \cup {"none"},
               row : Row \cup {None}, read : RowRecord, place : Nat]

RecordsTypeOK ==
    /\ row \in [Row -> RowRecord]
    /\ call \in [Call -> CallRecord]
    /\ clock \in Nat
    /\ handed \in [Row -> Call \cup {None, "initial"}]
    /\ lost \subseteq Call
    /\ overrun \subseteq Row

\* A client or a template has a date of archiving exactly if it is archived,
\* however edits overlap: the status and the date always come from one read.
ArchivedIffDated ==
    \A r \in Row : row[r].kind \in {"client", "template"} =>
        (row[r].status = "archived" <=> row[r].dated)

\* The secret that is stored is the one that its owner was given last or is
\* about to be given, and a public application has none.  There are two ways out:
\* a call that failed between storing its secret and returning it, and two calls
\* at a time: an edit or a rotation of an application that was given other
\* credentials since it was read, or a rotation while the secret of another is
\* on its way.
SecretInHands ==
    \A r \in Row : row[r].kind = "application" /\ r \notin overrun =>
        /\ row[r].secret \in {None, handed[r]} \cup OnItsWay(r) \cup lost
        /\ row[r].type = "public" => row[r].secret = None
=============================================================================
