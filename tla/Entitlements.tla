------------------------------ MODULE Entitlements ------------------------------
(***************************************************************************)
(* OrganizationEntitlementsService: the limits of an organization's plan   *)
(* and the rows they are measured by.  assertWithinLimit counts rows that  *)
(* the caller adds to later, in another statement and after other calls.   *)
(* The operations that are measured extend this module: FileStorage and    *)
(* Reminders.                                                              *)
(***************************************************************************)
EXTENDS Naturals, FiniteSets, FiniteSetsExt

CONSTANTS
    Call,        \* calls of the API; each is made once
    None,
    File,        \* files that are uploaded: [size, detected, declared]
    Request,
    Limit,       \* the plan's limit of each key, None if it has none
    LastMonth    \* bound: the clock stops there

Key == {"storageBytes", "activeRequests", "emailPerMonth", "smsPerMonth"}
Channel == {"email", "sms", "whatsapp"}

ASSUME LimitAssumption ==
    /\ Limit \in [Key -> (Nat \ {0}) \cup {None}]
    /\ None \notin Nat \cup Key
    /\ LastMonth \in Nat
    /\ IsFiniteSet(Request)   \* ids are UUIDs

VARIABLES
    fileRow,   \* file_assets, all active: [key, file]
    request,   \* "none", "active" (draft to completed) or "closed"
    mailed,    \* audit_events of dispatched mail and reminders: [call, channel, month]
    month,
    call,
    excused,   \* observed: keys whose limit may be passed
    troubled   \* observed: calls that an answer, a write or the process got lost of

usageVars == <<fileRow, request, mailed, month>>
observed == <<excused, troubled>>

NoCall == [op |-> "none", pc |-> "idle", file |-> None, request |-> None, channel |-> None,
           holds |-> None, live |-> FALSE]

Become(c, r) == call' = [call EXCEPT ![c] = r]
Go(c, pc) == call' = [call EXCEPT ![c].pc = pc]
End(c) == call' = [call EXCEPT ![c].pc = "done", ![c].holds = None]
At(c, op, pc) == call[c].op = op /\ call[c].pc = pc
Idle(c) == call[c].pc = "idle"
Trouble(c) == troubled' = troubled \cup {c}

----------------------------------------------------------------------------

SumStorageBytes == MapThenSumSet(LAMBDA r : r.file.size, fileRow)

CountActiveRequests == Cardinality({r \in Request : request[r] = "active"})

CountSentThisMonth(channel) ==
    Cardinality({e \in mailed : e.channel = channel /\ e.month = month})

Usage(key) ==
    CASE key = "storageBytes"   -> SumStorageBytes
      [] key = "activeRequests" -> CountActiveRequests
      [] key = "emailPerMonth"  -> CountSentThisMonth("email")
      [] key = "smsPerMonth"    -> CountSentThisMonth("sms")

\* Mistake: what is about to be added is forgotten.
WithinLimitNow(key, increment) ==
    key = None \/ Limit[key] = None \/ Usage(key) <= Limit[key]

\* A call that is not measured names no key.
WithinLimit(key, increment) ==
    key = None \/ Limit[key] = None \/ Usage(key) + increment <= Limit[key]

\* A call holds a key from its check until what it adds is counted.
Holders(key) == {c \in Call : call[c].holds = key}

\* assertWithinLimit, after which the call goes on as r or ends.
AssertWithinLimit(c, key, increment, r) ==
    IF WithinLimit(key, increment)
    THEN /\ Become(c, [r EXCEPT !.holds = key])
         /\ excused' = IF key # None /\ Holders(key) # {} THEN excused \cup {key} ELSE excused
    ELSE /\ Become(c, [r EXCEPT !.pc = "done"])
         /\ UNCHANGED excused

----------------------------------------------------------------------------
(* Requests, as far as they are counted *)

\* createRequest (its other statements are in RequestWorkflow).
CreateRequest(c, r) ==
    /\ Idle(c) /\ request[r] = "none"
    /\ AssertWithinLimit(c, "activeRequests", 1,
           [NoCall EXCEPT !.op = "create", !.pc = "insert", !.request = r])
    /\ UNCHANGED <<usageVars, troubled>>

InsertRequest(c) ==
    /\ At(c, "create", "insert")
    /\ request' = [request EXCEPT ![call[c].request] = "active"]
    /\ End(c)
    /\ UNCHANGED <<fileRow, mailed, month, observed>>

CloseRequest(r) ==
    /\ request[r] = "active"
    /\ request' = [request EXCEPT ![r] = "closed"]
    /\ UNCHANGED <<fileRow, mailed, month, call, observed>>

\* reopenRequest asks for no entitlement.
ReopenRequest(r) ==
    /\ request[r] = "closed"
    /\ request' = [request EXCEPT ![r] = "active"]
    /\ excused' = excused \cup {"activeRequests"}
    /\ UNCHANGED <<fileRow, mailed, month, call, troubled>>

\* A send, or the recalculation after any change, reads the row and writes the
\* status it decided on in another statement, whatever the row says by then.
ReadStatus(c, r) ==
    /\ Idle(c) /\ request[r] = "active"
    /\ Become(c, [NoCall EXCEPT !.op = "status", !.pc = "writeStatus", !.request = r])
    /\ UNCHANGED <<usageVars, observed>>

WriteStatus(c) ==
    LET r == call[c].request
    IN  /\ At(c, "status", "writeStatus")
        /\ request' = [request EXCEPT ![r] = "active"]
        /\ excused' = IF request[r] = "active" THEN excused
                      ELSE excused \cup {"activeRequests"}
        /\ End(c)
        /\ UNCHANGED <<fileRow, mailed, month, troubled>>

NextMonth ==
    /\ month < LastMonth
    /\ month' = month + 1
    /\ UNCHANGED <<fileRow, request, mailed, call, observed>>

UsageInit ==
    /\ fileRow = {} /\ mailed = {} /\ month = 0
    /\ request \in [Request -> {"none", "active", "closed"}]
    /\ Limit["activeRequests"] # None => CountActiveRequests <= Limit["activeRequests"]
    /\ call = [c \in Call |-> NoCall]
    /\ excused = {} /\ troubled = {}

UsageNext ==
    \/ \E c \in Call, r \in Request : CreateRequest(c, r) \/ ReadStatus(c, r)
    \/ \E c \in Call : InsertRequest(c) \/ WriteStatus(c)
    \/ \E r \in Request : CloseRequest(r) \/ ReopenRequest(r)
    \/ NextMonth
=============================================================================
