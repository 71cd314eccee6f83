------------------------------- MODULE PlanUsage -------------------------------
(***************************************************************************)
(* The measured operations of one organization together: uploads (module   *)
(* FileStorage), reminders and account mails (Reminders) and requests      *)
(* (Entitlements), and a process that may die between any two steps.       *)
(***************************************************************************)
EXTENDS FileStorage, Reminders

planVars == <<usageVars, call, observed, object, config, sent>>

InProgress == {c \in Call : call[c].pc \notin {"idle", "done"}}

\* The process dies: calls in progress are over, rows and objects stay.
Crash ==
    /\ InProgress # {}
    /\ call' = [c \in Call |-> IF c \in InProgress
                               THEN [call[c] EXCEPT !.pc = "done", !.holds = None]
                               ELSE call[c]]
    /\ troubled' = troubled \cup InProgress
    /\ UNCHANGED <<usageVars, excused, object, config, sent>>

PlanInit == UsageInit /\ FileInit /\ ReminderInit

PlanNext ==
    \/ UsageNext /\ UNCHANGED <<object, config, sent>>
    \/ FileNext /\ UNCHANGED <<config, sent>>
    \/ ReminderNext /\ UNCHANGED object
    \/ Crash

PlanSpec == PlanInit /\ [][PlanNext]_planVars

----------------------------------------------------------------------------

PlanTypeOK ==
    /\ fileRow \subseteq [key : Call, file : File]
    /\ request \in [Request -> {"none", "active", "closed"}]
    /\ mailed \subseteq [call : Call, channel : Channel, month : 0 .. LastMonth]
    /\ month \in 0 .. LastMonth
    /\ \A c \in Call : call[c].holds \in Key \cup {None}
    /\ excused \subseteq Key /\ troubled \subseteq Call
    /\ object \subseteq Call /\ sent \subseteq Call
    /\ config \subseteq Channel

\* What an organization uses stays within its plan, from month to month, unless
\* two calls that add to the same key have overlapped between check and count,
\* or a closed request became active again: it was reopened, or a status that was
\* decided on before it was closed was written after (request-workflow L397-412,
\* L1327-1364).
LimitsHold ==
    \A key \in Key \ excused : Limit[key] # None => Usage(key) <= Limit[key]

HasRow(c) == \E r \in fileRow : r.key = c

\* Every row of file_assets has its object, and an object whose upload is over
\* has its row: an upload that fails cleans up behind itself, unless an answer,
\* the deletion or the process was lost.
FilesAndObjectsAgree ==
    \A c \in Call \ troubled :
        /\ HasRow(c) => c \in object
        /\ c \in object /\ call[c].pc = "done" => HasRow(c)

Counted(c) == \E e \in mailed : e.call = c

\* The audit events that the plan counts are the messages that went out: nothing
\* that a provider refused, and everything it took, unless its answer, the audit
\* insert or the process was lost.
MailIsCounted ==
    \A c \in Call \ troubled :
        /\ Counted(c) /\ call[c].live => c \in sent
        /\ c \in sent => Counted(c) \/ call[c].pc = "audit"
=============================================================================
