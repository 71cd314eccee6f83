---------------------------- MODULE RequestWorkflow ----------------------------
(***************************************************************************)
(* RequestWorkflowService: one document request, the submissions of its    *)
(* recipients and the items of each submission, driven by HTTP handlers    *)
(* that run concurrently on one Node.js event loop and one Postgres pool.  *)
(*                                                                         *)
(* No handler opens a transaction: every awaited statement commits on its  *)
(* own, so a handler is a sequence of actions, one per statement that      *)
(* reads or writes state, and the statements of several handlers           *)
(* interleave.  What a handler read earlier is kept in its call record.    *)
(*                                                                         *)
(* Requests never share rows, so one request stands for all of them.       *)
(***************************************************************************)
EXTENDS Integers, FiniteSets

CONSTANTS
    Handlers,     \* concurrent executions of the service's methods
    Subs,         \* the recipients of the request, and so its submissions
    Items,        \* the submission items of all submissions
    SubOf,        \* the submission of each item (one item per template field)
    NoSub,        \* the target of a handler that works on no submission
    HasDueAt,     \* whether the request has a due date
    EventBound,   \* at most this many of an event are counted
    MayFail       \* whether an awaited statement may throw, or its process die

ItemsOf(s) == {i \in Items : SubOf[i] = s}

ASSUME Switches == HasDueAt \in BOOLEAN /\ MayFail \in BOOLEAN /\ EventBound \in Nat
ASSUME ItemsHaveSubmissions == SubOf \in [Items -> Subs] /\ NoSub \notin Subs
ASSUME RowsAreFinite == IsFiniteSet(Items) /\ IsFiniteSet(Subs)

VARIABLES
    request,      \* the row of table requests
    submission,   \* the rows of table submissions
    item,         \* the status column of table submission_items
    answered,     \* the items that have a row in table answers
    pastDue,      \* the clock has passed request.dueAt
    events,       \* webhook events emitted since the last opening / completion
    call          \* what each handler is doing and what it has read so far

rows == <<request, submission, item, answered>>
vars == <<request, submission, item, answered, pastDue, events, call>>

----------------------------------------------------------------------------
(* Rows and calls *)

\* "cancelled" and "changes_requested" are in the enums and never written.
RequestStatus == {"absent", "draft", "sent", "in_progress", "completed", "closed"}
SubmissionStatus == {"absent", "in_progress", "completed", "reopened"}
ItemStatus == {"absent", "pending", "provided", "approved", "rejected"}

RequestRow == [status : RequestStatus, sentAt : BOOLEAN, closedAt : BOOLEAN,
               overdueNotifiedAt : BOOLEAN]
SubmissionRow == [status : SubmissionStatus, progressPercent : 0..100,
                  submittedAt : BOOLEAN]

EventCounts == [completed : 0..EventBound, overdue : 0..EventBound]

NoRequest == [status |-> "absent", sentAt |-> FALSE, closedAt |-> FALSE,
              overdueNotifiedAt |-> FALSE]
NoSubmission == [status |-> "absent", progressPercent |-> 0, submittedAt |-> FALSE]

PC == {"idle",
       "insertSubmission", "insertItems",                       \* createRequest
       "transition", "reopenSubmissions",                       \* transitionRequestStatus
       "upsertAnswers", "provideItems",                         \* autosaveSubmissionAnswers
       "review",                                                \* reviewSubmissionItem
       "count", "writeProgress",                                \* recalculateSubmissionProgress
       "sync", "countSubmissions", "countCompleted", "signal", "emit"}

Actions == {"send", "close", "reopen"}

Calls == [pc : PC, todo : SUBSET Subs, action : Actions \cup {"none"},
          sub : Subs \cup {NoSub}, items : SUBSET Items, verdict : ItemStatus,
          prev : SubmissionStatus, progress : 0..100, late : BOOLEAN,
          row : RequestRow, total : 0..Cardinality(Subs), allCompleted : BOOLEAN]

NoCall == [pc |-> "idle", todo |-> {}, action |-> "none", sub |-> NoSub,
           items |-> {}, verdict |-> "absent", prev |-> "absent", progress |-> 0,
           late |-> FALSE, row |-> NoRequest, total |-> 0, allCompleted |-> FALSE]

\* A handler that is to write a transition knows which one.
CallOK(c) == c \in Calls /\ (c.pc = "transition" => c.action \in Actions)

Idle(h) == call[h].pc = "idle"
At(h, pc) == call[h].pc = pc
Become(h, c) == call' = [call EXCEPT ![h] = c]
Goto(h, pc) == Become(h, [call[h] EXCEPT !.pc = pc])
Return(h) == Become(h, NoCall)
\* The items are written: of its arguments the handler needs only these now.
GotoCount(h) ==
    Become(h, [call[h] EXCEPT !.pc = "count", !.items = {}, !.verdict = "absent"])

InsertedSubs == {s \in Subs : submission[s].status # "absent"}
CompletedSubs == {s \in Subs : submission[s].status = "completed"}
AnsweredItems(s) == {i \in ItemsOf(s) : item[i] \in {"provided", "approved"}}
InsertedItems(s) == {i \in ItemsOf(s) : item[i] # "absent"}

\* Math.round turns 99.5 into 100: with items in done, a submission counts as
\* complete while at most one item in 200 is not; below 200 items, when all are.
CountsAsAll(s, done) ==
    200 * Cardinality(ItemsOf(s) \ done) <= Cardinality(ItemsOf(s))

\* With EventBound = 2 a duplicate shows; with 0 nothing is counted.
Count(n) == IF n < EventBound THEN n + 1 ELSE n

----------------------------------------------------------------------------
(* createRequest: the request, then per recipient a submission, then its    *)
(* items in one batch insert; every insert is a commit of its own.          *)

CreateRequest(h) ==
    /\ Idle(h)
    /\ request.status = "absent"
    /\ request' = [NoRequest EXCEPT !.status = "draft"]
    /\ \E recipients \in SUBSET Subs :
          Become(h, [NoCall EXCEPT !.pc = "insertSubmission", !.todo = recipients])
    /\ UNCHANGED <<submission, item, answered, pastDue, events>>

InsertSubmission(h) ==
    /\ At(h, "insertSubmission")
    /\ \E s \in call[h].todo :
          /\ submission' = [submission EXCEPT ![s] =
                [status |-> "in_progress", progressPercent |-> 0, submittedAt |-> FALSE]]
          /\ Become(h, [call[h] EXCEPT !.pc = "insertItems", !.sub = s,
                                       !.todo = @ \ {s}])
    /\ UNCHANGED <<request, item, answered, pastDue, events>>

InsertItems(h) ==
    /\ At(h, "insertItems")
    /\ item' = [i \in Items |-> IF SubOf[i] = call[h].sub THEN "pending" ELSE item[i]]
    /\ Goto(h, "insertSubmission")
    /\ UNCHANGED <<request, submission, answered, pastDue, events>>

CreateDone(h) ==
    /\ At(h, "insertSubmission")
    /\ call[h].todo = {}
    /\ Return(h)
    /\ UNCHANGED <<rows, pastDue, events>>

----------------------------------------------------------------------------
(* transitionRequestStatus: the allowed-from check is made on the row read  *)
(* first; the UPDATE names the id only and writes back columns of that row. *)

TransitionRules == [send   |-> {"draft"},
                    close  |-> {"sent", "in_progress", "completed"},
                    reopen |-> {"closed"}]

NextStatus == [send |-> "sent", close |-> "closed", reopen |-> "in_progress"]

StartTransition(h, action) ==
    /\ Idle(h)
    /\ request.status \in TransitionRules[action]
    /\ Become(h, [NoCall EXCEPT !.pc = "transition", !.action = action,
                                !.row = request, !.late = pastDue])
    /\ UNCHANGED <<rows, pastDue, events>>

WriteTransition(h) ==
    LET action == call[h].action
        row == call[h].row
    IN  /\ At(h, "transition")
        /\ request' = [status |-> NextStatus[action],
                       sentAt |-> action = "send" \/ row.sentAt,
                       closedAt |-> action = "close"
                                       \/ (action # "reopen" /\ row.closedAt),
                       overdueNotifiedAt |-> action # "reopen"
                                                /\ row.overdueNotifiedAt]
        /\ events' = [completed |-> 0,
                      overdue |-> IF action = "reopen" THEN 0 ELSE events.overdue]
        /\ IF action = "close"
              THEN Return(h)
              ELSE Become(h, [NoCall EXCEPT
                      !.pc = IF action = "reopen" THEN "reopenSubmissions" ELSE "sync",
                      !.late = call[h].late])
        /\ UNCHANGED <<submission, item, answered, pastDue>>

ReopenSubmissions(h) ==
    /\ At(h, "reopenSubmissions")
    /\ submission' = [s \in Subs |->
          IF s \in InsertedSubs
             THEN [submission[s] EXCEPT !.status = "reopened", !.submittedAt = FALSE]
             ELSE submission[s]]
    /\ Goto(h, "sync")
    /\ UNCHANGED <<request, item, answered, pastDue, events>>

----------------------------------------------------------------------------
(* autosaveSubmissionAnswers: the submission's status is read first, and    *)
(* the items are validated; the status decides the outcome of the           *)
(* recalculation at the end.                                                *)

StartAutosave(h, s, chosen) ==
    /\ Idle(h)
    /\ s \in InsertedSubs
    /\ chosen # {} /\ chosen \subseteq InsertedItems(s)
    /\ Become(h, [NoCall EXCEPT !.pc = "upsertAnswers", !.sub = s, !.items = chosen,
                                !.prev = submission[s].status, !.late = pastDue])
    /\ UNCHANGED <<rows, pastDue, events>>

UpsertAnswers(h) ==
    /\ At(h, "upsertAnswers")
    /\ answered' = answered \cup call[h].items
    /\ Goto(h, "provideItems")
    /\ UNCHANGED <<request, submission, item, pastDue, events>>

ProvideItems(h) ==
    /\ At(h, "provideItems")
    /\ item' = [i \in Items |-> IF i \in call[h].items THEN "provided" ELSE item[i]]
    /\ GotoCount(h)
    /\ UNCHANGED <<request, submission, answered, pastDue, events>>

----------------------------------------------------------------------------
(* reviewSubmissionItem: approve or reject one item; the item's status is   *)
(* checked on the row read first.                                           *)

AllowedForReview == [approved |-> {"provided", "rejected", "approved"},
                     rejected |-> {"provided", "approved", "rejected"}]

StartReview(h, i, verdict) ==
    /\ Idle(h)
    /\ item[i] \in AllowedForReview[verdict]
    /\ Become(h, [NoCall EXCEPT !.pc = "review", !.sub = SubOf[i], !.items = {i},
                                !.verdict = verdict,
                                !.prev = submission[SubOf[i]].status, !.late = pastDue])
    /\ UNCHANGED <<rows, pastDue, events>>

\* Mistake: a review does not recalculate the submission's progress.
ReviewOnly(h) ==
    /\ At(h, "review")
    /\ item' = [i \in Items |-> IF i \in call[h].items THEN call[h].verdict ELSE item[i]]
    /\ Become(h, [NoCall EXCEPT !.pc = "sync", !.late = call[h].late])
    /\ UNCHANGED <<request, submission, answered, pastDue, events>>

WriteReview(h) ==
    /\ At(h, "review")
    /\ item' = [i \in Items |-> IF i \in call[h].items THEN call[h].verdict ELSE item[i]]
    /\ GotoCount(h)
    /\ UNCHANGED <<request, submission, answered, pastDue, events>>

----------------------------------------------------------------------------
(* recalculateSubmissionProgress: two counts (the items of a submission are *)
(* inserted in one batch, so they agree on the total), then one UPDATE.     *)

\* Math.round(100 * done / total), clamped to 0..100; 0 without items.
Progress(done, total) ==
    IF total = 0 THEN 0 ELSE (200 * done + total) \div (2 * total)

\* Mistake: the total leaves out the items that are still pending.
CountWithoutPending(h) ==
    LET s == call[h].sub
        touched == {i \in InsertedItems(s) : item[i] # "pending"}
    IN  /\ At(h, "count")
        /\ Become(h, [call[h] EXCEPT !.pc = "writeProgress",
              !.progress = Progress(Cardinality(AnsweredItems(s)), Cardinality(touched))])
        /\ UNCHANGED <<rows, pastDue, events>>

CountItems(h) ==
    LET s == call[h].sub
    IN  /\ At(h, "count")
        /\ Become(h, [call[h] EXCEPT !.pc = "writeProgress",
              !.progress = Progress(Cardinality(AnsweredItems(s)),
                                    Cardinality(InsertedItems(s)))])
        /\ UNCHANGED <<rows, pastDue, events>>

RecalculatedStatus(progress, prev) ==
    IF progress = 100 THEN "completed"
    ELSE IF prev \in {"completed", "reopened"} THEN "reopened"
    ELSE "in_progress"

WriteProgress(h) ==
    LET c == call[h]
    IN  /\ At(h, "writeProgress")
        /\ submission' = [submission EXCEPT ![c.sub] =
              [status |-> RecalculatedStatus(c.progress, c.prev),
               progressPercent |-> c.progress,
               submittedAt |-> c.progress = 100]]
        /\ Become(h, [NoCall EXCEPT !.pc = "sync", !.late = c.late])
        /\ UNCHANGED <<request, item, answered, pastDue, events>>

----------------------------------------------------------------------------
(* syncRequestLifecycleSignals: read the request, count the submissions,    *)
(* count the completed ones, write the columns that change, emit.           *)

SyncRead(h) ==
    /\ At(h, "sync")
    /\ Become(h, [call[h] EXCEPT !.pc = "countSubmissions",
          !.row = [NoRequest EXCEPT !.status = request.status,
                                    !.overdueNotifiedAt = request.overdueNotifiedAt]])
    /\ UNCHANGED <<rows, pastDue, events>>

CountSubmissions(h) ==
    /\ At(h, "countSubmissions")
    /\ Become(h, [call[h] EXCEPT !.pc = "countCompleted",
                                 !.total = Cardinality(InsertedSubs)])
    /\ UNCHANGED <<rows, pastDue, events>>

CountCompleted(h) ==
    /\ At(h, "countCompleted")
    /\ Become(h, [call[h] EXCEPT !.pc = "signal",
          !.allCompleted = call[h].total > 0 /\ Cardinality(CompletedSubs) = call[h].total])
    /\ UNCHANGED <<rows, pastDue, events>>

\* Mistake: a completed request never goes back to in_progress.
SyncedOneWay(status, allCompleted) ==
    IF status # "closed" /\ allCompleted THEN "completed" ELSE status

\* Mistake: closed requests are not exempt.
SyncedEvenIfClosed(status, allCompleted) ==
    IF allCompleted THEN "completed"
    ELSE IF status = "completed" THEN "in_progress"
    ELSE status

SyncedStatus(status, allCompleted) ==
    IF status = "closed" THEN status
    ELSE IF allCompleted THEN "completed"
    ELSE IF status = "completed" THEN "in_progress"
    ELSE status

EmitsCompleted(c) ==
    c.row.status # "completed" /\ SyncedStatus(c.row.status, c.allCompleted) = "completed"

\* Mistake: overdueNotifiedAt is not consulted.
EmitsOverdueAgain(c) ==
    c.late /\ SyncedStatus(c.row.status, c.allCompleted) \notin {"completed", "closed"}

EmitsOverdue(c) ==
    /\ c.late
    /\ ~c.row.overdueNotifiedAt
    /\ SyncedStatus(c.row.status, c.allCompleted) \notin {"completed", "closed"}

\* Only the columns that change are in the UPDATE: the others keep the value
\* the row has now, not the value the handler read.
WriteSignals(h) ==
    LET c == call[h]
        next == SyncedStatus(c.row.status, c.allCompleted)
    IN  /\ At(h, "signal")
        /\ request' = [request EXCEPT
              !.status = IF next # c.row.status THEN next ELSE @,
              !.overdueNotifiedAt = @ \/ EmitsOverdue(c)]
        /\ events' = IF request'.status # "completed"
                        THEN [events EXCEPT !.completed = 0] ELSE events
        /\ IF EmitsCompleted(c) \/ EmitsOverdue(c) THEN Goto(h, "emit") ELSE Return(h)
        /\ UNCHANGED <<submission, item, answered, pastDue>>

EmitSignals(h) ==
    LET c == call[h]
    IN  /\ At(h, "emit")
        /\ events' = [completed |-> IF EmitsCompleted(c) THEN Count(events.completed)
                                    ELSE events.completed,
                      overdue |-> IF EmitsOverdue(c) THEN Count(events.overdue)
                                  ELSE events.overdue]
        /\ Return(h)
        /\ UNCHANGED <<rows, pastDue>>

----------------------------------------------------------------------------
(* The environment: time passes, and a statement throws (or the process     *)
(* dies): the handler stops there and what it wrote stays.                  *)

DuePasses ==
    /\ HasDueAt /\ ~pastDue
    /\ pastDue' = TRUE
    /\ UNCHANGED <<rows, events, call>>

Fail(h) ==
    /\ MayFail
    /\ ~Idle(h)
    /\ Return(h)
    /\ UNCHANGED <<rows, pastDue, events>>

Start(h) ==
    \/ CreateRequest(h)
    \/ \E action \in Actions : StartTransition(h, action)
    \/ \E s \in Subs, chosen \in SUBSET Items : StartAutosave(h, s, chosen)
    \/ \E i \in Items, verdict \in {"approved", "rejected"} : StartReview(h, i, verdict)

Continue(h) ==
    \/ InsertSubmission(h) \/ InsertItems(h) \/ CreateDone(h)
    \/ WriteTransition(h) \/ ReopenSubmissions(h)
    \/ UpsertAnswers(h) \/ ProvideItems(h)
    \/ WriteReview(h)
    \/ CountItems(h) \/ WriteProgress(h)
    \/ SyncRead(h) \/ CountSubmissions(h) \/ CountCompleted(h)
    \/ WriteSignals(h) \/ EmitSignals(h)

Init ==
    /\ request = NoRequest
    /\ submission = [s \in Subs |-> NoSubmission]
    /\ item = [i \in Items |-> "absent"]
    /\ answered = {}
    /\ pastDue = FALSE
    /\ events = [completed |-> 0, overdue |-> 0]
    /\ call = [h \in Handlers |-> NoCall]

Next ==
    \/ \E h \in Handlers : Start(h) \/ Continue(h) \/ Fail(h)
    \/ DuePasses

Spec == Init /\ [][Next]_vars

\* A started handler keeps running: the event loop resumes it as each awaited
\* statement settles.  Nothing makes anybody call the service again.
Fairness == \A h \in Handlers : WF_vars(Continue(h))
FairSpec == Spec /\ Fairness

----------------------------------------------------------------------------
(* What holds however the handlers interleave and wherever they fail *)

TypeOK ==
    /\ request \in RequestRow
    /\ submission \in [Subs -> SubmissionRow]
    /\ item \in [Items -> ItemStatus]
    /\ answered \subseteq Items
    /\ pastDue \in BOOLEAN
    /\ events \in EventCounts
    /\ call \in [Handlers -> Calls] /\ \A h \in Handlers : CallOK(call[h])

\* No item is provided, approved or rejected without an answer row, although
\* answers and statuses are written by separate commits and a reviewer decides
\* on a status that was read earlier (L911-948, L1088-1100).
DecidedItemsAreAnswered ==
    \A i \in Items : item[i] \in {"provided", "approved", "rejected"} => i \in answered

\* A submission marked completed has an answer for every one of its items but
\* those the rounding of L1240-1248 forgives, at most one in 200: no stale count,
\* written late, can complete a submission that lacks another answer (L1215-1274).
CompletedSubmissionsAreAnswered ==
    \A s \in CompletedSubs : CountsAsAll(s, answered)

\* The columns status, progressPercent and submittedAt of a submission, which
\* recalculation and reopening write, never contradict each other: submittedAt
\* is set exactly on completed submissions, and those show 100 percent.
SubmissionRowsAgree ==
    \A s \in Subs :
        /\ submission[s].submittedAt <=> submission[s].status = "completed"
        /\ submission[s].status = "completed" => submission[s].progressPercent = 100

\* A closed request carries its closing time, whatever stale columns the other
\* handlers write back (transitionRequestStatus, L397-412).
ClosedRequestsHaveClosedAt == request.status = "closed" => request.closedAt

\* The items of a submission are inserted together.
ItemsComeInBatches ==
    \A i, j \in Items : SubOf[i] = SubOf[j] /\ item[i] # "absent" => item[j] # "absent"

\* What a handler between two statements may still rely on, although what it
\* read is old by now: c is its call record.
StillHolds(c) ==
    /\ c.pc \in {"insertItems", "upsertAnswers", "provideItems", "review", "count",
                 "writeProgress"} => c.sub \in Subs
    /\ c.pc \in {"upsertAnswers", "provideItems", "review"}
          => \A i \in c.items : item[i] # "absent"
    /\ c.pc \in {"provideItems", "review"} => c.items \subseteq answered
    /\ c.pc = "review" => c.verdict \in {"approved", "rejected"}
    /\ c.pc = "writeProgress" /\ c.progress = 100 => CountsAsAll(c.sub, answered)

\* The inductive invariant behind the four invariants above.
AnswersInv ==
    /\ DecidedItemsAreAnswered
    /\ CompletedSubmissionsAreAnswered
    /\ ItemsComeInBatches
    /\ \A h \in Handlers : StillHolds(call[h])

----------------------------------------------------------------------------
(* What holds when the calls on a request do not overlap *)

Quiescent == \A h \in Handlers : Idle(h)

AllCompleted == InsertedSubs # {} /\ CompletedSubs = InsertedSubs

\* Between calls, a request that is not closed is completed exactly when it has
\* submissions and all of them are (syncRequestLifecycleSignals).
RequestMatchesSubmissions ==
    Quiescent /\ request.status \notin {"absent", "closed"}
        => (request.status = "completed" <=> AllCompleted)

\* Between calls, the progress of a submission is the share of its items that
\* are provided or approved, and a completed one has no other item but those the
\* rounding forgives; after a reopening the items and the progress stay and only
\* the status changes.
SubmissionMatchesItems ==
    Quiescent => \A s \in InsertedSubs :
        /\ submission[s].progressPercent = Progress(Cardinality(AnsweredItems(s)),
                                                    Cardinality(InsertedItems(s)))
        /\ submission[s].status = "completed" => CountsAsAll(s, AnsweredItems(s))
        /\ submission[s].status = "in_progress" => submission[s].progressPercent < 100

\* Between calls, requests.completed has been emitted exactly once since the
\* request became completed, and requests.overdue once since the opening if the
\* row says it was notified and not at all otherwise.
SignalsMatchRequest ==
    Quiescent =>
        /\ events.completed = IF request.status = "completed" THEN 1 ELSE 0
        /\ events.overdue = IF request.overdueNotifiedAt THEN 1 ELSE 0

\* The request's row goes through the lifecycle of module RequestLifecycle, and
\* a request whose submissions are all completed eventually becomes completed.
Lifecycle == INSTANCE RequestLifecycle
    WITH status <- request.status, reported <- request.overdueNotifiedAt,
         done <- AllCompleted

LifecycleImplemented == Lifecycle!FairSpec

----------------------------------------------------------------------------
(* What the code intends and overlapping calls break *)

\* syncRequestLifecycleSignals itself exempts closed requests (L1327): it never
\* changes the status of one.
SyncKeepsClosed ==
    [][\A h \in Handlers :
          WriteSignals(h) /\ request.status = "closed" => request'.status = "closed"]_vars
=============================================================================
