---------------------------- MODULE WebhookDelivery ----------------------------
(***************************************************************************)
(* WebhookService on top of JobQueue.  emitEvent inserts one delivery row  *)
(* per matching endpoint and enqueues a job for it; replayDelivery does    *)
(* the same for one row; the queue's handler deliverWebhook posts the      *)
(* event to the endpoint and records the result.  The rows outlive the     *)
(* process, the jobs and the handlers in flight do not.                    *)
(***************************************************************************)
EXTENDS Naturals, Sequences, FiniteSets

CONSTANTS
    Events,        \* calls of emitEvent
    Replays,       \* calls of replayDelivery, each named by the row it inserts
    Deliveries,    \* rows of table webhook_deliveries
    EventOf,       \* the emission of each row that is not a replay
    SourceOf,      \* the row that each replay repeats
    MaxAttempts,
    MayCrash,      \* whether the process may die and restart
    FaultBound     \* how many statements throw or processes die at most

ASSUME DeliveryAssumption ==
    /\ Replays \subseteq Deliveries /\ Events \cap Deliveries = {}
    /\ EventOf \in [Deliveries \ Replays -> Events]
    /\ SourceOf \in [Replays -> Deliveries]
    /\ FaultBound \in Nat

VARIABLES
    row,       \* the rows of webhook_deliveries
    accepted,  \* how many POSTs of each delivery its endpoint took (external)
    caller,    \* the emissions and replays in progress
    stage,     \* how far the handler of a running job is
    seen,      \* the attemptCount that handler read
    faults,    \* how often a statement has thrown or the process died
    pendingJobs, running, isProcessing, trail, tries   \* of the job queue

Queue == INSTANCE JobQueue WITH Jobs <- Deliveries, Handled <- Deliveries

queueVars == <<pendingJobs, running, isProcessing, trail, tries>>
handlerVars == <<stage, seen>>
vars == <<row, accepted, caller, stage, seen, faults, queueVars>>

Callers == Events \cup Replays
FanOut(c) == IF c \in Replays THEN {c} ELSE {d \in DOMAIN EventOf : EventOf[d] = c}

Fault == faults < FaultBound /\ faults' = faults + 1

NoRow == [status |-> "absent", attemptCount |-> 0]
NewRow == [status |-> "queued", attemptCount |-> 0]

----------------------------------------------------------------------------
(* emitEvent and replayDelivery *)

\* The matching endpoints are read first.
StartEmit(c) ==
    /\ c \in Events
    /\ caller[c].pc = "idle"
    /\ caller' = [caller EXCEPT ![c] = [pc |-> "insert", todo |-> FanOut(c)]]
    /\ UNCHANGED <<faults, row, accepted, handlerVars, queueVars>>

\* The row to repeat is read first, whatever its status.
StartReplay(c) ==
    /\ c \in Replays
    /\ caller[c].pc = "idle"
    /\ row[SourceOf[c]].status # "absent"
    /\ caller' = [caller EXCEPT ![c] = [pc |-> "insert", todo |-> FanOut(c)]]
    /\ UNCHANGED <<faults, row, accepted, handlerVars, queueVars>>

\* Mistake: a replay queues the row it repeats again.
InsertAndResetSource(c, d) ==
    /\ caller[c].pc = "insert" /\ d \in caller[c].todo
    /\ row' = [e \in Deliveries |->
          IF e = d \/ (c \in Replays /\ e = SourceOf[c]) THEN NewRow ELSE row[e]]
    /\ caller' = [caller EXCEPT ![c].pc = "enqueue"]
    /\ UNCHANGED <<faults, accepted, handlerVars, queueVars>>

InsertDelivery(c, d) ==
    /\ caller[c].pc = "insert" /\ d \in caller[c].todo
    /\ row' = [row EXCEPT ![d] = NewRow]
    /\ caller' = [caller EXCEPT ![c].pc = "enqueue"]
    /\ UNCHANGED <<faults, accepted, handlerVars, queueVars>>

\* Mistake: the loop over the endpoints ends after the first one.
EnqueueFirstOnly(c, d) ==
    /\ caller[c].pc = "enqueue" /\ d \in caller[c].todo
    /\ row[d].status # "absent"
    /\ Queue!Enqueue(d)
    /\ caller' = [caller EXCEPT ![c] = [pc |-> "insert", todo |-> {}]]
    /\ UNCHANGED <<faults, row, accepted, handlerVars>>

\* Mistake: deliveries overtake the jobs that wait.
EnqueueDeliveryInFront(c, d) ==
    /\ caller[c].pc = "enqueue" /\ d \in caller[c].todo
    /\ row[d].status # "absent"
    /\ Queue!EnqueueInFront(d)
    /\ caller' = [caller EXCEPT ![c] = [pc |-> "insert", todo |-> @.todo \ {d}]]
    /\ UNCHANGED <<faults, row, accepted, handlerVars>>

\* enqueue() starts the queue's loop before it awaits its own audit record.
EnqueueDelivery(c, d) ==
    /\ caller[c].pc = "enqueue" /\ d \in caller[c].todo
    /\ row[d].status # "absent"
    /\ Queue!Enqueue(d)
    /\ caller' = [caller EXCEPT ![c] = [pc |-> "insert", todo |-> @.todo \ {d}]]
    /\ UNCHANGED <<faults, row, accepted, handlerVars>>

FinishCall(c) ==
    /\ caller[c].pc = "insert" /\ caller[c].todo = {}
    /\ caller' = [caller EXCEPT ![c].pc = "done"]
    /\ UNCHANGED <<faults, row, accepted, handlerVars, queueVars>>

\* An insert throws in the middle of the loop: the remaining endpoints get no row.
FailCall(c) ==
    /\ caller[c].pc = "insert" /\ caller[c].todo # {}
    /\ caller' = [caller EXCEPT ![c] = [pc |-> "done", todo |-> {}]]
    /\ Fault
    /\ UNCHANGED <<row, accepted, handlerVars, queueVars>>

----------------------------------------------------------------------------
(* deliverWebhook, the queue's handler for a running job *)

Handling(job, s) == job \in running /\ stage[job.id] = s
Enter(d, s) == stage' = [stage EXCEPT ![d] = s]

\* Mistake: the attempt is not counted before the POST.
ReadAndPost(job) ==
    /\ Handling(job, "read")
    /\ seen' = [seen EXCEPT ![job.id] = row[job.id].attemptCount]
    /\ Enter(job.id, "post")
    /\ UNCHANGED <<faults, row, accepted, caller, queueVars>>

ReadDelivery(job) ==
    /\ Handling(job, "read")
    /\ seen' = [seen EXCEPT ![job.id] = row[job.id].attemptCount]
    /\ Enter(job.id, "count")
    /\ UNCHANGED <<faults, row, accepted, caller, queueVars>>

CountAttempt(job) ==
    /\ Handling(job, "count")
    /\ row' = [row EXCEPT ![job.id].attemptCount = seen[job.id] + 1]
    /\ Enter(job.id, "post")
    /\ UNCHANGED <<faults, accepted, caller, seen, queueVars>>

\* fetch: the endpoint takes the event and answers ok; or it takes it and the
\* answer is lost, late (abort) or not ok; or it never gets the event.
PostOk(job) ==
    /\ Handling(job, "post")
    /\ accepted' = [accepted EXCEPT ![job.id] = @ + 1]
    /\ Enter(job.id, "storeDelivered")
    /\ UNCHANGED <<faults, row, caller, seen, queueVars>>

PostThrows(job, taken) ==
    /\ Handling(job, "post")
    /\ accepted' = [accepted EXCEPT ![job.id] = @ + (IF taken THEN 1 ELSE 0)]
    /\ Enter(job.id, "storeFailed")
    /\ UNCHANGED <<faults, row, caller, seen, queueVars>>

StoreDelivered(job) ==
    /\ Handling(job, "storeDelivered")
    /\ row' = [row EXCEPT ![job.id].status = "delivered"]
    /\ Enter(job.id, "resolve")
    /\ UNCHANGED <<faults, accepted, caller, seen, queueVars>>

StoreFailed(job) ==
    /\ Handling(job, "storeFailed")
    /\ row' = [row EXCEPT ![job.id].status = "failed"]
    /\ Enter(job.id, "throw")
    /\ UNCHANGED <<faults, accepted, caller, seen, queueVars>>

\* After its audit record the handler ends, and the queue goes on.
Resolve(job) ==
    /\ Handling(job, "resolve")
    /\ Queue!Succeed(job)
    /\ Enter(job.id, "read")
    /\ UNCHANGED <<faults, row, accepted, caller, seen>>

Throw(job) ==
    /\ Handling(job, "throw")
    /\ Queue!FailAttempt(job)
    /\ Enter(job.id, "read")
    /\ UNCHANGED <<faults, row, accepted, caller, seen>>

\* A statement throws without effect.  Before the try block, and in the catch
\* block itself, the handler ends there; inside the try block it goes to catch.
StatementThrows(job) ==
    /\ \/ /\ \E s \in {"read", "count", "storeFailed"} : Handling(job, s)
          /\ Enter(job.id, "throw")
       \/ /\ Handling(job, "storeDelivered")
          /\ Enter(job.id, "storeFailed")
    /\ Fault
    /\ UNCHANGED <<row, accepted, caller, seen, queueVars>>

----------------------------------------------------------------------------
Restart ==
    /\ Queue!Restart
    /\ caller' = [c \in Callers |->
          IF caller[c].pc = "idle" THEN caller[c] ELSE [pc |-> "done", todo |-> {}]]
    /\ stage' = [d \in Deliveries |-> "read"]
    /\ seen' = [d \in Deliveries |-> 0]
    /\ Fault
    /\ UNCHANGED <<row, accepted>>

Init ==
    /\ row = [d \in Deliveries |-> NoRow]
    /\ accepted = [d \in Deliveries |-> 0]
    /\ caller = [c \in Callers |-> [pc |-> "idle", todo |-> {}]]
    /\ stage = [d \in Deliveries |-> "read"]
    /\ seen = [d \in Deliveries |-> 0]
    /\ faults = 0
    /\ Queue!Init

Call(c) ==
    \/ \E d \in Deliveries : InsertDelivery(c, d) \/ EnqueueDelivery(c, d)
    \/ FinishCall(c)
    \/ FailCall(c)

Deliver(job) ==
    \/ ReadDelivery(job) \/ CountAttempt(job)
    \/ PostOk(job) \/ \E taken \in BOOLEAN : PostThrows(job, taken)
    \/ StoreDelivered(job) \/ StoreFailed(job)
    \/ Resolve(job) \/ Throw(job)
    \/ StatementThrows(job)

Next ==
    \/ \E c \in Callers : StartEmit(c) \/ StartReplay(c) \/ Call(c)
    \/ \E job \in running : Deliver(job)
    \/ Restart

Spec == Init /\ [][Next]_vars

\* The event loop resumes callers and the queue's handler; a fetch that gets no
\* answer is aborted.  Nobody is obliged to emit or to replay.
Fairness ==
    /\ \A c \in Callers : WF_vars(Call(c))
    /\ WF_vars(\E job \in running : Deliver(job))

FairSpec == Spec /\ Fairness

----------------------------------------------------------------------------
TypeOK ==
    /\ row \in [Deliveries -> [status : {"absent", "queued", "delivered", "failed"},
                               attemptCount : 0..MaxAttempts]]
    /\ accepted \in [Deliveries -> 0..MaxAttempts]
    /\ caller \in [Callers -> [pc : {"idle", "insert", "enqueue", "done"},
                               todo : SUBSET Deliveries]]
    /\ stage \in [Deliveries -> {"read", "count", "post", "storeDelivered", "storeFailed",
                               "resolve", "throw"}]
    /\ seen \in [Deliveries -> 0..MaxAttempts]
    /\ faults \in 0..FaultBound
    /\ Queue!TypeOK

\* The row never claims more than happened: "delivered" means that the endpoint
\* took the event, an endpoint never gets more POSTs than attempts are counted,
\* and the count is ahead of the handler's finished runs by at most the one in
\* progress.  Row and job agree: a job that succeeded has its row marked
\* delivered, and a delivered row has no job left that could post again.  All
\* this whatever is lost, retried or replayed (L333-450).
RowsTellTheTruth ==
    \A d \in Deliveries :
        /\ row[d].status = "delivered" => accepted[d] > 0
        /\ accepted[d] <= row[d].attemptCount
        /\ row[d].attemptCount <= tries[d] + 1
        /\ trail[d] = "succeeded" => row[d].status = "delivered"
        /\ row[d].status = "delivered" /\ d \in Queue!LiveIds => stage[d] = "resolve"

\* A delivered row stays delivered: no retry, stale attempt or replay ever
\* marks it otherwise.
DeliveredIsFinal ==
    [][\A d \in Deliveries : row[d].status = "delivered" => row'[d].status = "delivered"]_vars

\* Every emission is carried through to the end: while the process lives and
\* the database answers, each of its rows is inserted and ends delivered or
\* failed after all attempts.
EveryDeliverySettles ==
    \A c \in Events : \A d \in FanOut(c) :
        caller[c].pc = "insert" ~> faults > 0 \/ trail[d] \in {"succeeded", "failed"}

\* The handler uses the queue as JobQueue specifies.
QueueImplemented == Queue!FairSpec
=============================================================================
