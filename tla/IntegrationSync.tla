---------------------------- MODULE IntegrationSync ----------------------------
(***************************************************************************)
(* IntegrationsService for one connection and one local resource, whose    *)
(* counterpart in the provider's system is remembered by one external      *)
(* reference.  Three kinds of operations share these rows: sync jobs that  *)
(* the job queue runs, direct syncs (executeSyncNow, used by exports) and  *)
(* connection tests.  Each statement and each provider call is an action.  *)
(***************************************************************************)
EXTENDS Naturals, Sequences, FiniteSets

CONSTANTS
    Syncs,         \* sync jobs, rows of table sync_jobs
    Pushes,        \* calls of executeSyncNow
    Tests,         \* calls of testConnection
    MaxAttempts

ASSUME SyncAssumption ==
    /\ Syncs \cap Pushes = {} /\ Syncs \cap Tests = {} /\ Pushes \cap Tests = {}
    /\ MaxAttempts \in Nat \ {0}

VARIABLES
    connection,   \* integration_connections.status
    reference,    \* whether the external reference is stored
    remote,       \* how many objects the provider has created for the resource
    syncJob,      \* the rows of sync_jobs
    stage,        \* how far each operation is
    seen,         \* what each operation has read, and its connector's last answer
    lastOutcome,  \* what the operation that ended last left to report
    overlapped,   \* whether two operations were ever in progress together
    unnamed,      \* how many objects were created by syncs that answered without a reference
    faulted,      \* whether a statement threw, an answer got lost or the process died
    pendingJobs, running, isProcessing, trail, tries   \* of the job queue

Queue == INSTANCE JobQueue WITH Jobs <- Syncs, Handled <- Syncs, MayCrash <- TRUE

rowVars == <<connection, reference, remote, syncJob>>
ghosts == <<lastOutcome, overlapped, unnamed, faulted>>
queueVars == <<pendingJobs, running, isProcessing, trail, tries>>
vars == <<rowVars, stage, seen, ghosts, queueVars>>

Ops == Syncs \cup Pushes \cup Tests
Idle == {"idle", "enqueue", "waiting", "done"}
Busy(o) == stage[o] \notin Idle
At(o, s) == stage[o] = s
Enter(o, s) == stage' = [stage EXCEPT ![o] = s]

NoRow == [status |-> "absent", attemptCount |-> 0]
NewRow == [status |-> "queued", attemptCount |-> 0]

----------------------------------------------------------------------------
(* queueSyncJob *)

QueueSync(s) ==
    /\ s \in Syncs /\ At(s, "idle")
    /\ syncJob' = [syncJob EXCEPT ![s] = NewRow]
    /\ Enter(s, "enqueue")
    /\ UNCHANGED <<connection, reference, remote, seen, ghosts, queueVars>>

EnqueueSync(s) ==
    /\ s \in Syncs /\ At(s, "enqueue")
    /\ Queue!Enqueue(s)
    /\ Enter(s, "waiting")
    /\ UNCHANGED <<rowVars, seen, ghosts>>

----------------------------------------------------------------------------
(* The reads an operation starts with *)

Read(o, next) ==
    /\ seen' = [seen EXCEPT ![o] =
          [reference |-> reference,
           attemptCount |-> IF o \in Syncs THEN syncJob[o].attemptCount ELSE 0,
           answer |-> seen[o].answer]]
    /\ overlapped' = (overlapped \/ \E p \in Ops \ {o} : Busy(p))
    /\ Enter(o, next)
    /\ UNCHANGED <<rowVars, lastOutcome, unnamed, faulted, queueVars>>

\* Mistake: the handler runs the sync without looking for a reference.
ReadSyncWithoutReference(s) ==
    /\ s \in {job.id : job \in running} /\ At(s, "waiting")
    /\ seen' = [seen EXCEPT ![s] =
          [reference |-> FALSE, attemptCount |-> syncJob[s].attemptCount,
           answer |-> seen[s].answer]]
    /\ overlapped' = (overlapped \/ \E p \in Ops \ {s} : Busy(p))
    /\ Enter(s, "mark")
    /\ UNCHANGED <<rowVars, lastOutcome, unnamed, faulted, queueVars>>

\* processSyncJob, called by the queue's loop.
ReadSync(s) == s \in {job.id : job \in running} /\ At(s, "waiting") /\ Read(s, "mark")

StartPush(p) == p \in Pushes /\ At(p, "idle") /\ Read(p, "sync")

StartTest(t) == t \in Tests /\ At(t, "idle") /\ Read(t, "test")

----------------------------------------------------------------------------
(* The steps between *)

MarkRunning(s) ==
    /\ At(s, "mark")
    /\ syncJob' = [syncJob EXCEPT ![s] =
          [status |-> "running", attemptCount |-> seen[s].attemptCount + 1]]
    /\ Enter(s, "sync")
    /\ UNCHANGED <<connection, reference, remote, seen, ghosts, queueVars>>

\* The object that is referred to is updated; without a reference one is created.
RemoteAfter(o) == IF seen[o].reference THEN remote ELSE remote + 1

OnError(o) == IF o \in Syncs THEN "storeFailed" ELSE "degrade"
OnAnswer(o) == IF o \in Syncs THEN "storeSucceeded" ELSE "connect"

\* The connector resolves.  It need not have touched an object: some only look the
\* account up, and without credentials a sync is simulated; a payload may name the
\* object itself.  And it need not return a reference, even to one it created.
ConnectorSyncs(o, touches, names) ==
    /\ At(o, "sync")
    /\ remote' = IF touches THEN RemoteAfter(o) ELSE remote
    /\ unnamed' = IF names THEN unnamed ELSE unnamed + (remote' - remote)
    /\ seen' = [seen EXCEPT ![o].answer = IF names THEN "named" ELSE "unnamed"]
    /\ Enter(o, IF names THEN "upsert" ELSE OnAnswer(o))
    /\ UNCHANGED <<connection, reference, syncJob, lastOutcome, overlapped, faulted, queueVars>>

\* The connector throws: before it changed anything, or after it has created the
\* object, when the answer is lost or a later call of the same sync fails.
ConnectorThrows(o, late) ==
    /\ At(o, "sync")
    /\ remote' = IF late THEN RemoteAfter(o) ELSE remote
    /\ faulted' = (faulted \/ late)
    /\ Enter(o, OnError(o))
    /\ UNCHANGED <<connection, reference, syncJob, seen, lastOutcome, overlapped, unnamed, queueVars>>

ConnectorTests(t, healthy) ==
    /\ At(t, "test")
    /\ Enter(t, IF healthy THEN "connect" ELSE "degrade")
    /\ UNCHANGED <<rowVars, seen, ghosts, queueVars>>

UpsertReference(o) ==
    /\ At(o, "upsert")
    /\ reference' = TRUE
    /\ Enter(o, OnAnswer(o))
    /\ UNCHANGED <<connection, remote, syncJob, seen, ghosts, queueVars>>

StoreSucceeded(s) ==
    /\ At(s, "storeSucceeded")
    /\ syncJob' = [syncJob EXCEPT ![s].status = "succeeded"]
    /\ Enter(s, "connect")
    /\ UNCHANGED <<connection, reference, remote, seen, ghosts, queueVars>>

Ends(o, outcome) ==
    IF o \in Syncs
       THEN Enter(o, IF outcome = "connected" THEN "emit" ELSE "emitFailed")
            /\ UNCHANGED lastOutcome
       ELSE Enter(o, "done") /\ lastOutcome' = outcome

Connect(o) ==
    /\ At(o, "connect")
    /\ connection' = "connected"
    /\ Ends(o, "connected")
    /\ UNCHANGED <<reference, remote, syncJob, seen, overlapped, unnamed, faulted, queueVars>>

\* emitEvent resolves, or throws: inside the try block, after everything was stored.
Emit(s, throws) ==
    /\ At(s, "emit")
    /\ Enter(s, IF throws THEN "storeFailed" ELSE "resolve")
    /\ UNCHANGED <<rowVars, seen, ghosts, queueVars>>

StoreFailed(s) ==
    /\ At(s, "storeFailed")
    /\ syncJob' = [syncJob EXCEPT ![s].status = "failed"]
    /\ Enter(s, "degrade")
    /\ UNCHANGED <<connection, reference, remote, seen, ghosts, queueVars>>

\* Mistake: only a connection that was never tested is degraded.
DegradePendingOnly(o) ==
    /\ At(o, "degrade")
    /\ connection' = IF connection = "pending" THEN "degraded" ELSE connection
    /\ Ends(o, "degraded")
    /\ UNCHANGED <<reference, remote, syncJob, seen, overlapped, unnamed, faulted, queueVars>>

Degrade(o) ==
    /\ At(o, "degrade")
    /\ connection' = "degraded"
    /\ Ends(o, "degraded")
    /\ UNCHANGED <<reference, remote, syncJob, seen, overlapped, unnamed, faulted, queueVars>>

\* Whether this emission throws or not, the handler throws.
EmitFailed(s) ==
    /\ At(s, "emitFailed")
    /\ Enter(s, "throw")
    /\ UNCHANGED <<rowVars, seen, ghosts, queueVars>>

Resolve(job) ==
    /\ At(job.id, "resolve")
    /\ Queue!Succeed(job)
    /\ Enter(job.id, "waiting")
    /\ lastOutcome' = "connected"
    /\ UNCHANGED <<rowVars, seen, overlapped, unnamed, faulted>>

\* Mistake: the error is stored and not thrown again.
ThrowSwallowed(job) ==
    /\ At(job.id, "throw")
    /\ Queue!Succeed(job)
    /\ Enter(job.id, "waiting")
    /\ lastOutcome' = "degraded"
    /\ UNCHANGED <<rowVars, seen, overlapped, unnamed, faulted>>

Throw(job) ==
    /\ At(job.id, "throw")
    /\ Queue!FailAttempt(job)
    /\ Enter(job.id, "waiting")
    /\ lastOutcome' = "degraded"
    /\ UNCHANGED <<rowVars, seen, overlapped, unnamed, faulted>>

----------------------------------------------------------------------------
(* Faults *)

\* Mistake: storing the reference is best effort, its error is ignored.
StatementThrowsUnnoticed(o) ==
    /\ \/ At(o, "upsert") /\ Enter(o, OnAnswer(o))
       \/ At(o, "connect") /\ o \notin Tests /\ Enter(o, OnError(o))
    /\ faulted' = TRUE
    /\ UNCHANGED <<rowVars, seen, lastOutcome, overlapped, unnamed, queueVars>>

\* A statement throws without effect.  Inside the try blocks the error is caught
\* (a test has none around its UPDATE); elsewhere the operation ends with it.
StatementThrows(o) ==
    /\ \/ /\ stage[o] \in {"upsert", "storeSucceeded", "connect"} /\ o \notin Tests
          /\ Enter(o, OnError(o))
       \/ /\ \/ stage[o] \in {"mark", "storeFailed", "degrade"}
             \/ At(o, "waiting") /\ o \in {job.id : job \in running}
             \/ At(o, "connect") /\ o \in Tests
          /\ Enter(o, IF o \in Syncs THEN "throw" ELSE "done")
    /\ faulted' = TRUE
    /\ UNCHANGED <<rowVars, seen, lastOutcome, overlapped, unnamed, queueVars>>

Restart ==
    /\ Queue!Restart
    /\ stage' = [o \in Ops |-> IF stage[o] = "idle" THEN "idle" ELSE "done"]
    /\ faulted' = TRUE
    /\ UNCHANGED <<rowVars, seen, lastOutcome, overlapped, unnamed>>

----------------------------------------------------------------------------
\* createConnection inserts the connection as pending.
Init ==
    /\ connection = "pending" /\ reference = FALSE /\ remote = 0
    /\ syncJob = [s \in Syncs |-> NoRow]
    /\ stage = [o \in Ops |-> "idle"]
    /\ seen = [o \in Ops |-> [reference |-> FALSE, attemptCount |-> 0, answer |-> "none"]]
    /\ lastOutcome = "pending" /\ overlapped = FALSE /\ unnamed = 0 /\ faulted = FALSE
    /\ Queue!Init

Step(o) ==
    \/ EnqueueSync(o) \/ ReadSync(o) \/ MarkRunning(o)
    \/ \E touches, names \in BOOLEAN : ConnectorSyncs(o, touches, names)
    \/ \E late \in BOOLEAN : ConnectorThrows(o, late)
    \/ \E healthy \in BOOLEAN : ConnectorTests(o, healthy)
    \/ UpsertReference(o) \/ StoreSucceeded(o) \/ Connect(o)
    \/ \E throws \in BOOLEAN : Emit(o, throws)
    \/ StoreFailed(o) \/ Degrade(o) \/ EmitFailed(o)
    \/ \E job \in running : job.id = o /\ (Resolve(job) \/ Throw(job))
    \/ StatementThrows(o)

Next ==
    \/ \E o \in Ops : QueueSync(o) \/ StartPush(o) \/ StartTest(o) \/ Step(o)
    \/ Restart

Spec == Init /\ [][Next]_vars

\* The event loop resumes what has been started.  No connector sets a limit on
\* its provider calls: that they end is an assumption.
FairSpec == Spec /\ \A o \in Ops : WF_vars(Step(o))

----------------------------------------------------------------------------
TypeOK ==
    /\ connection \in {"pending", "connected", "degraded"}
    /\ reference \in BOOLEAN /\ remote \in Nat /\ unnamed \in Nat
    /\ syncJob \in [Syncs -> [status : {"absent", "queued", "running", "succeeded", "failed"},
                              attemptCount : 0..MaxAttempts]]
    /\ stage \in [Ops -> Idle \cup {"mark", "sync", "test", "upsert", "storeSucceeded", "connect",
                         "emit", "storeFailed", "degrade", "emitFailed", "resolve", "throw"}]
    /\ seen \in [Ops -> [reference : BOOLEAN, attemptCount : 0..MaxAttempts,
                          answer : {"none", "named", "unnamed"}]]
    /\ lastOutcome \in {"pending", "connected", "degraded"}
    /\ overlapped \in BOOLEAN /\ faulted \in BOOLEAN
    /\ Queue!TypeOK

\* Operations that do not overlap create one object in the provider's system, and
\* another one at most for each that a connector created without returning its
\* reference, however many jobs, retries and direct syncs there are, also when a
\* sync that succeeded is retried because its event could not be emitted (L508-542).
OneRemoteObject == ~overlapped /\ ~faulted => remote <= 1 + unnamed

\* A job row that says succeeded had an answer from the connector, and the object is
\* referred to if that answer named one; it never counts more attempts than the
\* queue made plus the one in progress.  Without faults it agrees with the queue on
\* the outcome, and no unfinished row is without a job (L514-572, L618-637).
SyncRowsTellTheTruth ==
    \A s \in Syncs :
        /\ syncJob[s].status = "succeeded" =>
              seen[s].answer = "unnamed" \/ (seen[s].answer = "named" /\ reference)
        /\ syncJob[s].attemptCount <= tries[s] + 1
        /\ ~faulted =>
              /\ trail[s] = "succeeded" => syncJob[s].status = "succeeded"
              /\ trail[s] = "failed" => syncJob[s] = [status |-> "failed", attemptCount |-> MaxAttempts]
              /\ syncJob[s].status \in {"queued", "running"} =>
                    s \in Queue!LiveIds \/ At(s, "enqueue")

\* When nothing is in progress, the connection's status is the outcome of the
\* operation that ended last, whether that was a job, a direct sync or a test,
\* as long as no two of them overlapped (L229-238, L438-474, L574-582, L639-646).
HealthIsLastOutcome ==
    ~overlapped /\ ~faulted /\ (\A o \in Ops : ~Busy(o)) => connection = lastOutcome

\* Every queued sync ends for good, succeeded or failed with its attempts used
\* up, unless the process dies or a statement throws.
EverySyncSettles ==
    \A s \in Syncs :
        At(s, "enqueue") ~>
            \/ faulted
            \/ [](syncJob[s].status = "succeeded" /\ trail[s] = "succeeded")
            \/ [](syncJob[s].status = "failed" /\ trail[s] = "failed")
=============================================================================
