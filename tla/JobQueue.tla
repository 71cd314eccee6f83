------------------------------- MODULE JobQueue -------------------------------
(***************************************************************************)
(* JobQueueService: an in-memory FIFO of jobs, served by one loop that     *)
(* enqueue() starts and that stops when the list is empty.  A failed job   *)
(* goes back to the tail until its attempts are used up.  Code between two *)
(* awaits runs without interruption, so each action is one such stretch;   *)
(* the audit records written in between never throw.                       *)
(***************************************************************************)
EXTENDS Naturals, Sequences, FiniteSets

CONSTANTS
    Jobs,          \* job ids
    Handled,       \* the jobs whose type has a registered handler
    MaxAttempts,   \* maxAttempts, the same for all callers (default 3)
    MayCrash       \* whether the process may die and restart

ASSUME QueueAssumption ==
    Handled \subseteq Jobs /\ MaxAttempts \in Nat \ {0} /\ MayCrash \in BOOLEAN

VARIABLES
    pendingJobs,   \* the list of waiting jobs
    running,       \* the jobs taken by a processing loop and not yet finished
    isProcessing,  \* the flag that keeps a second loop from starting
    trail,         \* the last audit record of each job, which outlives a crash
    tries          \* how often each job's handler has run to an end

queueVars == <<pendingJobs, running, isProcessing, trail, tries>>

QueueJob == [id : Jobs, attempt : 0..MaxAttempts - 1, enqueuedAt : Nat]
Trail == {"absent", "enqueued", "succeeded", "failed", "skipped"}

PendingSet == {pendingJobs[n] : n \in DOMAIN pendingJobs}
LiveIds == {job.id : job \in PendingSet \cup running}

\* enqueuedAt is a clock reading; how many jobs came before orders them alike.
Now == Cardinality({j \in Jobs : trail[j] # "absent"})

----------------------------------------------------------------------------
\* Mistake: the flag stays up when the list is empty.
TakeNextFlagStays(q, others) ==
    /\ isProcessing' = TRUE
    /\ IF q = <<>> THEN pendingJobs' = q /\ running' = others
                   ELSE pendingJobs' = Tail(q) /\ running' = others \cup {Head(q)}

\* The loop of processQueue with waiting list q and the jobs others already
\* run: it takes the first job, or stops.
TakeNext(q, others) ==
    IF q = <<>>
       THEN /\ pendingJobs' = q
            /\ running' = others
            /\ isProcessing' = FALSE
       ELSE /\ pendingJobs' = Tail(q)
            /\ running' = others \cup {Head(q)}
            /\ isProcessing' = TRUE

\* Mistake: enqueue() starts a loop without looking at the flag.
EnqueueUnguarded(j) ==
    /\ trail[j] = "absent"
    /\ TakeNext(Append(pendingJobs, [id |-> j, attempt |-> 0, enqueuedAt |-> Now]), running)
    /\ trail' = [trail EXCEPT ![j] = "enqueued"]
    /\ UNCHANGED tries

\* Mistake: new jobs go to the front.
EnqueueInFront(j) ==
    LET q == <<[id |-> j, attempt |-> 0, enqueuedAt |-> Now]>> \o pendingJobs
    IN  /\ trail[j] = "absent"
        /\ IF isProcessing
              THEN pendingJobs' = q /\ UNCHANGED <<running, isProcessing>>
              ELSE TakeNext(q, running)
        /\ trail' = [trail EXCEPT ![j] = "enqueued"]
        /\ UNCHANGED tries

Enqueue(j) ==
    LET q == Append(pendingJobs, [id |-> j, attempt |-> 0, enqueuedAt |-> Now])
    IN  /\ trail[j] = "absent"
        /\ IF isProcessing
              THEN pendingJobs' = q /\ UNCHANGED <<running, isProcessing>>
              ELSE TakeNext(q, running)
        /\ trail' = [trail EXCEPT ![j] = "enqueued"]
        /\ UNCHANGED tries

SkipUnhandled(job) ==
    /\ job \in running
    /\ job.id \notin Handled
    /\ TakeNext(pendingJobs, running \ {job})
    /\ trail' = [trail EXCEPT ![job.id] = "skipped"]
    /\ UNCHANGED tries

\* The handler of the job resolved.
Succeed(job) ==
    /\ job \in running
    /\ job.id \in Handled
    /\ TakeNext(pendingJobs, running \ {job})
    /\ trail' = [trail EXCEPT ![job.id] = "succeeded"]
    /\ tries' = [tries EXCEPT ![job.id] = @ + 1]

\* The handler of the job threw: retry at the tail, or give up.
FailAttempt(job) ==
    LET nextAttempt == job.attempt + 1
    IN  /\ job \in running
        /\ job.id \in Handled
        /\ IF nextAttempt < MaxAttempts
              THEN /\ TakeNext(Append(pendingJobs, [job EXCEPT !.attempt = nextAttempt]),
                               running \ {job})
                   /\ UNCHANGED trail
              ELSE /\ TakeNext(pendingJobs, running \ {job})
                   /\ trail' = [trail EXCEPT ![job.id] = "failed"]
        /\ tries' = [tries EXCEPT ![job.id] = @ + 1]

\* The list is not persisted; onModuleInit registers handlers and nothing else.
Restart ==
    /\ MayCrash
    /\ pendingJobs' = <<>> /\ running' = {} /\ isProcessing' = FALSE
    /\ UNCHANGED <<trail, tries>>

----------------------------------------------------------------------------
Init ==
    /\ pendingJobs = <<>> /\ running = {} /\ isProcessing = FALSE
    /\ trail = [j \in Jobs |-> "absent"]
    /\ tries = [j \in Jobs |-> 0]

Work == \E job \in running : SkipUnhandled(job) \/ Succeed(job) \/ FailAttempt(job)

Next ==
    \/ \E j \in Jobs : Enqueue(j)
    \/ Work
    \/ Restart

Spec == Init /\ [][Next]_queueVars

\* Assumes that every handler ends: a delivery aborts its fetch after a timeout
\* (webhook.service.ts L355-359); exports and syncs have no limit of their own on
\* the provider calls they await, so for them it is an assumption.
FairSpec == Spec /\ WF_queueVars(Work)

----------------------------------------------------------------------------
TypeOK ==
    /\ pendingJobs \in Seq(QueueJob)
    /\ running \subseteq QueueJob
    /\ isProcessing \in BOOLEAN
    /\ trail \in [Jobs -> Trail]
    /\ tries \in [Jobs -> 0..MaxAttempts]

\* One loop at a time: the flag is up exactly while one job runs, and no job
\* waits while the flag is down, so nothing is forgotten until the next
\* enqueue (L38-39, L55-73).
OneLoopWhileWork ==
    /\ Cardinality(running) = IF isProcessing THEN 1 ELSE 0
    /\ ~isProcessing => pendingJobs = <<>>

\* A job that came earlier is never behind a later one in attempts, although
\* retries go to the tail among new jobs: no job starves another.  A job that is
\* retried is in the queue once: its retry and the attempt that failed do not
\* meet, although the retry is pushed before the handler's loop moves on (L106-150).
EarlierJobsAreNotBehind ==
    \A a, b \in PendingSet \cup running :
        a.enqueuedAt <= b.enqueuedAt => a.attempt >= b.attempt

\* Each job goes through the life that BoundedRetry describes; without a
\* crash it settles.
Promise == INSTANCE BoundedRetry
    WITH state <- [j \in Jobs |->
            IF j \in LiveIds THEN "live"
            ELSE IF trail[j] = "enqueued" THEN "lost" ELSE trail[j]]

RetryImplemented == Promise!FairSpec
=============================================================================
