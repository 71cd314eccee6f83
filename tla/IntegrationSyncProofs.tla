------------------------- MODULE IntegrationSyncProofs -------------------------
(***************************************************************************)
(* Proofs about IntegrationSync, for all sets of operations.  First what   *)
(* holds as long as no two of them overlap and no fault occurs: one object *)
(* and a true status.  Then what holds however they overlap: the rows of   *)
(* the sync jobs, which rest on what the queue does with their jobs.       *)
(***************************************************************************)
EXTENDS IntegrationSync, TLAPS

SyncRow == [status : {"absent", "queued", "running", "succeeded", "failed"}, attemptCount : Nat]
SeenRecord == [reference : BOOLEAN, attemptCount : Nat, answer : {"none", "named", "unnamed"}]
Stages == Idle \cup {"mark", "sync", "test", "upsert", "storeSucceeded", "connect",
                     "emit", "storeFailed", "degrade", "emitFailed", "resolve", "throw"}

\* The parts of the type invariant that the proofs need.
Shape ==
    /\ stage \in [Ops -> Stages]
    /\ seen \in [Ops -> SeenRecord]
    /\ syncJob \in [Syncs -> SyncRow]
    /\ reference \in BOOLEAN /\ remote \in Nat /\ unnamed \in Nat
    /\ overlapped \in BOOLEAN /\ faulted \in BOOLEAN

\* At most one operation is in progress; what it saw of the reference is still
\* so while it talks to the provider.
OneAtATime == \A o, p \in Ops : Busy(o) /\ Busy(p) => o = p
SeenIsCurrent ==
    \A o \in Ops : stage[o] \in {"mark", "sync"} => seen[o].reference = reference

\* An object beside those that no answer named is referred to, or about to be.
ObjectIsReferredTo ==
    /\ remote <= unnamed + 1
    /\ remote = unnamed + 1 => reference \/ \E o \in Ops : At(o, "upsert")

\* An operation that has written the connection's status reports the same.
ReportMatchesStatus ==
    /\ (\A o \in Ops : ~Busy(o)) => connection = lastOutcome
    /\ \A o \in Ops :
          /\ stage[o] \in {"emit", "resolve"} => connection = "connected"
          /\ stage[o] \in {"emitFailed", "throw"} => connection = "degraded"

Quiet == ~overlapped /\ ~faulted
SerialInv ==
    Quiet => OneAtATime /\ SeenIsCurrent /\ ObjectIsReferredTo /\ ReportMatchesStatus

IInv == Shape /\ SerialInv

-----------------------------------------------------------------------------
LEMMA InitEstablishes == Init => IInv
<1> SUFFICES ASSUME Init PROVE Shape /\ SerialInv
  BY DEF IInv
<1>1. [reference |-> FALSE, attemptCount |-> 0, answer |-> "none"] \in SeenRecord /\ NoRow \in SyncRow
  BY DEF SeenRecord, SyncRow, NoRow
<1>2. Shape
  BY <1>1 DEF Init, Shape, Idle, Stages
<1>3. SerialInv
  BY DEF Init, SerialInv, OneAtATime, SeenIsCurrent, ObjectIsReferredTo, ReportMatchesStatus,
         Busy, Idle
<1> QED
  BY <1>2, <1>3

\* Each action keeps the shape of the state.
LEMMA ShapeKept == Shape /\ [Next]_vars => Shape'
<1> SUFFICES ASSUME Shape, [Next]_vars PROVE Shape'
  OBVIOUS
<1> USE DEF Shape, Stages, Idle, Ops, At, Enter
<1>1. CASE \E s \in Ops : QueueSync(s)
  BY <1>1 DEF QueueSync, NewRow, SyncRow, ghosts
<1>2. CASE \E s \in Ops : EnqueueSync(s)
  BY <1>2 DEF EnqueueSync, rowVars, ghosts
<1>3. ASSUME NEW o \in Ops, NEW next \in Stages, Read(o, next) PROVE Shape'
  <2>1. IF o \in Syncs THEN syncJob[o].attemptCount \in Nat ELSE TRUE
    BY DEF SyncRow
  <2>2. [reference |-> reference,
         attemptCount |-> IF o \in Syncs THEN syncJob[o].attemptCount ELSE 0,
         answer |-> seen[o].answer] \in SeenRecord
    BY <2>1 DEF SeenRecord
  <2>3. seen' \in [Ops -> SeenRecord]
    BY <1>3, <2>2 DEF Read
  <2>4. overlapped' \in BOOLEAN
    BY <1>3 DEF Read
  <2> QED
    BY <1>3, <2>3, <2>4 DEF Read, rowVars
<1>4. ASSUME NEW s \in Ops, MarkRunning(s) PROVE Shape'
  <2>1. [status |-> "running", attemptCount |-> seen[s].attemptCount + 1] \in SyncRow
    BY DEF SeenRecord, SyncRow
  <2> QED
    BY <1>4, <2>1 DEF MarkRunning, ghosts
<1>5. ASSUME NEW o \in Ops, NEW touches \in BOOLEAN, NEW names \in BOOLEAN,
             ConnectorSyncs(o, touches, names)
      PROVE Shape'
  <2>1. remote' \in Nat /\ unnamed' \in Nat
    BY <1>5 DEF ConnectorSyncs, RemoteAfter
  <2>2. seen' \in [Ops -> SeenRecord]
    BY <1>5 DEF ConnectorSyncs, SeenRecord
  <2> QED
    BY <1>5, <2>1, <2>2 DEF ConnectorSyncs, OnAnswer
<1>5a. CASE \E o \in Ops : \E late \in BOOLEAN : ConnectorThrows(o, late)
  BY <1>5a DEF ConnectorThrows, RemoteAfter, OnError
<1>6. CASE \E o \in Ops : \E healthy \in BOOLEAN : ConnectorTests(o, healthy)
  BY <1>6 DEF ConnectorTests, rowVars, ghosts
<1>7. ASSUME NEW o \in Ops, UpsertReference(o) \/ StoreSucceeded(o) \/ StoreFailed(o)
      PROVE Shape'
  <2>1. syncJob' \in [Syncs -> SyncRow]
    BY <1>7 DEF UpsertReference, StoreSucceeded, StoreFailed, SyncRow
  <2> QED
    BY <1>7, <2>1 DEF UpsertReference, OnAnswer, StoreSucceeded, StoreFailed, ghosts
<1>8. CASE \E o \in Ops : Connect(o) \/ Degrade(o)
  BY <1>8 DEF Connect, Degrade, Ends
<1>9. CASE \E o \in Ops : EmitFailed(o) \/ \E throws \in BOOLEAN : Emit(o, throws)
  BY <1>9 DEF EmitFailed, Emit, rowVars, ghosts
<1>10. CASE \E o \in Ops : \E job \in running : job.id = o /\ (Resolve(job) \/ Throw(job))
  BY <1>10 DEF Resolve, Throw, rowVars
<1>11. CASE \E o \in Ops : StatementThrows(o)
  BY <1>11 DEF StatementThrows, OnError, rowVars
<1>12. CASE Restart
  BY <1>12 DEF Restart, rowVars
<1>13. CASE UNCHANGED vars
  BY <1>13 DEF vars, rowVars, ghosts
<1> QED
  BY <1>1, <1>2, <1>3, <1>4, <1>5, <1>5a, <1>6, <1>7, <1>8, <1>9, <1>10, <1>11, <1>12, <1>13
     DEF Next, Step, ReadSync, StartPush, StartTest

\* Each action keeps what holds without overlap and faults.
LEMMA SerialKept == IInv /\ [Next]_vars => SerialInv'
<1> SUFFICES ASSUME IInv, [Next]_vars, Quiet' PROVE
        OneAtATime' /\ SeenIsCurrent' /\ ObjectIsReferredTo' /\ ReportMatchesStatus'
  BY DEF SerialInv
<1>a. Quiet
  BY DEF Next, Step, vars, ghosts, Quiet, IInv, Shape, QueueSync, EnqueueSync, ReadSync, StartPush,
         StartTest, Read, MarkRunning, ConnectorSyncs, ConnectorThrows, ConnectorTests,
         UpsertReference, StoreSucceeded, StoreFailed, Connect, Degrade, Emit, EmitFailed,
         Resolve, Throw, StatementThrows, Restart
<1>b. Shape /\ OneAtATime /\ SeenIsCurrent /\ ObjectIsReferredTo /\ ReportMatchesStatus
  BY <1>a DEF IInv, SerialInv
<1> USE <1>b, SyncAssumption
    DEF Shape, OneAtATime, SeenIsCurrent, ObjectIsReferredTo, ReportMatchesStatus,
        Busy, Idle, At, Enter, Stages
<1>1. CASE \E s \in Ops : QueueSync(s)
  BY <1>1 DEF QueueSync, ghosts, Ops
<1>2. CASE \E s \in Ops : EnqueueSync(s)
  BY <1>2 DEF EnqueueSync, rowVars, ghosts, Ops
<1>3. ASSUME NEW o \in Ops, NEW next \in {"mark", "sync", "test"}, stage[o] \in Idle, Read(o, next)
      PROVE OneAtATime' /\ SeenIsCurrent' /\ ObjectIsReferredTo' /\ ReportMatchesStatus'
  \* Nothing else is in progress, or the operations would overlap from now on.
  <2>1. \A p \in Ops \ {o} : ~Busy(p)
    BY <1>3 DEF Read, Quiet
  <2>2. \A p \in Ops : stage'[p] = IF p = o THEN next ELSE stage[p]
    BY <1>3 DEF Read
  <2>3. seen'[o].reference = reference
    BY <1>3 DEF Read
  <2>4. UNCHANGED rowVars /\ unnamed' = unnamed
    BY <1>3 DEF Read
  <2>5. OneAtATime'
    BY <2>1, <2>2
  <2>6. SeenIsCurrent'
    BY <2>1, <2>2, <2>3, <2>4 DEF rowVars
  <2>7. ObjectIsReferredTo'
    BY <1>3, <2>1, <2>2, <2>4 DEF rowVars
  <2>8. ReportMatchesStatus'
    BY <1>3, <2>1, <2>2, <2>4 DEF rowVars
  <2> QED
    BY <2>5, <2>6, <2>7, <2>8
<1>4. CASE \E s \in Ops : MarkRunning(s)
  BY <1>4 DEF MarkRunning, ghosts
<1>5. ASSUME NEW o \in Ops, NEW touches \in BOOLEAN, NEW names \in BOOLEAN,
             ConnectorSyncs(o, touches, names)
      PROVE OneAtATime' /\ SeenIsCurrent' /\ ObjectIsReferredTo' /\ ReportMatchesStatus'
  <2>1. /\ \A p \in Ops : p # o => stage'[p] = stage[p] /\ seen'[p] = seen[p]
        /\ stage'[o] \in {"upsert", "storeSucceeded", "connect"}
        /\ stage'[o] = "upsert" <=> names
    BY <1>5 DEF ConnectorSyncs, OnAnswer
  <2>2. UNCHANGED <<connection, reference, lastOutcome>>
    BY <1>5 DEF ConnectorSyncs
  <2>3. Busy(o) /\ \A p \in Ops : Busy(p) => p = o
    BY <1>5 DEF ConnectorSyncs
  <2>4. OneAtATime'
    BY <2>1, <2>3
  <2>5. SeenIsCurrent'
    BY <2>1, <2>2
  \* Without a reference every object so far is one that no answer named.
  <2>6. ObjectIsReferredTo'
    <3>1. reference \/ remote <= unnamed
      BY <1>5, <2>3 DEF ConnectorSyncs
    <3>2. seen[o].reference = reference
      BY <1>5 DEF ConnectorSyncs
    <3>3. /\ remote' = remote \/ (remote' = remote + 1 /\ ~reference)
          /\ unnamed' = IF names THEN unnamed ELSE unnamed + (remote' - remote)
      BY <1>5, <3>2 DEF ConnectorSyncs, RemoteAfter
    <3>4. reference' = reference /\ (names => stage'[o] = "upsert")
      BY <2>1, <2>2
    <3> QED
      BY <3>1, <3>3, <3>4
  <2>7. ReportMatchesStatus'
    BY <2>1, <2>2, <2>3
  <2> QED
    BY <2>4, <2>5, <2>6, <2>7
<1>6a. ASSUME NEW o \in Ops, NEW late \in BOOLEAN, ConnectorThrows(o, late)
       PROVE OneAtATime' /\ SeenIsCurrent' /\ ObjectIsReferredTo' /\ ReportMatchesStatus'
  <2>1. ~late
    BY <1>6a DEF ConnectorThrows, Quiet
  <2>2. UNCHANGED <<connection, reference, remote, unnamed, seen, lastOutcome>>
    BY <1>6a, <2>1 DEF ConnectorThrows
  <2>3. \A p \in Ops : stage'[p] = IF p = o THEN OnError(o) ELSE stage[p]
    BY <1>6a DEF ConnectorThrows
  <2> QED
    BY <1>6a, <2>2, <2>3 DEF ConnectorThrows, OnError
<1>6. CASE \E o \in Ops : \E healthy \in BOOLEAN : ConnectorTests(o, healthy)
  BY <1>6 DEF ConnectorTests, rowVars, ghosts
<1>7. ASSUME NEW o \in Ops, UpsertReference(o)
      PROVE OneAtATime' /\ SeenIsCurrent' /\ ObjectIsReferredTo' /\ ReportMatchesStatus'
  <2>1. \A p \in Ops : p # o => stage'[p] = stage[p] /\ ~Busy(p)
    BY <1>7 DEF UpsertReference
  <2>2. stage'[o] \in {"storeSucceeded", "connect"} /\ reference' = TRUE
    BY <1>7 DEF UpsertReference, OnAnswer
  <2>3. UNCHANGED <<connection, remote, unnamed, seen, lastOutcome>>
    BY <1>7 DEF UpsertReference, ghosts
  <2>4. OneAtATime' /\ SeenIsCurrent'
    BY <2>1, <2>2
  <2>5. ObjectIsReferredTo' /\ ReportMatchesStatus'
    BY <2>1, <2>2, <2>3
  <2> QED
    BY <2>4, <2>5
<1>7a. ASSUME NEW o \in Ops, StoreSucceeded(o) \/ StoreFailed(o)
       PROVE OneAtATime' /\ SeenIsCurrent' /\ ObjectIsReferredTo' /\ ReportMatchesStatus'
  BY <1>7a DEF StoreSucceeded, StoreFailed, ghosts
<1>8. CASE \E o \in Ops : Connect(o) \/ Degrade(o)
  BY <1>8 DEF Connect, Degrade, Ends
<1>9. ASSUME NEW o \in Ops, EmitFailed(o) \/ \E throws \in BOOLEAN : Emit(o, throws)
      PROVE OneAtATime' /\ SeenIsCurrent' /\ ObjectIsReferredTo' /\ ReportMatchesStatus'
  <2>1. UNCHANGED <<connection, reference, remote, unnamed, seen, lastOutcome>>
    BY <1>9 DEF EmitFailed, Emit, rowVars, ghosts
  <2>2. CASE EmitFailed(o)
    BY <2>1, <2>2 DEF EmitFailed
  <2>3. CASE \E throws \in BOOLEAN : Emit(o, throws)
    BY <2>1, <2>3 DEF Emit
  <2> QED
    BY <1>9, <2>2, <2>3
<1>10. CASE \E o \in Ops : \E job \in running : job.id = o /\ (Resolve(job) \/ Throw(job))
  BY <1>10 DEF Resolve, Throw, rowVars
<1>11. CASE \E o \in Ops : StatementThrows(o)
  BY <1>11 DEF StatementThrows, Quiet
<1>12. CASE Restart
  BY <1>12 DEF Restart, Quiet
<1>13. CASE UNCHANGED vars
  BY <1>13 DEF vars, rowVars, ghosts
<1> QED
  BY <1>1, <1>2, <1>3, <1>4, <1>5, <1>6, <1>6a, <1>7, <1>7a, <1>8, <1>9, <1>10, <1>11,
     <1>12, <1>13
     DEF Next, Step, ReadSync, StartPush, StartTest

THEOREM SerialInvariant == Spec => []IInv
<1>1. IInv /\ [Next]_vars => IInv'
  BY ShapeKept, SerialKept DEF IInv
<1> QED
  BY InitEstablishes, <1>1, PTL DEF Spec

\* Operations that neither overlap nor meet a fault create one object in the
\* provider's system beside those whose references connectors did not return,
\* whatever their number and however often jobs are retried (processSyncJob and
\* executeSyncNow).
THEOREM OneObject == Spec => []OneRemoteObject
<1>1. IInv => OneRemoteObject
  BY DEF IInv, Shape, SerialInv, Quiet, ObjectIsReferredTo, OneRemoteObject
<1> QED
  BY SerialInvariant, <1>1, PTL

\* At rest, the status of a connection is the outcome of the operation that ended
\* last (testConnection, executeSyncNow, processSyncJob).
THEOREM HealthCorrect == Spec => []HealthIsLastOutcome
<1>1. IInv => HealthIsLastOutcome
  BY DEF IInv, SerialInv, Quiet, ReportMatchesStatus, HealthIsLastOutcome
<1> QED
  BY SerialInvariant, <1>1, PTL

----------------------------------------------------------------------------
(* The queue of sync jobs *)

Live(s) == s \in Queue!LiveIds
AllJobs == Queue!PendingSet \cup running

IsJob(a) == /\ a.id \in Syncs /\ a.attempt \in Nat /\ a.attempt < MaxAttempts
            /\ a = [id |-> a.id, attempt |-> a.attempt, enqueuedAt |-> a.enqueuedAt]

\* A list of jobs in which no sync occurs twice.
OneEach(q) ==
    /\ \E S : q \in Seq(S)
    /\ \A n \in 1..Len(q) : IsJob(q[n])
    /\ \A m, n \in 1..Len(q) : q[m].id = q[n].id => m = n

JobsOf(q) == {q[n] : n \in 1..Len(q)}

\* Jobs that run beside a waiting list.
Beside(jobs, q) ==
    /\ \A r \in jobs : IsJob(r) /\ \A a \in JobsOf(q) : r.id # a.id
    /\ \A r, t \in jobs : r.id = t.id => r = t

\* No sync has two jobs, a job's attempt is the number of tries that are over,
\* and the trail of a sync that has a job is "enqueued".
JobsInv ==
    /\ OneEach(pendingJobs) /\ Beside(running, pendingJobs)
    /\ trail \in [Syncs -> Queue!Trail] /\ tries \in [Syncs -> Nat]
    /\ \A s \in Syncs : Live(s) => trail[s] = "enqueued"
    /\ \A a \in AllJobs : a.attempt = tries[a.id]

----------------------------------------------------------------------------
(* What a row says, and what its handler has established *)

\* The connector's last answer has named no object, or one that is referred to.
Stored(s) == seen[s].answer = "unnamed" \/ (seen[s].answer = "named" /\ reference)

RowTrue(s) ==
    /\ stage[s] # "test" /\ (Busy(s) => Live(s))
    /\ stage[s] \in {"idle", "enqueue"} => trail[s] = "absent" /\ tries[s] = 0
    /\ syncJob[s].attemptCount <= tries[s] + 1
    /\ stage[s] \in {"idle", "enqueue", "waiting", "mark"} => syncJob[s].attemptCount <= tries[s]
    /\ stage[s] = "mark" => seen[s].attemptCount = syncJob[s].attemptCount
    /\ syncJob[s].status = "succeeded" \/ stage[s] = "storeSucceeded" => Stored(s)
    /\ stage[s] = "sync" => syncJob[s].status # "succeeded"
    /\ stage[s] = "upsert" => seen[s].answer = "named" /\ syncJob[s].status # "succeeded"
    /\ stage[s] \in {"connect", "emit", "resolve"} => syncJob[s].status = "succeeded"

\* Without faults: the row counts every attempt, and the queue and the row end alike.
RowExact(s) ==
    /\ stage[s] = "idle" => syncJob[s] = NoRow
    /\ stage[s] = "enqueue" => syncJob[s] = NewRow
    /\ stage[s] = "mark" \/ (stage[s] = "waiting" /\ Live(s)) => syncJob[s].attemptCount = tries[s]
    /\ Busy(s) /\ stage[s] # "mark" => syncJob[s].attemptCount = tries[s] + 1
    /\ stage[s] \in {"degrade", "emitFailed", "throw"} => syncJob[s].status = "failed"
    /\ trail[s] = "succeeded" => syncJob[s].status = "succeeded"
    /\ trail[s] = "failed" => syncJob[s] = [status |-> "failed", attemptCount |-> MaxAttempts]
    /\ syncJob[s].status \in {"queued", "running"} => Live(s) \/ At(s, "enqueue")

RowsInv == \A s \in Syncs : RowTrue(s) /\ (~faulted => RowExact(s))

SyncInv == JobsInv /\ Shape /\ RowsInv

LEMMA AppendOne ==
    ASSUME NEW q, OneEach(q), NEW x, IsJob(x), \A a \in JobsOf(q) : a.id # x.id
    PROVE  OneEach(Append(q, x)) /\ JobsOf(Append(q, x)) = JobsOf(q) \cup {x}
<1> PICK S : q \in Seq(S)
  BY DEF OneEach
<1> DEFINE p == Append(q, x)
<1>1. /\ p \in Seq(S \cup {x}) /\ Len(q) \in Nat /\ Len(p) = Len(q) + 1
      /\ (\A n \in 1..Len(q) : p[n] = q[n]) /\ p[Len(q) + 1] = x
  <2>1. q \in Seq(S \cup {x})
    OBVIOUS
  <2> QED
    BY <2>1
<1> HIDE DEF p
<1>2. 1..Len(p) = 1..Len(q) \cup {Len(q) + 1}
  BY <1>1
<1>3. \A n \in 1..Len(p) : IsJob(p[n])
  BY <1>1, <1>2 DEF OneEach
<1>4. \A n \in 1..Len(q) : q[n].id # x.id
  BY DEF JobsOf
<1>5. ASSUME NEW m \in 1..Len(p), NEW n \in 1..Len(p), p[m].id = p[n].id PROVE m = n
  BY <1>1, <1>2, <1>4, <1>5 DEF OneEach
<1>6. OneEach(p)
  BY <1>1, <1>3, <1>5 DEF OneEach
<1>7. JobsOf(p) = JobsOf(q) \cup {x}
  BY <1>1, <1>2 DEF JobsOf
<1> QED
  BY <1>6, <1>7 DEF p

LEMMA TailOne ==
    ASSUME NEW q, OneEach(q), q # <<>>
    PROVE  /\ OneEach(Tail(q)) /\ IsJob(Head(q))
           /\ \A a \in JobsOf(Tail(q)) : a.id # Head(q).id
           /\ JobsOf(q) = JobsOf(Tail(q)) \cup {Head(q)}
<1> PICK S : q \in Seq(S)
  BY DEF OneEach
<1> DEFINE p == Tail(q)
<1>1. /\ p \in Seq(S) /\ Len(q) \in Nat \ {0} /\ Len(p) = Len(q) - 1
      /\ (\A n \in 1..Len(p) : p[n] = q[n + 1]) /\ Head(q) = q[1]
  OBVIOUS
<1> HIDE DEF p
<1>2. 1 \in 1..Len(q) /\ \A n \in 1..Len(p) : n + 1 \in 1..Len(q) /\ n + 1 # 1
  BY <1>1
<1>3. \A n \in 1..Len(q) : n = 1 \/ (n - 1 \in 1..Len(p) /\ q[n] = p[n - 1])
  BY <1>1
<1>4. ASSUME NEW m \in 1..Len(p), NEW n \in 1..Len(p), p[m].id = p[n].id PROVE m = n
  <2>1. m + 1 = n + 1
    BY <1>1, <1>2, <1>4 DEF OneEach
  <2> QED
    BY <2>1, <1>1
<1>5. OneEach(p)
  BY <1>1, <1>2, <1>4 DEF OneEach
<1>6. \A n \in 1..Len(p) : p[n].id # q[1].id
  BY <1>1, <1>2 DEF OneEach
<1>7. JobsOf(q) = JobsOf(p) \cup {q[1]}
  <2>1. JobsOf(q) \subseteq JobsOf(p) \cup {q[1]}
    BY <1>3 DEF JobsOf
  <2>2. JobsOf(p) \cup {q[1]} \subseteq JobsOf(q)
    BY <1>1, <1>2 DEF JobsOf
  <2> QED
    BY <2>1, <2>2
<1> QED
  BY <1>1, <1>2, <1>5, <1>6, <1>7 DEF p, JobsOf, OneEach

LEMMA JobsAre ==
    ASSUME OneEach(pendingJobs)
    PROVE  AllJobs = JobsOf(pendingJobs) \cup running
<1>1. DOMAIN pendingJobs = 1..Len(pendingJobs)
  BY DEF OneEach
<1> QED
  BY <1>1 DEF AllJobs, Queue!PendingSet, JobsOf

LEMMA LiveHaveJobs == \A s : Live(s) <=> \E a \in AllJobs : a.id = s
BY DEF Live, AllJobs, Queue!LiveIds

LEMMA LoopGoesOn ==
    ASSUME NEW q, NEW others, OneEach(q), Beside(others, q), Queue!TakeNext(q, others)
    PROVE  /\ OneEach(pendingJobs') /\ Beside(running', pendingJobs')
           /\ AllJobs' = JobsOf(q) \cup others
<1>1. OneEach(pendingJobs)' => AllJobs' = JobsOf(pendingJobs') \cup running'
  <2>1. OneEach(pendingJobs)' => DOMAIN pendingJobs' = 1..Len(pendingJobs')
    BY DEF OneEach
  <2> QED
    BY <2>1 DEF AllJobs, Queue!PendingSet, JobsOf
<1>2. CASE q = <<>>
  BY <1>1, <1>2 DEF Queue!TakeNext, OneEach, JobsOf
<1>3. CASE q # <<>>
  <2>1. pendingJobs' = Tail(q) /\ running' = others \cup {Head(q)}
    BY <1>3 DEF Queue!TakeNext
  <2>2. /\ OneEach(Tail(q)) /\ IsJob(Head(q)) /\ \A a \in JobsOf(Tail(q)) : a.id # Head(q).id
        /\ JobsOf(q) = JobsOf(Tail(q)) \cup {Head(q)}
    BY <1>3, TailOne
  <2>3. \A r \in others : r.id # Head(q).id /\ \A a \in JobsOf(Tail(q)) : r.id # a.id
    BY <2>2 DEF Beside
  <2>4. Beside(running', pendingJobs')
    BY <2>1, <2>2, <2>3 DEF Beside
  <2>5. OneEach(pendingJobs)'
    BY <2>1, <2>2 DEF OneEach
  <2> QED
    BY <1>1, <2>1, <2>2, <2>4, <2>5
<1> QED
  BY <1>2, <1>3

\* What a sync's job coming, staying or leaving does to the queue.
LEMMA EnqueueAdds ==
    ASSUME JobsInv, NEW s \in Syncs, Queue!Enqueue(s), tries[s] = 0
    PROVE  /\ trail[s] = "absent" /\ trail' = [trail EXCEPT ![s] = "enqueued"] /\ tries' = tries
           /\ JobsInv' /\ Live(s)' /\ \A t \in Syncs \ {s} : Live(t)' <=> Live(t)
<1> DEFINE x == [id |-> s, attempt |-> 0, enqueuedAt |-> Queue!Now]
           q == Append(pendingJobs, x)
<1>1. /\ trail[s] = "absent" /\ trail' = [trail EXCEPT ![s] = "enqueued"] /\ tries' = tries
      /\ IF isProcessing THEN pendingJobs' = q /\ running' = running
                         ELSE Queue!TakeNext(q, running)
  BY DEF Queue!Enqueue
<1>2. IsJob(x) /\ x.id = s /\ x.attempt = 0
  BY SyncAssumption DEF IsJob
<1>3. AllJobs = JobsOf(pendingJobs) \cup running
  BY JobsAre DEF JobsInv
<1>4. \A a \in AllJobs : a.id # s
  BY <1>1, LiveHaveJobs DEF JobsInv
<1> HIDE DEF x
<1>5. OneEach(q) /\ JobsOf(q) = JobsOf(pendingJobs) \cup {x}
  BY <1>2, <1>3, <1>4, AppendOne DEF JobsInv
<1> HIDE DEF q
<1>6. Beside(running, q)
  BY <1>2, <1>3, <1>4, <1>5 DEF JobsInv, Beside
<1>7. OneEach(pendingJobs') /\ Beside(running', pendingJobs') /\ AllJobs' = JobsOf(q) \cup running
  <2>1. CASE isProcessing
    <3>1. OneEach(pendingJobs)'
      BY <1>1, <1>5, <2>1 DEF OneEach
    <3>2. DOMAIN pendingJobs' = 1..Len(pendingJobs')
      BY <3>1 DEF OneEach
    <3> QED
      BY <1>1, <1>5, <1>6, <2>1, <3>2 DEF AllJobs, Queue!PendingSet, JobsOf
  <2>2. CASE ~isProcessing
    BY <1>1, <1>5, <1>6, <2>2, LoopGoesOn
  <2> QED
    BY <2>1, <2>2
<1>8. AllJobs' = AllJobs \cup {x}
  BY <1>3, <1>5, <1>7
<1>9. \A t : Live(t)' <=> \E a \in AllJobs' : a.id = t
  BY DEF Live, AllJobs, Queue!LiveIds
<1>10. Live(s)' /\ \A t \in Syncs \ {s} : Live(t)' <=> Live(t)
  BY <1>2, <1>8, <1>9, LiveHaveJobs
<1>11. \A a \in AllJobs' : a.attempt = tries'[a.id]
  BY <1>1, <1>2, <1>8 DEF JobsInv
<1>12. trail' \in [Syncs -> Queue!Trail] /\ \A t \in Syncs : Live(t)' => trail'[t] = "enqueued"
  BY <1>1, <1>10 DEF JobsInv, Queue!Trail
<1> QED
  BY <1>1, <1>7, <1>10, <1>11, <1>12 DEF JobsInv, OneEach, Beside

LEMMA JobsRunAreLive ==
    ASSUME JobsInv, NEW job \in running
    PROVE  /\ IsJob(job) /\ job.id \in Syncs /\ Live(job.id) /\ trail[job.id] = "enqueued"
           /\ job.attempt = tries[job.id]
<1>1. job \in AllJobs /\ IsJob(job)
  BY DEF AllJobs, JobsInv, Beside
<1> QED
  BY <1>1, LiveHaveJobs DEF JobsInv, IsJob

LEMMA HandlerEnds ==
    ASSUME JobsInv, NEW job \in running, Queue!Succeed(job) \/ Queue!FailAttempt(job)
    PROVE  /\ JobsInv' /\ job.id \in Syncs /\ Live(job.id)
           /\ tries' = [tries EXCEPT ![job.id] = @ + 1]
           /\ \A t \in Syncs \ {job.id} : (Live(t)' <=> Live(t)) /\ trail'[t] = trail[t]
           /\ Queue!Succeed(job) => trail'[job.id] = "succeeded" /\ ~Live(job.id)'
           /\ ~Queue!Succeed(job) =>
                 \/ Live(job.id)' /\ trail'[job.id] = "enqueued"
                 \/ trail'[job.id] = "failed" /\ tries'[job.id] = MaxAttempts /\ ~Live(job.id)'
<1> DEFINE s == job.id
           others == running \ {job}
           again == [job EXCEPT !.attempt = job.attempt + 1]
           q == Append(pendingJobs, again)
<1>a. /\ IsJob(job) /\ s \in Syncs /\ Live(s) /\ trail[s] = "enqueued" /\ job.attempt = tries[s]
  BY JobsRunAreLive
<1>0. /\ OneEach(pendingJobs) /\ Beside(others, pendingJobs)
      /\ \A r \in others : r.id # s
      /\ \A a \in JobsOf(pendingJobs) : a.id # s
  BY DEF JobsInv, Beside
<1>1. AllJobs = JobsOf(pendingJobs) \cup others \cup {job}
  BY <1>0, JobsAre
<1>2. \A t : Live(t)' <=> \E a \in AllJobs' : a.id = t
  BY DEF Live, AllJobs, Queue!LiveIds
<1>3. tries' = [tries EXCEPT ![s] = @ + 1] /\ tries' \in [Syncs -> Nat]
  <2>1. tries' = [tries EXCEPT ![job.id] = @ + 1]
    BY DEF Queue!Succeed, Queue!FailAttempt
  <2> QED
    BY <1>a, <2>1 DEF JobsInv
<1>c. \A a \in JobsOf(pendingJobs) \cup others : a.attempt = tries'[a.id]
  <2>1. \A a \in JobsOf(pendingJobs) \cup others : a.id \in Syncs /\ a.attempt = tries[a.id]
    BY <1>0, <1>1 DEF JobsInv, Beside, OneEach, JobsOf, IsJob
  <2> QED
    BY <1>0, <1>3, <2>1 DEF JobsInv
<1>4. ASSUME Queue!TakeNext(pendingJobs, others), NEW outcome \in {"succeeded", "failed"},
             trail' = [trail EXCEPT ![s] = outcome]
      PROVE  /\ JobsInv' /\ ~Live(s)' /\ trail'[s] = outcome
             /\ \A t \in Syncs \ {s} : (Live(t)' <=> Live(t)) /\ trail'[t] = trail[t]
  <2>1. /\ OneEach(pendingJobs') /\ Beside(running', pendingJobs')
        /\ AllJobs' = JobsOf(pendingJobs) \cup others
    BY <1>0, <1>4, LoopGoesOn
  <2>2. ~Live(s)' /\ \A t \in Syncs \ {s} : Live(t)' <=> Live(t)
    BY <1>0, <1>1, <1>2, <2>1, LiveHaveJobs
  <2>3. trail' \in [Syncs -> Queue!Trail] /\ trail'[s] = outcome
        /\ \A t \in Syncs \ {s} : trail'[t] = trail[t]
    BY <1>a, <1>4 DEF JobsInv, Queue!Trail
  <2>4. \A t \in Syncs : Live(t)' => trail'[t] = "enqueued"
    BY <2>2, <2>3 DEF JobsInv
  <2>5. \A a \in AllJobs' : a.attempt = tries'[a.id]
    BY <1>c, <2>1
  <2> QED
    BY <1>3, <2>1, <2>2, <2>3, <2>4, <2>5 DEF JobsInv, OneEach, Beside
<1>5. ASSUME Queue!TakeNext(q, others), trail' = trail, job.attempt + 1 < MaxAttempts
      PROVE  JobsInv' /\ \A t \in Syncs : Live(t)' <=> Live(t)
  <2>1. IsJob(again) /\ again.id = s /\ again.attempt = tries'[s]
    BY <1>a, <1>3, <1>5 DEF IsJob, JobsInv
  <2> HIDE DEF again
  <2>2. OneEach(q) /\ JobsOf(q) = JobsOf(pendingJobs) \cup {again}
    BY <1>0, <2>1, AppendOne
  <2> HIDE DEF q
  <2>3. Beside(others, q)
    BY <1>0, <2>1, <2>2 DEF Beside
  <2>4. /\ OneEach(pendingJobs') /\ Beside(running', pendingJobs')
        /\ AllJobs' = JobsOf(q) \cup others
    BY <1>5, <2>2, <2>3, LoopGoesOn
  <2>5. \A t : Live(t)' <=> Live(t)
    BY <1>1, <1>2, <2>1, <2>2, <2>4, LiveHaveJobs
  <2>6. \A a \in AllJobs' : a.attempt = tries'[a.id]
    BY <1>c, <2>1, <2>2, <2>4
  <2> QED
    BY <1>3, <1>5, <2>4, <2>5, <2>6 DEF JobsInv, OneEach, Beside
<1>6. CASE Queue!Succeed(job)
  <2>1. Queue!TakeNext(pendingJobs, others) /\ trail' = [trail EXCEPT ![job.id] = "succeeded"]
    BY <1>6 DEF Queue!Succeed
  <2> QED
    BY <1>a, <1>3, <1>4, <1>6, <2>1
<1>7. CASE Queue!FailAttempt(job) /\ ~Queue!Succeed(job)
  <2>1. CASE job.attempt + 1 < MaxAttempts
    <3>1. Queue!TakeNext(q, others) /\ trail' = trail
      BY <1>7, <2>1 DEF Queue!FailAttempt
    <3> QED
      BY <1>a, <1>3, <1>5, <1>7, <2>1, <3>1
  <2>2. CASE ~(job.attempt + 1 < MaxAttempts)
    <3>1. Queue!TakeNext(pendingJobs, others) /\ trail' = [trail EXCEPT ![job.id] = "failed"]
      BY <1>7, <2>2 DEF Queue!FailAttempt
    <3>2. tries'[s] = MaxAttempts
      BY <1>a, <1>3, <2>2, SyncAssumption DEF IsJob, JobsInv
    <3> QED
      BY <1>a, <1>3, <1>4, <1>7, <3>1, <3>2
  <2> QED
    BY <2>1, <2>2
<1> QED
  BY <1>6, <1>7

\* A step that leaves the queue alone, or only the jobs and not the trail, keeps it.
LEMMA QueueRests ==
    ASSUME JobsInv, UNCHANGED queueVars
    PROVE  /\ JobsInv' /\ running' = running /\ trail' = trail /\ tries' = tries
           /\ \A s \in Syncs : Live(s)' <=> Live(s)
<1>1. pendingJobs' = pendingJobs /\ running' = running /\ trail' = trail /\ tries' = tries
  BY DEF queueVars
<1>2. Queue!LiveIds' = Queue!LiveIds /\ AllJobs' = AllJobs
  BY <1>1 DEF Queue!LiveIds, Queue!PendingSet, AllJobs
<1> QED
  BY <1>1, <1>2 DEF JobsInv, OneEach, Beside, Live

LEMMA QueueRestarts ==
    ASSUME JobsInv, Queue!Restart
    PROVE  JobsInv' /\ trail' = trail /\ tries' = tries /\ \A s \in Syncs : ~Live(s)'
<1>1. pendingJobs' = <<>> /\ running' = {} /\ trail' = trail /\ tries' = tries
  BY DEF Queue!Restart
<1>2. Queue!LiveIds' = {} /\ AllJobs' = {}
  BY <1>1 DEF Queue!LiveIds, Queue!PendingSet, AllJobs
<1>3. OneEach(<<>>)
  BY DEF OneEach
<1> QED
  BY <1>1, <1>2, <1>3 DEF JobsInv, OneEach, Beside, Live

----------------------------------------------------------------------------
(* The rows *)

LEMMA SyncStarts == Init => SyncInv
<1> SUFFICES ASSUME Init PROVE SyncInv
  OBVIOUS
<1>1. /\ pendingJobs = <<>> /\ running = {}
      /\ trail = [s \in Syncs |-> "absent"] /\ tries = [s \in Syncs |-> 0]
  BY DEF Init, Queue!Init
<1>2. Queue!LiveIds = {} /\ AllJobs = {}
  BY <1>1 DEF Queue!LiveIds, Queue!PendingSet, AllJobs
<1>3. JobsInv
  BY <1>1, <1>2 DEF JobsInv, OneEach, Beside, Live, Queue!Trail
<1>4. Shape
  BY InitEstablishes DEF IInv
<1>5. ASSUME NEW s \in Syncs PROVE RowTrue(s) /\ RowExact(s)
  <2>1. stage[s] = "idle" /\ syncJob[s] = NoRow /\ trail[s] = "absent" /\ tries[s] = 0
    BY <1>1 DEF Init, Ops
  <2> QED
    BY <2>1 DEF RowTrue, RowExact, NoRow, Busy, Idle
<1> QED
  BY <1>3, <1>4, <1>5 DEF SyncInv, RowsInv

\* What a step leaves alone of a sync, and of its job, stays true.
LEMMA RowStands ==
    ASSUME RowsInv, NEW s \in Syncs,
           stage'[s] = stage[s], seen'[s] = seen[s], syncJob'[s] = syncJob[s],
           tries'[s] = tries[s], trail'[s] = trail[s], Live(s)' <=> Live(s),
           reference => reference', faulted => faulted'
    PROVE  RowTrue(s)' /\ (~faulted' => RowExact(s)')
BY DEF RowsInv, RowTrue, Stored, RowExact, Busy, At

\* Handlers never write another sync's row, and nothing removes the reference.
LEMMA OthersRowsStand ==
    ASSUME SyncInv, NEW o \in Ops, NEW s \in Syncs, s # o,
           QueueSync(o) \/ StartPush(o) \/ StartTest(o) \/ Step(o),
           tries'[s] = tries[s], trail'[s] = trail[s], Live(s)' <=> Live(s)
    PROVE  RowTrue(s)' /\ (~faulted' => RowExact(s)')
<1> USE DEF SyncInv, Shape, Ops, Enter
<1>1. stage'[s] = stage[s]
  BY DEF Step, QueueSync, EnqueueSync, StartPush, StartTest, ReadSync, Read, MarkRunning,
         ConnectorSyncs, ConnectorThrows, ConnectorTests, UpsertReference, StoreSucceeded,
         StoreFailed, Connect, Degrade, Ends, Emit, EmitFailed, Resolve, Throw, StatementThrows
<1>2. seen'[s] = seen[s]
  BY DEF Step, QueueSync, EnqueueSync, StartPush, StartTest, ReadSync, Read, MarkRunning,
         ConnectorSyncs, ConnectorThrows, ConnectorTests, UpsertReference, StoreSucceeded,
         StoreFailed, Connect, Degrade, Emit, EmitFailed, Resolve, Throw, StatementThrows
<1>3. syncJob'[s] = syncJob[s]
  BY DEF Step, QueueSync, EnqueueSync, StartPush, StartTest, ReadSync, Read, MarkRunning, rowVars,
         ConnectorSyncs, ConnectorThrows, ConnectorTests, UpsertReference, StoreSucceeded,
         StoreFailed, Connect, Degrade, Emit, EmitFailed, Resolve, Throw, StatementThrows
<1>4. (reference => reference') /\ (faulted => faulted')
  BY DEF Step, QueueSync, EnqueueSync, StartPush, StartTest, ReadSync, Read, MarkRunning, rowVars,
         ghosts, ConnectorSyncs, ConnectorThrows, ConnectorTests, UpsertReference, StoreSucceeded,
         StoreFailed, Connect, Degrade, Emit, EmitFailed, Resolve, Throw, StatementThrows
<1> QED
  BY <1>1, <1>2, <1>3, <1>4, RowStands

\* What a handler's statements do to its own row, between the queue's steps.
LEMMA OwnRowKept ==
    ASSUME SyncInv, NEW s \in Syncs, UNCHANGED queueVars,
           \/ QueueSync(s) \/ ReadSync(s) \/ MarkRunning(s)
           \/ \E touches, names \in BOOLEAN : ConnectorSyncs(s, touches, names)
           \/ \E late \in BOOLEAN : ConnectorThrows(s, late)
           \/ UpsertReference(s) \/ StoreSucceeded(s) \/ Connect(s)
           \/ \E throws \in BOOLEAN : Emit(s, throws)
           \/ StoreFailed(s) \/ Degrade(s) \/ EmitFailed(s) \/ StatementThrows(s)
    PROVE  RowTrue(s)' /\ (~faulted' => RowExact(s)')
<1>1. /\ running' = running /\ trail'[s] = trail[s] /\ tries'[s] = tries[s]
      /\ Live(s)' <=> Live(s)
  BY QueueRests DEF SyncInv
<1>2. /\ RowTrue(s) /\ (~faulted => RowExact(s))
      /\ Live(s) => trail[s] = "enqueued"
      /\ tries[s] \in Nat /\ s \in Ops
  BY DEF SyncInv, RowsInv, JobsInv, Ops
<1>3. /\ stage[s] \in Stages /\ seen[s] \in SeenRecord /\ syncJob[s] \in SyncRow
      /\ DOMAIN stage = Ops /\ DOMAIN seen = Ops /\ DOMAIN syncJob = Syncs
  BY <1>2 DEF SyncInv, Shape
<1>4. s \in {job.id : job \in running} => Live(s)
  BY JobsRunAreLive DEF SyncInv
<1> USE <1>1, <1>2, <1>3, <1>4
    DEF RowTrue, Stored, RowExact, Busy, Idle, At, Enter, SyncRow, SeenRecord
<1>5. CASE QueueSync(s)
  BY <1>5 DEF QueueSync, NoRow, NewRow, ghosts
<1>6. CASE ReadSync(s)
  <2>1. stage'[s] = "mark" /\ seen'[s].attemptCount = syncJob[s].attemptCount
    BY <1>6 DEF ReadSync, Read
  <2>2. syncJob' = syncJob /\ reference' = reference /\ faulted' = faulted
        /\ seen'[s].answer = seen[s].answer
    BY <1>6 DEF ReadSync, Read, rowVars
  <2> QED
    BY <1>6, <2>1, <2>2 DEF ReadSync
<1>7. CASE MarkRunning(s)
  <2>1. stage[s] = "mark" /\ stage'[s] = "sync" /\ reference' = reference /\ faulted' = faulted
    BY <1>7 DEF MarkRunning, ghosts
  <2>2. syncJob'[s].status = "running" /\ syncJob'[s].attemptCount = syncJob[s].attemptCount + 1
    BY <1>7 DEF MarkRunning
  <2> QED
    BY <2>1, <2>2
<1>8. CASE \E touches, names \in BOOLEAN : ConnectorSyncs(s, touches, names)
  <2>1. PICK touches \in BOOLEAN, names \in BOOLEAN : ConnectorSyncs(s, touches, names)
    BY <1>8
  <2>2. /\ stage[s] = "sync" /\ syncJob' = syncJob
        /\ reference' = reference /\ faulted' = faulted
        /\ stage'[s] = IF names THEN "upsert" ELSE OnAnswer(s)
        /\ seen'[s].answer = IF names THEN "named" ELSE "unnamed"
    BY <2>1 DEF ConnectorSyncs
  <2>3. OnAnswer(s) = "storeSucceeded"
    BY DEF OnAnswer
  <2> QED
    BY <2>2, <2>3
<1>9. CASE \E late \in BOOLEAN : ConnectorThrows(s, late)
  <2>1. /\ stage[s] = "sync" /\ stage'[s] = "storeFailed" /\ syncJob' = syncJob
        /\ reference' = reference /\ (faulted => faulted')
    BY <1>9 DEF ConnectorThrows, OnError
  <2> QED
    BY <2>1
<1>10. CASE UpsertReference(s)
  BY <1>10 DEF UpsertReference, OnAnswer, ghosts
<1>11. CASE StoreSucceeded(s)
  <2>1. /\ stage[s] = "storeSucceeded" /\ stage'[s] = "connect" /\ seen' = seen
        /\ reference' = reference /\ faulted' = faulted
    BY <1>11 DEF StoreSucceeded, ghosts
  <2>2. syncJob'[s].status = "succeeded" /\ syncJob'[s].attemptCount = syncJob[s].attemptCount
    BY <1>11 DEF StoreSucceeded
  <2> QED
    BY <2>1, <2>2
<1>12. CASE Connect(s)
  BY <1>12 DEF Connect, Ends
<1>13. CASE \E throws \in BOOLEAN : Emit(s, throws)
  BY <1>13 DEF Emit, rowVars, ghosts
<1>14. CASE StoreFailed(s)
  <2>1. /\ stage[s] = "storeFailed" /\ stage'[s] = "degrade"
        /\ reference' = reference /\ faulted' = faulted
    BY <1>14 DEF StoreFailed, ghosts
  <2>2. syncJob'[s].status = "failed" /\ syncJob'[s].attemptCount = syncJob[s].attemptCount
    BY <1>14 DEF StoreFailed
  <2> QED
    BY <2>1, <2>2
<1>15. CASE Degrade(s)
  BY <1>15 DEF Degrade, Ends
<1>16. CASE EmitFailed(s)
  BY <1>16 DEF EmitFailed, rowVars, ghosts
<1>17. CASE StatementThrows(s)
  BY <1>17 DEF StatementThrows, OnError, rowVars
<1> QED
  BY <1>5, <1>6, <1>7, <1>8, <1>9, <1>10, <1>11, <1>12, <1>13, <1>14, <1>15, <1>16, <1>17

\* The handler's answer to the queue.
LEMMA AnswerKeeps ==
    ASSUME SyncInv, NEW job \in running, Resolve(job) \/ Throw(job)
    PROVE  JobsInv' /\ RowsInv'
<1> DEFINE s == job.id
<1>1. /\ JobsInv' /\ s \in Syncs /\ Live(s)
      /\ tries' = [tries EXCEPT ![s] = @ + 1]
      /\ \A t \in Syncs \ {s} : (Live(t)' <=> Live(t)) /\ trail'[t] = trail[t]
      /\ Queue!Succeed(job) => trail'[s] = "succeeded" /\ ~Live(s)'
      /\ ~Queue!Succeed(job) =>
            \/ Live(s)' /\ trail'[s] = "enqueued"
            \/ trail'[s] = "failed" /\ tries'[s] = MaxAttempts /\ ~Live(s)'
  BY HandlerEnds DEF SyncInv, Resolve, Throw
<1>2. /\ UNCHANGED <<rowVars, seen, faulted>> /\ stage' = [stage EXCEPT ![s] = "waiting"]
      /\ stage[s] \in {"resolve", "throw"}
      /\ stage[s] = "resolve" => Queue!Succeed(job)
      /\ stage[s] = "throw" => Queue!FailAttempt(job)
  BY DEF Resolve, Throw, Enter, At
<1>3. ASSUME NEW t \in Syncs, t # s PROVE RowTrue(t)' /\ (~faulted' => RowExact(t)')
  <2>1. stage'[t] = stage[t] /\ tries'[t] = tries[t]
    BY <1>1, <1>2, <1>3 DEF SyncInv, Shape, Ops, JobsInv
  <2> QED
    BY <1>1, <1>2, <1>3, <2>1, RowStands DEF rowVars, SyncInv
<1>4. RowTrue(s)' /\ (~faulted' => RowExact(s)')
  <2>1. stage'[s] = "waiting" /\ tries'[s] = tries[s] + 1 /\ tries[s] \in Nat
    BY <1>1, <1>2 DEF SyncInv, Shape, Ops, JobsInv
  <2>2. syncJob' = syncJob /\ reference' = reference /\ faulted' = faulted /\ seen' = seen
        /\ syncJob[s] \in SyncRow
    BY <1>1, <1>2 DEF rowVars, SyncInv, Shape
  <2>3. RowTrue(s) /\ (~faulted => RowExact(s))
    BY <1>1 DEF SyncInv, RowsInv
  <2>4. CASE stage[s] = "resolve"
    BY <1>1, <1>2, <2>1, <2>2, <2>3, <2>4 DEF RowTrue, Stored, RowExact, Busy, Idle, At, SyncRow
  <2>5. CASE stage[s] = "throw"
    <3>1. ~Queue!Succeed(job) \/ ~Queue!FailAttempt(job) \/ (trail'[s] = "succeeded" /\ FALSE)
      <4>1. Queue!Succeed(job) /\ Queue!FailAttempt(job) =>
                trail'[s] = "succeeded" /\ trail'[s] \in {"enqueued", "failed"}
        BY <1>1 DEF Queue!FailAttempt, SyncInv, JobsInv
      <4> QED
        BY <4>1
    <3>2. ~Queue!Succeed(job)
      BY <1>2, <2>5, <3>1
    <3>3. RowTrue(s)'
      BY <1>1, <2>1, <2>2, <2>3, <2>5 DEF RowTrue, Stored, Busy, Idle, SyncRow
    <3>4. ASSUME ~faulted PROVE RowExact(s)'
      <4>1. syncJob[s].attemptCount = tries[s] + 1 /\ syncJob[s].status = "failed"
        BY <2>3, <2>5, <3>4 DEF RowExact, Busy, Idle
      <4>2. syncJob[s] = [status |-> "failed", attemptCount |-> tries'[s]]
        BY <2>1, <2>2, <4>1 DEF SyncRow
      <4> QED
        BY <1>1, <2>1, <2>2, <3>2, <4>1, <4>2 DEF RowExact, Busy, Idle, At
    <3> QED
      BY <2>2, <3>3, <3>4
  <2> QED
    BY <1>2, <2>4, <2>5
<1> QED
  BY <1>1, <1>3, <1>4 DEF RowsInv

LEMMA SyncKept == SyncInv /\ [Next]_vars => SyncInv'
<1> SUFFICES ASSUME SyncInv, [Next]_vars PROVE JobsInv' /\ RowsInv'
  BY ShapeKept DEF SyncInv
<1>1. ASSUME NEW o \in Ops, UNCHANGED queueVars,
             QueueSync(o) \/ StartPush(o) \/ StartTest(o) \/ Step(o)
      PROVE  JobsInv' /\ RowsInv'
  <2>1. JobsInv' /\ trail' = trail /\ tries' = tries /\ \A s \in Syncs : Live(s)' <=> Live(s)
    BY <1>1, QueueRests DEF SyncInv
  <2>2. ASSUME NEW s \in Syncs, s # o PROVE RowTrue(s)' /\ (~faulted' => RowExact(s)')
    BY <1>1, <2>1, <2>2, OthersRowsStand
  <2>3. ASSUME o \in Syncs PROVE RowTrue(o)' /\ (~faulted' => RowExact(o)')
    <3>1. ~StartPush(o) /\ ~StartTest(o)
      BY <2>3, SyncAssumption DEF StartPush, StartTest
    <3>2. ~\E healthy \in BOOLEAN : ConnectorTests(o, healthy)
      BY <2>3 DEF ConnectorTests, At, SyncInv, RowsInv, RowTrue
    <3>3. ~EnqueueSync(o)
      BY <1>1, <2>3 DEF EnqueueSync, Queue!Enqueue, queueVars, SyncInv, JobsInv
    <3>4. ASSUME NEW job \in running, job.id = o, Resolve(job) \/ Throw(job) PROVE FALSE
      BY <1>1, <2>3, <3>4, HandlerEnds DEF Resolve, Throw, queueVars, SyncInv, JobsInv
    <3> QED
      BY <1>1, <2>3, <3>1, <3>2, <3>3, <3>4, OwnRowKept DEF Step
  <2> QED
    BY <2>1, <2>2, <2>3 DEF RowsInv
<1>2. ASSUME NEW s \in Syncs, EnqueueSync(s) PROVE JobsInv' /\ RowsInv'
  <2>1. /\ stage[s] = "enqueue" /\ UNCHANGED <<rowVars, seen, ghosts>>
        /\ stage' = [stage EXCEPT ![s] = "waiting"] /\ Queue!Enqueue(s)
    BY <1>2 DEF EnqueueSync, At, Enter
  <2>2. RowTrue(s) /\ (~faulted => RowExact(s))
    BY DEF SyncInv, RowsInv
  <2>3. /\ trail[s] = "absent" /\ trail' = [trail EXCEPT ![s] = "enqueued"] /\ tries' = tries
        /\ JobsInv' /\ Live(s)' /\ \A t \in Syncs \ {s} : Live(t)' <=> Live(t)
    BY <2>1, <2>2, EnqueueAdds DEF SyncInv, RowTrue
  <2>4. stage'[s] = "waiting" /\ trail'[s] = "enqueued" /\ tries'[s] = 0 /\ tries[s] = 0
        /\ \A t \in Syncs \ {s} : stage'[t] = stage[t] /\ trail'[t] = trail[t]
    BY <2>1, <2>2, <2>3 DEF SyncInv, Shape, JobsInv, Ops, RowTrue
  <2>5. RowTrue(s)' /\ (~faulted' => RowExact(s)')
    BY <2>1, <2>2, <2>3, <2>4 DEF RowTrue, Stored, RowExact, Busy, Idle, At, rowVars, ghosts, NewRow
  <2>6. ASSUME NEW t \in Syncs, t # s PROVE RowTrue(t)' /\ (~faulted' => RowExact(t)')
    BY <2>1, <2>3, <2>4, <2>6, RowStands DEF rowVars, ghosts, SyncInv
  <2> QED
    BY <2>3, <2>5, <2>6 DEF RowsInv
<1>3. ASSUME NEW job \in running, Resolve(job) \/ Throw(job) PROVE JobsInv' /\ RowsInv'
  BY <1>3, AnswerKeeps
<1>4. CASE Restart
  <2>1. JobsInv' /\ trail' = trail /\ tries' = tries /\ \A s \in Syncs : ~Live(s)'
    BY <1>4, QueueRestarts DEF Restart, SyncInv
  <2>2. /\ faulted' /\ UNCHANGED <<rowVars, seen>>
        /\ \A s \in Syncs : stage'[s] = IF stage[s] = "idle" THEN "idle" ELSE "done"
    BY <1>4 DEF Restart, Ops
  <2>3. ASSUME NEW s \in Syncs PROVE RowTrue(s)'
    <3>1. RowTrue(s)
      BY DEF SyncInv, RowsInv
    <3> QED
      BY <2>1, <2>2, <3>1 DEF RowTrue, Stored, Busy, Idle, rowVars
  <2> QED
    BY <2>1, <2>2, <2>3 DEF RowsInv
<1>5. CASE UNCHANGED vars
  <2>1. /\ JobsInv' /\ trail' = trail /\ tries' = tries
        /\ \A s \in Syncs : Live(s)' <=> Live(s)
    BY <1>5, QueueRests DEF vars, SyncInv, queueVars
  <2> QED
    BY <1>5, <2>1, RowStands DEF vars, rowVars, ghosts, SyncInv, RowsInv
<1>6. ASSUME NEW o \in Ops, QueueSync(o) \/ StartPush(o) \/ StartTest(o) \/ Step(o)
      PROVE  \/ UNCHANGED queueVars
             \/ o \in Syncs /\ EnqueueSync(o)
             \/ \E job \in running : Resolve(job) \/ Throw(job)
  BY <1>6 DEF Step, QueueSync, EnqueueSync, StartPush, StartTest, ReadSync, Read, MarkRunning,
         ConnectorSyncs, ConnectorThrows, ConnectorTests, UpsertReference, StoreSucceeded,
         StoreFailed, Connect, Degrade, Emit, EmitFailed, StatementThrows
<1> QED
  BY <1>1, <1>2, <1>3, <1>4, <1>5, <1>6 DEF Next

THEOREM SyncInvariant == Spec => []SyncInv
BY SyncStarts, SyncKept, PTL DEF Spec

\* A row that says succeeded had an answer whose object is referred to if the answer
\* named it, attempts are never counted twice, and without faults a row and the queue's trail end alike: none
\* is left queued or running without a job, however its attempts, the direct
\* syncs and the tests interleave (processSyncJob, queueSyncJob).
THEOREM SyncRowsCorrect == Spec => []SyncRowsTellTheTruth
<1>1. SyncInv => SyncRowsTellTheTruth
  BY DEF SyncInv, RowsInv, RowTrue, Stored, RowExact, SyncRowsTellTheTruth, Live
<1> QED
  BY SyncInvariant, <1>1, PTL

----------------------------------------------------------------------------
(* The queue's contract *)

\* Each step of the service is one of the queue's steps or leaves the queue alone.
LEMMA QueueStep == [Next]_vars => [Queue!Next]_Queue!queueVars
<1> SUFFICES ASSUME [Next]_vars PROVE Queue!Next \/ UNCHANGED queueVars
  BY DEF queueVars, Queue!queueVars
<1>1. ASSUME NEW o \in Ops, QueueSync(o) \/ StartPush(o) \/ StartTest(o) \/ Step(o)
      PROVE  \/ UNCHANGED queueVars
             \/ o \in Syncs /\ Queue!Enqueue(o)
             \/ \E job \in running : Queue!Succeed(job) \/ Queue!FailAttempt(job)
  BY <1>1 DEF Step, QueueSync, EnqueueSync, StartPush, StartTest, ReadSync, Read, MarkRunning,
         ConnectorSyncs, ConnectorThrows, ConnectorTests, UpsertReference, StoreSucceeded,
         StoreFailed, Connect, Degrade, Emit, EmitFailed, StatementThrows, Resolve, Throw
<1>2. CASE UNCHANGED vars
  BY <1>2 DEF vars
<1>3. CASE Restart
  BY <1>3 DEF Restart, Queue!Next
<1> QED
  BY <1>1, <1>2, <1>3 DEF Next, Queue!Next, Queue!Work

\* The sync service uses the queue as JobQueue specifies: a sync is enqueued
\* once, and its job ends only through its handler's result or a crash.
THEOREM SyncQueueUsedAsSpecified == Spec => Queue!Spec
<1>1. Init => Queue!Init
  BY DEF Init
<1> QED
  BY <1>1, QueueStep, PTL DEF Spec, Queue!Spec

=============================================================================
