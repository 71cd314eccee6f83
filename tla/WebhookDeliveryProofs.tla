-------------------------- MODULE WebhookDeliveryProofs --------------------------
(***************************************************************************)
(* Webhook deliveries for every number of events, endpoints, replays and   *)
(* attempts: rows tell the truth, and delivered is final.                  *)
(***************************************************************************)
EXTENDS WebhookDelivery, TLAPS

Stages == {"read", "count", "post", "storeDelivered", "storeFailed", "resolve", "throw"}
Live(d) == d \in Queue!LiveIds

IsJob(a) == /\ a.id \in Deliveries
            /\ a = [id |-> a.id, attempt |-> a.attempt, enqueuedAt |-> a.enqueuedAt]

\* A list of jobs in which no delivery occurs twice.
OneEach(q) ==
    /\ \E S : q \in Seq(S)
    /\ \A n \in 1..Len(q) : IsJob(q[n])
    /\ \A m, n \in 1..Len(q) : q[m].id = q[n].id => m = n

IdsOf(q) == {q[n].id : n \in 1..Len(q)}

\* Jobs that run beside a waiting list.
Beside(jobs, q) ==
    /\ \A r \in jobs : IsJob(r) /\ r.id \notin IdsOf(q)
    /\ \A r, s \in jobs : r.id = s.id => r = s

\* No delivery has two jobs, and the trail of one that has is "enqueued".
JobsInv ==
    /\ OneEach(pendingJobs) /\ Beside(running, pendingJobs)
    /\ trail \in [Deliveries -> Queue!Trail] /\ tries \in [Deliveries -> Nat]
    /\ \A d \in Deliveries : Live(d) => trail[d] = "enqueued"

RowTypes ==
    /\ row \in [Deliveries -> [status : {"absent", "queued", "delivered", "failed"},
                               attemptCount : Nat]]
    /\ accepted \in [Deliveries -> Nat]
    /\ caller \in [Callers -> [pc : {"idle", "insert", "enqueue", "done"},
                               todo : SUBSET Deliveries]]
    /\ stage \in [Deliveries -> Stages]
    /\ seen \in [Deliveries -> Nat]

\* Whatever a call has still to do has no job yet.
CallInv ==
    \A c \in Callers :
        /\ caller[c].todo \subseteq FanOut(c)
        /\ \A d \in caller[c].todo : trail[d] = "absent"
        /\ caller[c].pc = "idle" => \A d \in FanOut(c) : trail[d] = "absent"

\* Nothing has happened to a delivery that has no job yet.
FreshInv ==
    \A d \in Deliveries : trail[d] = "absent" =>
        /\ row[d].status \in {"absent", "queued"} /\ row[d].attemptCount = 0
        /\ accepted[d] = 0 /\ stage[d] = "read"

\* What the row says, and what the handler of a live job has established.
RowTrue(d) ==
    /\ accepted[d] <= row[d].attemptCount /\ row[d].attemptCount <= tries[d] + 1
    /\ trail[d] = "succeeded" => row[d].status = "delivered"
    /\ row[d].status = "delivered" => accepted[d] > 0

HandlerTrue(d) ==
    /\ stage[d] \in {"read", "count"} => row[d].attemptCount <= tries[d]
    /\ stage[d] = "count" => seen[d] = row[d].attemptCount
    /\ stage[d] = "post" => accepted[d] < row[d].attemptCount
    /\ stage[d] \in {"storeDelivered", "resolve"} => accepted[d] > 0
    /\ stage[d] = "resolve" <=> row[d].status = "delivered"

TruthInv == \A d \in Deliveries : RowTrue(d) /\ (Live(d) => HandlerTrue(d))

DeliveryInv == JobsInv /\ RowTypes /\ CallInv /\ FreshInv /\ TruthInv

----------------------------------------------------------------------------
(* The queue: no job is doubled *)

LEMMA AppendOne ==
    ASSUME NEW q, OneEach(q), NEW x, IsJob(x), x.id \notin IdsOf(q)
    PROVE  OneEach(Append(q, x)) /\ IdsOf(Append(q, x)) = IdsOf(q) \cup {x.id}
<1> PICK S : q \in Seq(S)
    BY DEF OneEach
<1> DEFINE p == Append(q, x)
<1>1. /\ p \in Seq(S \cup {x}) /\ Len(q) \in Nat /\ Len(p) = Len(q) + 1
      /\ (\A n \in 1..Len(q) : p[n] = q[n]) /\ p[Len(q) + 1] = x
    <2>1. q \in Seq(S \cup {x})
        OBVIOUS
    <2> QED
        BY <2>1
<1> HIDE DEF p
<1>2. 1..Len(p) = 1..Len(q) \cup {Len(q) + 1}
    BY <1>1
<1>3. \A n \in 1..Len(p) : IsJob(p[n])
    BY <1>1, <1>2 DEF OneEach
<1>4. \A n \in 1..Len(q) : q[n].id # x.id
    BY DEF IdsOf
<1>5. ASSUME NEW m \in 1..Len(p), NEW n \in 1..Len(p), p[m].id = p[n].id PROVE m = n
    BY <1>1, <1>2, <1>4, <1>5 DEF OneEach
<1>6. OneEach(p)
    BY <1>1, <1>3, <1>5 DEF OneEach
<1>7. IdsOf(p) = IdsOf(q) \cup {x.id}
    BY <1>1, <1>2 DEF IdsOf
<1> QED
    BY <1>6, <1>7 DEF p

LEMMA TailOne ==
    ASSUME NEW q, OneEach(q), q # <<>>
    PROVE  /\ OneEach(Tail(q)) /\ IsJob(Head(q))
           /\ Head(q).id \notin IdsOf(Tail(q))
           /\ IdsOf(q) = IdsOf(Tail(q)) \cup {Head(q).id}
<1> PICK S : q \in Seq(S)
    BY DEF OneEach
<1> DEFINE p == Tail(q)
<1>1. /\ p \in Seq(S) /\ Len(q) \in Nat \ {0} /\ Len(p) = Len(q) - 1
      /\ (\A n \in 1..Len(p) : p[n] = q[n + 1]) /\ Head(q) = q[1]
    OBVIOUS
<1> HIDE DEF p
<1>2. 1 \in 1..Len(q) /\ \A n \in 1..Len(p) : n + 1 \in 1..Len(q) /\ n + 1 # 1
    BY <1>1
<1>3. \A n \in 1..Len(q) : n = 1 \/ (n - 1 \in 1..Len(p) /\ q[n] = p[n - 1])
    BY <1>1
<1>4. ASSUME NEW m \in 1..Len(p), NEW n \in 1..Len(p), p[m].id = p[n].id PROVE m = n
    <2>1. m + 1 = n + 1
        BY <1>1, <1>2, <1>4 DEF OneEach
    <2> QED
        BY <2>1, <1>1
<1>5. OneEach(p)
    BY <1>1, <1>2, <1>4 DEF OneEach
<1>6. \A n \in 1..Len(p) : p[n].id # q[1].id
    BY <1>1, <1>2 DEF OneEach
<1>7. IdsOf(q) = IdsOf(p) \cup {q[1].id}
    <2>1. IdsOf(q) \subseteq IdsOf(p) \cup {q[1].id}
        BY <1>3 DEF IdsOf
    <2>2. IdsOf(p) \cup {q[1].id} \subseteq IdsOf(q)
        BY <1>1, <1>2 DEF IdsOf
    <2> QED
        BY <2>1, <2>2
<1> QED
    BY <1>1, <1>2, <1>5, <1>6, <1>7 DEF p, IdsOf, OneEach

LEMMA IdsAre ==
    ASSUME OneEach(pendingJobs)
    PROVE  Queue!LiveIds = IdsOf(pendingJobs) \cup {r.id : r \in running}
<1>1. DOMAIN pendingJobs = 1..Len(pendingJobs)
    BY DEF OneEach
<1> QED
    BY <1>1 DEF Queue!LiveIds, Queue!PendingSet, IdsOf

LEMMA LoopGoesOn ==
    ASSUME NEW q, NEW others, OneEach(q), Beside(others, q), Queue!TakeNext(q, others)
    PROVE  /\ OneEach(pendingJobs') /\ Beside(running', pendingJobs')
           /\ Queue!LiveIds' = IdsOf(q) \cup {r.id : r \in others}
<1>1. OneEach(pendingJobs)' => Queue!LiveIds' = IdsOf(pendingJobs') \cup {r.id : r \in running'}
    <2>1. OneEach(pendingJobs)' => DOMAIN pendingJobs' = 1..Len(pendingJobs')
        BY DEF OneEach
    <2> QED
        BY <2>1 DEF Queue!LiveIds, Queue!PendingSet, IdsOf
<1>2. CASE q = <<>>
    BY <1>1, <1>2 DEF Queue!TakeNext, OneEach, IdsOf
<1>3. CASE q # <<>>
    <2>1. pendingJobs' = Tail(q) /\ running' = others \cup {Head(q)}
        BY <1>3 DEF Queue!TakeNext
    <2>2. /\ OneEach(Tail(q)) /\ IsJob(Head(q)) /\ Head(q).id \notin IdsOf(Tail(q))
          /\ IdsOf(q) = IdsOf(Tail(q)) \cup {Head(q).id}
        BY <1>3, TailOne
    <2>3. \A r \in others : r.id # Head(q).id /\ r.id \notin IdsOf(Tail(q))
        BY <2>2 DEF Beside
    <2>4. Beside(running', pendingJobs')
        BY <2>1, <2>2, <2>3 DEF Beside
    <2>5. OneEach(pendingJobs)'
        BY <2>1, <2>2 DEF OneEach
    <2> QED
        BY <1>1, <2>1, <2>2, <2>4, <2>5
<1> QED
    BY <1>2, <1>3

\* What a delivery's job coming, staying or leaving does to the queue.
LEMMA EnqueueAdds ==
    ASSUME JobsInv, NEW d \in Deliveries, Queue!Enqueue(d)
    PROVE  /\ trail[d] = "absent" /\ trail' = [trail EXCEPT ![d] = "enqueued"] /\ tries' = tries
           /\ JobsInv' /\ Queue!LiveIds' = Queue!LiveIds \cup {d}
<1> DEFINE x == [id |-> d, attempt |-> 0, enqueuedAt |-> Queue!Now]
           q == Append(pendingJobs, x)
<1>1. /\ trail[d] = "absent" /\ trail' = [trail EXCEPT ![d] = "enqueued"] /\ tries' = tries
      /\ IF isProcessing THEN pendingJobs' = q /\ running' = running
                         ELSE Queue!TakeNext(q, running)
    BY DEF Queue!Enqueue
<1>2. IsJob(x) /\ x.id = d
    BY DEF IsJob
<1>3. Queue!LiveIds = IdsOf(pendingJobs) \cup {r.id : r \in running}
    BY IdsAre DEF JobsInv
<1>4. d \notin IdsOf(pendingJobs) /\ \A r \in running : r.id # d
    BY <1>1, <1>3 DEF JobsInv, Live
<1> HIDE DEF x
<1>5. OneEach(q) /\ IdsOf(q) = IdsOf(pendingJobs) \cup {d}
    BY <1>2, <1>4, AppendOne DEF JobsInv
<1> HIDE DEF q
<1>6. Beside(running, q)
    BY <1>4, <1>5 DEF JobsInv, Beside
<1>7. /\ OneEach(pendingJobs') /\ Beside(running', pendingJobs')
      /\ Queue!LiveIds' = IdsOf(q) \cup {r.id : r \in running}
    <2>1. CASE isProcessing
        <3>1. OneEach(pendingJobs)'
            BY <1>1, <1>5, <2>1 DEF OneEach
        <3>2. DOMAIN pendingJobs' = 1..Len(pendingJobs')
            BY <3>1 DEF OneEach
        <3> QED
            BY <1>1, <1>5, <1>6, <2>1, <3>2 DEF Queue!LiveIds, Queue!PendingSet, IdsOf
    <2>2. CASE ~isProcessing
        BY <1>1, <1>5, <1>6, <2>2, LoopGoesOn
    <2> QED
        BY <2>1, <2>2
<1>8. Queue!LiveIds' = Queue!LiveIds \cup {d}
    BY <1>3, <1>5, <1>7
<1>9. trail' \in [Deliveries -> Queue!Trail] /\ \A e \in Deliveries : Live(e)' => trail'[e] = "enqueued"
    BY <1>1, <1>8 DEF JobsInv, Queue!Trail, Live
<1> QED
    BY <1>1, <1>7, <1>8, <1>9 DEF JobsInv, OneEach, Beside

LEMMA HandlerEnds ==
    ASSUME JobsInv, NEW job \in running, Queue!Succeed(job) \/ Queue!FailAttempt(job)
    PROVE  /\ JobsInv' /\ job.id \in Deliveries /\ Live(job.id)
           /\ tries' = [tries EXCEPT ![job.id] = @ + 1]
           /\ \A e \in Deliveries \ {job.id} : Live(e)' <=> Live(e)
           /\ \A e \in Deliveries \ {job.id} : trail'[e] = trail[e]
           /\ Queue!Succeed(job) => ~Live(job.id)'
           /\ trail'[job.id] = "succeeded" => Queue!Succeed(job)
           /\ trail'[job.id] # "absent"
<1> DEFINE others == running \ {job}
           again == [job EXCEPT !.attempt = job.attempt + 1]
           q == Append(pendingJobs, again)
<1>0. /\ IsJob(job) /\ job.id \notin IdsOf(pendingJobs) /\ OneEach(pendingJobs)
      /\ \A r \in others : r.id # job.id
      /\ Beside(others, pendingJobs)
    BY DEF JobsInv, Beside
<1>1. Queue!LiveIds = IdsOf(pendingJobs) \cup {r.id : r \in others} \cup {job.id}
    BY <1>0, IdsAre
<1>2. job.id \in Deliveries /\ Live(job.id) /\ trail[job.id] = "enqueued"
    BY <1>0, <1>1 DEF IsJob, Live, JobsInv
<1>3. tries' = [tries EXCEPT ![job.id] = @ + 1] /\ tries' \in [Deliveries -> Nat]
    <2>1. tries' = [tries EXCEPT ![job.id] = @ + 1]
        BY DEF Queue!Succeed, Queue!FailAttempt
    <2> QED
        BY <1>2, <2>1 DEF JobsInv
<1>4. ASSUME Queue!TakeNext(pendingJobs, others), NEW outcome \in {"succeeded", "failed"},
             trail' = [trail EXCEPT ![job.id] = outcome]
      PROVE  /\ JobsInv' /\ ~Live(job.id)' /\ trail'[job.id] = outcome
             /\ \A e \in Deliveries \ {job.id} : (Live(e)' <=> Live(e)) /\ trail'[e] = trail[e]
    <2>1. /\ OneEach(pendingJobs') /\ Beside(running', pendingJobs')
          /\ Queue!LiveIds' = IdsOf(pendingJobs) \cup {r.id : r \in others}
        BY <1>0, <1>4, LoopGoesOn
    <2>2. ~Live(job.id)' /\ \A e \in Deliveries \ {job.id} : Live(e)' <=> Live(e)
        BY <1>0, <1>1, <2>1 DEF Live
    <2>3. trail' \in [Deliveries -> Queue!Trail] /\ trail'[job.id] = outcome
          /\ \A e \in Deliveries \ {job.id} : trail'[e] = trail[e]
        BY <1>2, <1>4 DEF JobsInv, Queue!Trail
    <2>4. \A e \in Deliveries : Live(e)' => trail'[e] = "enqueued"
        BY <2>2, <2>3 DEF JobsInv
    <2> QED
        BY <1>3, <2>1, <2>2, <2>3, <2>4 DEF JobsInv, OneEach, Beside
<1>5. ASSUME Queue!TakeNext(q, others), trail' = trail
      PROVE  JobsInv' /\ \A e \in Deliveries : Live(e)' <=> Live(e)
    <2>1. IsJob(again) /\ again.id = job.id
        BY <1>0 DEF IsJob
    <2> HIDE DEF again
    <2>2. OneEach(q) /\ IdsOf(q) = IdsOf(pendingJobs) \cup {job.id}
        BY <1>0, <2>1, AppendOne
    <2> HIDE DEF q
    <2>3. Beside(others, q)
        BY <1>0, <2>2 DEF Beside
    <2>4. /\ OneEach(pendingJobs') /\ Beside(running', pendingJobs')
          /\ Queue!LiveIds' = IdsOf(q) \cup {r.id : r \in others}
        BY <1>5, <2>2, <2>3, LoopGoesOn
    <2>5. Queue!LiveIds' = Queue!LiveIds
        BY <1>1, <2>2, <2>4
    <2> QED
        BY <1>3, <1>5, <2>4, <2>5 DEF JobsInv, OneEach, Beside, Live
<1>6. CASE Queue!Succeed(job)
    <2>1. Queue!TakeNext(pendingJobs, others) /\ trail' = [trail EXCEPT ![job.id] = "succeeded"]
        BY <1>6 DEF Queue!Succeed
    <2> QED
        BY <1>2, <1>3, <1>4, <1>6, <2>1
<1>7. CASE Queue!FailAttempt(job) /\ ~Queue!Succeed(job)
    <2>1. \/ Queue!TakeNext(q, others) /\ trail' = trail
          \/ Queue!TakeNext(pendingJobs, others) /\ trail' = [trail EXCEPT ![job.id] = "failed"]
        BY <1>7 DEF Queue!FailAttempt
    <2> QED
        BY <1>2, <1>3, <1>4, <1>5, <1>7, <2>1
<1> QED
    BY <1>6, <1>7

\* A step that leaves the queue alone, or only the jobs and not the trail, keeps it.
LEMMA QueueRests ==
    ASSUME JobsInv, UNCHANGED queueVars
    PROVE  /\ JobsInv' /\ trail' = trail /\ tries' = tries
           /\ \A d \in Deliveries : Live(d)' <=> Live(d)
<1>1. /\ pendingJobs' = pendingJobs /\ running' = running /\ trail' = trail /\ tries' = tries
    BY DEF queueVars
<1>2. Queue!LiveIds' = Queue!LiveIds
    BY <1>1 DEF Queue!LiveIds, Queue!PendingSet
<1> QED
    BY <1>1, <1>2 DEF JobsInv, OneEach, Beside, Live

LEMMA QueueRestarts ==
    ASSUME JobsInv, Queue!Restart
    PROVE  JobsInv' /\ trail' = trail /\ tries' = tries /\ \A d \in Deliveries : ~Live(d)'
<1>1. pendingJobs' = <<>> /\ running' = {} /\ trail' = trail /\ tries' = tries
    BY DEF Queue!Restart
<1>2. Queue!LiveIds' = {}
    BY <1>1 DEF Queue!LiveIds, Queue!PendingSet
<1>3. OneEach(<<>>)
    BY DEF OneEach
<1> QED
    BY <1>1, <1>2, <1>3 DEF JobsInv, OneEach, Beside, Live

----------------------------------------------------------------------------
(* The rows *)

LEMMA OneOwner ==
    ASSUME NEW c1 \in Callers, NEW c2 \in Callers, NEW d \in FanOut(c1), d \in FanOut(c2)
    PROVE  c1 = c2 /\ d \in Deliveries
<1>1. DOMAIN EventOf = Deliveries \ Replays
    BY DeliveryAssumption
<1> QED
    BY <1>1, DeliveryAssumption DEF FanOut, Callers

LEMMA JobsRunAreLive ==
    ASSUME JobsInv, NEW job \in running
    PROVE  job.id \in Deliveries /\ Live(job.id) /\ trail[job.id] = "enqueued"
<1>1. job.id \in Queue!LiveIds
    BY DEF Queue!LiveIds
<1> QED
    BY <1>1 DEF JobsInv, Beside, IsJob, Live

LEMMA DeliveryStarts == Init => DeliveryInv
<1> SUFFICES ASSUME Init PROVE DeliveryInv
    OBVIOUS
<1>1. /\ pendingJobs = <<>> /\ running = {}
      /\ trail = [d \in Deliveries |-> "absent"] /\ tries = [d \in Deliveries |-> 0]
    BY DEF Init, Queue!Init
<1>2. Queue!LiveIds = {}
    BY <1>1 DEF Queue!LiveIds, Queue!PendingSet
<1>3. JobsInv
    BY <1>1, <1>2 DEF JobsInv, OneEach, Beside, Live, Queue!Trail
<1>4. RowTypes
    BY DEF Init, RowTypes, NoRow, Stages
<1>5. CallInv
    <2> SUFFICES ASSUME NEW c \in Callers
                 PROVE  \A d \in FanOut(c) : trail[d] = "absent"
        BY DEF CallInv, Init
    <2> QED
        BY <1>1, OneOwner
<1>6. FreshInv
    BY DEF Init, FreshInv, NoRow
<1>7. TruthInv
    BY <1>1, <1>2 DEF Init, TruthInv, RowTrue, Live, NoRow
<1> QED
    BY <1>3, <1>4, <1>5, <1>6, <1>7 DEF DeliveryInv

\* A call's own steps: no delivery with a job is touched.
LEMMA CallKeeps ==
    ASSUME DeliveryInv, NEW c \in Callers, StartEmit(c) \/ StartReplay(c) \/ Call(c)
    PROVE  /\ DeliveryInv'
           /\ \A d \in Deliveries : row[d].status = "delivered" => row'[d] = row[d]
<1> USE DEF DeliveryInv
<1>t. /\ caller[c] \in [pc : {"idle", "insert", "enqueue", "done"}, todo : SUBSET Deliveries]
      /\ DOMAIN caller = Callers /\ DOMAIN row = Deliveries
    BY DEF RowTypes
\* What remains to be shown of a step that moves the call and does not enqueue.
<1>1. ASSUME NEW p \in {"insert", "enqueue", "done"}, NEW t \in SUBSET Deliveries,
             caller' \in [Callers -> [pc : {"idle", "insert", "enqueue", "done"},
                                     todo : SUBSET Deliveries]],
             \A c2 \in Callers \ {c} : caller'[c2] = caller[c2],
             caller'[c].pc = p, caller'[c].todo = t,
             t \subseteq caller[c].todo \/ (caller[c].pc = "idle" /\ t = FanOut(c)),
             UNCHANGED <<accepted, handlerVars, queueVars>>,
             \/ row' = row
             \/ \E d \in caller[c].todo : row' = [row EXCEPT ![d] = NewRow]
      PROVE  /\ DeliveryInv'
             /\ \A d \in Deliveries : row[d].status = "delivered" => row'[d] = row[d]
    <2>1. JobsInv' /\ trail' = trail /\ tries' = tries /\ \A d \in Deliveries : Live(d)' <=> Live(d)
        BY <1>1, QueueRests
    <2>2. accepted' = accepted /\ stage' = stage /\ seen' = seen
        BY <1>1 DEF handlerVars
    <2>4. CallInv'
        BY <1>1, <2>1 DEF CallInv, FanOut
    <2>5. \A d \in Deliveries :
              \/ row'[d] = row[d]
              \/ trail[d] = "absent" /\ row'[d] = NewRow
        BY <1>1, <1>t DEF CallInv
    <2>6. RowTypes'
        <3>1. row' \in [Deliveries -> [status : {"absent", "queued", "delivered", "failed"},
                                      attemptCount : Nat]]
            BY <1>1 DEF RowTypes, NewRow
        <3> QED
            BY <1>1, <2>2, <3>1 DEF RowTypes
    <2>7. \A d \in Deliveries : trail[d] = "absent" => ~Live(d) /\ row[d].status # "delivered"
        BY DEF JobsInv, FreshInv
    <2>8. FreshInv'
        BY <2>1, <2>2, <2>5 DEF FreshInv, NewRow
    <2>9. TruthInv'
        <3> SUFFICES ASSUME NEW d \in Deliveries
                     PROVE  RowTrue(d)' /\ (Live(d)' => HandlerTrue(d)')
            BY DEF TruthInv
        <3>1. CASE row'[d] = row[d]
            BY <2>1, <2>2, <3>1 DEF TruthInv, RowTrue, HandlerTrue
        <3>2. CASE trail[d] = "absent" /\ row'[d] = NewRow
            <4>1. accepted[d] = 0 /\ tries[d] \in Nat /\ ~Live(d)'
                BY <2>1, <2>7, <3>2 DEF FreshInv, JobsInv
            <4> QED
                BY <2>1, <2>2, <3>2, <4>1 DEF RowTrue, NewRow
        <3> QED
            BY <2>5, <3>1, <3>2
    <2> QED
        BY <2>1, <2>4, <2>5, <2>6, <2>7, <2>8, <2>9
<1>2. CASE StartEmit(c) \/ StartReplay(c)
    <2>1. FanOut(c) \in SUBSET Deliveries
        BY OneOwner
    <2>2. /\ caller[c].pc = "idle"
          /\ caller' = [caller EXCEPT ![c] = [pc |-> "insert", todo |-> FanOut(c)]]
          /\ UNCHANGED <<row, accepted, handlerVars, queueVars>>
        BY <1>2 DEF StartEmit, StartReplay
    <2>3. /\ caller' \in [Callers -> [pc : {"idle", "insert", "enqueue", "done"},
                                      todo : SUBSET Deliveries]]
          /\ \A c2 \in Callers \ {c} : caller'[c2] = caller[c2]
          /\ caller'[c].pc = "insert" /\ caller'[c].todo = FanOut(c)
        BY <2>1, <2>2 DEF RowTypes
    <2> QED
        BY <1>1, <2>1, <2>2, <2>3
<1>3. ASSUME NEW d \in Deliveries, InsertDelivery(c, d)
      PROVE  /\ DeliveryInv'
             /\ \A e \in Deliveries : row[e].status = "delivered" => row'[e] = row[e]
    <2>1. caller' = [caller EXCEPT ![c].pc = "enqueue"]
        BY <1>3 DEF InsertDelivery
    <2>2. /\ caller' \in [Callers -> [pc : {"idle", "insert", "enqueue", "done"},
                                      todo : SUBSET Deliveries]]
          /\ \A c2 \in Callers \ {c} : caller'[c2] = caller[c2]
          /\ caller'[c].pc = "enqueue" /\ caller'[c].todo = caller[c].todo
        BY <2>1 DEF RowTypes
    <2> QED
        BY <1>1, <1>3, <1>t, <2>2 DEF InsertDelivery
<1>4. CASE FinishCall(c)
    <2>1. caller' = [caller EXCEPT ![c].pc = "done"]
        BY <1>4 DEF FinishCall
    <2>2. /\ caller' \in [Callers -> [pc : {"idle", "insert", "enqueue", "done"},
                                      todo : SUBSET Deliveries]]
          /\ \A c2 \in Callers \ {c} : caller'[c2] = caller[c2]
          /\ caller'[c].pc = "done" /\ caller'[c].todo = caller[c].todo
        BY <2>1 DEF RowTypes
    <2> QED
        BY <1>1, <1>4, <1>t, <2>2 DEF FinishCall
<1>5. CASE FailCall(c)
    <2>1. /\ caller' = [caller EXCEPT ![c] = [pc |-> "done", todo |-> {}]]
          /\ UNCHANGED <<row, accepted, handlerVars, queueVars>>
        BY <1>5 DEF FailCall
    <2>2. /\ caller' \in [Callers -> [pc : {"idle", "insert", "enqueue", "done"},
                                      todo : SUBSET Deliveries]]
          /\ \A c2 \in Callers \ {c} : caller'[c2] = caller[c2]
          /\ caller'[c].pc = "done" /\ caller'[c].todo = {}
        BY <2>1 DEF RowTypes
    <2> QED
        BY <1>1, <2>1, <2>2
<1>6. ASSUME NEW d \in Deliveries, EnqueueDelivery(c, d)
      PROVE  /\ DeliveryInv'
             /\ \A e \in Deliveries : row[e].status = "delivered" => row'[e] = row[e]
    <2>1. /\ d \in caller[c].todo /\ row[d].status # "absent"
          /\ caller' = [caller EXCEPT ![c] = [pc |-> "insert", todo |-> @.todo \ {d}]]
          /\ row' = row /\ accepted' = accepted /\ stage' = stage /\ seen' = seen
        BY <1>6 DEF EnqueueDelivery, handlerVars
    <2>2. /\ trail[d] = "absent" /\ trail' = [trail EXCEPT ![d] = "enqueued"] /\ tries' = tries
          /\ JobsInv' /\ Queue!LiveIds' = Queue!LiveIds \cup {d}
        BY <1>6, EnqueueAdds DEF EnqueueDelivery
    <2>3. /\ trail'[d] = "enqueued"
          /\ \A e \in Deliveries \ {d} : trail'[e] = trail[e] /\ (Live(e)' <=> Live(e))
        BY <2>2 DEF JobsInv, Live
    <2>4. /\ \A c2 \in Callers \ {c} : caller'[c2] = caller[c2]
          /\ caller'[c].pc = "insert" /\ caller'[c].todo = caller[c].todo \ {d}
        BY <2>1, <1>t
    <2>5. d \in FanOut(c)
        BY <2>1 DEF CallInv
    <2>6. CallInv'
        <3> SUFFICES ASSUME NEW c2 \in Callers
                     PROVE  /\ caller'[c2].todo \subseteq FanOut(c2)
                            /\ \A e \in caller'[c2].todo : trail'[e] = "absent"
                            /\ caller'[c2].pc = "idle" => \A e \in FanOut(c2) : trail'[e] = "absent"
            BY DEF CallInv, FanOut
        <3>1. CASE c2 = c
            <4>1. \A e \in caller[c].todo : e \in Deliveries
                BY <1>t
            <4> QED
                BY <2>3, <2>4, <3>1, <4>1 DEF CallInv
        <3>2. CASE c2 # c
            <4>1. \A e \in FanOut(c2) : e # d /\ e \in Deliveries
                BY <2>5, <3>2, OneOwner
            <4> QED
                BY <2>3, <2>4, <3>2, <4>1 DEF CallInv
        <3> QED
            BY <3>1, <3>2
    <2>7. RowTypes'
        BY <2>1 DEF RowTypes
    <2>8. FreshInv'
        BY <2>1, <2>3 DEF FreshInv
    <2>9. TruthInv'
        <3> SUFFICES ASSUME NEW e \in Deliveries
                     PROVE  RowTrue(e)' /\ (Live(e)' => HandlerTrue(e)')
            BY DEF TruthInv
        <3>1. CASE e # d
            BY <2>1, <2>2, <2>3, <3>1 DEF TruthInv, RowTrue, HandlerTrue
        <3>2. CASE e = d
            <4>1. /\ row[d].status = "queued" /\ row[d].attemptCount = 0 /\ accepted[d] = 0
                  /\ stage[d] = "read" /\ tries[d] \in Nat
                BY <2>1, <2>2 DEF FreshInv, JobsInv
            <4> QED
                BY <2>1, <2>2, <2>3, <3>2, <4>1 DEF RowTrue, HandlerTrue
        <3> QED
            BY <3>1, <3>2
    <2> QED
        BY <2>1, <2>2, <2>6, <2>7, <2>8, <2>9
<1> QED
    BY <1>2, <1>3, <1>4, <1>5, <1>6 DEF Call

\* A handler's step concerns its own row, which is live, and says what HandlerTrue says.
LEMMA HandlerKeeps ==
    ASSUME DeliveryInv, NEW job \in running, Deliver(job)
    PROVE  /\ DeliveryInv'
           /\ \A d \in Deliveries : row[d].status = "delivered" => row'[d].status = "delivered"
<1> USE DEF DeliveryInv
<1> DEFINE j == job.id
<1>j. /\ j \in Deliveries /\ Live(j) /\ trail[j] = "enqueued"
      /\ RowTrue(j) /\ HandlerTrue(j)
    BY JobsRunAreLive DEF TruthInv
<1>t. /\ row[j].attemptCount \in Nat /\ accepted[j] \in Nat /\ tries[j] \in Nat
      /\ seen[j] \in Nat /\ stage[j] \in Stages
      /\ row[j].status \in {"absent", "queued", "delivered", "failed"}
    BY <1>j DEF RowTypes, JobsInv
<1> HIDE DEF j
\* What remains of a step that changes what is known of j and nothing else.
<1>1. ASSUME NEW r \in [status : {"absent", "queued", "delivered", "failed"}, attemptCount : Nat],
             NEW a \in Nat, NEW s \in Stages, NEW k \in Nat,
             row' = [row EXCEPT ![j] = r], accepted' = [accepted EXCEPT ![j] = a],
             stage' = [stage EXCEPT ![j] = s], seen' = [seen EXCEPT ![j] = k],
             caller' = caller, JobsInv',
             \A e \in Deliveries \ {j} : (Live(e)' <=> Live(e)) /\ trail'[e] = trail[e]
                                         /\ tries'[e] = tries[e],
             trail'[j] # "absent",
             RowTrue(j)', Live(j)' => HandlerTrue(j)'
      PROVE  DeliveryInv'
    <2>1. RowTypes'
        BY <1>1, <1>j DEF RowTypes
    <2>2. \A e \in Deliveries \ {j} : /\ row'[e] = row[e] /\ accepted'[e] = accepted[e]
                                       /\ stage'[e] = stage[e] /\ seen'[e] = seen[e]
        BY <1>1 DEF RowTypes
    <2>3. \A e \in Deliveries : trail[e] = "absent" => trail'[e] = "absent"
        BY <1>1, <1>j
    <2>4. CallInv'
        <3>1. \A c \in Callers : \A d \in FanOut(c) : d \in Deliveries
            BY OneOwner
        <3> QED
            BY <1>1, <2>3, <3>1 DEF CallInv, FanOut
    <2>5. FreshInv'
        BY <1>1, <2>2 DEF FreshInv
    <2>6. ASSUME NEW e \in Deliveries \ {j} PROVE RowTrue(e)' /\ (Live(e)' => HandlerTrue(e)')
        BY <1>1, <2>2, <2>6 DEF TruthInv, RowTrue, HandlerTrue
    <2>7. TruthInv'
        BY <1>1, <2>6 DEF TruthInv
    <2> QED
        BY <1>1, <2>1, <2>4, <2>5, <2>7
\* The same when the queue rests.
<1>2. ASSUME NEW r \in [status : {"absent", "queued", "delivered", "failed"}, attemptCount : Nat],
             NEW a \in Nat, NEW s \in Stages, NEW k \in Nat,
             row' = [row EXCEPT ![j] = r], accepted' = [accepted EXCEPT ![j] = a],
             stage' = [stage EXCEPT ![j] = s], seen' = [seen EXCEPT ![j] = k],
             UNCHANGED <<caller, queueVars>>,
             a <= r.attemptCount, r.attemptCount <= tries[j] + 1,
             r.status = "delivered" => a > 0,
             s \in {"read", "count"} => r.attemptCount <= tries[j],
             s = "count" => k = r.attemptCount,
             s = "post" => a < r.attemptCount,
             s \in {"storeDelivered", "resolve"} => a > 0,
             s = "resolve" <=> r.status = "delivered",
             row[j].status = "delivered" => r.status = "delivered"
      PROVE  /\ DeliveryInv'
             /\ \A d \in Deliveries : row[d].status = "delivered" => row'[d].status = "delivered"
    <2>1. /\ JobsInv' /\ trail' = trail /\ tries' = tries
          /\ \A d \in Deliveries : Live(d)' <=> Live(d)
        BY <1>2, QueueRests
    <2>2. row'[j] = r /\ accepted'[j] = a /\ stage'[j] = s /\ seen'[j] = k
        BY <1>2, <1>j DEF RowTypes
    <2>3. RowTrue(j)' /\ HandlerTrue(j)'
        BY <1>2, <1>j, <2>1, <2>2 DEF RowTrue, HandlerTrue
    <2>4. \A d \in Deliveries \ {j} : row'[d] = row[d]
        BY <1>2 DEF RowTypes
    <2> QED
        BY <1>1, <1>2, <1>j, <2>1, <2>2, <2>3, <2>4
\* The fields a step does not name.
<1>s. /\ row = [row EXCEPT ![j] = row[j]] /\ accepted = [accepted EXCEPT ![j] = accepted[j]]
      /\ stage = [stage EXCEPT ![j] = stage[j]] /\ seen = [seen EXCEPT ![j] = seen[j]]
      /\ row[j] \in [status : {"absent", "queued", "delivered", "failed"}, attemptCount : Nat]
    BY <1>j DEF RowTypes
<1>3. CASE ReadDelivery(job)
    <2>1. /\ stage[j] = "read" /\ seen' = [seen EXCEPT ![j] = row[j].attemptCount]
          /\ stage' = [stage EXCEPT ![j] = "count"] /\ row' = row /\ accepted' = accepted
          /\ UNCHANGED <<caller, queueVars>>
        BY <1>3 DEF ReadDelivery, Handling, Enter, j
    <2> QED
        BY <1>2, <1>j, <1>t, <1>s, <2>1 DEF RowTrue, HandlerTrue, Stages
<1>4. CASE CountAttempt(job)
    <2> DEFINE r == [row[j] EXCEPT !.attemptCount = seen[j] + 1]
    <2>1. /\ stage[j] = "count" /\ row' = [row EXCEPT ![j].attemptCount = seen[j] + 1]
          /\ stage' = [stage EXCEPT ![j] = "post"] /\ seen' = seen /\ accepted' = accepted
          /\ UNCHANGED <<caller, queueVars>>
        BY <1>4 DEF CountAttempt, Handling, Enter, j
    <2>2. row' = [row EXCEPT ![j] = r]
        BY <2>1
    <2>3. /\ r \in [status : {"absent", "queued", "delivered", "failed"}, attemptCount : Nat]
          /\ r.status = row[j].status /\ r.attemptCount = seen[j] + 1
        BY <1>s, <1>t
    <2> HIDE DEF r
    <2>4. /\ accepted[j] < r.attemptCount /\ accepted[j] <= r.attemptCount
          /\ r.attemptCount <= tries[j] + 1
          /\ r.status # "delivered" /\ row[j].status # "delivered"
        BY <1>j, <1>t, <2>1, <2>3 DEF RowTrue, HandlerTrue
    <2>5. /\ row' = [row EXCEPT ![j] = r] /\ accepted' = [accepted EXCEPT ![j] = accepted[j]]
          /\ stage' = [stage EXCEPT ![j] = "post"] /\ seen' = [seen EXCEPT ![j] = seen[j]]
          /\ UNCHANGED <<caller, queueVars>> /\ "post" \in Stages
        BY <1>s, <2>1, <2>2 DEF Stages
    <2> QED
        BY <1>2, <1>t, <2>3, <2>4, <2>5
<1>5. CASE PostOk(job)
    <2>1. /\ stage[j] = "post" /\ accepted' = [accepted EXCEPT ![j] = accepted[j] + 1]
          /\ stage' = [stage EXCEPT ![j] = "storeDelivered"] /\ seen' = seen /\ row' = row
          /\ UNCHANGED <<caller, queueVars>>
        BY <1>5 DEF PostOk, Handling, Enter, j
    <2>2. /\ accepted[j] + 1 \in Nat /\ accepted[j] + 1 > 0
          /\ accepted[j] + 1 <= row[j].attemptCount /\ row[j].attemptCount <= tries[j] + 1
          /\ row[j].status # "delivered"
        BY <1>j, <1>t, <2>1 DEF RowTrue, HandlerTrue
    <2> QED
        BY <1>2, <1>t, <1>s, <2>1, <2>2 DEF Stages
<1>6. ASSUME NEW taken \in BOOLEAN, PostThrows(job, taken)
      PROVE  /\ DeliveryInv'
             /\ \A d \in Deliveries : row[d].status = "delivered" => row'[d].status = "delivered"
    <2> DEFINE a == accepted[j] + (IF taken THEN 1 ELSE 0)
    <2>1. /\ stage[j] = "post" /\ accepted' = [accepted EXCEPT ![j] = a]
          /\ stage' = [stage EXCEPT ![j] = "storeFailed"] /\ seen' = seen /\ row' = row
          /\ UNCHANGED <<caller, queueVars>>
        BY <1>6 DEF PostThrows, Handling, Enter, j
    <2>2. /\ a \in Nat /\ a <= row[j].attemptCount /\ row[j].attemptCount <= tries[j] + 1
          /\ row[j].status # "delivered"
        BY <1>j, <1>t, <2>1 DEF RowTrue, HandlerTrue
    <2> HIDE DEF a
    <2> QED
        BY <1>2, <1>t, <1>s, <2>1, <2>2 DEF Stages
<1>7. CASE StoreDelivered(job) \/ StoreFailed(job)
    <2>1. PICK n \in {"delivered", "failed"} :
             /\ row' = [row EXCEPT ![j].status = n]
             /\ stage[j] = IF n = "delivered" THEN "storeDelivered" ELSE "storeFailed"
             /\ stage' = [stage EXCEPT ![j] = IF n = "delivered" THEN "resolve" ELSE "throw"]
             /\ seen' = seen /\ accepted' = accepted /\ UNCHANGED <<caller, queueVars>>
        BY <1>7 DEF StoreDelivered, StoreFailed, Handling, Enter, j
    <2> DEFINE r == [row[j] EXCEPT !.status = n]
    <2>2. row' = [row EXCEPT ![j] = r]
        BY <2>1
    <2>3. /\ r \in [status : {"absent", "queued", "delivered", "failed"}, attemptCount : Nat]
          /\ r.status = n /\ r.attemptCount = row[j].attemptCount
        BY <1>s, <1>t
    <2> HIDE DEF r
    <2>4. CASE n = "delivered"
        BY <1>2, <1>j, <1>t, <1>s, <2>1, <2>2, <2>3, <2>4 DEF RowTrue, HandlerTrue, Stages
    <2>5. CASE n = "failed"
        BY <1>2, <1>j, <1>t, <1>s, <2>1, <2>2, <2>3, <2>5 DEF RowTrue, HandlerTrue, Stages
    <2> QED
        BY <2>1, <2>4, <2>5
<1>8. CASE StatementThrows(job)
    <2>1. PICK s \in {"throw", "storeFailed"} :
             /\ stage[j] \in {"read", "count", "storeFailed", "storeDelivered"}
             /\ stage' = [stage EXCEPT ![j] = s]
             /\ row' = row /\ seen' = seen /\ accepted' = accepted /\ UNCHANGED <<caller, queueVars>>
        BY <1>8 DEF StatementThrows, Handling, Enter, j
    <2> QED
        BY <1>2, <1>j, <1>t, <1>s, <2>1 DEF RowTrue, HandlerTrue, Stages
<1>9. CASE Resolve(job)
    <2>1. /\ stage[j] = "resolve" /\ Queue!Succeed(job)
          /\ stage' = [stage EXCEPT ![j] = "read"]
          /\ row' = row /\ seen' = seen /\ accepted' = accepted /\ caller' = caller
        BY <1>9 DEF Resolve, Handling, Enter, j
    <2>2. /\ JobsInv' /\ tries' = [tries EXCEPT ![j] = @ + 1] /\ ~Live(j)'
          /\ \A e \in Deliveries \ {j} : (Live(e)' <=> Live(e)) /\ trail'[e] = trail[e]
          /\ trail'[j] # "absent"
        BY <2>1, HandlerEnds DEF j
    <2>3. tries'[j] = tries[j] + 1 /\ \A e \in Deliveries \ {j} : tries'[e] = tries[e]
        BY <1>j, <2>2 DEF JobsInv
    <2>4. RowTrue(j)'
        BY <1>j, <1>t, <2>1, <2>3 DEF RowTrue, HandlerTrue
    <2> QED
        BY <1>1, <1>s, <1>t, <2>1, <2>2, <2>3, <2>4 DEF Stages
<1>10. CASE Throw(job)
    <2>1. /\ stage[j] = "throw" /\ Queue!FailAttempt(job)
          /\ stage' = [stage EXCEPT ![j] = "read"]
          /\ row' = row /\ seen' = seen /\ accepted' = accepted /\ caller' = caller
        BY <1>10 DEF Throw, Handling, Enter, j
    <2>2. /\ JobsInv' /\ tries' = [tries EXCEPT ![j] = @ + 1]
          /\ \A e \in Deliveries \ {j} : (Live(e)' <=> Live(e)) /\ trail'[e] = trail[e]
          /\ trail'[j] # "absent"
        BY <2>1, HandlerEnds DEF j
    <2>3. tries'[j] = tries[j] + 1 /\ \A e \in Deliveries \ {j} : tries'[e] = tries[e]
        BY <1>j, <2>2 DEF JobsInv
    <2>4. trail'[j] # "succeeded"
        BY <1>j, <2>1 DEF Queue!FailAttempt, JobsInv, j
    <2>5. RowTrue(j)' /\ HandlerTrue(j)'
        BY <1>j, <1>t, <2>1, <2>3, <2>4 DEF RowTrue, HandlerTrue
    <2> QED
        BY <1>1, <1>s, <1>t, <2>1, <2>2, <2>3, <2>5 DEF Stages
<1> QED
    BY <1>3, <1>4, <1>5, <1>6, <1>7, <1>8, <1>9, <1>10 DEF Deliver

LEMMA RestartsKeep ==
    ASSUME DeliveryInv, Restart
    PROVE  DeliveryInv' /\ row' = row
<1> USE DEF DeliveryInv
<1>1. /\ row' = row /\ accepted' = accepted
      /\ stage' = [d \in Deliveries |-> "read"] /\ seen' = [d \in Deliveries |-> 0]
      /\ caller' = [c \in Callers |->
            IF caller[c].pc = "idle" THEN caller[c] ELSE [pc |-> "done", todo |-> {}]]
    BY DEF Restart
<1>2. JobsInv' /\ trail' = trail /\ tries' = tries /\ \A d \in Deliveries : ~Live(d)'
    BY QueueRestarts DEF Restart
<1>3. RowTypes'
    BY <1>1 DEF RowTypes, Stages
<1>4. CallInv'
    BY <1>1, <1>2 DEF CallInv, FanOut
<1>5. FreshInv'
    BY <1>1, <1>2 DEF FreshInv
<1>6. TruthInv'
    BY <1>1, <1>2 DEF TruthInv, RowTrue
<1> QED
    BY <1>1, <1>2, <1>3, <1>4, <1>5, <1>6

LEMMA DeliveryStep ==
    ASSUME DeliveryInv, [Next]_vars
    PROVE  /\ DeliveryInv'
           /\ \A d \in Deliveries : row[d].status = "delivered" => row'[d].status = "delivered"
<1>1. CASE Next
    BY <1>1, CallKeeps, HandlerKeeps, RestartsKeep DEF Next
<1>2. CASE UNCHANGED vars
    <2>1. /\ row' = row /\ accepted' = accepted /\ caller' = caller /\ stage' = stage
          /\ seen' = seen /\ UNCHANGED queueVars
        BY <1>2 DEF vars
    <2>2. JobsInv' /\ trail' = trail /\ tries' = tries /\ \A d \in Deliveries : Live(d)' <=> Live(d)
        BY <2>1, QueueRests DEF DeliveryInv
    <2>3. RowTypes' /\ FreshInv'
        BY <2>1, <2>2 DEF DeliveryInv, RowTypes, FreshInv
    <2>4. CallInv'
        BY <2>1, <2>2 DEF DeliveryInv, CallInv, FanOut
    <2>5. TruthInv'
        BY <2>1, <2>2 DEF DeliveryInv, TruthInv, RowTrue, HandlerTrue
    <2> QED
        BY <2>1, <2>2, <2>3, <2>4, <2>5 DEF DeliveryInv
<1> QED
    BY <1>1, <1>2

LEMMA DeliveryInvariant == Spec => []DeliveryInv
<1>1. DeliveryInv /\ [Next]_vars => DeliveryInv'
    BY DeliveryStep
<1> QED
    BY <1>1, DeliveryStarts, PTL DEF Spec

----------------------------------------------------------------------------
\* For every number of events, endpoints, replays, attempts, faults and restarts: a row
\* that says delivered was taken by its endpoint, no POST goes uncounted, and row and
\* job agree (L333-450).
THEOREM RowsTruthful == Spec => []RowsTellTheTruth
<1>1. DeliveryInv => RowsTellTheTruth
    BY DEF DeliveryInv, TruthInv, RowTrue, HandlerTrue, RowsTellTheTruth, Live
<1> QED
    BY <1>1, DeliveryInvariant, PTL

\* No retry, stale attempt or replay marks a delivered row otherwise (L195-236, L384-433).
THEOREM DeliveredStays == Spec => DeliveredIsFinal
<1>1. DeliveryInv /\ [Next]_vars =>
          [\A d \in Deliveries : row[d].status = "delivered" => row'[d].status = "delivered"]_vars
    BY DeliveryStep
<1> QED
    BY <1>1, DeliveryInvariant, PTL DEF Spec, DeliveredIsFinal

----------------------------------------------------------------------------
(* The queue's contract *)

\* Each step of the service is one of the queue's steps or leaves the queue alone.
LEMMA QueueStep == [Next]_vars => [Queue!Next]_Queue!queueVars
<1> SUFFICES ASSUME [Next]_vars PROVE Queue!Next \/ UNCHANGED queueVars
    BY DEF queueVars, Queue!queueVars
<1>1. ASSUME NEW c \in Callers, StartEmit(c) \/ StartReplay(c) \/ Call(c)
      PROVE  UNCHANGED queueVars \/ \E d \in Deliveries : Queue!Enqueue(d)
    BY <1>1 DEF Call, StartEmit, StartReplay, InsertDelivery, EnqueueDelivery, FinishCall, FailCall
<1>2. ASSUME NEW job \in running, Deliver(job)
      PROVE  UNCHANGED queueVars \/ Queue!Succeed(job) \/ Queue!FailAttempt(job)
    BY <1>2 DEF Deliver, ReadDelivery, CountAttempt, PostOk, PostThrows, StoreDelivered, StoreFailed,
                Resolve, Throw, StatementThrows
<1>3. CASE UNCHANGED vars
    BY <1>3 DEF vars
<1>4. CASE Restart
    BY <1>4 DEF Restart, Queue!Next
<1> QED
    BY <1>1, <1>2, <1>3, <1>4 DEF Next, Queue!Next, Queue!Work

\* The service uses the queue as JobQueue specifies: no delivery is enqueued
\* twice, and jobs end only through their handler's result or a crash
\* (job-queue.service.ts).
THEOREM QueueUsedAsSpecified == Spec => Queue!Spec
<1>1. Init => Queue!Init
    BY DEF Init
<1> QED
    BY <1>1, QueueStep, PTL DEF Spec, Queue!Spec

=============================================================================
