------------------------- MODULE JobsAndRecordsProofs -------------------------
(***************************************************************************)
(* Two services that share nothing but the process they run in.            *)
(*                                                                         *)
(* The queue for every set of jobs and every number of attempts: one loop, *)
(* no job starves another, and each job lives the life of BoundedRetry.    *)
(*                                                                         *)
(* The records for any number of rows and of calls that overlap: archived  *)
(* rows and only they are dated, and the secret that an owner holds is the *)
(* one that is stored unless an edit was overrun.  The strengthening       *)
(* speaks of the rows that calls have read: such a row is still of its     *)
(* kind, and its status and its date agree.  A reader that walks a list    *)
(* meanwhile is followed at the end: rows that are inserted can only push  *)
(* what it has not seen further on.                                        *)
(***************************************************************************)
EXTENDS JobQueue, RecordListing, FiniteSetTheorems, TLAPS

(* The queue *)

\* What is so when a is served before b: either came first, and the one that came
\* first is not behind in attempts, strictly ahead if it is served after the other.
ServedBefore(a, b) ==
    /\ a.id # b.id
    /\ \/ a.enqueuedAt < b.enqueuedAt /\ a.attempt >= b.attempt
       \/ b.enqueuedAt < a.enqueuedAt /\ b.attempt >= a.attempt + 1

\* A list of jobs that is served from its head.
InLine(q) ==
    /\ q \in Seq(QueueJob)
    /\ \A m, n \in 1..Len(q) : m < n => ServedBefore(q[m], q[n])

JobsOf(q) == {q[n] : n \in 1..Len(q)}

\* The loop runs one job, served before all that wait.
LineInv ==
    /\ InLine(pendingJobs)
    /\ running \subseteq QueueJob
    /\ \A a, b \in running : a = b
    /\ isProcessing \in BOOLEAN /\ (isProcessing <=> running # {})
    /\ ~isProcessing => pendingJobs = <<>>
    /\ \A a \in running, b \in JobsOf(pendingJobs) : ServedBefore(a, b)

LiveJobs == JobsOf(pendingJobs) \cup running
Known == {j \in Jobs : trail[j] # "absent"}

\* What the records say of the live jobs.
RecordInv ==
    /\ trail \in [Jobs -> Trail]
    /\ tries \in [Jobs -> 0..MaxAttempts]
    /\ \A j \in Jobs : trail[j] = "absent" => tries[j] = 0
    /\ \A a \in LiveJobs : /\ trail[a.id] = "enqueued" /\ tries[a.id] = a.attempt
                           /\ a.enqueuedAt < Now
    /\ IsFiniteSet(Known)

QueueInv == LineInv /\ RecordInv

LEMMA EmptyLine == InLine(<<>>) /\ JobsOf(<<>>) = {}
BY DEF InLine, JobsOf

LEMMA AppendInLine ==
    ASSUME NEW q, InLine(q), NEW x \in QueueJob, \A a \in JobsOf(q) : ServedBefore(a, x)
    PROVE  InLine(Append(q, x)) /\ JobsOf(Append(q, x)) = JobsOf(q) \cup {x}
<1>1. q \in Seq(QueueJob) /\ Append(q, x) \in Seq(QueueJob) /\ Len(q) \in Nat
      /\ Len(Append(q, x)) = Len(q) + 1
      /\ (\A n \in 1..Len(q) : Append(q, x)[n] = q[n]) /\ Append(q, x)[Len(q) + 1] = x
    BY DEF InLine
<1>2. \A m, n \in 1..Len(Append(q, x)) : m < n => ServedBefore(Append(q, x)[m], Append(q, x)[n])
    <2> SUFFICES ASSUME NEW m \in 1..Len(q) + 1, NEW n \in 1..Len(q) + 1, m < n
                 PROVE  ServedBefore(Append(q, x)[m], Append(q, x)[n])
        BY <1>1
    <2>1. CASE n = Len(q) + 1
        <3>1. m \in 1..Len(q) /\ q[m] \in JobsOf(q)
            BY <1>1, <2>1 DEF JobsOf
        <3> QED
            BY <1>1, <2>1, <3>1
    <2>2. CASE n # Len(q) + 1
        <3>1. m \in 1..Len(q) /\ n \in 1..Len(q)
            BY <1>1, <2>2
        <3> QED
            BY <1>1, <3>1 DEF InLine
    <2> QED
        BY <2>1, <2>2
<1>3. JobsOf(Append(q, x)) = JobsOf(q) \cup {x}
    <2>1. 1..Len(q) + 1 = 1..Len(q) \cup {Len(q) + 1}
        BY <1>1
    <2> QED
        BY <1>1, <2>1 DEF JobsOf
<1> QED
    BY <1>1, <1>2, <1>3 DEF InLine

LEMMA TailInLine ==
    ASSUME NEW q, InLine(q), q # <<>>
    PROVE  /\ InLine(Tail(q)) /\ Head(q) \in QueueJob
           /\ JobsOf(q) = JobsOf(Tail(q)) \cup {Head(q)}
           /\ \A b \in JobsOf(Tail(q)) : ServedBefore(Head(q), b)
<1>1. /\ q \in Seq(QueueJob) /\ Len(q) \in Nat \ {0} /\ Tail(q) \in Seq(QueueJob)
      /\ Len(Tail(q)) = Len(q) - 1
      /\ (\A n \in 1..Len(q) - 1 : Tail(q)[n] = q[n + 1]) /\ Head(q) = q[1]
    BY DEF InLine
<1>2. \A m, n \in 1..Len(q) - 1 : m < n => ServedBefore(q[m + 1], q[n + 1])
    <2> SUFFICES ASSUME NEW m \in 1..Len(q) - 1, NEW n \in 1..Len(q) - 1, m < n
                 PROVE  ServedBefore(q[m + 1], q[n + 1])
        OBVIOUS
    <2>1. m + 1 \in 1..Len(q) /\ n + 1 \in 1..Len(q) /\ m + 1 < n + 1
        BY <1>1
    <2> QED
        BY <2>1 DEF InLine
<1>3. InLine(Tail(q))
    BY <1>1, <1>2 DEF InLine
<1>4. \A b \in JobsOf(Tail(q)) : ServedBefore(Head(q), b)
    <2> SUFFICES ASSUME NEW n \in 1..Len(q) - 1 PROVE ServedBefore(q[1], q[n + 1])
        BY <1>1 DEF JobsOf
    <2>1. 1 \in 1..Len(q) /\ n + 1 \in 1..Len(q) /\ 1 < n + 1
        BY <1>1
    <2> QED
        BY <2>1 DEF InLine
<1>5. JobsOf(q) = JobsOf(Tail(q)) \cup {Head(q)}
    <2>1. ASSUME NEW n \in 1..Len(q) PROVE q[n] \in JobsOf(Tail(q)) \cup {Head(q)}
        <3>1. CASE n = 1
            BY <1>1, <3>1
        <3>2. CASE n # 1
            <4>1. n - 1 \in 1..Len(q) - 1 /\ (n - 1) + 1 = n
                BY <1>1, <3>2
            <4>2. q[n] = Tail(q)[n - 1]
                BY <1>1, <4>1
            <4> QED
                BY <1>1, <4>1, <4>2 DEF JobsOf
        <3> QED
            BY <3>1, <3>2
    <2>2. ASSUME NEW n \in 1..Len(q) - 1 PROVE Tail(q)[n] \in JobsOf(q)
        <3>1. n + 1 \in 1..Len(q)
            BY <1>1
        <3> QED
            BY <1>1, <3>1 DEF JobsOf
    <2>3. Head(q) \in JobsOf(q)
        <3>1. 1 \in 1..Len(q)
            BY <1>1
        <3> QED
            BY <1>1, <3>1 DEF JobsOf
    <2> QED
        BY <1>1, <2>1, <2>2, <2>3 DEF JobsOf
<1>6. Head(q) \in QueueJob
    BY <1>1
<1> QED
    BY <1>3, <1>4, <1>5, <1>6

\* When no job runs, the loop takes the first in line or stops.
LEMMA LoopTakesNext ==
    ASSUME NEW q, InLine(q), TakeNext(q, {})
    PROVE  LineInv' /\ LiveJobs' = JobsOf(q)
<1>1. CASE q = <<>>
    <2>1. JobsOf(q) = {}
        BY <1>1 DEF JobsOf
    <2>2. pendingJobs' = q /\ running' = {} /\ isProcessing' = FALSE
        BY <1>1 DEF TakeNext
    <2> QED
        BY <1>1, <2>1, <2>2 DEF LineInv, LiveJobs, JobsOf, InLine
<1>2. CASE q # <<>>
    <2>1. pendingJobs' = Tail(q) /\ running' = {Head(q)} /\ isProcessing' = TRUE
        BY <1>2 DEF TakeNext
    <2>2. LiveJobs' = JobsOf(q)
        BY <1>2, <2>1, TailInLine DEF LiveJobs, JobsOf
    <2>3. InLine(pendingJobs') /\ Head(q) \in QueueJob /\ \A b \in JobsOf(pendingJobs') : ServedBefore(Head(q), b)
        BY <1>2, <2>1, TailInLine
    <2> QED
        BY <2>1, <2>2, <2>3 DEF LineInv, InLine, JobsOf
<1> QED
    BY <1>1, <1>2

----------------------------------------------------------------------------
LEMMA QueueStarts == Init => QueueInv
<1> SUFFICES ASSUME Init PROVE QueueInv
    OBVIOUS
<1>1. LineInv
    BY EmptyLine DEF Init, LineInv
<1>2. LiveJobs = {} /\ Known = {}
    BY EmptyLine DEF Init, LiveJobs, Known
<1>3. RecordInv
    BY <1>2, QueueAssumption, FS_EmptySet DEF Init, RecordInv, Trail
<1> QED
    BY <1>1, <1>3 DEF QueueInv

LEMMA EnqueueKeeps ==
    ASSUME QueueInv, NEW j \in Jobs, Enqueue(j)
    PROVE  /\ QueueInv'
           /\ \E x \in QueueJob : x.id = j /\ LiveJobs' = LiveJobs \cup {x}
<1> DEFINE x == [id |-> j, attempt |-> 0, enqueuedAt |-> Now]
           q == Append(pendingJobs, x)
<1>0. /\ LineInv /\ RecordInv
      /\ trail[j] = "absent" /\ trail' = [trail EXCEPT ![j] = "enqueued"] /\ tries' = tries
    BY DEF QueueInv, Enqueue
<1>1. Now = Cardinality(Known) /\ Now \in Nat
    BY <1>0, FS_CardinalityType DEF Now, Known, RecordInv
<1>2. x \in QueueJob
    BY <1>1, QueueAssumption DEF QueueJob
<1>3. \A a \in LiveJobs : a \in QueueJob
    BY <1>0 DEF LineInv, LiveJobs, JobsOf, InLine
<1>4. \A a \in LiveJobs : ServedBefore(a, x)
    <2> SUFFICES ASSUME NEW a \in LiveJobs PROVE ServedBefore(a, x)
        OBVIOUS
    <2>1. a.id # j /\ a.enqueuedAt < Now /\ a.attempt >= 0
        BY <1>0, <1>3, QueueAssumption DEF RecordInv, QueueJob
    <2> QED
        BY <2>1 DEF ServedBefore
<1>5. InLine(q) /\ JobsOf(q) = JobsOf(pendingJobs) \cup {x}
    BY <1>0, <1>2, <1>4, AppendInLine DEF LineInv, LiveJobs
<1>6. LineInv' /\ LiveJobs' = LiveJobs \cup {x}
    <2>1. CASE isProcessing
        <3>1. pendingJobs' = q /\ running' = running /\ isProcessing' = isProcessing
            BY <2>1 DEF Enqueue
        <3> HIDE DEF q, x
        <3>2. LiveJobs' = LiveJobs \cup {x}
            BY <1>5, <3>1 DEF LiveJobs, JobsOf
        <3>3. \A a \in running', b \in JobsOf(pendingJobs') : ServedBefore(a, b)
            BY <1>0, <1>4, <1>5, <3>1 DEF LineInv, LiveJobs
        <3> QED
            BY <1>0, <1>5, <2>1, <3>1, <3>2, <3>3 DEF LineInv, InLine, JobsOf
    <2>2. CASE ~isProcessing
        <3>1. running = {} /\ pendingJobs = <<>>
            BY <1>0, <2>2 DEF LineInv
        <3>2. TakeNext(q, {})
            BY <2>2, <3>1 DEF Enqueue
        <3> HIDE DEF q, x
        <3> QED
            BY <1>5, <3>1, <3>2, LoopTakesNext DEF LiveJobs
    <2> QED
        BY <2>1, <2>2
<1>7. Known' = Known \cup {j} /\ j \notin Known
    BY <1>0 DEF Known, RecordInv
<1>8. IsFiniteSet(Known') /\ Now' = Now + 1
    <2>1. IsFiniteSet(Known)
        BY <1>0 DEF RecordInv
    <2>2. Cardinality(Known \cup {j}) = Cardinality(Known) + 1 /\ IsFiniteSet(Known \cup {j})
        BY <1>7, <2>1, FS_AddElement
    <2>3. Now' = Cardinality(Known')
        BY DEF Now, Known
    <2> QED
        BY <1>1, <1>7, <2>2, <2>3
<1>9. RecordInv'
    <2>1. \A a \in LiveJobs' : trail'[a.id] = "enqueued" /\ tries'[a.id] = a.attempt /\ a.enqueuedAt < Now'
        <3>1. ASSUME NEW a \in LiveJobs
              PROVE  trail'[a.id] = "enqueued" /\ tries'[a.id] = a.attempt /\ a.enqueuedAt < Now'
            <4>1. a.id # j /\ a.id \in Jobs /\ a.enqueuedAt \in Nat
                BY <1>0, <1>3 DEF RecordInv, QueueJob
            <4> QED
                BY <1>0, <1>1, <1>8, <4>1 DEF RecordInv
        <3>2. x.id = j /\ x.attempt = 0 /\ x.enqueuedAt = Now
            OBVIOUS
        <3>3. trail'[x.id] = "enqueued" /\ tries'[x.id] = x.attempt /\ x.enqueuedAt < Now'
            BY <1>0, <1>1, <1>8, <3>2 DEF RecordInv
        <3> HIDE DEF x
        <3> QED
            BY <1>6, <3>1, <3>3
    <2> QED
        BY <1>0, <1>8, <2>1 DEF RecordInv, Trail
<1> QED
    BY <1>2, <1>6, <1>9 DEF QueueInv

\* A job that ends an attempt is alone in the loop, and before all that wait.
LEMMA JobInLoop ==
    ASSUME QueueInv, NEW job \in running
    PROVE  /\ running \ {job} = {}
           /\ job \in QueueJob /\ job.id \in Jobs /\ job.attempt \in Nat /\ job.attempt < MaxAttempts
           /\ trail[job.id] = "enqueued" /\ tries[job.id] = job.attempt
           /\ job.enqueuedAt \in Nat /\ job.enqueuedAt < Now
           /\ \A b \in JobsOf(pendingJobs) : ServedBefore(job, b) /\ b \in QueueJob
           /\ LiveJobs = JobsOf(pendingJobs) \cup {job}
<1>1. job \in QueueJob /\ job \in LiveJobs /\ running = {job}
    BY DEF QueueInv, LineInv, LiveJobs
<1>2. job.id \in Jobs /\ job.attempt \in 0..MaxAttempts - 1 /\ job.enqueuedAt \in Nat
    BY <1>1 DEF QueueJob
<1>3. \A b \in JobsOf(pendingJobs) : ServedBefore(job, b) /\ b \in QueueJob
    BY DEF QueueInv, LineInv, InLine, JobsOf
<1>4. trail[job.id] = "enqueued" /\ tries[job.id] = job.attempt /\ job.enqueuedAt < Now
    BY <1>1 DEF QueueInv, RecordInv
<1> QED
    BY <1>1, <1>2, <1>3, <1>4, QueueAssumption DEF LiveJobs

\* The job settles: it leaves the line, and its records are final.
LEMMA SettleKeeps ==
    ASSUME QueueInv, NEW job \in running, NEW outcome \in Trail \ {"absent"},
           TakeNext(pendingJobs, running \ {job}),
           trail' = [trail EXCEPT ![job.id] = outcome],
           \/ tries' = tries
           \/ tries' = [tries EXCEPT ![job.id] = @ + 1]
    PROVE  /\ QueueInv'
           /\ LiveJobs' = JobsOf(pendingJobs)
<1>0. LineInv /\ RecordInv
    BY DEF QueueInv
<1>j. /\ running \ {job} = {}
      /\ job \in QueueJob /\ job.id \in Jobs /\ job.attempt \in Nat /\ job.attempt < MaxAttempts
      /\ trail[job.id] = "enqueued" /\ tries[job.id] = job.attempt
      /\ \A b \in JobsOf(pendingJobs) : ServedBefore(job, b) /\ b \in QueueJob
      /\ LiveJobs = JobsOf(pendingJobs) \cup {job}
    BY JobInLoop
<1>t. TakeNext(pendingJobs, {})
    BY <1>j
<1>1. LineInv' /\ LiveJobs' = JobsOf(pendingJobs)
    BY <1>0, <1>t, LoopTakesNext DEF LineInv
<1>2. Known' = Known
    BY <1>0, <1>j DEF Known, RecordInv
<1>3. Now' = Now /\ IsFiniteSet(Known')
    <2>1. Now = Cardinality(Known) /\ Now' = Cardinality(Known')
        BY DEF Now, Known
    <2> QED
        BY <1>0, <1>2, <2>1 DEF RecordInv
<1>4. tries' \in [Jobs -> 0..MaxAttempts] /\ \A k \in Jobs \ {job.id} : tries'[k] = tries[k]
    BY <1>0, <1>j, QueueAssumption DEF RecordInv
<1>5. \A b \in LiveJobs' : b.id # job.id /\ b.id \in Jobs /\ b \in LiveJobs
    BY <1>1, <1>j DEF ServedBefore, QueueJob
<1>6. trail' \in [Jobs -> Trail] /\ trail'[job.id] # "absent"
      /\ \A k \in Jobs \ {job.id} : trail'[k] = trail[k]
    BY <1>0, <1>j DEF RecordInv
<1>7. RecordInv'
    BY <1>0, <1>3, <1>4, <1>5, <1>6 DEF RecordInv
<1> QED
    BY <1>1, <1>7 DEF QueueInv

\* The job is tried again: it goes to the tail, where those it had overtaken by
\* one attempt are now ahead of it.
LEMMA RetryKeeps ==
    ASSUME QueueInv, NEW job \in running, job.attempt + 1 < MaxAttempts,
           TakeNext(Append(pendingJobs, [job EXCEPT !.attempt = job.attempt + 1]), running \ {job}),
           trail' = trail, tries' = [tries EXCEPT ![job.id] = @ + 1]
    PROVE  /\ QueueInv'
           /\ \E x \in QueueJob : x.id = job.id /\ LiveJobs' = JobsOf(pendingJobs) \cup {x}
<1> DEFINE x == [job EXCEPT !.attempt = job.attempt + 1]
           q == Append(pendingJobs, x)
<1>0. LineInv /\ RecordInv
    BY DEF QueueInv
<1>j. /\ running \ {job} = {}
      /\ job \in QueueJob /\ job.id \in Jobs /\ job.attempt \in Nat /\ job.attempt < MaxAttempts
      /\ trail[job.id] = "enqueued" /\ tries[job.id] = job.attempt
      /\ job.enqueuedAt \in Nat /\ job.enqueuedAt < Now
      /\ \A b \in JobsOf(pendingJobs) : ServedBefore(job, b) /\ b \in QueueJob
      /\ LiveJobs = JobsOf(pendingJobs) \cup {job}
    BY JobInLoop
<1>1. x \in QueueJob /\ x.id = job.id /\ x.attempt = job.attempt + 1 /\ x.enqueuedAt = job.enqueuedAt
    BY <1>j, QueueAssumption DEF QueueJob
<1>t. TakeNext(q, {})
    BY <1>j
<1> HIDE DEF x
<1>2. \A b \in JobsOf(pendingJobs) : ServedBefore(b, x)
    <2> SUFFICES ASSUME NEW b \in JobsOf(pendingJobs) PROVE ServedBefore(b, x)
        OBVIOUS
    <2>1. ServedBefore(job, b) /\ b.attempt \in Nat /\ b.enqueuedAt \in Nat
        BY <1>j, QueueAssumption DEF QueueJob
    <2> QED
        BY <1>j, <1>1, <2>1 DEF ServedBefore
<1>3. InLine(q) /\ JobsOf(q) = JobsOf(pendingJobs) \cup {x}
    BY <1>0, <1>1, <1>2, AppendInLine DEF LineInv
<1> HIDE DEF q
<1>4. LineInv' /\ LiveJobs' = JobsOf(pendingJobs) \cup {x}
    BY <1>3, <1>t, LoopTakesNext
<1>5. Known' = Known /\ Now' = Now
    BY DEF Known, Now
<1>6. tries' \in [Jobs -> 0..MaxAttempts] /\ tries'[job.id] = x.attempt
      /\ \A k \in Jobs \ {job.id} : tries'[k] = tries[k]
    BY <1>0, <1>j, <1>1, QueueAssumption DEF RecordInv
<1>7. \A b \in JobsOf(pendingJobs) : b.id # job.id /\ b.id \in Jobs /\ b \in LiveJobs
    BY <1>j DEF ServedBefore, QueueJob
<1>8. RecordInv'
    <2>1. \A a \in LiveJobs' : trail'[a.id] = "enqueued" /\ tries'[a.id] = a.attempt /\ a.enqueuedAt < Now'
        BY <1>0, <1>j, <1>1, <1>4, <1>5, <1>6, <1>7 DEF RecordInv
    <2> QED
        BY <1>0, <1>j, <1>5, <1>6, <2>1 DEF RecordInv
<1> QED
    BY <1>1, <1>4, <1>8 DEF QueueInv

LEMMA RestartKeeps ==
    ASSUME QueueInv, Restart
    PROVE  QueueInv' /\ LiveJobs' = {}
<1>1. pendingJobs' = <<>> /\ running' = {} /\ isProcessing' = FALSE /\ trail' = trail /\ tries' = tries
    BY DEF Restart
<1>2. LineInv' /\ LiveJobs' = {}
    <2>1. InLine(pendingJobs') /\ JobsOf(pendingJobs') = {}
        BY <1>1, EmptyLine
    <2> QED
        BY <1>1, <2>1 DEF LineInv, LiveJobs, InLine, JobsOf
<1>3. Known' = Known /\ Now' = Now
    BY <1>1 DEF Known, Now
<1>4. RecordInv'
    BY <1>1, <1>2, <1>3 DEF QueueInv, RecordInv
<1> QED
    BY <1>2, <1>4 DEF QueueInv

----------------------------------------------------------------------------
(* What every step does, for the invariant and for the refinement           *)

JobLeaves(j) == LiveJobs' = {a \in LiveJobs : a.id # j}
JobComes(j) == \E x \in QueueJob : x.id = j /\ LiveJobs' = {a \in LiveJobs : a.id # j} \cup {x}

LEMMA AttemptEnds ==
    ASSUME QueueInv, NEW job \in running,
           SkipUnhandled(job) \/ Succeed(job) \/ FailAttempt(job)
    PROVE  /\ QueueInv'
           /\ \/ /\ JobLeaves(job.id)
                 /\ \/ SkipUnhandled(job) \/ Succeed(job)
                    \/ FailAttempt(job) /\ job.attempt + 1 = MaxAttempts
              \/ /\ JobComes(job.id) /\ trail' = trail
                 /\ job.id \in Handled /\ tries[job.id] + 1 < MaxAttempts
<1>0. {a \in LiveJobs : a.id # job.id} = JobsOf(pendingJobs)
    BY JobInLoop DEF ServedBefore
<1>1. CASE SkipUnhandled(job)
    BY <1>0, <1>1, SettleKeeps DEF SkipUnhandled, Trail, JobLeaves
<1>2. CASE Succeed(job)
    BY <1>0, <1>2, SettleKeeps DEF Succeed, Trail, JobLeaves
<1>3. CASE FailAttempt(job) /\ job.attempt + 1 < MaxAttempts
    <2>1. QueueInv' /\ JobComes(job.id)
        BY <1>0, <1>3, RetryKeeps DEF FailAttempt, JobComes
    <2> QED
        BY <1>3, <2>1, JobInLoop DEF FailAttempt
<1>4. CASE FailAttempt(job) /\ ~(job.attempt + 1 < MaxAttempts)
    <2>1. QueueInv' /\ JobLeaves(job.id)
        BY <1>0, <1>4, SettleKeeps DEF FailAttempt, Trail, JobLeaves
    <2>2. job.attempt + 1 = MaxAttempts
        BY <1>4, JobInLoop, QueueAssumption
    <2> QED
        BY <1>4, <2>1, <2>2
<1> QED
    BY <1>1, <1>2, <1>3, <1>4

LEMMA QueueStep == QueueInv /\ [Next]_queueVars => QueueInv'
<1> SUFFICES ASSUME QueueInv, [Next]_queueVars PROVE QueueInv'
    OBVIOUS
<1>1. CASE Next
    BY <1>1, EnqueueKeeps, AttemptEnds, RestartKeeps DEF Next, Work
<1>2. CASE UNCHANGED queueVars
    <2>1. /\ pendingJobs' = pendingJobs /\ running' = running /\ isProcessing' = isProcessing
          /\ trail' = trail /\ tries' = tries
        BY <1>2 DEF queueVars
    <2>2. LineInv'
        BY <2>1 DEF QueueInv, LineInv
    <2>3. LiveJobs' = LiveJobs /\ Known' = Known /\ Now' = Now
        BY <2>1 DEF LiveJobs, Known, Now
    <2>4. RecordInv'
        BY <2>1, <2>3 DEF QueueInv, RecordInv
    <2> QED
        BY <2>2, <2>4 DEF QueueInv
<1> QED
    BY <1>1, <1>2

LEMMA QueueInvariant == Spec => []QueueInv
BY QueueStarts, QueueStep, PTL DEF Spec

LEMMA PendingIsLine == QueueInv => PendingSet = JobsOf(pendingJobs)
BY DEF QueueInv, LineInv, InLine, PendingSet, JobsOf

----------------------------------------------------------------------------
\* For every set of jobs and every number of attempts: enqueue() starts a loop only
\* when none runs, a loop stops only when nobody waits (L38-39, L55-73).
THEOREM OneLoop == Spec => []OneLoopWhileWork
<1>1. QueueInv => OneLoopWhileWork
    <2> SUFFICES ASSUME QueueInv PROVE OneLoopWhileWork
        OBVIOUS
    <2>1. CASE running = {}
        BY <2>1, FS_EmptySet DEF QueueInv, LineInv, OneLoopWhileWork
    <2>2. CASE running # {}
        <3>1. PICK job : running = {job}
            BY <2>2 DEF QueueInv, LineInv
        <3> QED
            BY <2>2, <3>1, FS_Singleton DEF QueueInv, LineInv, OneLoopWhileWork
    <2> QED
        BY <2>1, <2>2
<1> QED
    BY <1>1, QueueInvariant, PTL

\* Although retries go to the tail among new jobs, the job that came first is never
\* behind in attempts: a retry moves a job behind the others and gives it the
\* attempt they still have to make (L106-150).
THEOREM NobodyStarves == Spec => []EarlierJobsAreNotBehind
<1>1. QueueInv => EarlierJobsAreNotBehind
    <2> SUFFICES ASSUME QueueInv, NEW a \in LiveJobs, NEW b \in LiveJobs,
                        a.enqueuedAt <= b.enqueuedAt
                 PROVE  a.attempt >= b.attempt
        BY PendingIsLine DEF EarlierJobsAreNotBehind, LiveJobs
    <2>1. LineInv /\ a \in QueueJob /\ b \in QueueJob
        BY DEF QueueInv, LineInv, LiveJobs, InLine, JobsOf
    <2>2. a.attempt \in Nat /\ b.attempt \in Nat /\ a.enqueuedAt \in Nat /\ b.enqueuedAt \in Nat
        BY <2>1, QueueAssumption DEF QueueJob
    <2>3. a = b \/ ServedBefore(a, b) \/ ServedBefore(b, a)
        <3>1. CASE a \in running \/ b \in running
            BY <2>1, <3>1 DEF LineInv, LiveJobs
        <3>2. CASE a \in JobsOf(pendingJobs) /\ b \in JobsOf(pendingJobs)
            <4>1. PICK m \in 1..Len(pendingJobs), n \in 1..Len(pendingJobs) :
                      a = pendingJobs[m] /\ b = pendingJobs[n]
                BY <3>2 DEF JobsOf
            <4>2. m < n \/ n < m \/ m = n
                OBVIOUS
            <4> QED
                BY <2>1, <4>1, <4>2 DEF LineInv, InLine
        <3> QED
            BY <3>1, <3>2 DEF LiveJobs
    <2> QED
        BY <2>2, <2>3 DEF ServedBefore
<1> QED
    BY <1>1, QueueInvariant, PTL

\* Where a job is in its life, as BoundedRetry sees it.
Live(j) == \E a \in LiveJobs : a.id = j
LifeOf == [j \in Jobs |-> IF j \in LiveIds THEN "live"
                          ELSE IF trail[j] = "enqueued" THEN "lost" ELSE trail[j]]

LifeInv ==
    \A j \in Jobs :
        /\ Live(j) => LifeOf[j] = "live" /\ trail[j] = "enqueued"
        /\ ~Live(j) => LifeOf[j] = IF trail[j] = "enqueued" THEN "lost" ELSE trail[j]

LEMMA LivesAreTold == QueueInv => LifeInv
<1> SUFFICES ASSUME QueueInv, NEW j \in Jobs
             PROVE  /\ Live(j) => LifeOf[j] = "live" /\ trail[j] = "enqueued"
                    /\ ~Live(j) => LifeOf[j] = IF trail[j] = "enqueued" THEN "lost" ELSE trail[j]
    BY DEF LifeInv
<1>1. j \in LiveIds <=> Live(j)
    BY PendingIsLine DEF LiveIds, LiveJobs, Live
<1>2. Live(j) => trail[j] = "enqueued"
    BY DEF QueueInv, RecordInv, Live
<1> QED
    BY <1>1, <1>2 DEF LifeOf

\* The lives that a step leaves alone.
LEMMA OtherLives ==
    ASSUME LifeInv, LifeInv', NEW k \in Jobs, Live(k)' <=> Live(k), trail'[k] = trail[k]
    PROVE  LifeOf'[k] = LifeOf[k]
BY DEF LifeInv

\* Every step of the queue is a step in the life of one job, the loss of all in a
\* restart, or none: at most MaxAttempts attempts, one outcome that never changes.
\* (That jobs settle, which RetryImplemented adds, is left to the model checker.)
THEOREM LivesOfJobs == Spec => Promise!Spec
<1>1. Init => Promise!Init
    <2> SUFFICES ASSUME Init PROVE Promise!Init
        OBVIOUS
    <2>1. QueueInv /\ \A j \in Jobs : trail[j] = "absent"
        BY QueueStarts DEF Init
    <2>2. \A j \in Jobs : LifeOf[j] = "absent"
        BY <2>1, LivesAreTold DEF LifeInv
    <2>3. LifeOf = [j \in Jobs |-> "absent"]
        BY <2>2 DEF LifeOf
    <2> QED
        BY <2>3 DEF Init, Promise!Init, LifeOf
<1>2. QueueInv /\ LifeInv /\ LifeInv' /\ [Next]_queueVars => [Promise!Next]_(Promise!retryVars)
    <2> SUFFICES ASSUME QueueInv, LifeInv, LifeInv', [Next]_queueVars
                 PROVE  Promise!Next \/ (LifeOf' = LifeOf /\ tries' = tries)
        BY DEF Promise!retryVars, LifeOf
    <2>t. trail \in [Jobs -> Trail] /\ tries \in [Jobs -> 0..MaxAttempts]
        BY DEF QueueInv, RecordInv
    <2>1. ASSUME NEW j \in Jobs, Enqueue(j) PROVE Promise!Submit(j)
        <3>1. PICK x \in QueueJob : x.id = j /\ LiveJobs' = LiveJobs \cup {x}
            BY <2>1, EnqueueKeeps
        <3>2. trail[j] = "absent" /\ trail' = [trail EXCEPT ![j] = "enqueued"] /\ tries' = tries
            BY <2>1 DEF Enqueue
        <3>3. Live(j)' /\ \A k \in Jobs \ {j} : Live(k)' <=> Live(k)
            BY <3>1 DEF Live
        <3>4. LifeOf[j] = "absent" /\ LifeOf'[j] = "live"
            BY <3>2, <3>3 DEF LifeInv
        <3>5. \A k \in Jobs \ {j} : LifeOf'[k] = LifeOf[k]
            BY <2>t, <3>2, <3>3, OtherLives
        <3>6. LifeOf' = [LifeOf EXCEPT ![j] = "live"]
            BY <3>4, <3>5 DEF LifeOf
        <3> QED
            BY <3>2, <3>4, <3>6 DEF Promise!Submit, LifeOf
    <2>2. ASSUME NEW job \in running, SkipUnhandled(job) \/ Succeed(job) \/ FailAttempt(job)
          PROVE  \E j \in Jobs : Promise!Attempt(j) \/ Promise!Skip(j)
        <3> DEFINE j == job.id
        <3>1. /\ j \in Jobs /\ trail[j] = "enqueued" /\ tries[j] = job.attempt
              /\ job.attempt \in Nat /\ job.attempt < MaxAttempts /\ Live(j)
            BY JobInLoop DEF Live
        <3>2. LifeOf[j] = "live"
            BY <3>1 DEF LifeInv
        <3>3. \/ /\ JobLeaves(j)
                 /\ \/ SkipUnhandled(job) \/ Succeed(job)
                    \/ FailAttempt(job) /\ job.attempt + 1 = MaxAttempts
              \/ /\ JobComes(j) /\ trail' = trail
                 /\ j \in Handled /\ tries[j] + 1 < MaxAttempts
            BY <2>2, AttemptEnds
        <3>4. \A k \in Jobs \ {j} : trail'[k] = trail[k]
            BY <2>2, <2>t DEF SkipUnhandled, Succeed, FailAttempt
        <3>5. \A k \in Jobs \ {j} : LifeOf'[k] = LifeOf[k]
            <4> SUFFICES ASSUME NEW k \in Jobs \ {j} PROVE Live(k)' <=> Live(k)
                BY <3>4, OtherLives
            <4> QED
                BY <3>3 DEF JobLeaves, JobComes, Live
        <3>6. CASE JobComes(j) /\ trail' = trail /\ j \in Handled /\ tries[j] + 1 < MaxAttempts
            <4>1. Live(j)'
                BY <3>6 DEF JobComes, Live
            <4>2. LifeOf'[j] = "live"
                BY <3>1, <4>1 DEF LifeInv
            <4>3. LifeOf' = LifeOf
                BY <3>2, <3>5, <4>2 DEF LifeOf
            <4>4. tries' = [tries EXCEPT ![j] = @ + 1]
                BY <2>2, <3>6 DEF SkipUnhandled, Succeed, FailAttempt
            <4> QED
                BY <2>t, <3>1, <3>2, <3>6, <4>3, <4>4 DEF Promise!Attempt, LifeOf
        <3>7. ASSUME JobLeaves(j), NEW outcome \in Trail \ {"enqueued"},
                     trail' = [trail EXCEPT ![j] = outcome]
              PROVE  LifeOf' = [LifeOf EXCEPT ![j] = outcome]
            <4>1. ~Live(j)' /\ trail'[j] = outcome
                BY <2>t, <3>1, <3>7 DEF JobLeaves, Live
            <4>2. LifeOf'[j] = outcome
                BY <3>1, <4>1 DEF LifeInv
            <4> QED
                BY <3>5, <4>2 DEF LifeOf
        <3>8. CASE JobLeaves(j) /\ SkipUnhandled(job)
            <4>1. LifeOf' = [LifeOf EXCEPT ![j] = "skipped"]
                BY <3>7, <3>8 DEF SkipUnhandled, Trail
            <4> QED
                BY <3>1, <3>2, <3>8, <4>1 DEF SkipUnhandled, Promise!Skip, LifeOf
        <3>9. CASE JobLeaves(j) /\ Succeed(job)
            <4>1. LifeOf' = [LifeOf EXCEPT ![j] = "succeeded"]
                BY <3>7, <3>9 DEF Succeed, Trail
            <4> QED
                BY <3>1, <3>2, <3>9, <4>1 DEF Succeed, Promise!Attempt, LifeOf
        <3>10. CASE JobLeaves(j) /\ FailAttempt(job) /\ job.attempt + 1 = MaxAttempts
            <4>1. trail' = [trail EXCEPT ![j] = "failed"] /\ j \in Handled
                  /\ tries' = [tries EXCEPT ![j] = @ + 1]
                BY <3>1, <3>10 DEF FailAttempt
            <4>2. LifeOf' = [LifeOf EXCEPT ![j] = "failed"]
                BY <3>7, <3>10, <4>1 DEF Trail
            <4>3. tries'[j] = MaxAttempts
                BY <2>t, <3>1, <3>10, <4>1
            <4> QED
                BY <3>1, <3>2, <4>1, <4>2, <4>3 DEF Promise!Attempt, LifeOf
        <3> QED
            BY <3>3, <3>6, <3>8, <3>9, <3>10
    <2>3. ASSUME Restart PROVE Promise!Lose
        <3>1. trail' = trail /\ tries' = tries /\ \A j \in Jobs : ~Live(j)'
            BY <2>3, RestartKeeps DEF Restart, Live
        <3>2. \A j \in Jobs : LifeOf'[j] = IF LifeOf[j] = "live" THEN "lost" ELSE LifeOf[j]
            BY <2>t, <3>1 DEF LifeInv, Trail
        <3>3. LifeOf' = [j \in Jobs |-> IF LifeOf[j] = "live" THEN "lost" ELSE LifeOf[j]]
            BY <3>2 DEF LifeOf
        <3> QED
            BY <3>1, <3>3 DEF Promise!Lose, LifeOf
    <2>4. CASE UNCHANGED queueVars
        BY <2>4 DEF queueVars, LifeOf, LiveIds, PendingSet
    <2> QED
        BY <2>1, <2>2, <2>3, <2>4 DEF Next, Work, Promise!Next
<1> QED
    BY <1>1, <1>2, LivesAreTold, QueueInvariant, PTL DEF Spec, Promise!Spec

----------------------------------------------------------------------------
(* The records *)

Secret == Call \cup {None, "initial"}

Dated(record) ==
    record.kind \in {"client", "template"} => (record.status = "archived" <=> record.dated)

ReadsAreOfTheirRow ==
    \A c \in Call : call[c].pc = "edit" =>
        /\ call[c].row \in Row
        /\ call[c].kind # "none"
        /\ call[c].read.kind = call[c].kind
        /\ row[call[c].row].kind = call[c].kind
        /\ Dated(call[c].read)

\* What a call has stored and not yet returned is there, if the row has a secret
\* at all and no two calls met.
SecretsOnTheirWay ==
    \A c \in Call : call[c].pc = "handOver" =>
        /\ call[c].row \in Row
        /\ row[call[c].row].kind # "none"
        /\ row[call[c].row].kind = "application" /\ call[c].row \notin overrun =>
               row[call[c].row].secret \in {None, c}

RecordsInv ==
    /\ RecordsTypeOK /\ ArchivedIffDated /\ SecretInHands
    /\ ReadsAreOfTheirRow /\ SecretsOnTheirWay

LEMMA NoRowType == NoRow \in RowRecord
BY DEF NoRow, RowRecord

LEMMA NoCallType == NoCall \in CallRecord /\ [NoCall EXCEPT !.pc = "done"] \in CallRecord
BY NoRowType DEF NoCall, CallRecord

LEMMA InsertingCallType ==
    ASSUME NEW place \in Nat, NEW k \in Kind
    PROVE  /\ [NoCall EXCEPT !.pc = "insert", !.kind = k, !.place = place] \in CallRecord
           /\ [NoCall EXCEPT !.pc = "insert", !.kind = k, !.place = place].pc = "insert"
BY NoRowType DEF NoCall, CallRecord

LEMMA InitialRows ==
    ASSUME NEW k \in Kind, NEW status \in StatusOf(k), NEW type \in TypeOf(k), NEW place \in Nat
    PROVE  /\ InitialRow(k, status, type, place) \in RowRecord
           /\ Dated(InitialRow(k, status, type, place))
           /\ type = "public" => InitialRow(k, status, type, place).secret = None
BY DEF InitialRow, RowRecord, Dated, StatusOf, TypeOf, Kind, ClientStatus, TemplateStatus,
       WorkspaceStatus, ApplicationStatus, ApplicationType

LEMMA RecordsInitial == RecordsInit => RecordsInv
<1> SUFFICES ASSUME RecordsInit PROVE RecordsInv
    OBVIOUS
<1>1. \A r \in Row : row[r] \in RowRecord /\ Dated(row[r])
                     /\ (row[r].type = "public" => row[r].secret = None)
    <2> SUFFICES ASSUME NEW r \in Row
                 PROVE  row[r] \in RowRecord /\ Dated(row[r])
                        /\ (row[r].type = "public" => row[r].secret = None)
        OBVIOUS
    <2>1. CASE row[r] = NoRow
        BY <2>1, NoRowType DEF NoRow, Dated
    <2>2. CASE \E k \in Kind : \E status \in StatusOf(k), type \in TypeOf(k), place \in Nat :
                   row[r] = InitialRow(k, status, type, place)
        <3>1. PICK k \in Kind : \E status \in StatusOf(k), type \in TypeOf(k), place \in Nat :
                  row[r] = InitialRow(k, status, type, place)
            BY <2>2
        <3>2. PICK status \in StatusOf(k), type \in TypeOf(k), place \in Nat :
                  row[r] = InitialRow(k, status, type, place)
            BY <3>1
        <3> QED
            BY <3>2, InitialRows DEF InitialRow
    <2> QED
        BY <2>1, <2>2 DEF RecordsInit
<1>2. row = [r \in Row |-> row[r]]
    BY DEF RecordsInit
<1>3. Cardinality(There) \in Nat
    BY RecordNames, FS_CardinalityType
<1>4. call = [c \in Call |-> NoCall] /\ handed = [r \in Row |-> row[r].secret]
      /\ lost = {} /\ overrun = {} /\ clock = Cardinality(There)
    BY DEF RecordsInit
<1>5. RecordsTypeOK
    <2>1. row \in [Row -> RowRecord] /\ call \in [Call -> CallRecord]
        BY <1>1, <1>2, <1>4, NoCallType
    <2>2. handed \in [Row -> Call \cup {None, "initial"}]
        BY <1>1, <1>4 DEF RowRecord
    <2> QED
        BY <1>3, <1>4, <2>1, <2>2 DEF RecordsTypeOK
<1> QED
    BY <1>1, <1>4, <1>5 DEF RecordsInv, ArchivedIffDated, SecretInHands, ReadsAreOfTheirRow,
       SecretsOnTheirWay, Dated, NoCall

\* A call that had no secret to return takes none from its way.
LEMMA OthersOnTheirWay ==
    ASSUME NEW c \in Call, call[c].pc # "handOver", \A d \in Call \ {c} : call'[d] = call[d],
           NEW r
    PROVE  /\ OnItsWay(r) \subseteq OnItsWay(r)'
           /\ call'[c].pc = "handOver" /\ call'[c].row = r => c \in OnItsWay(r)'
BY DEF OnItsWay, At

\* A row that was not there is inserted.
LEMMA InsertStep ==
    ASSUME RecordsInv, NEW c \in Call, NEW r \in Row, NEW k \in Kind, NEW record \in RowRecord,
           Insert(c, r, k, record),
           Dated([record EXCEPT !.kind = k]),
           record.secret \in {None, c},
           record.type = "public" => record.secret = None
    PROVE  RecordsInv'
<1> DEFINE new == [record EXCEPT !.kind = k]
           after == IF record.secret = None THEN [NoCall EXCEPT !.pc = "done"]
                    ELSE [NoCall EXCEPT !.pc = "handOver", !.row = r]
<1>1. new \in RowRecord /\ new.kind = k /\ k # "none" /\ new.secret = record.secret
      /\ new.type = record.type
    BY DEF RowRecord, Kind
<1>2. row' = [row EXCEPT ![r] = new] /\ row \in [Row -> RowRecord] /\ row[r].kind = "none"
    BY DEF Insert, Exists, RecordsInv, RecordsTypeOK
<1>8. after \in CallRecord /\ after.pc # "edit"
      /\ (after.pc = "handOver" => after.row = r)
      /\ (after.pc # "handOver" => record.secret = None)
    BY NoCallType DEF NoCall, CallRecord
<1>3. call' = [call EXCEPT ![c] = after] /\ call \in [Call -> CallRecord] /\ call[c].pc = "insert"
      /\ clock' = clock /\ overrun' = overrun /\ clock \in Nat /\ overrun \subseteq Row
      /\ handed' = handed /\ handed \in [Row -> Secret] /\ lost' = lost /\ lost \subseteq Call
    BY DEF Insert, At, End, ToHandOver, Become, RecordsInv, RecordsTypeOK, Secret
<1> HIDE DEF after, new
<1>9. call'[c] = after /\ \A d \in Call \ {c} : call'[d] = call[d]
    BY <1>3
<1>4. RecordsTypeOK'
    BY <1>1, <1>2, <1>3, <1>8 DEF RecordsTypeOK, Secret
<1>5. ArchivedIffDated'
    BY <1>1, <1>2 DEF RecordsInv, ArchivedIffDated, Dated, new
<1>6. SecretInHands'
    <2> SUFFICES ASSUME NEW x \in Row, row'[x].kind = "application", x \notin overrun'
                 PROVE  /\ row'[x].secret \in {None, handed'[x]} \cup OnItsWay(x)' \cup lost'
                        /\ row'[x].type = "public" => row'[x].secret = None
        BY DEF SecretInHands
    <2>1. CASE x = r
        <3>1. row'[x] = new
            BY <1>2, <2>1
        <3>2. record.secret = None \/ c \in OnItsWay(x)'
            BY <1>3, <1>8, <1>9, <2>1, OthersOnTheirWay
        <3> QED
            BY <1>1, <3>1, <3>2
    <2>2. CASE x # r
        <3>1. row'[x] = row[x]
            BY <1>2, <2>2
        <3>2. OnItsWay(x) \subseteq OnItsWay(x)'
            BY <1>3, <1>9, OthersOnTheirWay
        <3> QED
            BY <1>3, <3>1, <3>2 DEF RecordsInv, SecretInHands
    <2> QED
        BY <2>1, <2>2
<1>7. ReadsAreOfTheirRow'
    <2> SUFFICES ASSUME NEW d \in Call, call'[d].pc = "edit"
                 PROVE  /\ call'[d].row \in Row /\ call'[d].kind # "none"
                        /\ call'[d].read.kind = call'[d].kind
                        /\ row'[call'[d].row].kind = call'[d].kind
                        /\ Dated(call'[d].read)
        BY DEF ReadsAreOfTheirRow, Dated
    <2>1. d # c /\ call'[d] = call[d]
        BY <1>8, <1>9
    <2>2. call[d].row # r
        BY <1>2, <2>1 DEF RecordsInv, ReadsAreOfTheirRow
    <2> QED
        BY <1>2, <2>1, <2>2 DEF RecordsInv, ReadsAreOfTheirRow
<1>10. SecretsOnTheirWay'
    <2> SUFFICES ASSUME NEW d \in Call, call'[d].pc = "handOver"
                 PROVE  /\ call'[d].row \in Row /\ row'[call'[d].row].kind # "none"
                        /\ row'[call'[d].row].kind = "application" /\ call'[d].row \notin overrun' =>
                               row'[call'[d].row].secret \in {None, d}
        BY DEF SecretsOnTheirWay
    <2>1. CASE d = c
        <3>1. call'[d].row = r /\ row'[r] = new
            BY <1>2, <1>8, <1>9, <2>1
        <3> QED
            BY <1>1, <2>1, <3>1
    <2>2. CASE d # c
        <3>1. call'[d] = call[d] /\ call[d].row # r /\ call[d].row \in Row
            BY <1>2, <1>9, <2>2 DEF RecordsInv, SecretsOnTheirWay
        <3>2. row'[call[d].row] = row[call[d].row]
            BY <1>2, <3>1
        <3> QED
            BY <1>3, <3>1, <3>2 DEF RecordsInv, SecretsOnTheirWay
    <2> QED
        BY <2>1, <2>2
<1> QED
    BY <1>4, <1>5, <1>6, <1>7, <1>10 DEF RecordsInv

\* A row that a call has read is written.  What becomes of its secret: it stays,
\* goes, or is that of this very call, if no other is on its way.
LEMMA WriteStep ==
    ASSUME RecordsInv, NEW c \in Call, NEW record \in RowRecord, NEW after \in CallRecord,
           At(c, "edit"), record.kind = call[c].kind, Dated(record),
           row' = [row EXCEPT ![call[c].row] = record], Become(c, after),
           UNCHANGED <<clock, handed, lost>>,
           after.pc \in {"done", "handOver"},
           after.pc = "handOver" => after.row = call[c].row /\ record.secret = c,
           overrun \subseteq overrun', overrun' \subseteq Row,
           record.kind = "application" /\ call[c].row \notin overrun' =>
               /\ \/ record.secret \in {None, row[call[c].row].secret}
                  \/ after.pc = "handOver" /\ OnItsWay(call[c].row) = {}
               /\ record.type = "public" => record.secret = None
    PROVE  RecordsInv'
<1> DEFINE r == call[c].row
<1>1. r \in Row /\ row[r].kind = record.kind /\ record.kind # "none" /\ call[c].pc = "edit"
    BY DEF At, RecordsInv, ReadsAreOfTheirRow
<1>2. /\ row \in [Row -> RowRecord] /\ row'[r] = record
      /\ \A x \in Row \ {r} : row'[x] = row[x]
    BY <1>1 DEF RecordsInv, RecordsTypeOK
<1>3. call \in [Call -> CallRecord] /\ clock \in Nat /\ handed \in [Row -> Secret]
      /\ lost \subseteq Call /\ call'[c] = after /\ \A d \in Call \ {c} : call'[d] = call[d]
    BY DEF Become, RecordsInv, RecordsTypeOK, Secret
<1>4. RecordsTypeOK'
    <2>1. row' \in [Row -> RowRecord] /\ call' \in [Call -> CallRecord]
        BY <1>2, <1>3 DEF Become
    <2> QED
        BY <1>3, <2>1 DEF RecordsTypeOK, Secret
<1>5. ArchivedIffDated'
    BY <1>1, <1>2 DEF RecordsInv, ArchivedIffDated, Dated
<1>9. \A x : /\ OnItsWay(x) \subseteq OnItsWay(x)'
             /\ after.pc = "handOver" /\ after.row = x => c \in OnItsWay(x)'
    BY <1>1, <1>3, OthersOnTheirWay
<1>6. SecretInHands'
    <2> SUFFICES ASSUME NEW x \in Row, row'[x].kind = "application", x \notin overrun'
                 PROVE  /\ row'[x].secret \in {None, handed'[x]} \cup OnItsWay(x)' \cup lost'
                        /\ row'[x].type = "public" => row'[x].secret = None
        BY DEF SecretInHands
    <2>1. row[x].kind = "application" /\ x \notin overrun
        BY <1>1, <1>2
    <2>2. row[x].secret \in {None, handed[x]} \cup OnItsWay(x) \cup lost
          /\ (row[x].type = "public" => row[x].secret = None)
        BY <2>1 DEF RecordsInv, SecretInHands
    <2>3. row[x].secret \in {None, handed'[x]} \cup OnItsWay(x)' \cup lost'
        BY <1>9, <2>2
    <2>4. CASE x # r
        BY <1>2, <2>2, <2>3, <2>4
    <2>5. CASE x = r
        <3>1. row'[x] = record
            BY <1>2, <2>5
        <3>2. record.type = "public" => record.secret = None
            BY <2>5, <3>1
        <3>3. CASE record.secret \in {None, row[r].secret}
            BY <2>3, <2>5, <3>1, <3>2, <3>3
        <3>4. CASE after.pc = "handOver" /\ OnItsWay(r) = {}
            BY <1>9, <2>5, <3>1, <3>2, <3>4
        <3> QED
            BY <2>5, <3>1, <3>3, <3>4
    <2> QED
        BY <2>4, <2>5
<1>7. ReadsAreOfTheirRow'
    <2> SUFFICES ASSUME NEW d \in Call, call'[d].pc = "edit"
                 PROVE  /\ call'[d].row \in Row /\ call'[d].kind # "none"
                        /\ call'[d].read.kind = call'[d].kind
                        /\ row'[call'[d].row].kind = call'[d].kind
                        /\ Dated(call'[d].read)
        BY DEF ReadsAreOfTheirRow, Dated
    <2>1. d # c /\ call'[d] = call[d]
        BY <1>3
    <2>2. call[d].row = r \/ row'[call[d].row] = row[call[d].row]
        BY <1>2, <2>1 DEF RecordsInv, ReadsAreOfTheirRow
    <2> QED
        BY <1>1, <1>2, <2>1, <2>2 DEF RecordsInv, ReadsAreOfTheirRow
<1>8. SecretsOnTheirWay'
    <2> SUFFICES ASSUME NEW d \in Call, call'[d].pc = "handOver"
                 PROVE  /\ call'[d].row \in Row /\ row'[call'[d].row].kind # "none"
                        /\ row'[call'[d].row].kind = "application" /\ call'[d].row \notin overrun' =>
                               row'[call'[d].row].secret \in {None, d}
        BY DEF SecretsOnTheirWay
    <2>1. CASE d = c
        BY <1>1, <1>2, <1>3, <2>1
    <2>2. CASE d # c
        <3>1. call'[d] = call[d] /\ call[d].pc = "handOver" /\ call[d].row \in Row
              /\ row[call[d].row].kind # "none"
              /\ (row[call[d].row].kind = "application" /\ call[d].row \notin overrun =>
                      row[call[d].row].secret \in {None, d})
            BY <1>3, <2>2 DEF RecordsInv, SecretsOnTheirWay
        <3>2. CASE call[d].row # r
            BY <1>2, <3>1, <3>2
        <3>3. CASE call[d].row = r
            <4>1. OnItsWay(r) # {}
                BY <3>1, <3>3 DEF OnItsWay, At
            <4>2. row'[r] = record
                BY <1>2
            <4> QED
                BY <1>1, <3>1, <3>3, <4>1, <4>2
        <3> QED
            BY <3>2, <3>3
    <2> QED
        BY <2>1, <2>2
<1> QED
    BY <1>4, <1>5, <1>6, <1>7, <1>8 DEF RecordsInv

\* A call proceeds and the rows stay.
LEMMA CallStep ==
    ASSUME RecordsInv, NEW c \in Call, NEW record \in CallRecord,
           call' = [call EXCEPT ![c] = record],
           UNCHANGED <<row, handed, lost, overrun>>, clock' \in Nat,
           call[c].pc # "handOver", record.pc # "handOver",
           record.pc = "edit" => /\ record.row \in Row /\ record.kind # "none"
                                 /\ record.read = row[record.row]
                                 /\ record.kind = row[record.row].kind
    PROVE  RecordsInv'
<1>1. RecordsTypeOK'
    BY DEF RecordsInv, RecordsTypeOK
<1>4. call'[c] = record /\ \A d \in Call \ {c} : call'[d] = call[d]
    BY DEF RecordsInv, RecordsTypeOK
<1>5. \A r : OnItsWay(r) \subseteq OnItsWay(r)'
    BY <1>4, OthersOnTheirWay
<1>2. ArchivedIffDated' /\ SecretInHands' /\ SecretsOnTheirWay'
    <2>1. ArchivedIffDated'
        BY DEF RecordsInv, ArchivedIffDated
    <2>2. SecretInHands'
        BY <1>5 DEF RecordsInv, SecretInHands
    <2>3. SecretsOnTheirWay'
        BY <1>4 DEF RecordsInv, SecretsOnTheirWay
    <2> QED
        BY <2>1, <2>2, <2>3
<1>3. ReadsAreOfTheirRow'
    <2> SUFFICES ASSUME NEW d \in Call, call'[d].pc = "edit"
                 PROVE  /\ call'[d].row \in Row /\ call'[d].kind # "none"
                        /\ call'[d].read.kind = call'[d].kind
                        /\ row'[call'[d].row].kind = call'[d].kind
                        /\ Dated(call'[d].read)
        BY DEF ReadsAreOfTheirRow, Dated
    <2>1. CASE d # c
        BY <1>4, <2>1 DEF RecordsInv, ReadsAreOfTheirRow
    <2>2. CASE d = c
        BY <1>4, <2>2 DEF RecordsInv, ArchivedIffDated, Dated
    <2> QED
        BY <2>1, <2>2
<1> QED
    BY <1>1, <1>2, <1>3 DEF RecordsInv

\* The secret that a call has stored is given to its owner, or to nobody.
LEMMA AnswerStep == ASSUME RecordsInv, NEW c \in Call, Answer(c)
                    PROVE  RecordsInv'
<1> DEFINE r == call[c].row
           end == [NoCall EXCEPT !.pc = "done"]
<1>1. /\ call[c].pc = "handOver" /\ call' = [call EXCEPT ![c] = end]
      /\ UNCHANGED <<row, clock, overrun>>
      /\ \/ handed' = [handed EXCEPT ![r] = c] /\ lost' = lost
         \/ handed' = handed /\ lost' = lost \cup {c}
    BY DEF Answer, HandOver, HandOverFails, At, End, Become
<1>2. end \in CallRecord /\ end.pc = "done"
    BY NoCallType DEF NoCall
<1> HIDE DEF end
<1>3. /\ call'[c] = end /\ \A d \in Call \ {c} : call'[d] = call[d]
      /\ handed \in [Row -> Secret] /\ lost \subseteq Call
      /\ r \in Row
      /\ row[r].kind = "application" /\ r \notin overrun => row[r].secret \in {None, c}
    BY <1>1 DEF RecordsInv, RecordsTypeOK, SecretsOnTheirWay, Secret
<1>4. RecordsTypeOK'
    <2>1. call' \in [Call -> CallRecord]
        BY <1>1, <1>2 DEF RecordsInv, RecordsTypeOK
    <2>2. handed' \in [Row -> Secret] /\ lost' \subseteq Call
        BY <1>1, <1>3 DEF Secret
    <2> QED
        BY <1>1, <2>1, <2>2 DEF RecordsInv, RecordsTypeOK, Secret
<1>5. ArchivedIffDated' /\ ReadsAreOfTheirRow' /\ SecretsOnTheirWay'
    <2>1. ArchivedIffDated'
        BY <1>1 DEF RecordsInv, ArchivedIffDated
    <2>2. ReadsAreOfTheirRow'
        BY <1>1, <1>2, <1>3 DEF RecordsInv, ReadsAreOfTheirRow, Dated
    <2>3. SecretsOnTheirWay'
        BY <1>1, <1>2, <1>3 DEF RecordsInv, SecretsOnTheirWay
    <2> QED
        BY <2>1, <2>2, <2>3
<1>6. SecretInHands'
    <2> SUFFICES ASSUME NEW x \in Row, row'[x].kind = "application", x \notin overrun'
                 PROVE  /\ row'[x].secret \in {None, handed'[x]} \cup OnItsWay(x)' \cup lost'
                        /\ row'[x].type = "public" => row'[x].secret = None
        BY DEF SecretInHands
    <2>1. /\ row'[x] = row[x] /\ (row[x].type = "public" => row[x].secret = None)
          /\ row[x].secret \in {None, handed[x]} \cup OnItsWay(x) \cup lost
        BY <1>1 DEF RecordsInv, SecretInHands
    <2>2. CASE x = r
        <3>1. row[x].secret \in {None, c}
            BY <1>1, <1>3, <2>2
        <3>2. handed'[x] = c \/ c \in lost'
            BY <1>1, <1>3, <2>2
        <3> QED
            BY <2>1, <3>1, <3>2
    <2>3. CASE x # r
        <3>1. OnItsWay(x) \subseteq OnItsWay(x)'
            BY <1>3, <2>3 DEF OnItsWay, At
        <3>2. handed'[x] = handed[x] /\ lost \subseteq lost'
            BY <1>1, <1>3, <2>3
        <3> QED
            BY <2>1, <3>1, <3>2
    <2> QED
        BY <2>2, <2>3
<1> QED
    BY <1>4, <1>5, <1>6 DEF RecordsInv

LEMMA CreateStep == ASSUME RecordsInv, NEW c \in Call, Create(c)
                    PROVE  RecordsInv'
<1> USE DEF Kind
<1>0. /\ row \in [Row -> RowRecord] /\ handed \in [Row -> Secret]
      /\ call \in [Call -> CallRecord] /\ call[c].place \in Nat /\ clock \in Nat
    BY DEF RecordsInv, RecordsTypeOK, CallRecord, Secret
<1>1. ASSUME NEW k \in Kind, StartCreate(c, k)
      PROVE  RecordsInv'
    <2> DEFINE record == [NoCall EXCEPT !.pc = "insert", !.kind = k, !.place = clock + 1]
    <2>1. record \in CallRecord /\ record.pc = "insert"
        <3>1. clock + 1 \in Nat
            BY <1>0
        <3> QED
            BY <3>1, InsertingCallType
    <2>2. call' = [call EXCEPT ![c] = record] /\ clock' \in Nat
          /\ UNCHANGED <<row, handed, lost, overrun>> /\ call[c].pc = "idle"
        BY <1>0, <1>1 DEF StartCreate, At, Become
    <2> QED
        BY <2>1, <2>2, CallStep
<1>2. ASSUME NEW r \in Row, CreateClient(c, r)
      PROVE  RecordsInv'
    <2> DEFINE record == [NoRow EXCEPT !.status = "active", !.place = call[c].place]
    <2>1. record \in RowRecord /\ Dated([record EXCEPT !.kind = "client"])
        BY <1>0, NoRowType DEF NoRow, RowRecord, Dated, ClientStatus
    <2>2. Insert(c, r, "client", record) /\ record.secret = None
        BY <1>2 DEF CreateClient, NoRow
    <2> QED
        BY <2>1, <2>2, InsertStep
<1>3. ASSUME NEW r \in Row, RecordEvent(c, r)
      PROVE  RecordsInv'
    <2> DEFINE record == [NoRow EXCEPT !.status = "active", !.place = call[c].place]
    <2>1. record \in RowRecord /\ Dated([record EXCEPT !.kind = "event"])
        BY <1>0, NoRowType DEF NoRow, RowRecord, Dated, ClientStatus
    <2>2. Insert(c, r, "event", record) /\ record.secret = None
        BY <1>3 DEF RecordEvent, NoRow
    <2> QED
        BY <2>1, <2>2, InsertStep
<1>4. ASSUME NEW r \in Row, NEW status \in TemplateStatus, CreateTemplate(c, r, status)
      PROVE  RecordsInv'
    <2> DEFINE record == [NoRow EXCEPT !.status = status, !.place = call[c].place,
                                       !.dated = status = "archived"]
    <2>1. record \in RowRecord /\ Dated([record EXCEPT !.kind = "template"])
        BY <1>0, NoRowType DEF NoRow, RowRecord, Dated
    <2>2. Insert(c, r, "template", record) /\ record.secret = None
        BY <1>4 DEF CreateTemplate, NoRow
    <2> QED
        BY <2>1, <2>2, InsertStep
<1>5. ASSUME NEW r \in Row, NEW status \in WorkspaceStatus, NEW name \in Place,
             CreateWorkspace(c, r, status, name)
      PROVE  RecordsInv'
    <2> DEFINE record == [NoRow EXCEPT !.status = status, !.place = name]
    <2>1. record \in RowRecord /\ Dated([record EXCEPT !.kind = "workspace"])
        BY NoRowType, RecordNames DEF NoRow, RowRecord, Dated
    <2>2. Insert(c, r, "workspace", record) /\ record.secret = None
        BY <1>5 DEF CreateWorkspace, NoRow
    <2> QED
        BY <2>1, <2>2, InsertStep
<1>6. ASSUME NEW r \in Row, NEW type \in ApplicationType, CreateApplication(c, r, type)
      PROVE  RecordsInv'
    <2> DEFINE record == [NoRow EXCEPT !.status = "active", !.type = type, !.place = call[c].place,
                                       !.secret = IF type = "confidential" THEN c ELSE None]
    <2>1. record \in RowRecord
        BY <1>0, NoRowType DEF NoRow, RowRecord, ClientStatus
    <2>2. Dated([record EXCEPT !.kind = "application"])
          /\ record.secret \in {None, c} /\ (record.type = "public" => record.secret = None)
        BY DEF NoRow, Dated
    <2>3. Insert(c, r, "application", record)
        BY <1>6 DEF CreateApplication
    <2> QED
        BY <2>1, <2>2, <2>3, InsertStep
<1> QED
    BY <1>1, <1>2, <1>3, <1>4, <1>5, <1>6 DEF Create

LEMMA UpdateStep == ASSUME RecordsInv, NEW c \in Call, Update(c)
                    PROVE  RecordsInv'
<1> DEFINE r == call[c].row
           read == call[c].read
<1>0. /\ row \in [Row -> RowRecord] /\ handed \in [Row -> Secret] /\ overrun \subseteq Row
      /\ call \in [Call -> CallRecord] /\ read \in RowRecord /\ clock \in Nat
    BY DEF RecordsInv, RecordsTypeOK, CallRecord, Secret
<1>1. ASSUME NEW x \in Row, StartEdit(c, x)
      PROVE  RecordsInv'
    <2> DEFINE record == [NoCall EXCEPT !.pc = "edit", !.kind = row[x].kind, !.row = x, !.read = row[x]]
    <2>1. record \in CallRecord
        BY <1>0 DEF NoCall, CallRecord, RowRecord
    <2>2. record.row = x /\ record.kind = row[x].kind /\ record.read = row[x] /\ row[x].kind # "none"
        BY <1>1 DEF StartEdit, Exists, NoCall
    <2>3. record.pc = "edit" /\ call[c].pc = "idle"
        BY <1>1 DEF StartEdit, At, NoCall
    <2> HIDE DEF record
    <2>4. Become(c, record) /\ UNCHANGED <<row, clock, handed, lost, overrun>>
        BY <1>1 DEF StartEdit, record
    <2> QED
        BY <1>0, <2>1, <2>2, <2>3, <2>4, CallStep DEF Become
<1>2. ASSUME At(c, "edit")
      PROVE  /\ r \in Row /\ read.kind = call[c].kind /\ row[r].kind = call[c].kind
             /\ Dated(read) /\ Dated(row[r])
    BY <1>0, <1>2 DEF At, RecordsInv, ReadsAreOfTheirRow, ArchivedIffDated, Dated
<1>8. ASSUME NEW k, NEW record \in RowRecord, Write(c, k, record), record.kind = k, Dated(record),
             overrun \subseteq overrun', overrun' \subseteq Row,
             k = "application" /\ r \notin overrun' =>
                 /\ record.secret \in {None, row[r].secret}
                 /\ record.type = "public" => record.secret = None
      PROVE  RecordsInv'
    <2> DEFINE after == [NoCall EXCEPT !.pc = "done"]
    <2>1. after \in CallRecord /\ after.pc = "done" /\ Become(c, after)
        BY <1>8, NoCallType DEF Write, End, NoCall
    <2>2. /\ At(c, "edit") /\ record.kind = call[c].kind /\ row' = [row EXCEPT ![r] = record]
          /\ UNCHANGED <<clock, handed, lost>>
        BY <1>8 DEF Write
    <2> HIDE DEF after
    <2> QED
        BY <1>8, <2>1, <2>2, WriteStep
<1>3. ASSUME NEW status \in ClientStatus \cup {"keep"}, UpdateClient(c, status)
      PROVE  RecordsInv'
    <2> DEFINE record == UpdatedClient(read, status)
    <2>1. Write(c, "client", record) /\ At(c, "edit") /\ read.kind = "client"
        BY <1>2, <1>3 DEF UpdateClient, Write
    <2>2. record \in RowRecord /\ record.kind = "client"
        BY <1>0, <2>1 DEF UpdatedClient, Given, RowRecord, ClientStatus
    <2>3. Dated(record)
        BY <1>0, <1>2, <2>1 DEF UpdatedClient, Given, RowRecord, ClientStatus, Dated
    <2>4. overrun' = overrun
        BY <1>3 DEF UpdateClient
    <2> QED
        BY <1>0, <1>8, <2>1, <2>2, <2>3, <2>4
<1>4. ASSUME NEW status \in TemplateStatus \cup {"keep"}, UpdateTemplate(c, status)
      PROVE  RecordsInv'
    <2> DEFINE record == UpdatedTemplate(read, status)
    <2>1. Write(c, "template", record) /\ At(c, "edit") /\ read.kind = "template"
        BY <1>2, <1>4 DEF UpdateTemplate, Write
    <2>2. record \in RowRecord /\ record.kind = "template"
        BY <1>0, <2>1 DEF UpdatedTemplate, Given, RowRecord, TemplateStatus
    <2>3. Dated(record)
        BY <1>0, <1>2, <2>1 DEF UpdatedTemplate, Given, RowRecord, TemplateStatus, Dated
    <2>4. overrun' = overrun
        BY <1>4 DEF UpdateTemplate
    <2> QED
        BY <1>0, <1>8, <2>1, <2>2, <2>3, <2>4
<1>5. ASSUME NEW status \in WorkspaceStatus \cup {"keep"}, NEW name \in Place,
             UpdateWorkspace(c, status, name)
      PROVE  RecordsInv'
    <2> DEFINE record == UpdatedWorkspace(read, status, name)
    <2>1. Write(c, "workspace", record) /\ At(c, "edit") /\ read.kind = "workspace"
        BY <1>2, <1>5 DEF UpdateWorkspace, Write
    <2>2. record \in RowRecord /\ record.kind = "workspace" /\ Dated(record)
        BY <1>0, <2>1, RecordNames DEF UpdatedWorkspace, Given, RowRecord, WorkspaceStatus, Dated
    <2>3. overrun' = overrun
        BY <1>5 DEF UpdateWorkspace
    <2> QED
        BY <1>0, <1>8, <2>1, <2>2, <2>3
<1>6. ASSUME NEW type \in ApplicationType \cup {"keep"}, NEW status \in ApplicationStatus \cup {"keep"},
             UpdateApplication(c, type, status)
      PROVE  RecordsInv'
    <2> DEFINE record == UpdatedApplication(read, type, status)
    <2>1. Write(c, "application", record) /\ At(c, "edit") /\ read.kind = "application"
        BY <1>2, <1>6 DEF UpdateApplication, Write
    <2>2. record \in RowRecord /\ record.kind = "application" /\ Dated(record)
          /\ record.secret = IF record.type = "public" THEN None ELSE read.secret
        <3>1. Given(type, read.type) \in ApplicationType \cup {"none"}
            BY <1>0 DEF Given, RowRecord
        <3>2. Given(status, read.status) \in {"none"} \cup ClientStatus \cup TemplateStatus
                                               \cup WorkspaceStatus \cup ApplicationStatus
            BY <1>0 DEF Given, RowRecord
        <3>3. record = [read EXCEPT !.type = Given(type, read.type),
                                    !.status = Given(status, read.status),
                                    !.secret = IF Given(type, read.type) = "public" THEN None
                                               ELSE read.secret]
            BY DEF UpdatedApplication
        <3>4. read.secret \in Secret /\ None \in Secret /\ read.kind = "application"
            BY <1>0, <2>1 DEF RowRecord, Secret
        <3> HIDE DEF record
        <3>5. record.kind = "application" /\ record.secret = IF record.type = "public" THEN None ELSE read.secret
            BY <1>0, <3>3, <3>4 DEF RowRecord
        <3>6. record \in RowRecord
            BY <1>0, <3>1, <3>2, <3>3, <3>4 DEF RowRecord, Secret
        <3> QED
            BY <3>5, <3>6 DEF Dated
    <2>4. overrun' = overrun \cup Overruns(c)
        BY <1>6 DEF UpdateApplication
    <2>5. overrun \subseteq overrun' /\ overrun' \subseteq Row
        BY <1>0, <1>2, <2>1, <2>4 DEF Overruns
    <2>6. ASSUME r \notin overrun'
          PROVE  /\ record.secret \in {None, row[r].secret}
                 /\ record.type = "public" => record.secret = None
        <3>1. read.secret = row[r].secret
            BY <2>4, <2>6 DEF Overruns, Credentials
        <3> QED
            BY <2>2, <3>1
    <2> HIDE DEF record
    <2> QED
        BY <1>8, <2>1, <2>2, <2>5, <2>6
<1>7. ASSUME RotateApplicationSecret(c)
      PROVE  RecordsInv'
    <2> DEFINE record == [row[r] EXCEPT !.secret = c]
               after == [NoCall EXCEPT !.pc = "handOver", !.row = r]
    <2>1. At(c, "edit") /\ row' = [row EXCEPT ![r] = record] /\ Become(c, after)
          /\ UNCHANGED <<clock, handed, lost>>
        BY <1>0, <1>7 DEF RotateApplicationSecret, ToHandOver
    <2>2. after \in CallRecord /\ after.pc = "handOver" /\ after.row = r
        BY <1>2, <2>1, NoCallType DEF NoCall, CallRecord
    <2>3. record \in RowRecord /\ record.kind = call[c].kind /\ Dated(record)
          /\ record.secret = c /\ record.type = row[r].type
        BY <1>0, <1>2, <2>1 DEF RowRecord, Dated
    <2>5. overrun' = overrun \cup (IF row[r].type = "public" \/ OnItsWay(r) # {} THEN {r} ELSE {})
        BY <1>7 DEF RotateApplicationSecret
    <2>6. overrun \subseteq overrun' /\ overrun' \subseteq Row
        BY <1>0, <1>2, <2>1, <2>5
    <2>7. r \notin overrun' => record.type # "public" /\ OnItsWay(r) = {}
        BY <2>3, <2>5
    <2> HIDE DEF record, after
    <2> QED
        BY <2>1, <2>2, <2>3, <2>6, <2>7, WriteStep
<1> QED
    BY <1>1, <1>3, <1>4, <1>5, <1>6, <1>7 DEF Update

LEMMA RecordsStep == RecordsInv /\ [RecordsNext]_recordVars => RecordsInv'
<1> SUFFICES ASSUME RecordsInv, [RecordsNext]_recordVars PROVE RecordsInv'
    OBVIOUS
<1>1. ASSUME NEW c \in Call, StatementFails(c)
      PROVE  RecordsInv'
    <2>1. [NoCall EXCEPT !.pc = "done"] \in CallRecord /\ [NoCall EXCEPT !.pc = "done"].pc = "done"
        BY NoRowType DEF NoCall, CallRecord
    <2>2. clock \in Nat
        BY DEF RecordsInv, RecordsTypeOK
    <2> QED
        BY <1>1, <2>1, <2>2, CallStep DEF StatementFails, End, Become
<1>2. CASE UNCHANGED recordVars
    BY <1>2 DEF recordVars, RecordsInv, RecordsTypeOK, ArchivedIffDated, SecretInHands,
       ReadsAreOfTheirRow, SecretsOnTheirWay, OnItsWay, At, Dated
<1> QED
    BY <1>1, <1>2, CreateStep, UpdateStep, AnswerStep DEF RecordsNext

LEMMA RecordsInvariant == RecordsSpec => []RecordsInv
BY RecordsInitial, RecordsStep, PTL DEF RecordsSpec

\* A reader changes no record: what is proved of RecordsSpec holds with readers.
THEOREM ReadersChangeNothing == ListingSpec => RecordsSpec
<1>1. ListingInit => RecordsInit
  BY DEF ListingInit
<1>2. [ListingNext]_listingVars => [RecordsNext]_recordVars
  BY DEF ListingNext, WalkNext, StartWalk, CountRows, ReadItems, NextPage, OnlyWalk,
     listingVars, recordVars
<1> QED
  BY <1>1, <1>2, PTL DEF ListingSpec, RecordsSpec

\* The variables keep their types.
THEOREM RecordTypes == RecordsSpec => []RecordsTypeOK
BY RecordsInvariant, PTL DEF RecordsInv

\* updateClient and updateTemplate: a row is dated exactly if it is archived.
THEOREM ArchivedAreDated == RecordsSpec => []ArchivedIffDated
BY RecordsInvariant, PTL DEF RecordsInv

\* updateApplication and rotateApplicationSecret: the owner's secret is stored.
THEOREM OwnersHoldTheSecret == RecordsSpec => []SecretInHands
BY RecordsInvariant, PTL DEF RecordsInv

----------------------------------------------------------------------------
(* Walking a list while the rows change *)

Filters == {"none", "any", "active", "published", "confidential"}

WalkTypeOK ==
    walk \in [pc : {"idle", "walk", "done"}, kind : Kind \cup {"none"}, filter : Filters,
              page : Nat, total : Nat \cup {NotRead}, itemsRead : BOOLEAN,
              seen : SUBSET Row, start : SUBSET Row, torn : BOOLEAN, moved : BOOLEAN]

\* The rank that the walk has reached.
Reached == IF walk.itemsRead THEN walk.page * PageSize ELSE Offset(walk.page)

\* The rows of the start that the walk has not seen are still in the list, and
\* ahead of the reader: rows are only inserted, and push them further on.
Ahead ==
    /\ walk.page > 0
    /\ walk.start \subseteq Matching(row)
    /\ \A r \in walk.start \ walk.seen : Rank(row, Matching(row), r) >= Reached

\* The total that was counted announces what is still to be seen.
Announced ==
    walk.total # NotRead =>
        IF walk.itemsRead THEN walk.start \subseteq walk.seen \/ walk.total > walk.page * PageSize
        ELSE Cardinality(Matching(row)) <= walk.total

WalkInv ==
    /\ WalkTypeOK
    /\ walk.pc = "walk" /\ ~walk.moved => Ahead
    /\ walk.pc = "walk" /\ ~walk.moved /\ ~walk.torn => Announced
    /\ WalkMissesNothing

LEMMA IdOrderType == IdOrder \in [Row -> Nat]
<1> DEFINE n == Cardinality(Row)
<1>1. n \in Nat /\ ExistsBijection(1..n, Row)
  BY FiniteRows, FS_CardinalityType
<1>2. PICK g \in Bijection(1..n, Row) : TRUE
  BY <1>1 DEF ExistsBijection
<1>3. g \in [1..n -> Row] /\ \A r \in Row : \E i \in 1..n : g[i] = r
  BY <1>2 DEF Bijection, Injection, Surjection
<1> DEFINE f == [r \in Row |-> CHOOSE i \in 1..n : g[i] = r]
<1>4. \A r \in Row : f[r] \in 1..n /\ g[f[r]] = r
  BY <1>3
<1>5. f \in [Row -> 1..n] /\ \A a, b \in Row : f[a] = f[b] => a = b
  BY <1>4
<1>6. IdOrder \in [Row -> 1..n]
  BY <1>5 DEF IdOrder
<1> QED
  BY <1>1, <1>6

LEMMA ListedAreRows ==
    ASSUME NEW t, NEW k, NEW f
    PROVE  /\ Listed(t, k, f) \subseteq Row
           /\ IsFiniteSet(Listed(t, k, f))
           /\ Cardinality(Listed(t, k, f)) \in Nat
           /\ \E kind : \A r \in Listed(t, k, f) : t[r].kind = kind
<1>1. Listed(t, k, f) \subseteq Row
  BY DEF Listed, ListClients, ListTemplates, ListWorkspaces, ListApplications, ListEvents
<1>2. \E kind : \A r \in Listed(t, k, f) : t[r].kind = kind
  BY DEF Listed, ListClients, ListTemplates, ListWorkspaces, ListApplications, ListEvents
<1> QED
  BY <1>1, <1>2, FiniteRows, FS_Subset, FS_CardinalityType

\* What a list keeps of its rows when the table changes has the same kind.
LEMMA SameKind ==
    ASSUME NEW t, NEW u, NEW k, NEW f, NEW r \in Listed(t, k, f) \cap Listed(u, k, f)
    PROVE  t[r].kind = u[r].kind
BY DEF Listed, ListClients, ListTemplates, ListWorkspaces, ListApplications, ListEvents

LEMMA RankBelow ==
    ASSUME NEW t, NEW rows \in SUBSET Row, NEW r \in rows
    PROVE  Rank(t, rows, r) \in Nat /\ Rank(t, rows, r) < Cardinality(rows)
<1> DEFINE before == {x \in rows : Before(t, x, r)}
<1>1. ~Before(t, r, r)
  BY IdOrderType DEF Before
<1>2. before \subseteq rows \ {r}
  BY <1>1
<1>3. IsFiniteSet(rows) /\ IsFiniteSet(rows \ {r}) /\ Cardinality(rows \ {r}) = Cardinality(rows) - 1
  BY FiniteRows, FS_Subset, FS_RemoveElement
<1>4. IsFiniteSet(before) /\ Cardinality(before) <= Cardinality(rows \ {r})
  BY <1>2, <1>3, FS_Subset
<1> QED
  BY <1>3, <1>4, FS_CardinalityType DEF Rank

\* Rows that are added to a list can only push the others further on.
LEMMA RankGrows ==
    ASSUME NEW t, NEW u, NEW rows \in SUBSET Row, NEW more \in SUBSET Row, rows \subseteq more,
           \A x \in rows : u[x].place = t[x].place /\ u[x].kind = t[x].kind,
           NEW r \in rows
    PROVE  Rank(t, rows, r) <= Rank(u, more, r)
<1> DEFINE before == {x \in rows : Before(t, x, r)}
           after == {x \in more : Before(u, x, r)}
<1>1. before \subseteq after
  BY DEF Before
<1>2. IsFiniteSet(after)
  BY FiniteRows, FS_Subset
<1>3. Cardinality(before) <= Cardinality(after)
  BY <1>1, <1>2, FS_Subset
<1> QED
  BY <1>3 DEF Rank

LEMMA Pages ==
    ASSUME NEW page \in Nat, NEW total \in Nat
    PROVE  /\ page * PageSize \in Nat
           /\ page > 0 => Offset(page) \in Nat /\ Offset(page) + PageSize = page * PageSize
           /\ Offset(page + 1) = page * PageSize
           /\ ~HasNextPage(page, total) => total <= page * PageSize
<1>1. PageSize \in Nat /\ PageSize > 0
  BY PageSizeAssumption
<1>2. page * PageSize \in Nat
  BY <1>1
<1>3. Offset(page + 1) = page * PageSize
  BY <1>1 DEF Offset
<1>4. ASSUME page > 0 PROVE Offset(page) \in Nat /\ Offset(page) + PageSize = page * PageSize
  <2>1. page - 1 \in Nat
    BY <1>4
  <2>2. (page - 1) * PageSize \in Nat /\ (page - 1) * PageSize + PageSize = page * PageSize
    BY <1>1, <2>1
  <2> QED
    BY <2>2 DEF Offset
<1>5. ASSUME ~HasNextPage(page, total) PROVE total <= page * PageSize
  <2> DEFINE a == total + PageSize - 1
             q == a \div PageSize
  <2>1. a \in Nat /\ q \in Nat /\ a < PageSize * q + PageSize
    BY <1>1
  <2>2. q <= page
    BY <1>5, <2>1 DEF HasNextPage, TotalPages
  <2> HIDE DEF q
  <2>3. PICK d \in Nat : page = q + d
    <3>1. page - q \in Nat /\ page = q + (page - q)
      BY <2>1, <2>2
    <3> QED
      BY <3>1
  <2>4. page * PageSize = PageSize * q + PageSize * d /\ PageSize * d \in Nat
    BY <1>1, <2>1, <2>3
  <2> QED
    BY <1>1, <2>1, <2>4
<1> QED
  BY <1>2, <1>3, <1>4, <1>5

LEMMA WalkStarts == ListingInit => WalkInv
<1> SUFFICES ASSUME ListingInit PROVE WalkInv
  OBVIOUS
<1>1. walk = NoWalk
  BY DEF ListingInit
<1>2. WalkTypeOK
  BY <1>1 DEF WalkTypeOK, NoWalk, Filters, Kind, NotRead
<1> QED
  BY <1>1, <1>2 DEF WalkInv, NoWalk, WalkMissesNothing

LEMMA StartKeeps ==
    ASSUME WalkInv, NEW k \in Kind, NEW f \in FilterOf(k), StartWalk(k, f)
    PROVE  WalkInv'
<1>1. /\ walk' = [NoWalk EXCEPT !.pc = "walk", !.kind = k, !.filter = f, !.page = 1,
                                !.start = Listed(row, k, f)]
      /\ UNCHANGED row
  BY DEF StartWalk, OnlyWalk
<1>2. Listed(row, k, f) \subseteq Row
  BY ListedAreRows
<1>3. f \in Filters
  BY DEF FilterOf, Filters
<1>4. walk' = [pc |-> "walk", kind |-> k, filter |-> f, page |-> 1, total |-> NotRead,
               itemsRead |-> FALSE, seen |-> {}, start |-> Listed(row, k, f),
               torn |-> FALSE, moved |-> FALSE]
  BY <1>1 DEF NoWalk
<1>5. WalkTypeOK'
  BY <1>2, <1>3, <1>4 DEF WalkTypeOK
<1>6. Matching(row)' = Listed(row, k, f)
  BY <1>1, <1>4 DEF Matching
<1>7. Offset(1) = 0
  BY PageSizeAssumption DEF Offset
<1>8. ASSUME NEW r \in Listed(row, k, f)
      PROVE  Rank(row, Listed(row, k, f), r) \in Nat
  BY <1>2, RankBelow
<1>9. ASSUME NEW r \in Listed(row, k, f) PROVE Rank(row, Matching(row), r)' >= 0
  <2>1. Rank(row, Matching(row), r)' = Rank(row, Listed(row, k, f), r)
    BY <1>1, <1>6 DEF Rank, Before
  <2> QED
    BY <1>8, <2>1
<1>10. Reached' = 0
  BY <1>4, <1>7 DEF Reached, Offset
<1>11. Ahead'
  BY <1>4, <1>6, <1>9, <1>10 DEF Ahead
<1> QED
  BY <1>4, <1>5, <1>11 DEF WalkInv, Announced, WalkMissesNothing

LEMMA CountKeeps ==
    ASSUME WalkInv, CountRows
    PROVE  WalkInv'
<1> DEFINE n == Cardinality(Matching(row))
<1>1. /\ walk.pc = "walk" /\ walk.total = NotRead /\ UNCHANGED row
      /\ walk' = [walk EXCEPT !.total = n]
  BY DEF CountRows, OnlyWalk
<1>2. /\ Matching(row) \subseteq Row
      /\ n \in Nat
  BY ListedAreRows DEF Matching
<1> HIDE DEF n
<1>3. WalkTypeOK'
  BY <1>1, <1>2 DEF WalkInv, WalkTypeOK
<1>4. /\ walk'.pc = walk.pc /\ walk'.page = walk.page /\ walk'.total = n
      /\ walk'.itemsRead = walk.itemsRead /\ walk'.seen = walk.seen /\ walk'.start = walk.start
      /\ walk'.torn = walk.torn /\ walk'.moved = walk.moved
      /\ walk'.kind = walk.kind /\ walk'.filter = walk.filter
  BY <1>1 DEF WalkInv, WalkTypeOK
<1>5. Matching(row)' = Matching(row)
  BY <1>1, <1>4 DEF Matching
<1>6. ASSUME ~walk.moved PROVE Ahead'
  BY <1>1, <1>4, <1>5, <1>6 DEF WalkInv, Ahead, Reached
<1>7. ASSUME ~walk.moved PROVE Announced'
  <2>1. CASE ~walk.itemsRead
    BY <1>2, <1>4, <1>5, <2>1 DEF Announced, n
  <2>2. CASE walk.itemsRead
    <3>1. ASSUME NEW r \in walk.start \ walk.seen PROVE n > walk.page * PageSize
      <4>1. r \in Matching(row) /\ Rank(row, Matching(row), r) >= walk.page * PageSize
        BY <1>1, <1>7, <2>2 DEF WalkInv, Ahead, Reached
      <4>2. Rank(row, Matching(row), r) \in Nat /\ Rank(row, Matching(row), r) < n
        BY <1>2, <4>1, RankBelow DEF n
      <4>3. walk.page * PageSize \in Nat
        BY Pages DEF WalkInv, WalkTypeOK
      <4> QED
        BY <1>2, <4>1, <4>2, <4>3
    <3> QED
      BY <1>4, <2>2, <3>1 DEF Announced
  <2> QED
    BY <2>1, <2>2 DEF WalkInv, WalkTypeOK
<1> QED
  BY <1>1, <1>3, <1>4, <1>6, <1>7 DEF WalkInv, WalkMissesNothing

LEMMA ReadKeeps ==
    ASSUME WalkInv, ReadItems
    PROVE  WalkInv'
<1> DEFINE page == PageOf(row, Matching(row), walk.page)
<1>1. /\ walk.pc = "walk" /\ ~walk.itemsRead /\ UNCHANGED row
      /\ walk' = [walk EXCEPT !.itemsRead = TRUE, !.seen = walk.seen \cup page]
  BY DEF ReadItems, OnlyWalk
<1>2. /\ Matching(row) \subseteq Row
      /\ Cardinality(Matching(row)) \in Nat
  BY ListedAreRows DEF Matching
<1>3. page \subseteq Row
  BY <1>2 DEF PageOf
<1> HIDE DEF page
<1>4. WalkTypeOK'
  BY <1>1, <1>3 DEF WalkInv, WalkTypeOK
<1>5. /\ walk'.pc = walk.pc /\ walk'.page = walk.page /\ walk'.total = walk.total
      /\ walk'.itemsRead = TRUE /\ walk'.seen = walk.seen \cup page /\ walk'.start = walk.start
      /\ walk'.torn = walk.torn /\ walk'.moved = walk.moved
      /\ walk'.kind = walk.kind /\ walk'.filter = walk.filter
  BY <1>1 DEF WalkInv, WalkTypeOK
<1>6. Matching(row)' = Matching(row)
  BY <1>1, <1>5 DEF Matching
<1>7. ASSUME ~walk.moved, NEW r \in walk.start \ walk'.seen
      PROVE  /\ r \in Matching(row)
             /\ Rank(row, Matching(row), r) \in Nat
             /\ Rank(row, Matching(row), r) < Cardinality(Matching(row))
             /\ Rank(row, Matching(row), r) >= walk.page * PageSize
             /\ walk.page * PageSize \in Nat
  <2>1. /\ walk.page > 0 /\ r \in Matching(row) /\ r \notin page
        /\ Rank(row, Matching(row), r) >= Offset(walk.page)
    BY <1>1, <1>5, <1>7 DEF WalkInv, Ahead, Reached
  <2>2. /\ Rank(row, Matching(row), r) \in Nat
        /\ Rank(row, Matching(row), r) < Cardinality(Matching(row))
    BY <1>2, <2>1, RankBelow
  <2>3. /\ walk.page * PageSize \in Nat /\ Offset(walk.page) \in Nat
        /\ Offset(walk.page) + PageSize = walk.page * PageSize
    BY <2>1, Pages DEF WalkInv, WalkTypeOK
  <2>4. ~(Rank(row, Matching(row), r) < Offset(walk.page) + PageSize)
    BY <2>1 DEF page, PageOf
  <2> QED
    BY <2>1, <2>2, <2>3, <2>4
<1>8. ASSUME ~walk.moved PROVE Ahead'
  BY <1>1, <1>5, <1>6, <1>7, <1>8 DEF WalkInv, Ahead, Reached
<1>9. ASSUME ~walk.moved, ~walk.torn PROVE Announced'
  <2>1. CASE walk.total = NotRead
    BY <1>5, <2>1 DEF Announced
  <2>2. CASE walk.total # NotRead
    <3>1. walk.total \in Nat /\ Cardinality(Matching(row)) <= walk.total
      BY <1>1, <1>9, <2>2 DEF WalkInv, WalkTypeOK, Announced
    <3>2. ASSUME NEW r \in walk.start \ walk'.seen PROVE walk.total > walk.page * PageSize
      BY <1>2, <1>7, <1>9, <3>1
    <3> QED
      BY <1>5, <3>2 DEF Announced
  <2> QED
    BY <2>1, <2>2
<1> QED
  BY <1>1, <1>4, <1>5, <1>8, <1>9 DEF WalkInv, WalkMissesNothing

LEMMA TurnKeeps ==
    ASSUME WalkInv, NextPage
    PROVE  WalkInv'
<1>1. /\ walk.pc = "walk" /\ walk.total # NotRead /\ walk.itemsRead /\ UNCHANGED row
  BY DEF NextPage, OnlyWalk
<1>2. walk.page \in Nat /\ walk.total \in Nat
  BY <1>1 DEF WalkInv, WalkTypeOK
<1>3. CASE HasNextPage(walk.page, walk.total)
  <2>1. walk' = [walk EXCEPT !.page = walk.page + 1, !.total = NotRead, !.itemsRead = FALSE]
    BY <1>3 DEF NextPage
  <2>2. WalkTypeOK'
    <3>1. walk.page + 1 \in Nat
      BY <1>2
    <3> QED
      BY <2>1, <3>1 DEF WalkInv, WalkTypeOK
  <2>3. /\ walk'.pc = "walk" /\ walk'.page = walk.page + 1 /\ walk'.total = NotRead
        /\ walk'.itemsRead = FALSE /\ walk'.seen = walk.seen /\ walk'.start = walk.start
        /\ walk'.moved = walk.moved /\ walk'.kind = walk.kind /\ walk'.filter = walk.filter
    BY <1>1, <2>1 DEF WalkInv, WalkTypeOK
  <2>4. Matching(row)' = Matching(row)
    BY <1>1, <2>3 DEF Matching
  <2>5. ASSUME ~walk.moved PROVE Ahead'
    <3>1. Reached' = Reached
      BY <1>1, <1>2, <2>3, Pages DEF Reached
    <3> QED
      BY <1>1, <1>2, <2>3, <2>4, <2>5, <3>1 DEF WalkInv, Ahead
  <2> QED
    BY <2>2, <2>3, <2>5 DEF WalkInv, Announced, WalkMissesNothing
<1>4. CASE ~HasNextPage(walk.page, walk.total)
  <2>1. walk' = [walk EXCEPT !.pc = "done", !.page = 0, !.total = NotRead, !.itemsRead = FALSE]
    BY <1>4 DEF NextPage
  <2>2. WalkTypeOK'
    BY <2>1 DEF WalkInv, WalkTypeOK
  <2>3. /\ walk'.pc = "done" /\ walk'.seen = walk.seen /\ walk'.start = walk.start
        /\ walk'.moved = walk.moved /\ walk'.torn = walk.torn
    BY <2>1 DEF WalkInv, WalkTypeOK
  <2>4. walk.page * PageSize \in Nat /\ walk.total <= walk.page * PageSize
    BY <1>2, <1>4, Pages
  <2>5. ASSUME ~walk.moved, ~walk.torn PROVE walk.start \subseteq walk.seen
    BY <1>1, <1>2, <2>4, <2>5 DEF WalkInv, Announced
  <2> QED
    BY <2>2, <2>3, <2>5 DEF WalkInv, WalkMissesNothing
<1> QED
  BY <1>3, <1>4

\* While another call writes.
LEMMA WriteWhileWalking ==
    ASSUME WalkInv, Observe
    PROVE  WalkInv'
<1>1. CASE walk.pc # "walk"
  <2>1. walk' = walk
    BY <1>1 DEF Observe
  <2> QED
    BY <1>1, <2>1 DEF WalkInv, WalkTypeOK, WalkMissesNothing
<1>2. CASE walk.pc = "walk"
  <2> DEFINE before == Matching(row)
             after == Matching(row')
             torn == walk.torn \/ (walk.total # NotRead /\ ~walk.itemsRead
                                     /\ ~(after \subseteq before))
             moved == walk.moved \/ \E r \in before : r \notin after \/ row'[r].place # row[r].place
  <2>1. walk' = [walk EXCEPT !.torn = torn, !.moved = moved]
    BY <1>2 DEF Observe
  <2>2. torn \in BOOLEAN /\ moved \in BOOLEAN
    BY DEF WalkInv, WalkTypeOK
  <2>3. /\ before \subseteq Row /\ after \subseteq Row
        /\ IsFiniteSet(before) /\ Cardinality(before) \in Nat /\ Cardinality(after) \in Nat
    BY ListedAreRows DEF Matching
  <2>4. \A r \in before \cap after : row'[r].kind = row[r].kind
    BY SameKind DEF Matching
  <2>5. ~moved => /\ ~walk.moved /\ before \subseteq after
                  /\ \A r \in before : row'[r].place = row[r].place
    OBVIOUS
  <2>6. ~torn => ~walk.torn /\ (walk.total # NotRead /\ ~walk.itemsRead => after \subseteq before)
    OBVIOUS
  <2>7. Matching(row)' = Listed(row', walk'.kind, walk'.filter) /\ after = Listed(row', walk.kind, walk.filter)
    BY DEF Matching
  <2> HIDE DEF torn, moved, before, after
  <2>8. WalkTypeOK'
    BY <2>1, <2>2 DEF WalkInv, WalkTypeOK
  <2>9. /\ walk'.pc = walk.pc /\ walk'.page = walk.page /\ walk'.total = walk.total
        /\ walk'.itemsRead = walk.itemsRead /\ walk'.seen = walk.seen /\ walk'.start = walk.start
        /\ walk'.torn = torn /\ walk'.moved = moved
        /\ walk'.kind = walk.kind /\ walk'.filter = walk.filter
    BY <2>1 DEF WalkInv, WalkTypeOK
  <2>10. Matching(row)' = after /\ Reached' = Reached
    BY <2>7, <2>9 DEF Reached
  <2>11. ASSUME ~moved PROVE Ahead'
    <3>1. /\ walk.page > 0 /\ walk.start \subseteq before
          /\ \A r \in walk.start \ walk.seen : Rank(row, before, r) >= Reached
      BY <1>2, <2>5, <2>11 DEF WalkInv, Ahead, before
    <3>2. ASSUME NEW r \in walk.start \ walk.seen PROVE Rank(row', after, r) >= Reached
      <4>1. r \in before /\ r \in after
        BY <2>5, <2>11, <3>1
      <4>2. /\ before \in SUBSET Row /\ after \in SUBSET Row /\ before \subseteq after
            /\ \A x \in before : row'[x].place = row[x].place /\ row'[x].kind = row[x].kind
        BY <2>3, <2>4, <2>5, <2>11
      <4>3. Rank(row, before, r) <= Rank(row', after, r)
        BY <4>1, <4>2, RankGrows
      <4>4. Rank(row, before, r) \in Nat /\ Rank(row', after, r) \in Nat
        BY <4>1, <4>2, RankBelow
      <4>5. Reached \in Nat
        BY <3>1, Pages DEF WalkInv, WalkTypeOK, Reached
      <4> QED
        BY <3>1, <4>3, <4>4, <4>5
    <3>3. ASSUME NEW r PROVE Rank(row, Matching(row), r)' = Rank(row', after, r)
      BY <2>10 DEF Rank, Before
    <3> QED
      BY <2>5, <2>9, <2>10, <2>11, <3>1, <3>2, <3>3 DEF Ahead
  <2>12. ASSUME ~moved, ~torn PROVE Announced'
    <3>1. Announced
      BY <1>2, <2>5, <2>6, <2>12 DEF WalkInv
    <3>2. CASE walk.total # NotRead /\ ~walk.itemsRead
      <4>1. Cardinality(after) <= Cardinality(before)
        BY <2>3, <2>6, <2>12, <3>2, FS_Subset
      <4>2. Cardinality(before) <= walk.total /\ walk.total \in Nat
        BY <3>1, <3>2 DEF WalkInv, WalkTypeOK, Announced, before
      <4>3. Cardinality(after) <= walk.total
        BY <2>3, <4>1, <4>2
      <4> QED
        BY <2>9, <2>10, <3>2, <4>3 DEF Announced
    <3>3. CASE walk.total = NotRead \/ walk.itemsRead
      BY <2>9, <3>1, <3>3 DEF Announced
    <3> QED
      BY <3>2, <3>3
  <2> QED
    BY <1>2, <2>8, <2>9, <2>11, <2>12 DEF WalkInv, WalkMissesNothing
<1> QED
  BY <1>1, <1>2

LEMMA WalkStep == WalkInv /\ [ListingNext]_listingVars => WalkInv'
<1> SUFFICES ASSUME WalkInv, [ListingNext]_listingVars PROVE WalkInv'
  OBVIOUS
<1>1. CASE UNCHANGED listingVars
  BY <1>1 DEF listingVars, WalkInv, WalkTypeOK, WalkMissesNothing, Ahead, Announced, Reached,
     Matching, Rank, Before, Listed, ListClients, ListTemplates, ListWorkspaces,
     ListApplications, ListEvents
<1> QED
  BY <1>1, StartKeeps, CountKeeps, ReadKeeps, TurnKeeps, WriteWhileWalking
     DEF ListingNext, WalkNext

\* resolvePagination, createPaginationMeta and the lists of the record services,
\* for any number of rows, page size and writers: whoever follows hasNextPage to
\* its end has seen every row that was there, unless one moved or left on the
\* way or a page was torn.
THEOREM WalksMissNothing == ListingSpec => []WalkMissesNothing
<1>1. WalkInv => WalkMissesNothing
  BY DEF WalkInv
<1> QED
  BY <1>1, WalkStarts, WalkStep, PTL DEF ListingSpec

=============================================================================
