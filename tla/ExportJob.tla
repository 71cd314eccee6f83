------------------------------- MODULE ExportJob -------------------------------
(***************************************************************************)
(* ExportsService for one export: the job that generates, stores and       *)
(* delivers the artifact, and the replays that deliver it again.  Both     *)
(* read the row first and write its metadata back as a whole at the end.   *)
(* What a delivery does inside IntegrationsService is abstracted to its    *)
(* outcome (module IntegrationSync): the connector's call resolves or it   *)
(* throws.  Resolving need not mean that a file was uploaded: connectors   *)
(* without storage, and simulated ones, resolve without.                   *)
(***************************************************************************)
EXTENDS Naturals, Sequences, FiniteSets

CONSTANTS
    Export,       \* the id of the export
    Replays,      \* calls of replayExportDelivery
    ConnOf,       \* the connection of each delivery target, in order; they may coincide
    MaxAttempts

VARIABLES
    row,         \* the row of export_jobs: its status and metadata.deliveryResults
    worker,      \* the handler of the running job: its stage and what it delivered
    replay,      \* the replays: stage, what they read, what is to do, what they delivered
    accepted,    \* the connections that a delivery of the artifact once resolved for
    outcome,     \* the outcome of the last delivery to each connection
    overlapped,  \* whether two replays were ever in progress together
    faulted,     \* whether a statement threw or the process died
    pendingJobs, running, isProcessing, trail, tries   \* of the job queue

Queue == INSTANCE JobQueue WITH Jobs <- {Export}, Handled <- {Export}, MayCrash <- TRUE

ghosts == <<accepted, outcome, overlapped, faulted>>
queueVars == <<pendingJobs, running, isProcessing, trail, tries>>
vars == <<row, worker, replay, ghosts, queueVars>>

Targets == DOMAIN ConnOf
AllTargets == [i \in Targets |-> i]
Conns == {ConnOf[i] : i \in Targets}

ASSUME ExportAssumption ==
    /\ ConnOf \in Seq(Conns) /\ ConnOf # <<>>
    /\ MaxAttempts \in Nat \ {0}

Outcome == {"delivered", "failed"}
Result(i, status) == [connectionId |-> ConnOf[i], status |-> status]
RecordedFor(results, c) == {results[n].status : n \in {m \in DOMAIN results : results[m].connectionId = c}}

----------------------------------------------------------------------------
(* Pure helpers *)

\* targets.filter: the targets in K, in order.
TargetsIn(K) ==
    LET kept[n \in 0 .. Len(ConnOf)] ==
            IF n = 0 THEN <<>>
            ELSE IF n \in K THEN Append(kept[n - 1], n) ELSE kept[n - 1]
    IN  kept[Len(ConnOf)]

\* The targets that a replay is to repeat; connectionIds = {} if omitted.
selectReplayTargets(results, connectionIds, failedOnly) ==
    CASE connectionIds # {} -> TargetsIn({i \in Targets : ConnOf[i] \in connectionIds})
      [] connectionIds = {} /\ (~failedOnly \/ results = <<>>) -> AllTargets
      [] OTHER -> TargetsIn({i \in Targets : "failed" \in RecordedFor(results, ConnOf[i])})

\* The last result of each connection among the old and the new ones.
LastFor(results, c) ==
    results[CHOOSE n \in DOMAIN results :
               /\ results[n].connectionId = c
               /\ \A m \in n + 1 .. Len(results) : results[m].connectionId # c]

\* Mistake: the new results replace the old ones from the first on.
MergeByPosition(existing, replayed) ==
    [i \in DOMAIN existing |->
        IF i \in DOMAIN replayed THEN [existing[i] EXCEPT !.status = replayed[i].status]
                                 ELSE existing[i]]

\* Mistake: only what was just replayed is kept.
KeepReplayedOnly(existing, replayed) == replayed

\* One result for each target, looked up by its connection.
mergeDeliveryResults(existing, replayed) ==
    LET all == existing \o replayed
        known == TargetsIn({i \in Targets : RecordedFor(all, ConnOf[i]) # {}})
    IN  [n \in DOMAIN known |-> LastFor(all, ConnOf[known[n]])]

\* metadata.deliveryStatus is a function of the results written with it.
resolveDeliveryStatus(results) ==
    LET delivered == {n \in DOMAIN results : results[n].status = "delivered"}
    IN  IF delivered = {} THEN "failed"
        ELSE IF delivered = DOMAIN results THEN "delivered" ELSE "partial_failure"

----------------------------------------------------------------------------
(* createExportJob *)

InsertExport ==
    /\ row.status = "absent"
    /\ row' = [row EXCEPT !.status = "queued"]
    /\ worker' = [worker EXCEPT !.stage = "enqueue"]
    /\ UNCHANGED <<replay, ghosts, queueVars>>

EnqueueExport ==
    /\ worker.stage = "enqueue"
    /\ Queue!Enqueue(Export)
    /\ worker' = [worker EXCEPT !.stage = "waiting"]
    /\ UNCHANGED <<row, replay, ghosts>>

----------------------------------------------------------------------------
(* processExportJob, the queue's handler *)

StartProcessing(job) ==
    /\ job \in running /\ worker.stage = "waiting"
    /\ row' = [row EXCEPT !.status = "processing"]
    /\ worker' = [stage |-> "generate", results |-> <<>>]
    /\ UNCHANGED <<replay, ghosts, queueVars>>

\* generateArtifact and putObject resolve, or one of them throws.
GenerateArtifact(throws) ==
    /\ worker.stage = "generate"
    /\ worker' = [worker EXCEPT !.stage = IF throws THEN "catch" ELSE "deliver"]
    /\ UNCHANGED <<row, replay, ghosts, queueVars>>

\* One round of deliverArtifactToTargets: delivered if executeSyncNow resolves;
\* whatever it throws becomes a failed result, a lost answer included.
Deliver(i, status) ==
    /\ accepted' = IF status = "delivered" THEN accepted \cup {ConnOf[i]} ELSE accepted
    /\ outcome' = [outcome EXCEPT ![ConnOf[i]] = status]
    /\ UNCHANGED <<overlapped, faulted>>

DeliverNext(status) ==
    LET i == Len(worker.results) + 1
    IN  /\ worker.stage = "deliver" /\ i \in Targets
        /\ Deliver(i, status)
        /\ worker' = [worker EXCEPT !.results = Append(@, Result(i, status))]
        /\ UNCHANGED <<row, replay, queueVars>>

WriteCompleted ==
    /\ worker.stage = "deliver" /\ Len(worker.results) = Len(ConnOf)
    /\ row' = [status |-> "completed", results |-> worker.results]
    /\ worker' = [worker EXCEPT !.stage = "resolve"]
    /\ UNCHANGED <<replay, ghosts, queueVars>>

WriteFailed ==
    /\ worker.stage = "catch"
    /\ row' = [row EXCEPT !.status = "failed"]
    /\ worker' = [worker EXCEPT !.stage = "throw"]
    /\ UNCHANGED <<replay, ghosts, queueVars>>

Resolve(job) ==
    /\ worker.stage = "resolve"
    /\ Queue!Succeed(job)
    /\ worker' = [stage |-> "waiting", results |-> <<>>]
    /\ UNCHANGED <<row, replay, ghosts>>

\* Mistake: an error that was stored in the row is not thrown again.
ThrowSwallowed(job) ==
    /\ worker.stage = "throw"
    /\ Queue!Succeed(job)
    /\ worker' = [stage |-> "waiting", results |-> <<>>]
    /\ UNCHANGED <<row, replay, ghosts>>

Throw(job) ==
    /\ worker.stage = "throw"
    /\ Queue!FailAttempt(job)
    /\ worker' = [stage |-> "waiting", results |-> <<>>]
    /\ UNCHANGED <<row, replay, ghosts>>

----------------------------------------------------------------------------
(* replayExportDelivery *)

Busy(r) == replay[r].stage \in {"load", "deliver"}
NoReplay(s) ==
    [stage |-> s, failedOnly |-> FALSE, seen |-> <<>>, todo |-> <<>>, results |-> <<>>]

StartReplay(r, connectionIds, failedOnly) ==
    LET todo == selectReplayTargets(row.results, connectionIds, failedOnly)
    IN  /\ replay[r].stage = "idle"
        /\ row.status = "completed"
        /\ todo # <<>>
        /\ replay' = [replay EXCEPT ![r] =
              [stage |-> "load", failedOnly |-> connectionIds = {} /\ failedOnly,
               seen |-> row.results, todo |-> todo, results |-> <<>>]]
        /\ overlapped' = (overlapped \/ \E q \in Replays : Busy(q))
        /\ UNCHANGED <<row, worker, accepted, outcome, faulted, queueVars>>

LoadArtifact(r) ==
    /\ replay[r].stage = "load"
    /\ replay' = [replay EXCEPT ![r].stage = "deliver"]
    /\ UNCHANGED <<row, worker, ghosts, queueVars>>

Redeliver(r, status) ==
    /\ replay[r].stage = "deliver" /\ replay[r].todo # <<>>
    /\ Deliver(Head(replay[r].todo), status)
    /\ replay' = [replay EXCEPT ![r].todo = Tail(@),
                      ![r].results = Append(@, Result(Head(replay[r].todo), status))]
    /\ UNCHANGED <<row, worker, queueVars>>

WriteReplay(r) ==
    /\ replay[r].stage = "deliver" /\ replay[r].todo = <<>>
    /\ row' = [row EXCEPT !.results = mergeDeliveryResults(replay[r].seen, replay[r].results)]
    /\ replay' = [replay EXCEPT ![r] = NoReplay("done")]
    /\ UNCHANGED <<worker, ghosts, queueVars>>

----------------------------------------------------------------------------
(* Faults *)

\* A statement (or the load of the stored artifact) throws without effect.
StatementThrows ==
    /\ \/ /\ \/ worker.stage = "deliver" /\ Len(worker.results) = Len(ConnOf)
             \/ worker.stage = "catch"
             \/ worker.stage = "waiting" /\ running # {}
          /\ worker' = [worker EXCEPT !.stage = IF @ = "deliver" THEN "catch" ELSE "throw"]
          /\ UNCHANGED replay
       \/ /\ \E r \in Replays :
                /\ Busy(r)
                /\ replay[r].stage = "deliver" => replay[r].todo = <<>>
                /\ replay' = [replay EXCEPT ![r] = NoReplay("done")]
          /\ UNCHANGED worker
    /\ faulted' = TRUE
    /\ UNCHANGED <<row, accepted, outcome, overlapped, queueVars>>

Restart ==
    /\ Queue!Restart
    /\ worker' = [stage |-> "waiting", results |-> <<>>]
    /\ replay' = [r \in Replays |->
          IF replay[r].stage = "idle" THEN NoReplay("idle") ELSE NoReplay("done")]
    /\ faulted' = TRUE
    /\ UNCHANGED <<row, accepted, outcome, overlapped>>

----------------------------------------------------------------------------
Init ==
    /\ row = [status |-> "absent", results |-> <<>>]
    /\ worker = [stage |-> "waiting", results |-> <<>>]
    /\ replay = [r \in Replays |-> NoReplay("idle")]
    /\ accepted = {} /\ outcome = [c \in Conns |-> "none"]
    /\ overlapped = FALSE /\ faulted = FALSE
    /\ Queue!Init

Process ==
    \/ EnqueueExport
    \/ \E throws \in BOOLEAN : GenerateArtifact(throws)
    \/ \E status \in Outcome : DeliverNext(status)
    \/ WriteCompleted \/ WriteFailed
    \/ \E job \in running : StartProcessing(job) \/ Resolve(job) \/ Throw(job)

Replay(r) ==
    \/ LoadArtifact(r)
    \/ \E status \in Outcome : Redeliver(r, status)
    \/ WriteReplay(r)

Next ==
    \/ InsertExport
    \/ Process
    \/ \E r \in Replays :
          \/ \E connectionIds \in SUBSET Conns, failedOnly \in BOOLEAN :
                StartReplay(r, connectionIds, failedOnly)
          \/ Replay(r)
    \/ StatementThrows
    \/ Restart

Spec == Init /\ [][Next]_vars

\* The event loop resumes the handler; that a delivery ends is an assumption, as
\* no connector sets a limit on its calls.
FairSpec == Spec /\ WF_vars(Process)

----------------------------------------------------------------------------
TypeOK ==
    LET Results == {s \in Seq([connectionId : Conns, status : Outcome]) : Len(s) <= Len(ConnOf)}
    IN  /\ row.status \in {"absent", "queued", "processing", "completed", "failed"}
        /\ row.results \in Results /\ worker.results \in Results
        /\ worker.stage \in {"enqueue", "waiting", "generate", "deliver", "catch", "resolve", "throw"}
        /\ \A r \in Replays :
              /\ replay[r].stage \in {"idle", "load", "deliver", "done"}
              /\ replay[r].seen \in Results /\ replay[r].results \in Results
              /\ replay[r].todo \in Seq(Targets) /\ replay[r].failedOnly \in BOOLEAN
        /\ row.status = "completed" <=> row.results # <<>>
        /\ accepted \subseteq Conns
        /\ outcome \in [Conns -> Outcome \cup {"none"}]
        /\ overlapped \in BOOLEAN /\ faulted \in BOOLEAN
        /\ Queue!TypeOK

\* A result says delivered, and the export is reported as delivered, only if a
\* delivery to that connection, or to each, did resolve, however often jobs are
\* retried and replays overlap, fail or lose each other's results.  The code keeps
\* one result for a connection, so targets that share one share it (L331-352,
\* L211-241, L913-940, L1067-1088).
RecordedDeliveriesHappened ==
    row.status = "completed" =>
        /\ \A c \in Conns : "delivered" \in RecordedFor(row.results, c) => c \in accepted
        /\ resolveDeliveryStatus(row.results) = "delivered" => accepted = Conns

\* At rest, the last result of every connection is the outcome of the last delivery
\* to it: a replay loses no result of a target that it did not repeat, as long as
\* no two replays overlapped and no statement threw (L158-241).
RecordedIsLastOutcome ==
    /\ ~overlapped /\ ~faulted
    /\ row.status = "completed" /\ \A r \in Replays : ~Busy(r)
    => \A c \in Conns : /\ RecordedFor(row.results, c) # {}
                       /\ LastFor(row.results, c).status = outcome[c]

\* Every export that was queued ends for good, completed or failed with its
\* attempts used up, unless the process dies or a statement throws; replays
\* do not take it back (L284-405).
EveryExportSettles ==
    row.status = "queued" ~>
        \/ faulted
        \/ [](row.status = "completed" /\ trail[Export] = "succeeded")
        \/ [](row.status = "failed" /\ trail[Export] = "failed")

=============================================================================
