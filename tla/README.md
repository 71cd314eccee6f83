# A verification project for swiftydoc-api

TLA+ modules, TLC runs and TLAPS proofs about the parts of swiftydoc-api that decide things.
Paths below are relative to the repository's `src/`; `L` numbers in the modules are lines of
the service the module names (`A` for `auth.service.ts` where it is one of several).

## 1. The system

swiftydoc-api is a NestJS service over PostgreSQL (Drizzle). Handlers of HTTP calls run
concurrently on one event loop: between two `await`s nothing else runs, at every `await`
anything may. Most services issue single autocommitted statements and not transactions, so
that every pair of statements is a window. Jobs are kept in the process's memory.

| Component | State | Operations | Hard parts | Modelled |
|---|---|---|---|---|
| Request workflow, `modules/requests/request-workflow.service.ts` | `requests`, `submissions`, `submission_items`, `answers` | create, send/close/reopen, autosave, approve/reject; each recalculates progress and synchronizes the request | a call is 4 to 12 commits that interleave with other calls; values are read early and written late | `RequestWorkflow` |
| Portal links, same service and `portal.controller.ts` | `portal_links` | create, verify and consume, enter with the token | read-modify-write of a use count; tokens outlive links | `PortalLink`, `PortalAccess` |
| Access to the handlers, guards of `modules/auth` | none; reads sessions, users, memberships, the rows a call is about | authenticate, find the row's workspace, admit or refuse | several reads that belong together, in statements of their own | `BearerAccess`, `ApiDemands`, `ResourceTree` |
| Job queue, `infrastructure/queue` | `pendingJobs`, `isProcessing`, handlers, in memory | enqueue, loop, retry | one loop, retries at the tail, lost on restart | `JobQueue` |
| Webhooks, `infrastructure/webhooks` | `webhook_endpoints`, `webhook_deliveries` | emit (fan-out), replay, deliver | row and job are separate; POST and UPDATE are separate | `WebhookDelivery` |
| Sessions, `modules/auth/auth.service.ts` | `user_sessions`, `refresh_tokens` | refresh (rotation), sign-out, revocation by password reset | racing rotations, replay detection, row locks in two orders | `RefreshRotation`, `SessionLife` |
| Invites, verification and reset tokens, same service | `auth_identities` and the token tables | issue, mail, revoke, expire, complete | consumed by id; read early, written late; a mail that fails half way | `Accounts` |
| Google sign-in, `modules/auth/google-auth.service.ts` | `auth_identities` | sign in, sign up, accept, link, unlink | a visit to Google between read and write; the last way in | `GoogleAccounts` |
| Users and memberships, `modules/users` | `users`, `workspace_memberships` | create, resend or revoke an invite, update | status written back as it was read | `Accounts` |
| Organization entitlements, `modules/auth/organization-entitlements.service.ts` | counts of other tables | assert a limit | check, then act | `Entitlements` |
| Exports, `modules/exports` | `export_jobs` | create, generate, deliver, replay | retry after partial success, metadata overwritten | `ExportJob` |
| Integrations, `modules/integrations` | `integration_connections`, `sync_jobs`, `external_references` | connect, test, sync | outcome changed after success | `IntegrationSync` |
| Files and storage, `modules/files`, `infrastructure/storage` | `file_assets`, stored objects | upload | object and row apart; compensation; a lost answer | `FileStorage` |
| Reminders and communications, `infrastructure/reminders` | provider configurations, audit events that are counted | send, configure | the provider has acted when something throws | `Reminders` |
| Clients, templates, workspaces, applications | one table each | create, edit, archive, rotate a secret, list | the whole row written back; pages that shift | `Records`, `RecordListing` |
| Audit log, `infrastructure/audit` | `audit_logs` | record, list | swallows its errors, and yet the plan counts on it | in the modules above |
| HTTP layer, controllers | none | decorators, DTOs | which guard asks for what | `ApiDemands`; DTOs not |
| Runtime configuration | read once | - | - | constants of the modules |

Interactions. The request workflow calls `WebhookService.emitEvent` after its writes (and lets
its exception through). `emitEvent` inserts a delivery row and calls
`JobQueueService.enqueue`, which starts the loop in the same tick. The loop calls the
registered handler (`webhook.deliver`, `exports.generate`, `integrations.sync`). Exports call
`IntegrationsService.executeSyncNow`. The portal controller exchanges a consumed portal link
for a signed access token. Every handler that is not public sits behind the guards, which read
what the account calls write. Uploads, reminders, account mails and requests ask the
entitlements first. Everything records into the audit log.

What makes each component correct is listed with the hazards in `PROJECT.json`; each names the
line where it bites and the properties that cover it.

## 2. The modules

Requests and links.

* `RequestLifecycle`: the abstract promise of a request: which statuses follow each other,
  that an overdue notification is given once, and that a request whose submissions are all
  completed becomes completed.
* `RequestWorkflow`: one request. `request`, `submission`, `item` and `answered` are the rows
  (timestamps are kept as "set or null"), `call[h]` is the local state of a handler (its
  program counter names the statement it is about to issue, the other fields what it has
  read). Every statement that is committed on its own is an action: `CreateRequest`,
  `InsertSubmission`, `InsertItems`, `CreateDone`; `StartTransition`, `WriteTransition`,
  `ReopenSubmissions`; `StartAutosave`, `UpsertAnswers`, `ProvideItems`; `StartReview`,
  `WriteReview`; then `CountItems` and `WriteProgress` (recalculateSubmissionProgress) and
  `SyncRead`, `CountSubmissions`, `CountCompleted`, `WriteSignals`, `EmitSignals`
  (syncRequestLifecycleSignals). `Fail` ends a call between any two of them. `events` counts
  the emitted completed and overdue events since the request entered that state. Statuses no
  code of the service writes are left out.
* `PortalLink`: one link and its visitors; `granted` counts access tokens, `overlapped`
  remembers whether two visits have overlapped. The clock is read together with the row.

Who gets to a handler.

* `ApiDemands`: what the decorators of each controller demand, and what a role permits. The
  workspace permissions of the matrix are left out, as no handler asks for one.
* `ResourceTree`: the rows of an organization a call can be about and the columns that place
  them in a workspace. A file, an export job or the body of a call may name a request, a
  submission and an item that do not belong together (`BelongTogether`): no code checks it,
  and the guard resolves one of them (`Narrowest` of a stored row, `Widest` of a body).
* `SessionLife`: what a session promises to the holder of its access token. Composed with the
  guards here, implemented by `RefreshRotation`.
* `BearerAccess`: InternalAuthGuard and the guard behind it, a statement an action, while the
  session is rotated or revoked, and users, workspaces and verifications change.
  `bearer.moments` is history: the states of the user and of the workspaces since the call
  arrived. The property speaks of moments one by one, because the guards do: the user was
  active at one, entitled at one, verified at one.
* `PortalAccess`: PortalAuthGuard and the portal's handlers, for the tokens of `PortalLink`.
* `Access`: the two doors together. They share no row, so a behaviour takes one of them.

Queues and what runs on them.

* `BoundedRetry`: what a queue promises: a job is attempted at most `MaxAttempts` times, fails
  only after that many, and disappears only in a restart.
* `JobQueue`: `pendingJobs`, `isProcessing` and the jobs being handled; `trail` is the last
  audit action of each job and `tries` counts its attempts. `running` is a set, although the
  loop runs one job, so that a second loop would show. `enqueuedAt` is the order of
  enqueueing.
* `WebhookDelivery`: delivery rows, what endpoints accepted (external), callers of emitEvent
  and replayDelivery, and the stage of each running handler, on top of an instance of
  `JobQueue`. A restart keeps rows and drops the rest. An endpoint deleted or disabled between
  the attempts acts as a statement that throws.
* `IntegrationSync`: one connection and one local resource. `connection`, `reference` and
  `syncJob` are rows, `remote` is what the provider has (external). Every operation, be it a
  sync job, a direct sync (executeSyncNow) or a test, goes through the stages of `stage`, one
  per statement or provider call; jobs run on an instance of `JobQueue`. A connector may
  create an object, update the one it is referred to, or touch none (message connectors,
  accounts that are only looked up, simulated mode), and may return a reference or not: only a
  returned one is stored. `lastOutcome`, `overlapped`, `unnamed` and `faulted` are history:
  what the last operation reported, whether two operations were ever in progress together, how
  many objects were created by answers without a reference, and whether a statement threw, an
  answer got lost after the provider had acted, or the process died. A connector that throws
  before it acts and an emission that throws are no faults in this sense: the code handles
  them. `Emit` leaves out the webhook jobs that the emission enqueues.
* `ExportJob`: one export. `row` holds the status and `metadata.deliveryResults`, `worker` is
  the handler of the queue's job, `replay` the calls of replayExportDelivery. `Deliver` is one
  round of deliverArtifactToTargets: delivered if executeSyncNow resolved, which connectors
  without storage and simulated ones do without an upload, else failed. Targets may share a
  connection; the code keeps one result for it, and so do the properties. A replay is accepted
  only for a completed export, after which the job is never attempted again: what can overlap
  are replays. `accepted` (the connections a delivery resolved for), `outcome`, `overlapped`
  and `faulted` are history.

Sessions and accounts.

* `RefreshRotation`: the tokens of one family, the session, and calls that hold row locks
  until they commit. A statement's snapshot is taken when it starts (`Snapshot`), its rows are
  locked one at a time in any order (`RevokeToken`), a blocked statement waits (`BlockedBy`),
  a cycle of waiting transactions loses one of them (`AbortDeadlocked`).
* `Accounts`: a user's row, memberships (kept as one, as they carry one status), password
  identity, mailed links and sessions. A call reads, then writes in one transaction; what it
  has read is in its record. Transactions run READ COMMITTED: where one reads in a statement
  of its own what it writes back (`ReadIdentity`, `Complete`), or tests a row in one statement
  and another row in the next, each is an action. Mails may be refused or lost, transactions
  fail, links expire. `noted` is history, the excuses the properties name.
* `GoogleAccounts` extends it: the visit to Google is the gap between what goes into the
  signed state and the callback that acts on it. The link's transaction is
  `LinkGoogleIdentity`, `RaiseUser`, `RaiseMemberships` and becomes visible in `Commit`; the
  last two see the user row and the memberships at moments of their own, unless the first has
  locked both by finding the user invited.

Plans, files, messages and records.

* `Entitlements`: assertWithinLimit, its usages, and the requests that are counted, with the
  send or sync that writes back an active status it had decided on before a close
  (`ReadStatus`, `WriteStatus`; the same lost close as `RequestLostClose`). `FileStorage` and
  `Reminders` extend it with uploads and messages; `PlanUsage` composes them, with a crash
  between any two steps. `excused` and `troubled` are history: the limits that two calls in
  overlap may have exceeded, the calls of which an answer was lost.
* `Records`: the rows of clients, templates, workspaces, applications and events; an edit
  writes back the whole row it has read, an application's status and secret included. A new
  secret is stored, then an audit event, and only then returned (`HandOver`), or never
  (`HandOverFails`). `handed`, `lost` and `overrun` are history. Names are left out but for
  their place in the list.
* `RecordListing`: a reader that walks such a list page by page meanwhile.

`*Proofs`: the theorems, section 4. Two components whose proofs need the same lemmas share a
module: `JobsAndRecordsProofs` (`JobQueue`, `RecordListing` with `Records`) and
`UsageAndExportProofs` (`PlanUsage`, `ExportJob`). Specifications that are extended together
carry a prefix: `PlanSpec`, `RecordsSpec`, `ListingSpec`, `GoogleSpec`. `MC*`: instances for
TLC. Operators commented "Mistake" are plausible bugs of the definition that follows them; the
mutants of `PROJECT.json` put them in its place to show that a property would notice.

## 3. The runs

| Run | Instance | Shows |
|---|---|---|
| `RequestSerial` | 1 handler, 2 submissions with 2 and 1 items, a due date | calls that do not overlap leave rows and events consistent; the request implements `RequestLifecycle` with its liveness |
| `RequestConcurrent` | 2 handlers, 1 submission with 2 items, failures | under every interleaving completed submissions are answered |
| `RequestLostClose` | 2 handlers, no failures | **violated**: a sync overwrites a close |
| `JobQueue` | 4 jobs, one without handler, 3 attempts, restarts | one loop, no job behind a later one, implements `BoundedRetry` |
| `Webhook` | 1 event to 2 endpoints, 1 replay, 2 attempts, 1 fault | rows tell the truth, delivered is final, deliveries settle unless a fault occurs, the queue is used as specified |
| `RefreshRotation` | 2 calls at a time, 3 tokens | one chain of tokens, revocation is final, implements `SessionLife`, calls end |
| `IntegrationSync` | 1 job with 2 attempts, 1 direct sync, 1 test, references returned or not, faults and restarts | rows agree with the queue; without overlap and faults one remote object besides those nobody named, and a truthful health status; jobs settle |
| `ExportJob` | 3 targets on 2 connections, 2 attempts, 2 replays, faults and restarts | no delivery recorded that did not resolve; replays keep the rest; exports settle for good |
| `Access` | 2 workspaces, 2 requests, 3 submissions, 2 items, 5 files, 4 exports, some with references that lie apart, 2 tokens, 2 edits; 2 visitors, 2 uses | whoever reaches a handler is entitled to it, by either door; the count of uses stays within its limit, tokens are counted, closed is closed |
| `Accounts` | 1 user in each of 5 situations, any 3 overlapping calls of 18 kinds, 2 Google accounts | verification rests on proof and is lost to a stale read only, sessions follow the password, memberships the user, invites are accepted once, only an administrator reopens, nobody is locked out |
| `PlanUsage` | 2 calls, 2 requests, 4 kinds of files, limits of 1 or 2, 2 months | limits hold without overlap, reopening and lost closes; rows and objects, messages and counts agree unless an answer is lost |
| `Records` | rows of 5 kinds in two scenes: 2 rows and 3 calls; 3 rows, 2 calls and a reader | archived rows are dated, the secret handed out last or on its way is the stored one; a walk misses nothing that stayed |

Bounds. Two handlers suffice for every lost update between two calls, and the calls of a
handler repeat without bound, so that "late" writers meet any number of others; two items give
a submission that is partly done, two submissions a request that is. `EventBound` saturates
the event counters: 2 distinguishes "once" from "more than once", 0 switches them off where no
property reads them. `GrantBound` exceeds `MaxUses`, so that a use too many would show. Three
tokens are two rotations: a token that was replaced by one that was replaced. Two attempts and
one replay let a replay meet a retry; `FaultBound` 1 is a fault at any single point (the
proofs need no such bound). `IntegrationSync` needs one operation of each kind, as jobs are
served one at a time and a direct sync stands for a second job; two attempts let a retry meet
what the first has left. Two connections, one of which has two targets, and two replays let a
replay keep, repeat or overwrite the other's results. `EditBound` 2 lets a change and its
reversal happen within one call of `Access`, with one session and one call at a time, since
calls do not touch each other but through the session's row, whose changes are the
environment's. `Accounts` takes one user, as no statement reads another user's rows but the
count of seats (`SeatLimit` 1) and the unique email, and three calls: one that reads early,
one that changes what it read, one that issues or ends a link meanwhile. `Records` has two
scenes (`SceneSpec`): three calls, enough for two rotations and an edit between them, and a
reader beside two calls, with places 1..3 and pages of one row, the least that shifts;
the rows that are walked start where every filter keeps them. `RequestConcurrent`, `Access`,
`Accounts`, `PlanUsage` and `Records` use symmetry and check no liveness. `CHECK_DEADLOCK
FALSE` stands where all work can be over.

Fairness. `RequestWorkflow`: weak fairness of a handler's next statement, the event loop and
the pool resume it; starting a call is never forced. `JobQueue`, `WebhookDelivery`,
`IntegrationSync`, `ExportJob`: weak fairness of the loop and of the running handler, which
ends because the POST has a timeout (`WEBHOOK_DELIVERY_TIMEOUT_MS`) and statements return or
throw. No connector has a timeout of its own: that its calls end is an assumption, and a
hazard listed as such. `RefreshRotation`: strong fairness of each call, as a lock it waits for
may be taken and released by others meanwhile, and PostgreSQL hands it over in order;
deadlocks are broken by the database.

Disagreements between code and intent. `RequestLostClose` is the run that shows one, with its
quote in `PROJECT.json`. Others are visible in the modules as what a property excepts:

* A portal link of one use admits two visitors whose visits overlap
  (`request-workflow.service.ts:734`); `GrantsAreCounted` holds only without overlap.
* A replay of failed targets repeats a delivered one on the same connection, as targets are
  chosen by connection (`exports.service.ts:902-910`, against
  `dto/replay-export-delivery.dto.ts:32`).
* `unlinkGoogle` counts a password identity whose address was never verified
  (`google-auth.service.ts:249`), so that its owner has no way to sign in; `NobodyIsLockedOut`
  excepts unlinked accounts.
* A percentage is rounded, so that 199 of 200 items make 100 percent and complete the
  submission (L1240-1248): `CountsAsAll` forgives one item in 200 and no more.
* The references of a file or an export are not compared with each other
  (`files.service.ts:314-333`, `exports.service.ts:78-88`): the guard resolves one, and
  `BearerIsEntitled` speaks of the others only where they belong together.
* A result `delivered` says that the connector's call resolved, not that it uploaded anything;
  a sync that succeeded may leave no reference, and the next one creates another object.
* Every sign-in with Google verifies the password identity of its user
  (`auth.service.ts:1284-1365`), whatever the address of the Google account; an invite may be
  accepted with a Google account of any address (`google-auth.service.ts:304-314`).
* A secret is returned after one more statement: when that fails the stored secret is
  nobody's, and of two rotations at a time the one that returns last need not be the one
  stored. A stale edit of an application undoes a rotation or a revocation.
* Overlapping syncs create two remote objects, overlapping checks exceed a plan's limit, a
  reset or the completion of an invite writes back a verification it has read before: the
  modules' `overlapped`, `excused` and `noted`.

A statement that throws is modelled as one without effect. The UPDATE of a webhook delivery to
`delivered` whose answer is lost although it was committed is therefore outside the model: the
handler would write `failed` over it (`webhook.service.ts:415-431`).

## 4. The proofs

All for every value of the constants that the modules' named assumptions allow: any number of
handlers, rows, jobs, calls, tokens, endpoints, delivery targets. The assumptions that matter
are few, and TLC evaluates each on the instances it checks: retries are at least one
(`SyncAssumption`, `ExportAssumption`), lists are finite (`FiniteRows`), requests are finite
and `None` is neither a limit nor a key (`LimitAssumption`), an export has a target
(`ExportAssumption`: without one the code delivers nothing). Every invariant below was checked
by TLC on its component's run before it was proved.

`RequestWorkflowProofs`:

* `ProgressIsPercentage`, `FullProgressMeansAllDone`: the rounding stays in 0..100 and yields
  100 only if at most one item in 200 is missing, hence none of fewer than 200.
* `TypeCorrect`: `Spec => []TypeOK`, by induction with one step per action.
* `AnswersCorrect`: `DecidedItemsAreAnswered` and `CompletedSubmissionsAreAnswered`. Neither
  is inductive, because a handler writes what it read several statements ago. The inductive
  invariant `AnswersInv` adds `StillHolds`, what a handler may still rely on: the items it is
  about to provide or decide have answers, and a progress of 100 that it is about to write was
  counted over items that were all answered. "All" is `CountsAsAll`, up to the rounding, for
  any number of items. These facts are stable because answers are never deleted: that is the
  argument why stale writes cannot complete an unanswered submission. `ItemsComeInBatches`
  says that the items counted are all of them.
* `RowsCorrect`: `SubmissionRowsAgree` and `ClosedRequestsHaveClosedAt`. Each write of these
  columns writes them together, under any interleaving.
* `SerialRequestMatches`, `SerialSubmissionsMatch`, `SerialSignalsMatch`, `SerialLifecycle`:
  one call at a time and no failing statement (`Serial`), for any submissions and items. The
  three invariants hold between calls only; `SerialInv` says what holds within one: `Knows`
  that its counts and reads are still those of the rows, `Meanwhile` which submission is about
  to be recounted, when the request's status may lag behind, and which event is owed. Every
  call ends with recount, sync and emission, which pay these debts. From it, each statement is
  a step of `RequestLifecycle` or none. `RequestLostClose` shows that the hypothesis cannot be
  dropped.

`AccessProofs`, of the links: `CountCorrect` (a visitor about to write read a count below
maxUses, hence never writes more), `SerialGrants` and `SerialClose` (`SerialInv`: without
overlap there is one visit at most, and what it read is what the row holds). Of the handlers:
`EntitledOnly`, for every tree of rows, every combination of references and every set of
memberships. The tree's lemmas say that the workspace found from the bottom up is the one in
which the reference that was resolved lies from the top down (`ResolvedInside`), and all
others with it if they belong together. `BearerInv` says what a call knows after each of its
reads: some moment since it arrived was so (`Knows`). Hence what `Admitted` lets pass, a
single moment entitles to (`AdmittedIsEntitled`). `GuestInv` does the same for a portal token,
on the serial invariant of the links.

`AccountsProofs`: `VerificationRestsOnProof`, `ResetEndsSessions`, `MembershipsAgree`,
`InviteAcceptedOnce`, `OwnersGetIn` and the action properties `VerificationStays` and
`DisabledStaysDisabled`, for all users, links, sessions and overlapping calls, Google's
callbacks included. They are proved together, as parts of `AccountsInv`, because they lean on
each other through what a call carries between its reads and its transaction (`CallsKnow`):
the link it read was issued to its user for its purpose and stays so, a reset that found the
address verified found it proved, and no call works on an account that does not exist. Links
have owners and purposes (`LinksHaveOwners`, `IssuedForAPurpose`), users that do not exist
have neither memberships nor sessions (`NobodyHasNothing`), and a call inside Google's
transaction knows what it has found of the user row and of the identity. `OwnersGetIn` goes
through a stronger statement, `EveryoneHasAWayIn`, that leaves sessions aside since a reset
removes them: an account with a password is verified, has a live verification link, or has a
call in progress that will issue one. Sessions turn out not to be needed for anybody's way in.

`JobsAndRecordsProofs`, of the queue: `QueueInv` orders the jobs. `ServedBefore(a, b)` says
that of two jobs the one served first is either older and not behind in attempts, or a younger
one strictly behind; appending at the tail and taking from the head keep that. It gives
`OneLoop` and `NobodyStarves`, and `LivesOfJobs`: every step of the queue is a step of
`BoundedRetry`, whose liveness stays with TLC. Of the records: `RecordTypes`,
`ArchivedAreDated`, `OwnersHoldTheSecret`. `RecordsInv` says of a call that edits that what it
has read is of its row's kind, which never changes, and that status and date agreed when it
read them: writing the whole row back keeps them agreeing. An application whose edits and
rotations did not overrun each other (`overrun`) holds the secret last handed out, or one that
a call is about to hand out or has lost; a rotation that finds none on its way supersedes
whatever was handed out before. Of the lists: `ReadersChangeNothing` (a walk refines the
records to stuttering, so what is proved of them holds beside it) and `WalksMissNothing`.
`WalkInv` says that the rows of the start not yet seen only move on in the order of the list
(`Ahead`), so that the next offset is never past one, and that the total last counted
announces a page for each of them (`Announced`), so that the walk does not stop before.
Positions are cardinalities; the lemmas bound them for finite sets.

`WebhookDeliveryProofs`: `RowsTruthful`, `DeliveredStays`, `QueueUsedAsSpecified`.
`DeliveryInv` says that no delivery has two jobs, that one that has none yet is untouched
(`FreshInv`), and what the handler of a live job has established at each of its stages
(`HandlerTrue`): before the POST the attempt is counted, after it the endpoint has the event,
and a row is delivered exactly if its handler is about to resolve. With any number of faults
and restarts. `QueueUsedAsSpecified` is the safety part of `QueueImplemented`: every step of
the service is one of `JobQueue` or leaves its variables alone, and so what
`JobsAndRecordsProofs` says of the queue holds of its use.

`RefreshRotationProofs`: `RotationChain`, `RevocationFinal`, `SessionRefined`. `RotationInv`
says which rows a transaction holds and that no other holds them (`HoldsInv`, `ExclusiveInv`):
so the token that a rotation consumes is still the live one when it commits, however the lock
orders differ, and the commit is a `Rotate` or `Revoke` of `SessionLife`.

`IntegrationSyncProofs`: `OneObject`, `HealthCorrect`, `SyncRowsCorrect` and
`SyncQueueUsedAsSpecified`. `SerialInv` says, as long as nothing overlapped or failed midway:
one operation at most is in progress, what it saw of the external reference is still so while
it talks to the provider, an object that exists, but for those nobody named, is referred to or
about to be, and after it has written the connection's status it will report the same. Without
overlap the lookup cannot be stale, so a second object is never created, whoever retries.
`SyncRowsCorrect` needs no such hypothesis: `SyncInv` ties each job to its row. A job carries
as many attempts as were made of it (`JobsInv`), a row counts no more than that and claims
success only once the connector has answered and, if it named an object, the reference exists
(`RowTrue`), and without faults it counts exactly that, stage by stage, and ends as the
queue's trail does (`RowExact`).

`UsageAndExportProofs`, of the plan: `PlanLimitsHold`, `StoredFilesAgree`, `MailIsAudited`.
`PlanInv`: a key that is not excused has one call at most between its check and the row that
is counted, and the room which that call was promised is still there (`RoomFor`), as usage
grows through nobody else; each upload and message stands with its object, row and event as
its stage says (`UploadStands`, `MailStands`). The usage of storage is a sum, a fold over a
set; that a row adds its size to it (`SizeAdded`) is proved by well-founded induction on the
subsets of a finite set. Of exports: `DeliveriesAreTrue` and `LastOutcomesAreKept`, for every
list of targets. `ExportInv`: results are in the order of the targets and complete once the
export is (`ShapeInv`), no handler runs after completion and no replay before (`StageInv`),
every list of results, those that replays hold included, is truthful (`TruthInv`), and, while
replays do not overlap and no statement throws, the old results with those of the replay
appended end, for every target, with its last outcome (`LastInv`). `MergeIs` is the lemma on
mergeDeliveryResults: of the appended lists it keeps for each target, in order, the last
result of its connection. Targets may share a connection: both properties speak of
connections, as the code looks results up by them.

Only model-checked:

* What holds under fairness only: the liveness in `LifecycleImplemented`, `RetryImplemented`
  and `QueueImplemented`, and `EveryDeliverySettles`, `EverySyncSettles`,
  `EveryExportSettles`, `EveryCallEnds`. The proof system reasons neither about ENABLED nor
  about fairness. The safety part of the three refinements is proved.
* What `SelectSeq` computes: the provers cannot expand it, as it takes an operator. Where a
  proof needs a filter (`TargetsIn` in `ExportJob`) it is a recursive function.

## 5. Not modelled, and what is left

* Comments, read models, previews and downloads change nothing that anything depends on.
* Registration and listing of webhook endpoints; the requests of the single connectors: pure
  I/O behind what a connector may leave behind and return.
* DTO validation and serialization, runtime configuration, storage drivers, the signatures of
  tokens and states, the rendering of exports: stateless or external.
* The memberships of a user one by one are in `BearerAccess` only.

Worth doing next: the emission of the workflow's events composed with `WebhookDelivery`, which
today meet in `EventBound` only; the lives of export jobs as a refinement of `BoundedRetry`
(stated for the queue by itself so far, with webhooks and syncs refining the queue); type
correctness as a theorem of its own where it is today a conjunct of the inductive invariant.
