# StuHelper: a verification project

TLA+ models of the StuHelper server (`src/server`), model-checked with TLC and, where a
result should hold for every size, proved with TLAPS. The modules are translated from the Go and
SQL source; `PROJECT.json` names the lines each definition stands for.

## The system

StuHelper is a student-services platform: a Go server over PostgreSQL, Redis, OpenFGA and Casdoor,
web clients, and chat bots that let verified students into groups. PostgreSQL is the source of truth;
what has to happen in another system is queued in the same transaction and done by workers. Several
server processes may run at once, so two workers, or a worker and a request, meet only in the
databases.

| Part | State | Operations | What is hard | What makes it correct |
|---|---|---|---|---|
| Outbox `pkg/outbox` | `domain_event_outbox` rows: status, revision, attempts, locked_at, locked_revision; a worker's batch in memory | upsert, claim, four marks, requeue; `RunPollingWorker`, `ProcessBatch` | payloads superseded in flight, stale takeover, crash, shutdown in mid-batch, lost marks | the latest payload is handled before the row is done; attempts are counted for the right payload; a key is handled by one worker |
| Authorization `modules/authorization` | `authorization_grants`: desired state, projection state, revision, activated_at; one outbox row per grant | grant, restore, revoke, reconcile, login sync, projection handler, nightly scan, access snapshot | two databases and no common transaction; changes during a projection; late writes; drift | a role is in effect only if its tuple was verified; every outstanding grant has a job; ledger and OpenFGA converge |
| OpenFGA client `pkg/fga` | none; the store is external | read, write missing, delete ignoring missing, exists | a timed-out write may still land | as used by the projection |
| Sessions and tokens `pkg/token` | sessions, per-user index, token revocations and consumed refresh tokens in Redis; a local revocation cache; a token family per pair at Casdoor | create, touch, rotate, revoke, revoke all, consume, release | several Redis calls per operation, concurrent refreshes, cache and store disagree | a revoked session stays revoked; one refresh token is spent once |
| Authentication `modules/auth` | OTP codes, cooldowns and counters in Redis | login, refresh and reuse detection, send, check and consume codes | a delayed failure cleans up a newer code; duplicate refresh | a code is good once and limits hold |
| Admission `modules/admission` | sessions, eligibility revision, `admission_bot_action_outbox` with leases and attempts | link, submit, review, evaluate, queue, dispatch and report bot actions | late or duplicate bot reports, eligibility changing in flight | an action is taken for the eligibility it was decided on |
| Campus connector `modules/campusconnector` | `Broker`: queues, in-flight jobs, closed; node registry | submit, claim, complete, fail, close | deadline against claim, close against submit, full queue | a submitter gets its result once or a timeout; nothing leaks |
| Student verification `modules/studentverification` | verifications, phones, roster, reviews, `student_verification_event_outbox` | verify, import, review, publish eligibility events | owner leases, last attempt, out-of-order revisions | every change reaches admission or is reported lost |
| Notification `modules/notification` | subscribers and buffers in memory | subscribe, unsubscribe, broadcast, stop | eviction against broadcast, full buffers | no send on a closed channel |
| Resource and storage | files' rows, objects in the store | upload with compensation, delete with a queued cleanup | one of two stores fails | no row without object; orphans get cleaned |
| Open platform `modules/openplatform` | `open_platform_apps`, requests for scopes and redirect URIs, consents; an application in Casdoor for each that is approved | import, approve, rotate the secret, review URIs, update the profile, suspend, resume, withdraw, revoke, consent | two stores and no common transaction, undone by hand; concurrent requests without a lock | the row and Casdoor agree; a revocation is final |
| Courses, users, academics, external data | rows | guarded single-transaction changes, imports, queries | little beyond row locks | constraints of the schema |
| Shared infrastructure | caches, circuit breaker | lookups, trip and reset | | |
| Clients, bots, deployment | none of the server's | call the API | | |

**Interactions.** A request handler changes rows and upserts an outbox job in one transaction
(authorization, resource). The outbox worker calls a handler, which reads the row again, calls
OpenFGA or the object store and updates the row under a revision fence; then the worker marks the job.
The nightly scan compares rows with OpenFGA and upserts jobs. Login calls
`SyncCasdoorOrganizationAdmin` with the flag Casdoor gave. Student verification publishes eligibility
events to admission, which queues bot actions; bots claim them and report back over HTTP. A campus
check goes request → broker → connector node → broker → request. Tokens are checked by middleware on
every request. Users log in to a third party's application through Casdoor, with the secret, redirect URIs and
profile that the open platform gave it there, and the open platform answers the third party from its own row.

## Modules

| Module | Models |
|---|---|
| `OutboxRow` | a row of `domain_event_outbox`; each SQL statement of `pkg/outbox/repository.go` is a function from row to row |
| `AtLeastOnce` | abstract: what the outbox promises its producers; a submission may be for several keys |
| `Outbox` | producers, operator and workers over `OutboxRow`; the invariants, and the refinement of `AtLeastOnce` |
| `OutboxProofs` | theorems about `Outbox`, alone and as a part of something larger |
| `BudgetProofs` | theorems about its retry budget |
| `GrantRow` | a row of `authorization_grants` and the statements that change it |
| `GrantProjection` | the grant ledger, its projection to OpenFGA and the nightly scan; extends `Outbox`, whose actions it conjoins |
| `GrantProofs` | theorems about `GrantProjection` |
| `Broker` | the campus connector's in-memory hand-over between requests and nodes |
| `Exchange` | abstract: what a check of a password may show to a node and tell its user |
| `BrokerProofs` | theorems about `Broker` |
| `Sessions` | the sessions of a user in Redis and at Casdoor: login, refresh and rotation, reuse, logout, logout of all devices |
| `RefreshChain` | abstract: what the rotation of tokens promises |
| `SessionsProofs` | theorems about `Sessions` |
| `Eligibility` | a student's eligibility revision and the publishers of its events |
| `Admission` | an admission session and its release action: decisions, bots, link, join and end; extends `Eligibility`, whose actions it conjoins |
| `AdmissionProofs` | proofs about `Admission` |
| `OpenPlatform` | a third party's application, in its row and in Casdoor, and the requests that change both |
| `OpenPlatformProofs` | theorems about `OpenPlatform` |
| `MCOutbox`, `MCGrantProjection`, `MCSessions`, `MCAdmission`, `MCOpenPlatform` | symmetry sets and bounds for TLC |

**`Outbox`.** `row` is the table. A payload is identified with the revision that carries it.
`locked_at` is a token that differs from all tokens still in use, since the code compares it for equality
only. `pc`, `batch`, `current` and `cancelled` are a worker inside `RunPollingWorker` and
`ProcessBatch`; each database statement and each handler call's end is a step. A job remembers
revision and attempts of its claim (`outbox.Job`), and decisions are made on that memory, as in the
code. `Claim` takes any set of claimable rows up to `BatchSize`: back-off and `staleAfter` are not
timed, so a failed row is claimable at once and a lock may be stale although its holder lives, which
the code permits because the jobs of a batch share a lock instant and run one after another without
renewal. `Shutdown` cancels the context at any point; the rest of the batch is then given back.
`handled` and `failures` are history.

**`GrantProjection`.** A key of the outbox is a grant. `Mutate` is one transaction: grant rows change and
their jobs are upserted (`enqueueProjectionTx`). The handler runs through `step`: read the grant, list or
delete, write, verify, apply, each a step others may come between. `Detach` leaves an OpenFGA request
in flight after a timeout or crash; `Land` performs it later. A terminal failure is three steps, as in
`MarkProjectionJobFailure`. The scan snapshots applied grants with what they want, compares each with
its tuple, and enqueues what has drifted unless that is more than `RepairLimit`. A grant of `Provider`
is a `super_admin` grant, which only login sync changes.

**`Broker`.** `submit[r]` is where the goroutine of a request is in `Submit`, `poll[p]` where a poll is in
`handlePoll` and `Claim`; a step ends at each mutex, channel operation or `select`. `queue` holds the buffered
channels, `result` what the one-place channel of a job was given first. `password` is the copy that `Submit` owns;
`WriteDelivery` reads it without a lock, so a wipe under way (`submit = "wiping"`) lets it read either value.
`given` is history: what reached the node. A node answers what it was given at any time, more than once or never.
Only the two kinds of end that the code tells apart are kept of a context: cancelled by the caller, or past
`DeadlineAt`. Many pollers may serve one node.

**`Sessions`.** A *pair* is an access and a refresh token issued together; `<<s, n>>` is the n-th of session
s. `stored`, `index`, `bannedAccess`, `bannedRefresh` and `reserved` are the Redis keys `session:`,
`user:sessions:`, `token:blacklist:` (of either kind) and `token:refresh:consumed:`; `family` and `issued` are
Casdoor's. `at[p]` is the next Redis or Casdoor call of a request, and the other functions of `Request` are its
local variables, under the code's names where it has them. A Redis call is atomic, a Lua script is one call, a pipeline is
as many steps as commands that others can tell apart. A call may fail with or without its effect, and a
process may die before any step. The actions follow `RefreshToken` (reserve, resolve, ask Casdoor,
`RotateSession`, retire or compensate), `rejectRefreshReuse`, `RevokeSession` and `RevokeAllSessions`, which goes on
after an error in one session as the code does. `held`, `rotated`, `raced` and `abandoned` are history: what a client
got, what was superseded, which sessions were committed to while being revoked, and which families
a failure left at Casdoor, where the code only logs.

**`Eligibility` and `Admission`.** `revision` is the row of `student_eligibility_revisions`; `Bump` stands for
every transaction that changes credentials and ends in `BumpEligibilityRevisionTx`, which also writes the event
of the new revision. What the code derives from the credentials on each reading is `qualified`. A publisher claims a
set of events under its owner name (`batch`) and handles them one by one (`current`). An evaluator, which is a
publisher or a request (`task`: a page view, a link, a join), goes through `at`: it reads the credentials, reads the
revision, and applies its `decision`. The transaction of `ReevaluateStudentEligibility` and `GetAdmissionMe` is two
steps, because it supersedes release actions before it looks at the session and runs at READ COMMITTED; in
between it holds the row of the action (`lock`), which the others respect: the claim skips locked rows, a report
waits. `LinkTokenToUser` evaluates inside its transaction, which holds the session. `action` is the one row
`<session>:release` of `admission_bot_action_outbox`; `prepared` and `sent` are the dispatch attempts that
`ClaimQueuedAdmissionActions` holds, and that bots have seen and may report at any time, as often as they like.
`void`, `admittedBy`, `misled` and `overtaken` are history. Status names are the database's (`StatusLinked` is
`awaiting_requirements`, `StatusVerified` is `action_pending`).

**`OpenPlatform`.** `app`, `uris`, `scope` and `consent` are the tables, `casdoor` the application in Casdoor. Of what the
two have in common the secret, the redirect URIs and the profile are kept; a new one is a number that was not used before, so two are
equal only if they are the same. A request (`at`, `op`) goes through the calls of its method in their order: `GetAppByID`
(`Begin`, which keeps what it read in `seen`), the reads, `GetApplication` (`found`), `EnsureApplication`, the probes, the transaction, and
then what undoes the change in Casdoor if the transaction failed (`Restore`, or `Delete` after an approval) or deletes the application
after a revocation. A transaction is one step, and so are `EnsureApplication` and `DeleteApplication`, which look and then write. Each
call can fail without an effect at any time; an answer lost after the effect and a death of the process are a `Fault`. `torn` and
`alone` are history: `torn` says that a writer was given up half way or that two ran at the same time, since the two stores were last set
right by an approval, a rotation or a deletion that ran alone; `alone[r]` that no other writer has begun since r did. An
imported application may start torn, because the importer's own secret, URIs or profile are not sent to Casdoor.

## Runs

| Run | Bounds | Shows |
|---|---|---|
| `outbox` | 2 keys, 2 workers, batches of 2, 2 attempts; 3 payloads in all with a fault or a takeover, 2 with two of them | `BudgetInv`, the invariant of the proofs; no payload is lost, the budget is counted for the right payload, no early dead letter, one handler per key, with jobs that share a lock; refinement of `AtLeastOnce` |
| `ledger_faults` | 1 grant, 3 changes, 2 workers, 2 attempts, 1 fault, 1 takeover, 1 error, 1 late write, not all at once | the ledger is truthful under faults, its fences hold with two workers on one job, and attempts are counted exactly |
| `ledger_pair` | 2 grants, one of Casdoor's, batches of 2, 1 attempt, repair limit 1, 1 error, 1 fault | `LedgerInv`, the invariant of the proofs; multi-row transactions, login sync, the limit; refinement of `AtLeastOnce` with a transaction that submits for two keys |
| `ledger_live` | 1 grant, 2 changes, 2 faults, 1 error, 1 late write, fair | ledger and OpenFGA converge; every open job is settled |
| `ledger_failed` | 1 grant, 1 attempt, 1 error | the finding below |
| `broker` | 2 requests, 1 node, 1 poll at a time, 1 place, fair | `BrokerInv`, the invariant of the proofs; genuine verdicts; `Close` misses nothing; failing fast; refinement of `Exchange` |
| `broker_forgotten` | the same | the second finding below |
| `sessions` | 1 session, 2 requests at a time; 3 pairs without, 2 with 1 fault | `ChainInv`, the invariant of the proofs; serial rotation, the end of a session is final and its tokens are refused, logout of all devices finds every session, families are tracked, reuse is proven; refinement of `RefreshChain` |
| `sessions_raced` | 1 session, 2 requests, 2 pairs | the third finding below |
| `admission` | 1 publisher, 1 request at a time, 2 attempts each for events and actions; 2 changes, or 1 with a fault, and one of either more while no request runs; fair | `AdmissionInv`, the invariant of the proofs; decisions are applied in order, the session follows the student, withdrawn dispatches admit nobody, a granted session has its action; every event and every release comes to an end |
| `admission_revoked` | the same without faults | the fourth finding below |
| `open_platform` | 2 requests at a time, 2 new numbers, or 1 and a fault | `AppInv`, the invariant of the proofs; row and Casdoor agree unless a writer was given up or overlapped, the status goes one way, nothing is given back after a revocation |

The bounds are in the guards: `MaxRevision` (payloads per key), `MaxFaults` (crashes, shutdowns and lost
marks together), `MaxOverruns` (claims that take a lock from a live worker), `MaxMutations`,
`MaxErrors`, `MaxLate`, `MaxPairs`; `MaxValues`; `FewPayloads`, `FewMutations`, `FewPairs`, `FewChanges` and `FewValues` are state constraints that keep them from all being used at once. They are enough for the cases the code distinguishes: an old, a current and a next
payload; a retry, a last attempt and one more; a takeover of a takeover; two workers, for every
conflict in the code is between two. In `Sessions` two requests overlap at a time and any number follow one another;
three pairs are a token, the one that supersedes it and one more. Sessions of one user meet only in the index, and
the proofs cover any number of them. In `Admission` two evaluations overlap, one of them a publisher's; a change before, one
between and a fault are what its fences tell apart. The takeover of an event by a second publisher is not in the run: it needs a
second evaluator on the same event, of whom the publisher and the page view are an example; the proofs cover any number of both. In `OpenPlatform`
two requests overlap at a time and any number follow one another; a number to begin with, one that is new and one that comes between are what
an undo can confuse, and the proofs cover any number of both. `Broker` has no counters to bound: a request runs once, and one place makes the
second request wait for the first. Deadlock is not checked: with nothing left to do and the bounds used
up, the system rests.

**Fairness.** `FairSpec`, and `FairLedgerSpec` on top of it, assumes that a worker goes on with what it has begun and is restarted by its
supervisor (weak fairness of `Work`), and that a row which is again and again claimable is
claimed (strong fairness of `ClaimOf(k)`: the query orders by `available_at`, which makes it the oldest
in the end). It does not assume that handlers succeed, that producers act or that faults stop; the bounds on
faults and on failures do the latter. `LedgerFairness` adds that OpenFGA performs what it has received, and
that the nightly scan runs again and lists a grant that is pending with a given-up job. In `Broker` the Go scheduler
runs every goroutine that can run (weak fairness of `Submitting`, `Delivering`, `CancelInFlight`); no
context has to end, no node to poll or answer. In `Admission` a publisher goes on with its batch and an evaluation with its steps
(weak fairness of `Handles`), each event that is claimable again and again is claimed (strong fairness of `Claims(r)`: the
query orders by `available_at`), and bots ask for work (weak fairness of `ClaimAction`); nobody has to report, open a page or join.

## Findings

`FailureIsOfThisRevision` is violated. `MarkProjectionJobFailure`
(`repository_projection.go:42-84`) reads the job's payload by id before it marks the last failure. If the grant
changed during the failed call, that payload belongs to the new revision. The outbox puts the row
back to pending for it, and then `MarkProjectionFailed` marks the new revision failed, though it was
never tried. The state heals when the pending job is handled; until then the ledger and its audit trail
report a failure that did not happen. `docs/design/iam-implementation-guardrails.md:79-80` and
`docs/reference/database.md:44` ask for a fence here.

`ReturnedIsForgotten` is violated. `Claim` (`broker.go:139`) looks at the deadline of a queued job, not
at whether its `Submit` has given up. If the caller has gone, the job is claimed all the same, its node gets a password of
zero bytes, and the entry stays in `inflight`, from which only `Submit` would have removed it.
`broker_test.go:49` expects a request whose `Submit` has returned to be unknown. No user is told a wrong verdict
by it: that is `VerdictIsGenuine`.

`LogoutEndsAccess` is violated. `docs/design/security-model.md:34` says that `logout` revokes the current device.
`Revoke` (`session.go:264-308`) reads the session, blacklists the pair it has read and deletes the session, in
separate calls. If a refresh commits its rotation in between, the new pair is deleted from Redis but neither
blacklisted nor revoked at Casdoor, and as a bearer token it is accepted until it expires. `EndedIsRefused` says that
this is the only way: without a rotation during the revocation all tokens of an ended session are
refused.

The same window shows up in three more places, which the properties name as exceptions: the delete of the whole index at the end
of `RevokeAll` (`session.go:391`) drops a session that joined it meanwhile (`raced` in
`LiveIsIndexed`); a failed delete of a revoked session is only logged (`session.go:300`), so that a refresh under way
can rotate it (its refresh token is blacklisted, its session is there); and a login that fails after Casdoor issued the
tokens leaves their family to expire (`abandoned` in `FamilyIsTracked`), while a refresh in the same position
compensates.

`RevokedIsNotReleased` is violated. STATE-004 of the product specification
(`student-verification-and-group-admission.md:949-950`) demands that a release which has not been executed is not executed
any more once the credentials are revoked. `GetEligibility` (`service.go:743` and `747`) reads credentials and
revision in two statements. A revocation in between yields an eligible verdict under the revocation's own revision, which no
fence can tell from a right one, and if the event has been consumed by then, nothing evaluates the student again. Links and joins
also get there with an untorn but old verdict, because they compare no revisions (`service_session.go:439`) and
the event found no session. `AgreesWithStudent` says that these are the only ways: it excepts a session that took a decision
which was wrong on arrival and could not be recognized (`misled`).

`ReleaseIsUnderWay` names another exception, `overtaken`. `supersedeReleaseActionsForEligibilityTx`
(`repository_eligibility_projection.go:119`) compares the action's revision for difference, not for age. An older decision that
comes late marks the action of a newer one stale and then finds the session fenced against it, so that the session waits for release with
a stale action until the student is evaluated again; opening the page does that.

By reading only: a credential that expires raises no revision and enqueues no event (`repository.go:829`), so a session that
waits for release keeps its grant. A release that was given up (`dead_letter`) is queued again by the next decision at another
revision with its attempts used up, and the next claim gives it up again.

Also by reading, of the open platform, where no document promises more: `torn` is not only of the model. Requests that overlap
leave row and Casdoor apart although each reports what it did. A losing approval deletes the application by its name, which
is by then the winner's (`service_approval.go:262`); a revocation that read a pending row does not delete what an approval has made in between
(565); a rotation overwrites URIs approved after it read the row (621), and makes the application of a revoked row again if it began before
(`repository.go:458`). `NothingComesBack` says where that ends: with the requests that began before the revocation.
A later rotation, or a second revocation, sets the two right.

Two differences of wording, with no run: `docs/design/iam-architecture.md:519` describes a linear
back-off where `worker.go:236-260` has an exponential one with jitter, and says drift at or above the
threshold stops the repair where `reconciliation.go:115` stops above it.

## Proofs

`OutboxProofs` proves, for any set of keys and workers, any `BatchSize` and `MaxAttempts` and any value of
the bounds (assumptions: `NoTokenAssumption`, `ConstantsAssumption`):

- `Invariant`: `Spec => []IInv`. `CompletedIsHandled` alone is not inductive: completing a row is
  right only because its lock says which revision was handled. `IInv` adds that a job that holds its lock
  was claimed at `lockedRevision` (`JobsMatchRows`), that lock instants are not shared by two jobs for a
  key (`LocksAreDistinct`), that only a takeover parts a job from its lock (`LocksAreKept`), that what a worker
  is doing agrees with the history (`CurrentIsSound`) and that attempts never exceed failures
  (`AttemptsAreFailures`). One lemma per action; the marks share `ForgetInv`.
- `TypeCorrect`, `CompletedIsHandledAlways`, `DeadLetterIsExhaustedAlways`, `HandlingIsExclusiveAlways` follow.
- `Refinement`: `Spec => ImplementsAtLeastOnce`, with the lemma `RowStep`, which says once what a change of one
  row may be for the promise to allow it.
- `SharedInvariant` and `SharedRefinement` say the same of `SharedSpec`, in which one step may upsert any set of
  keys and nothing bounds the payloads. Every use of the outbox in the server is of this kind, so that a
  module which composes it has only to show that its steps are steps of `SharedNext`.

`BudgetProofs` proves from the same assumptions that the retry budget is exact (`SharedBudgetIsExact`,
`RetryBudgetIsExactAlways`): a row's attempts never exceed the failed calls of the payload it holds, and fall behind them by no more
than the faults and takeovers there were. `IInv` says nothing about that, because a call that fails after its lock was lost is
counted nowhere, and what has lost its lock can fail later. So `BudgetInv` keeps books for each key: failed calls that were not counted, plus
workers that may still make one (`Risk`), less the call that is about to be counted (`Owed`), are paid for by faults and takeovers
(`FailuresArePaid`). It needs that a worker has one job for a key at most (`OneJobPerKey`) and that the lock of a row
is with its newest job (`NewestHoldsLock`). The books are sums over sets of workers; `PaidStep` says once which steps
balance. One lemma per action again; `ClaimBudget` is the one where a takeover pays.

`GrantProofs` proves, for any finite set of grants, any workers and limits (in addition:
`GrantAssumption`; finiteness is used only for the count in `ListGrants`):

- `LedgerInvariant`: `LedgerSpec => []LedgerInv`. `LedgerInv` is `IInv` of the outbox and the four safety
  properties, which hold each other up, with what they need besides: the row of a grant's job carries the grant's
  revision and desired state, and every payload ever written is the one of its index (`LedgersAgree`); a
  handler call knows what its payload wants, has verified it before it applies it, and has left the grant
  applied when it succeeded for the current payload (`StepsFit`, `HandlersAreSound`); while no lock was taken from a
  live worker, a job with an older payload exists only for a grant that is not applied (`ClaimedIsOutstanding`); while
  nothing was given up in flight either, a verified tuple stays right until it is applied
  (`VerifiedStays`). The last two are why `TupleAgrees` holds: a worker that could disturb the tuple
  of an applied grant would hold a second lock for it.
- Steps come in six shapes: a ledger transaction (`MutateInv`), a move inside the handler (`HandlerMoves`), a step
  of outbox and worker (`WorkerStep`), the two projection updates, a late OpenFGA request, the scan
  (`ScanMoves`). The lemma of each action brings it into its shape; the lemmas of `OutboxProofs` are used for
  the outbox's half of it.
- `LedgerUsesOutbox`: `LedgerSpec => SharedSpec`. So the theorems about the shared outbox hold of its jobs
  (`LedgerKeepsPromise`, `GivenUpIsExhausted`, `ProjectionBudgetIsExact`), also when a scan or `ReconcileAll` upserts many at once.
- `LedgerTypeCorrect`, `NothingIsStrandedAlways`, `AppliedIsVerifiedAlways`, `AccessIsVerifiedAlways`, `TupleAgreesAlways`
  and `ProjectionIsExclusiveAlways` follow; `AccessEndsByRevocationAlways` is the action property, by cases on what a step
  does to the grants.

`BrokerProofs` proves, for any requests, nodes, pollers and capacity (assumption: `BrokerAssumption`):

- `BrokerInvariant`: `Spec => []BrokerInv`. `VerdictIsGenuine` needs to know that a job stands in one place
  (`OnePlace`), so that only one poller ever writes it and what was given cannot change after a verdict; that a
  request not yet queued is nowhere (`UnsentIsNowhere`), which keeps the place unique; and that the
  copy is whole until `Submit` has left its wait (`WholeUntilWiping`). `CloseAnswersAll` needs
  `CloseCoversInFlight`. Steps that move no job share `NothingMoves`, steps of one poller `PollerMoves`.
- `BrokerTypeCorrect`, `VerdictIsAlwaysGenuine` and `CloseAlwaysAnswersAll` follow.
- `BrokerRefinement`: `Spec => ImplementsExchange`. A password counts as shown when a poll has written it, an answer as told when
  `Submit` leaves its wait, and a call as over when it has returned. That nothing whole is shown after a return, and
  nothing damaged before an answer, is what `WholeUntilWiping` says of a copy which two goroutines share without a lock;
  `OnePlace` is why nothing is shown twice, also by polls of different connections. Queueing, claims, late answers,
  shutdown and deadlines are stutters.

`SessionsProofs` proves, for any sessions, any number of requests, pairs and faults (assumption:
`SessionAssumption`):

- `SessionsInvariant`: `Spec => []SessionsInv`. `Touch` replaces whatever pair the session has; that this is the pair of its own
  request (`TouchIsCurrent`) holds because a reservation keeps two requests from using one token
  (`ReservationIsExclusive`) and because every pair a client has or will get is current, ended or superseded
  (`HandedIsCurrent`). Old tokens are refused because Casdoor has forgotten a superseded pair before the
  session does (`RotatedIsForgotten`), and because a revocation blacklists what it loaded before it deletes
  (`LoadedIsCurrent`). The families are accounted for because they are captured before any session is
  revoked (`RevokedAreCaptured`). A login's session is its own until it is indexed (`NewIsPrivate`). One lemma per action.
- `SessionsTypeCorrect`, `RotationIsAlwaysSerial`, `EndedAlwaysStaysEnded`, `EndedIsAlwaysRefused`,
  `LiveIsAlwaysIndexed`, `FamilyIsAlwaysTracked` and `ReuseIsAlwaysProven` follow.
- `SessionsRefinement`: `Spec => ImplementsRefreshChain`. The abstract rotation is one step: the last pair, which was given to a client and
  not spent, is spent for a later one. The code's takes a reservation, two calls to Casdoor and two to Redis, and the step is the script of `Touch`,
  which compares nothing. `ChainInvariant` adds what is needed to see that: a new pair is on its way to one client by one
  request (`NewIsUnique`), so none is given twice, and what is rotated is of a client and goes forward (`RotationsGoForward`). A
  session is closed when it is deleted, whoever deletes it.

`AdmissionProofs` proves, for any publishers, any number of requests at a time, and any revisions, attempts and faults
(assumptions: `EligibilityAssumption`, `AdmissionAssumption`):

- `AdmissionInvariant`: `Spec => []AdmissionInv`. Whether the session agrees is settled when a decision is applied, and the
  decision may be older than its event, than the session or than the student. It is not newer than the student
  (`DecisionsAreSound`), no more is the session (`SessionFits`), and a decision for an event is not older than the event: what is applied
  when the last event is consumed is of the last revision, and either right or recognizably torn.
  `SessionAgrees` says so from the moment the event is consumed, before it is published. A dispatch that
  was withdrawn stays below the attempts of the action (`AttemptsFit`), because only an attempt nobody was given is given back.
- `AdmissionTypeCorrect`, `AgreesWithStudentAlways`, `WithdrawnNeverAdmitsAlways`, `ReleaseIsUnderWayAlways` and
  `DecisionsAreMonotoneAlways` follow: every safety property of the run `admission`, which has one publisher, also where
  several take events over from each other.

`OpenPlatformProofs` proves, for any number of requests at a time, of new secrets, URIs and profiles, and of faults (assumption:
`OpenPlatformAssumption`):

- `AppInvariant`: `Spec => []AppInv`. `AgreesAlone` speaks of moments without a writer, so the invariant has to say what a writer knows
  while it runs. One that has been alone since it began (`AloneIsAlone`) still has the row it read, and what it found in
  Casdoor is the row's; what it sent is there; a redirect URI request it has read is unchanged (`Knows`). What a
  request may have read and found at each step is `InStep`, which is why there is always something to put back where the code
  puts it back. Any step of a request leaves the others what they know (`OthersStay`), so each action is proved for its own request,
  and the ends of requests once (`LeaveInv`).
- `AppTypeCorrect` and `AgreesAloneAlways` follow; `LifecycleIsAlwaysKept` and `NothingEverComesBack` are action properties, the first by
  cases on the transaction, the second because `InStep` leaves nothing but a repeated revocation to a request that
  has read a revoked row.

Only model-checked is liveness, which this prover cannot show: `EverythingSettles`, `Converges`, `FailsFast`, `ChangesSettle`,
`ReleaseSettles`. Every other property of a passing run is a theorem. The properties of the four remaining runs are false, and the
counterexamples are TLC's.

## Not modelled

Times (back-off, `available_at`, leases as durations), logging, metrics and audit rows; batching and
pagination of OpenFGA calls; in `Broker`, certificates, request signatures and the roster command that `handlePoll` looks for
first; in `Sessions`, the expiry of keys (but for reservations), the blacklist's local cache, which only chooses between two
refusals while Redis is away, and cookies; in `Admission`, reminders, kicks and their deadlines as actions of their own, policies, tokens,
freshman applications and `pending_manual_review` (`CreateFreshmanApplication` has no caller outside tests, and migration
000032 clears the status); error texts, cut at a byte that may lie within a character (`projection.go:175`); a queued job that
`Close` of the broker does not answer (`broker.go:185`; `Broker` has it, nothing promises more); notification buffers; the object an upload may orphan; the authority cutover, a one-time import that inserts grants as applied;
`super_admin` parent relations; in `OpenPlatform`, resource grants, disclosure,
authorization challenges, and what Casdoor's own administrators change; phone codes, one Redis key each, whose check reads the code and runs its failure
script later (`otp.go:324`); and the parts listed as `not_modelled` in `PROJECT.json`, with their reasons.

## Plan

1. Written: outbox, grants and projection.
2. Written: the campus connector's broker.
3. Written: sessions, refresh rotation, reuse detection and revocation, one Redis call per step.
4. Written: student verification's event publisher, and the admission session and release action it drives.
5. Written: the open platform's applications in their row and in Casdoor.
6. Next: the other rows of the bot-action queue (reminders, kicks, blacklist), which share `ClaimAction` and `Report`.
7. Next for the proofs: what an admission session promises a student, and an application of the open platform its owner, as
   abstract specifications that `Admission` and `OpenPlatform` implement.
8. Resource grants of the open platform, phone codes and resource cleanup.
