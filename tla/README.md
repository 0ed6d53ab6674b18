# Disaster-Watcher: a TLA+ model of the notification service

The service accepts disaster reports over HTTP, finds the registered users
within 20 km and emails them. PostgreSQL holds the durable state (reports,
jobs, delivery rows, dead letters); Go channels only wake the goroutines that
work on it. What can go wrong is therefore in the interleavings of some twenty
goroutines over a few conditional `UPDATE`s and bounded channels, in crashes
between two statements, and in the order in which the stages stop. That is what
most of these modules are about; the others are about what stands before the
handlers: the rate limiter, accounts and their tokens, and geocoding.

Paths below are relative to `src/backend/`.

## Inventory

| Component | State | Operations | Hard because | Correct means | Module |
|---|---|---|---|---|---|
| Report handler (`internal/api/handler/createReport.go`) | `reports`, `jobs` rows | commit report and job, non-blocking send | crash or full queue after the commit | no stored job is forgotten | `Intake` |
| Verification workers (`worker/verifyReport.go`, `utils/userTrustScore.go`) | `jobs.status`, report row | read, reset / fail / reject / pass on | unconditional updates, blocking send, failed reads | finished jobs stay finished | `Intake` |
| Extraction workers (`worker/extractUserIDs.go`, `utils/nearbyUsers.go`) | delivery rows, user snapshot | one transaction per job, publish | duplicate messages, stale snapshot | rows once, all published | `Intake` |
| Job recovery (`utils/recoverStalledJobs.go`) | `jobs.status` | scan, reset, queue | runs beside live intake | only jobs without rows, each queued | `Intake` |
| Notification workers (`worker/emailNotification.go`) | delivery row | claim, send, outcome, retry push | crash inside an attempt, recovery taking the row away | no lost wake-up, closed rows stay closed | `Notification` |
| Retry workers (`worker/retryFailedNotification.go`) | delivery row, `dlq_jobs` | load, backoff, claim, send, dead-letter | stale reads, attempt limit, dead letter channel | one dead letter per exhausted row | `Notification` |
| Finalisation (`worker/finalizeNotificationJob.go`) | `jobs.status` | count, conditional update | concurrent last deliveries, crash before it | verdict agrees with the rows | `Notification` |
| Delivery recovery (`utils/recoverNotificationDeliveries.go`) | delivery rows | release, scan, publish | runs beside live workers | every open row gets a wake-up | `Notification` |
| Composition (`main.go`) | channels, contexts | start workers, recover, serve | the two halves share rows | end to end delivery | `Pipeline` |
| Graceful shutdown (`shutdown.go`, `main.go`) | contexts, wait groups, channel closing | stop HTTP, wait, close and drain each stage | forced stop anywhere | never send on a closed channel, nothing left behind | `Shutdown` |
| Per-IP rate limiter (`api/auth/ratelimiterMiddleware.go`) | map from address to limiter | look up, allow, refuse, evict | eviction and stale clock readings beside requests that hold a limiter | eviction is invisible | `RateLimiter` |
| Registration and login (`api/auth/user_reg.go`, `generateJWTtoken.go`, `passwordHash.go`) | `users` rows | look up, geocode, insert; find, check, sign | racing registrations, padded names, an insert whose answer is lost | one row per name and address, truthful answers | `Accounts` |
| JWT check (`api/auth/jwtMiddleware.go`) | none (the token carries it) | parse, load user | expiry and restarts with another secret between the steps | only who logged in is served | `Accounts` |
| Forward geocoding (`utils/geocoding.go`) | none | normalise, score, scan, decide | order of results, thresholds, rolling rows of the edit distance | the place that stands out, whatever the order | `Geocoding`, `LocationMatch` |

Not modelled: the report queries and user info (one `SELECT` rendered as JSON),
request validation (string checks; what they guarantee of stored rows is
`IntakeAssumption`), connection, schema and routing (wiring; the constraints the
schema creates are guards of the modules), reverse geocoding, `GenerateToken`,
`AdminMiddleware`, `DeleteReportById`, `GetNearByReports` and the helpers of
`utils/helper.go` that nothing routed or running calls. The outbound email
limiter is modelled only as a wait that the context can end: its rate needs time,
which the delivery half does not have. `PROJECT.json` lists each part with its
reason, and every hazard at its line.

How the parts interact: the handler commits a `jobs` row and sends its id to
the verification channel; a verification worker passes the report to the report
channel; an extraction worker commits one `notification_deliveries` row per
nearby user and sends their ids to the delivery channel; a notification worker
makes the first attempt and sends the id of a failed one to the retry channel; a
retry worker owns it until it succeeds or becomes a `dlq_jobs` row, and whoever
closes the last row of a job stores the job's verdict. At start-up one
goroutine first re-queues jobs without rows, then releases and re-publishes
unfinished rows, while all workers and the HTTP server already run.

## Modules

- `Notification.tla` - the delivery half. One action per database statement,
  channel operation and provider call; `worker[w].pc` names the statement the
  goroutine is about to run (`claim`, `send`, `ok`/`err` for the two outcomes,
  `push`, `load`, `dlq`, `count`, `finalize`, `bury`). A conditional `UPDATE` is
  one action with a disjunct for zero affected rows. `rec` is the recovery
  goroutine. What intake does to this state is the section "What the intake
  half does".
- `Intake.tla` - the handler, verification, extraction and job recovery, in the
  same style. `Kind[j]` says what the stored report or payload of a job is; the
  handler only stores `good` ones, the others are rows older than its checks.
  `Near[j]` stands for the Haversine test, `snapshot` for `allUsers`.
- `Pipeline.tla` - both halves (two `INSTANCE`s) over shared `job`, `outbox`,
  `ctx` and the delivery rows, with `notified` of `Intake` read off `status`. A
  step both halves see is the conjunction of their two actions.
- `DeliveryContract.tla` - the abstract promise of one email per user: opened
  once, at most `maxRetries + 1` tries, delivered or dead-lettered once.
  `Notification` states that it implements it (`KeepsContract`), by the mapping
  row → outcome, attempts → tries, `dlq_jobs` → letters.
- `Shutdown.tla` - the stages with counted messages, `main`, the watcher, the
  recovery and the requests. `NumStages` is 4 in `main.go` and a parameter here.
- `TokenBuckets.tla` - what a rate limiter promises: one bucket per address that
  is always there, and no more admissions in any stretch of time than a full
  bucket and its refill.
- `RateLimiter.tla` - the middleware and its cleanup goroutine. `visitors` is the
  map, `limiter` the objects it points to (`LastSeen` and the lazily refilled
  bucket of `x/time/rate`, which is external), `request` where each request is
  between `GetLimiter`, `Allow` and the rest of the chain, `cleaner` the time
  `CleanUpNotActiveIps` read before it took the mutex. It implements
  `TokenBuckets` by the mapping: an address not in the map has a full bucket.
- `Accounts.tla` - registration, login and the JWT check, one action per database
  statement, with the unique indexes of the schema as guards of the insert
  (`Unique`), lookups by the name as sent (`padded`) and inserts of the trimmed
  one, errors with and without a committed row, and restarts that change `SECRET`.
- `Geocoding.tla` - `getLATLONGfromUserLocation`: the request, the loop that scores
  results, the loop that keeps the best two, the decision. Scores are whole
  numbers; where one equals a threshold exactly, `Decide` goes either way, as
  floating point may.
- `LocationMatch.tla` (extended by `Geocoding`) - `normalizeLocation`,
  `stringSimilarity` and `locationMatchScore` over strings of any characters: each
  loop of the code is a recursive function of how far it has got. What the first
  two are to compute is said without loops, `Canonical` (a string and its normal
  form, position by position) and `CheapestAlignment` (the least cost over all
  ways of lining up two strings).
- `MCNotification`, `MCIntake`, `MCPipeline`, `MCShutdown`, `MCRateLimiter`,
  `MCAccounts`, `MCGeocoding` - instances for TLC.
- `NotificationProofs`, `DeliveryProofs` (which continues it), `IntakeProofs`,
  `PipelineProofs`, `ShutdownProofs`, `RateLimiterProofs`, `AccountsProofs`,
  `GeocodingProofs` - theorems.

The modules meet where the program does: a registration is, in `Intake`, a row
that the user snapshot of the next boot includes; what geocoding found is `Near`;
the rate limiter and the JWT check stand before the handlers and share no state
with them, so composing them would multiply states and relate nothing.

Definitions named `...Late`, `...Early`, `...Always`, `Any...` and marked
"Faulty variant" are wrong on purpose: each is a plausible slip in the code, and
substituting it for the definition after it breaks a property. `PROJECT.json`
pairs them with the property.

Ghost variables: `dropped` and `givenUp` (work abandoned after a logged database
error, which the code leaves to the next boot); `created` in `Accounts` (what
clients were answered 201 for), and there the address, password and time a token
was signed for, which the code does not keep in it; `window` in `RateLimiter`
and `TokenBuckets` (an observer who counts the admissions of one address from a
moment of its choice).

## Bounds

`MaxRestarts` and `MaxFaults` bound process deaths and errors or forced stops,
`MaxSends`/`MaxPanics` the messages and panics of `Shutdown`. One restart covers
a crash at every point followed by recovery at every pace; `IntakeSafety` has two,
so that job recovery can itself be interrupted. Channels have capacity 1 or 2, so
that they fill up with the two or three messages around; the code's 10 would only
be never full. Two users suffice for the races between deliveries of a job, two
retry workers for those over a delivery, two jobs for queues between reports.
`MaxRetries` is 1 or 2: first attempt, a retry that may fail, a last one. The old
kinds of stored rows are spread over the runs: garbled and unlocated in
`IntakeSafety`, garbled in `PipelineSafety`, short in `PipelineLiveness`.

`RateLimiter`: `Full`, `InactiveAfter`, `MaxStall` and `MaxTime` are ticks of the
refill. `InactiveAfter - MaxStall >= Full` is the code's seven days against a
bucket of 5 that refills at 10 a second; the third limiter
for two addresses is the fresh one that an address would get if it were evicted
under a request, which `HeldIsCurrent` rules out. A token is one unit in the run; the theorems are about
every size. `Accounts`: two clients, `MaxId` rows, `MaxLogins` tokens and one tick
of `Lifetime` suffice for a race, a retry after a lost answer, and a token that
outlives its time or secret. `Geocoding`: every response of up to three results
with any subset of the labels, valid or not, in every order; the thresholds ½ and
¼ of `MCGeocoding` are met exactly by scores of strings of four letters, which
the code's 0.80 and 0.10 would hardly be. A full score is 60, which every length
and number of tokens of the run divides. `NormalIsCanonical` covers all strings up
to length 3 over two letters, a capital and a separator, and runs of separators in
some of length 4; `DistanceIsCheapest` all pairs of their normal forms.

Every system idles once its bounded inputs are used up or its process has ended,
so every cfg has `CHECK_DEADLOCK FALSE`; that nothing blocks for good is stated as
liveness.

## Runs

| Run | Shows |
|---|---|
| `NotifySafety` | under every interleaving with recovery, one restart, one error or forced stop: rows close for a reason and never change again, no open row is without a wake-up (`NoLostWakeup`), a stop strands none, verdicts agree with rows, somebody finalises; the workers implement `DeliveryContract` |
| `NotifyLiveness` | every row is resolved across a restart, and no worker waits for ever |
| `IntakeSafety` | no stored job is forgotten; duplicate messages never publish a job twice or reopen it; an old row that the checks reject reaches nobody; all across two restarts |
| `PipelineSafety` | what each half assumes of the other is true: `IntakeKept` is the whole specification of `Intake`, `IntakeUnhindered` the guards of `Notification` |
| `PipelineLiveness` | accepted report ⇝ each known nearby user has the email or a dead letter; every stored report is extracted, also after QUEUE_FULL or a crash |
| `Shutdown` | no send on a closed channel; a clean unforced end leaves nothing; the drain ends by itself unless a panic or full dead letters stop it, and the deadline ends the process even then |
| `RateLimiterSafety` | with evictions by stale clock readings between a lookup and its `Allow`, no request loses the limiter it holds, and the map behaves like one bucket per address that is never removed |
| `AccountsSafety` | racing and padded registrations, lost answers, restarts with another secret: one account per name and address, an account once confirmed lets its owner in, and only who logged in is served |
| `GeocodingSafety` | the scan finds the two best of every response and the answer depends on the set of results only; normalisation and edit distance agree with their reference definitions |

Three runs expect a violation; each is a disagreement between the code and what
the repository says of it (`PROJECT.json`, "findings"):

- `CrashBeforeFinalize`: finalisation is only reached by the worker that closed
  the last row. After a crash in between, job recovery skips the job (it has
  rows) and delivery recovery has nothing to do (the rows are closed): the job
  stays in `processing`, which README.md:108 says is recovered.
- `UndecidedJob`: job recovery reads a job without rows; extraction commits the
  rows; the reset still matches `status = 'processing'`. The job is now
  `pending` with rows: finalisation never matches it, later boots skip it.
- `LimitedServed`: the middleware answers 429 and returns without `c.Abort()`, so
  that the remaining handlers of the route run all the same.

Met while modelling, without a run of their own:

- Nothing receives from the dead letter channel: after its 1000 letters in one
  process life retry workers block (`DrainEnds` names the case).
- The users are read once per boot, so that who registers later gets no email
  before the next one (`AcceptedReportDelivered` speaks of the snapshot).
- A crash during the last allowed attempt uses it up (the claim counts before the
  mail is sent): the delivery is dead-lettered although its outcome is unknown.
- `watchForForcedShutdown` cancels the workers before the deadline: the stages may
  then end with messages left while `main` logs that all work finished, which is
  why `CleanMeansDrained` speaks of unforced ends only.
- Login (`api/auth/user_reg.go:102-116`) tests `user.ID == 0` before
  `lookup.Error`: a failed query is answered 404, not 500. `FindUser` does the same.
- A padded name passes the lookup and is stopped by the index alone: the client
  gets 500 where an unpadded one gets 409. `OneAccountEach` holds either way.

## Fairness

Weak fairness for each goroutine as a whole (its next step, when it stays
enabled, happens): that is what the Go scheduler gives. A select between a send
and the context needs no more. Clients, crashes, errors and signals are never
fair, nor is the deadline of `Shutdown`. The liveness runs of the
delivery half have no errors or forced stops (`MaxFaults = 0`): the code gives
work up after one, until the next boot. A cancelled worker leaves its loop for
good in Go; in `Notification` and `Intake` it may also go on receiving, which
only adds behaviours and is never the case in a liveness run.

## Proofs

`NotificationProofs` proves, for every number of jobs, users, workers, retries,
capacities, restarts and faults (assumptions `WorkerAssumption`,
`BoundAssumption`):

- `TypeCorrect`: `Spec => [](TypeOK /\ PlaceOK)`, where `PlaceOK` says which
  worker can be at which place with what in hand.
- `ClosedForAReasonHolds`, `RetryClaimExclusiveHolds`, `ClosedForeverHolds`, from
  one inductive invariant `SafeInv`. The properties alone are not inductive: a
  success needs `Answered` (a worker at `ok` has a delivery the provider
  accepted), a dead letter needs `Spent` (a worker at `dlq` loaded an exhausted
  row), and exclusive claims need `Numbered` (no worker is ahead of its row's
  attempts, and only claims raise them).

`DeliveryProofs` goes on from `SafeInv`, under the same assumptions:

- `KeepsContractHolds`: the refinement of `DeliveryContract`. Each step opens a
  row, tries, delivers or dead-letters under the mapping, or is a stutter. `Tried`
  is what the mapping needs beside `SafeInv`: a row never claimed has no attempt,
  a mail in flight has one.
- `NoLostWakeupHolds` and `NoStrandedRowHolds`, from `CoverInv`, which is both at
  once and inductive beside `SafeInv`. A row is covered when it is `Awaited` (a
  wake-up exists or recovery will send one) or some worker `Holds` it
  (`CoveredWho`); a lemma per kind of step says how a row passes from one to the
  other (`IntakeKeepsCover`, `MoveKeepsCover`, `WriteKeepsCover`, `RecoveryKeepsCover`).
- `VerdictAgreesHolds`, from `VerdictInv`: a verdict in a worker's hands between
  the count and the `UPDATE` is what the rows add up to, and stays so, because
  counted rows are closed and closed rows never change.
- `FinalizerPendingHolds`, from the above: before any death or error, the worker
  that closed the last row is still at its count or its update.

`IntakeProofs`, for any jobs, users, kinds of old rows, pools, capacity, restarts
and faults (`IntakeAssumption`), has one inductive invariant, `IntakeInv`
(`IntakeCorrect`), and from it `TypeCorrect`, `NoLostJobHolds`,
`OnePublisherHolds`, `VerifiedOnlyHolds` and `FinishedStaysHolds`. None of the
properties is inductive alone. `HandledStored` says that only stored jobs are in
queues and hands; `Verified` which kinds of report get past which check;
`Published` that whoever publishes has this boot's rows, so that the unique index
stops a second publisher; `SetBack` who may have reset a job, so that a reset job
is in the recovery's hands or given up; `Settled` what a verdict without rows
means for messages that are still around.

`PipelineProofs` puts the halves together, for any constants that both accept
(`PipelineAssumption`):

- Every step of the pipeline is a step of `Notification` or leaves it alone
  (`DeliveryHolds`), and likewise for `Intake`, which is `IntakeKeptHolds`. The
  second direction needs `SafeInv` and `VerdictInv` of the delivery half: a
  worker that finalises a job does so with a verdict, and the job has rows.
- `IntakeUnhinderedHolds`: the guards by which `Notification` describes the intake
  refuse nothing the intake does. It needs two more facts about `Intake`,
  `BootRows` (the rows of a job that is still handled are this boot's) and `Sent`
  (a wake-up to be sent has its sender), and the order of the two recoveries.
- `HalvesHold` and `PipelineKeepsContract`: the invariants of both halves, the
  contract of one email per user, `ClosedForever` and `FinishedStays` hold of the
  whole. That is what the
  first two facts are for: they turn theorems about a half, whose other half is a
  few assumed actions, into theorems about the program.

`ShutdownProofs` proves `NeverSendOnClosed` for every number of stages, pool
size and capacity. `NoSendOnClosed` speaks of channels already closed; the
invariant adds `Position`, what `main` knows at each of its positions about the
channels it has closed, in the order of the stages, and the one it is about to
close. `TypeCorrect` comes from the same invariant, and
`CleanIsDrained` from `LeftBehind` beside it: a worker that was neither
cancelled nor hit by a panic has left an empty, closed channel.

`RateLimiterProofs`, for any number of addresses, requests and limiters, any rate,
size and clock, from `LimiterAssumption` (a bucket refills in less time than an
address must be idle, less the time a request may stall):

- `TypeCorrect` and `HeldIsCurrentHolds`, from `LimiterInv`. The property is not
  inductive: that the cleanup never takes a limiter away from a request needs
  that the limiter was seen no earlier than the request's lookup, and that no
  reading of the clock is ahead of it.
- `FollowsBucketsHolds`: the refinement of `TokenBuckets`. The eviction is a
  stutter because a limiter idle for so long has a full bucket, which is what the
  mapping says of an address without one.
- `WithinBudgetHolds`: through the refinement, from the abstract invariant that
  admissions and level together never exceed a full bucket and the refill.

`AccountsProofs`, for any number of clients, names, addresses, secrets, faults and
restarts: `TypeCorrect`, `OneAccountEachHolds`, `CreatedCanLoginHolds` and
`ServedIsLoggedInHolds`, from `AccountInv`. It adds what each handler knows at
each of its places (the row it found is stored under the address it was asked
for, a token in hand was signed by a login) and that rows never change.

`GeocodingProofs` has two parts. About strings, for any characters and any length:

- `NormalIsCanonicalHolds`. The induction over the characters read needs more than
  the property: `Follows` maps the output so far into the input so far, and `Ends`
  says that the output ends in the last character read unless that is a separator.
  `FollowsBlank` is where the blank finds the separator it stands for. Normalising
  again changes nothing because a canonical string is `Tidy`, and the loop copies
  a tidy string.
- `DistanceIsCheapestHolds`. Every cell of the table is the least cost of an
  alignment of two prefixes (`Attains`, `TableCheapest`), by induction over rows
  and, within one, columns. `LastPair` is the argument behind the recurrence: an
  alignment leaves the last character of one prefix alone or ends in the pair of
  both.
- `EveryScoreInRange`. The distance is at most the longer length
  (`DistanceBound`), a string that is split has a token (`FieldsType`), and a sum of scores is
  at most as many full ones (`TokenScoreType`). The scan relies on it
  (`ScoresInRange`).

These are inductions over data. The provers cannot instantiate the library's
induction theorems, whose parameter is an operator, so the induction is about
sets: `UpTo` says, from the least counterexample, that a set with 0 and the successor of
each of its members below n has all of 0..n. `Loop` turns that into what a
recursive function needs, that it exists and stays in the set its step stays in.

About the scan, for any strings, thresholds and number of results: `TypeCorrect`,
`ScanSoundHolds` and `FoundIsClearHolds`, from `ScanInv`. Its `CandidatesSound`
says that the candidates are the usable results seen, each once; without it the
scan's invariant says nothing of the response.

Only model-checked: all liveness (`DeliveryResolved`, `WorkersReturn`,
`AcceptedReportDelivered`, `StoredJobsExtracted`, `MainReturns`, `DrainEnds`),
because fairness and ENABLED are outside what the provers handle. Everything
else the passing runs check is also proved.

## Plan

1. Done: `Notification`, `DeliveryContract`, `Intake`, `Pipeline`, `Shutdown`,
   `TokenBuckets`, `RateLimiter`, `Accounts`, `Geocoding`, `LocationMatch` with
   their runs, and the theorems above.
2. Done: theorems for the remaining safety properties of both halves, the
   refinement of `DeliveryContract`, and the composition in `Pipeline`.
3. Left to model: the rate of the outbound email limiter beside retry workers that
   do not use it, which needs a clock in `Notification`.
