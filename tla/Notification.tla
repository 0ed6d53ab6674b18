---------------------------- MODULE Notification ----------------------------
(***************************************************************************)
(* The delivery half of the pipeline: the notification workers, the retry  *)
(* workers, job finalisation, the dead letter queue, and the recovery of   *)
(* delivery rows at start-up, over the PostgreSQL rows they share.         *)
(*                                                                         *)
(* Each database statement, each channel operation and the call to the     *)
(* email provider is one step, so every interleaving of the goroutines at  *)
(* these points is a behaviour.  The module is open: the intake half       *)
(* (handler, verification, extraction, job recovery) appears as the        *)
(* actions of section "What the intake half does"; Pipeline.tla composes   *)
(* it with the real intake.                                                *)
(***************************************************************************)
EXTENDS Naturals, Sequences, FiniteSets

CONSTANTS
    Jobs, Users,          \* identifiers of jobs and of registered users
    NotifyWorkers,        \* goroutines of StartNotificationWorker
    RetryWorkers,         \* goroutines of StartFailedEmailSendingWorker
    MaxRetries,           \* maxRetries of main.go
    ChanCap,              \* capacity of the delivery and retry channels
    DeadLetterCap,        \* capacity of the dead letter channel
    MaxRestarts,          \* bound: process deaths in a behaviour
    MaxFaults,            \* bound: database errors and forced stops
    None                  \* no delivery

Delivery == Jobs \X Users       \* UNIQUE (job_id, user_id): one row per pair
JobOf(d) == d[1]
Workers == NotifyWorkers \cup RetryWorkers

ASSUME WorkerAssumption ==
    /\ NotifyWorkers \cap RetryWorkers = {}
    /\ IsFiniteSet(Jobs) /\ IsFiniteSet(Users)
    /\ None \notin Delivery
ASSUME BoundAssumption ==
    /\ MaxRetries \in Nat
    /\ ChanCap \in Nat \ {0}
    /\ DeadLetterCap \in Nat
    /\ MaxRestarts \in Nat /\ MaxFaults \in Nat

VARIABLES
    job,            \* jobs.status, "absent" before the row exists
    status,         \* notification_deliveries.status
    attempts,       \* notification_deliveries.attempts
    deadLetters,    \* number of dlq_jobs rows of the delivery
    accepted,       \* deliveries the email provider has answered with success
    deliveryCh,     \* wake-ups for the notification workers
    retryCh,        \* wake-ups for the retry workers
    deadLetterCh,   \* occupancy of the dead letter channel
    worker,         \* where each worker goroutine is
    rec,            \* the start-up recovery goroutine
    outbox,         \* committed rows whose wake-up extraction has not sent
    ctx,            \* workContext: "live" or "cancelled"
    restarts, faults,   \* counters of the bounds
    dropped         \* ghost: rows given up after a database error, this boot

rows    == <<status, attempts, deadLetters>>
durable == <<job, rows, accepted>>
queues  == <<deliveryCh, retryCh, deadLetterCh>>
bounds  == <<restarts, faults, dropped>>
vars    == <<durable, queues, worker, rec, outbox, ctx, bounds>>

Open     == {"pending", "processing", "retrying"}
Closed   == {"success", "failed"}
Verdicts == {"done", "failed", "partially_failed"}
InFlight == {"send", "ok", "err"}     \* between the claim and its outcome

Rows(j) == {d \in Delivery : JobOf(d) = j /\ status[d] # "absent"}

Idle == [pc |-> "idle", d |-> None, n |-> 0, verdict |-> "none", dead |-> FALSE]
At(pc, d, n) == [Idle EXCEPT !.pc = pc, !.d = d, !.n = n]
Recovery(pc) == [pc |-> pc, todo |-> {}, at |-> None]

Becomes(w, r) == worker' = [worker EXCEPT ![w] = r]
Goto(w, pc)   == Becomes(w, [worker[w] EXCEPT !.pc = pc])
Rest(w)       == Becomes(w, Idle)
Stored(d, s) == status' = [status EXCEPT ![d] = s]

Place == {"idle", "load", "claim", "send", "ok", "err", "push", "dlq",
          "count", "finalize", "bury"}
WorkerState ==
    [pc : Place, d : Delivery \cup {None}, n : 0 .. MaxRetries + 1,
     verdict : Verdicts \cup {"none"}, dead : BOOLEAN]
Message == Delivery \X {"pending", "retrying"}     \* a row as recovery saw it
RecoveryState ==
    [pc : {"jobs", "release", "scan", "publish", "done"},
     todo : SUBSET Message, at : Message \cup {None}]

\* Every variable keeps its type: in particular attempts never pass
\* MaxRetries + 1 and no channel its capacity.
TypeOK ==
    /\ job \in [Jobs -> {"absent", "pending", "processing"} \cup Verdicts]
    /\ status \in [Delivery -> {"absent"} \cup Open \cup Closed]
    /\ attempts \in [Delivery -> 0 .. MaxRetries + 1]
    /\ deadLetters \in [Delivery -> Nat]
    /\ accepted \subseteq Delivery
    /\ deliveryCh \in Seq(Delivery) /\ Len(deliveryCh) <= ChanCap
    /\ retryCh \in Seq(Delivery) /\ Len(retryCh) <= ChanCap
    /\ deadLetterCh \in 0 .. DeadLetterCap
    /\ worker \in [Workers -> WorkerState]
    /\ rec \in RecoveryState
    /\ outbox \subseteq Delivery
    /\ ctx \in {"live", "cancelled"}
    /\ restarts \in 0 .. MaxRestarts /\ faults \in 0 .. MaxFaults
    /\ dropped \subseteq Delivery

Init ==
    /\ job \in [Jobs -> {"absent", "pending"}]
    /\ status = [d \in Delivery |-> "absent"]
    /\ attempts = [d \in Delivery |-> 0]
    /\ deadLetters = [d \in Delivery |-> 0]
    /\ accepted = {}
    /\ deliveryCh = <<>> /\ retryCh = <<>> /\ deadLetterCh = 0
    /\ worker = [w \in Workers |-> Idle]
    /\ rec = Recovery("jobs")
    /\ outbox = {} /\ ctx = "live"
    /\ restarts = 0 /\ faults = 0 /\ dropped = {}

-----------------------------------------------------------------------------
(* What the intake half does to the state of this component.               *)

\* CreateReport commits the job row.
CreateJob(j) ==
    /\ job[j] = "absent"
    /\ job' = [job EXCEPT ![j] = "processing"]
    /\ UNCHANGED <<rows, accepted, queues, worker, rec, outbox, ctx, bounds>>

\* RecoverUnfinishedJobs resets a job it found without delivery rows.
RependJob(j) ==
    /\ rec.pc = "jobs" /\ job[j] = "processing"
    /\ job' = [job EXCEPT ![j] = "pending"]
    /\ UNCHANGED <<rows, accepted, queues, worker, rec, outbox, ctx, bounds>>

\* Verification could not read the report or its author: a database error, or
\* the report is gone.  The UPDATE has no condition on the status it replaces.
ResetJob(j) ==
    /\ job[j] # "absent"
    /\ job' = [job EXCEPT ![j] = "pending"]
    /\ UNCHANGED <<rows, accepted, queues, worker, rec, outbox, ctx, bounds>>

\* Extraction found nobody within range; or the payload cannot be read.
FinishEmptyJob(j) ==
    /\ job[j] # "absent" /\ Rows(j) = {}
    /\ \E verdict \in {"done", "failed"} : job' = [job EXCEPT ![j] = verdict]
    /\ UNCHANGED <<rows, accepted, queues, worker, rec, outbox, ctx, bounds>>

\* Extraction's transaction: the rows and the job's status.  A second run of
\* the same job violates the unique index and rolls back.
CommitDeliveries(j, us) ==
    /\ job[j] # "absent" /\ Rows(j) = {} /\ us # {}
    /\ status' = [d \in Delivery |->
                    IF JobOf(d) = j /\ d[2] \in us THEN "pending" ELSE status[d]]
    /\ job' = [job EXCEPT ![j] = "processing"]
    /\ outbox' = outbox \cup ({j} \X us)
    /\ UNCHANGED <<attempts, deadLetters, accepted, queues, worker,
                   rec, ctx, bounds>>

\* Extraction sends the wake-up of one committed row.
Publish(d) ==
    /\ d \in outbox /\ Len(deliveryCh) < ChanCap
    /\ deliveryCh' = Append(deliveryCh, d)
    /\ outbox' = outbox \ {d}
    /\ UNCHANGED <<durable, retryCh, deadLetterCh, worker, rec, ctx, bounds>>

\* A database error met by the intake half.
IntakeError ==
    /\ faults < MaxFaults
    /\ faults' = faults + 1
    /\ UNCHANGED <<durable, queues, worker, rec, outbox, ctx, restarts, dropped>>

\* The extraction worker of job j sees the cancelled context and returns.
AbandonPublish(j) ==
    /\ ctx = "cancelled" /\ \E d \in outbox : JobOf(d) = j
    /\ outbox' = {d \in outbox : JobOf(d) # j}
    /\ UNCHANGED <<durable, queues, worker, rec, ctx, bounds>>

-----------------------------------------------------------------------------
(* Notification workers.                                                   *)

Receive(w) ==
    /\ worker[w].pc = "idle" /\ deliveryCh # <<>>
    /\ Becomes(w, At("claim", Head(deliveryCh), 0))
    /\ deliveryCh' = Tail(deliveryCh)
    /\ UNCHANGED <<durable, retryCh, deadLetterCh, rec, outbox, ctx, bounds>>

NotifyClaimable(d) == status[d] = "pending"

\* The conditional UPDATE that claims a first attempt; no row, no work.
Claim(w) ==
    LET d == worker[w].d IN
    /\ worker[w].pc = "claim"
    /\ \/ /\ NotifyClaimable(d)
          /\ Stored(d, "processing")
          /\ attempts' = [attempts EXCEPT ![d] = 1]
          /\ Becomes(w, [worker[w] EXCEPT !.pc = "send", !.n = 1])
       \/ /\ ~NotifyClaimable(d)
          /\ Rest(w)
          /\ UNCHANGED <<status, attempts>>
    /\ UNCHANGED <<job, deadLetters, accepted, queues, rec, outbox, ctx, bounds>>

\* SendEmail answers; a cancelled context is an error before anything is sent.
Send(w) ==
    /\ worker[w].pc = "send"
    /\ \/ /\ ctx = "live"
          /\ accepted' = accepted \cup {worker[w].d}
          /\ Goto(w, "ok")
       \/ /\ Goto(w, "err")
          /\ UNCHANGED accepted
    /\ UNCHANGED <<job, rows, queues, rec, outbox, ctx, bounds>>

\* Faulty variant for mutation: the outcome is stored unconditionally.
NotifyOwnsAlways(w) == status[worker[w].d] # "absent"

\* The first attempt's outcome is stored on condition of the status alone.
NotifyOwns(w) == status[worker[w].d] = "processing"

NotifyFailed(w) ==
    /\ worker[w].pc = "err"
    /\ \/ /\ NotifyOwns(w)
          /\ Stored(worker[w].d, "retrying")
          /\ Goto(w, "push")
       \/ /\ ~NotifyOwns(w)
          /\ Rest(w)
          /\ UNCHANGED status
    /\ UNCHANGED <<job, attempts, deadLetters, accepted, queues, rec, outbox, ctx, bounds>>

PushRetry(w) ==
    /\ worker[w].pc = "push" /\ Len(retryCh) < ChanCap
    /\ retryCh' = Append(retryCh, worker[w].d)
    /\ Rest(w)
    /\ UNCHANGED <<durable, deliveryCh, deadLetterCh, rec, outbox, ctx, bounds>>

NotifySucceeded(w) ==
    /\ worker[w].pc = "ok"
    /\ \/ /\ NotifyOwns(w)
          /\ Stored(worker[w].d, "success")
          /\ Goto(w, "count")
       \/ /\ ~NotifyOwns(w)
          /\ Rest(w)
          /\ UNCHANGED status
    /\ UNCHANGED <<job, attempts, deadLetters, accepted, queues, rec, outbox, ctx, bounds>>

-----------------------------------------------------------------------------
(* finalizeNotificationJob, shared by both pools.                          *)

\* Faulty variants: retries do not count as unfinished; mixed results have no
\* verdict.
JobVerdictEager(j) ==
    LET outcomes == {status[d] : d \in Rows(j)} IN
    CASE outcomes = {} \/ outcomes \cap {"pending", "processing"} # {} -> "none"
      [] outcomes = {"success"} -> "done"
      [] outcomes = {"failed"}  -> "failed"
      [] OTHER                  -> "partially_failed"
JobVerdictUnmixed(j) ==
    LET outcomes == {status[d] : d \in Rows(j)} IN
    CASE outcomes = {"success"} -> "done"
      [] outcomes = {"failed"}  -> "failed"
      [] OTHER                  -> "none"

\* The verdict on a job, "none" while it has no row or an unfinished one.
JobVerdict(j) ==
    LET outcomes == {status[d] : d \in Rows(j)} IN
    CASE outcomes = {} \/ outcomes \cap Open # {} -> "none"
      [] outcomes = {"success"}                   -> "done"
      [] outcomes = {"failed"}                    -> "failed"
      [] OTHER                                    -> "partially_failed"

\* After finalisation only moveDeliveryToDLQ has something left to do.
Leave(w) ==
    IF worker[w].dead
    THEN Becomes(w, [worker[w] EXCEPT !.pc = "bury", !.verdict = "none"])
    ELSE Rest(w)

Count(w) ==
    LET v == JobVerdict(JobOf(worker[w].d)) IN
    /\ worker[w].pc = "count"
    /\ \/ /\ v = "none"
          /\ Leave(w)
       \/ /\ v # "none"
          /\ Becomes(w, [worker[w] EXCEPT !.pc = "finalize", !.verdict = v])
    /\ UNCHANGED <<durable, queues, rec, outbox, ctx, bounds>>

\* Faulty variant: the UPDATE has no condition on the job's status.
FinalizableAlways(j) == TRUE

Finalizable(j) == job[j] = "processing"

Finalize(w) ==
    LET j == JobOf(worker[w].d) IN
    /\ worker[w].pc = "finalize"
    /\ job' = IF Finalizable(j)
              THEN [job EXCEPT ![j] = worker[w].verdict] ELSE job
    /\ Leave(w)
    /\ UNCHANGED <<rows, accepted, queues, rec, outbox, ctx, bounds>>

-----------------------------------------------------------------------------
(* Retry workers.                                                          *)

ReceiveRetry(w) ==
    /\ worker[w].pc = "idle" /\ retryCh # <<>>
    /\ Becomes(w, At("load", Head(retryCh), 0))
    /\ retryCh' = Tail(retryCh)
    /\ UNCHANGED <<durable, deliveryCh, deadLetterCh, rec, outbox, ctx, bounds>>

\* Faulty variants: the limit is off by one, in either direction.
ExhaustedLate(n) == n > MaxRetries + 1
ExhaustedEarly(n) == n >= MaxRetries

Exhausted(n) == n > MaxRetries

\* Read the row and decide on its attempts; the backoff passes before "claim".
LoadRetry(w) ==
    LET n == attempts[worker[w].d] IN
    /\ worker[w].pc = "load"
    /\ \/ /\ Exhausted(n)
          /\ Becomes(w, [worker[w] EXCEPT !.pc = "dlq", !.n = n])
       \/ /\ ~Exhausted(n)
          /\ Becomes(w, [worker[w] EXCEPT !.pc = "claim", !.n = n])
    /\ UNCHANGED <<durable, queues, rec, outbox, ctx, bounds>>

\* Faulty variants: one of the two conditions of the UPDATE is missing.
StillAsLoadedAnyStatus(w) == attempts[worker[w].d] = worker[w].n
StillAsLoadedAnyAttempt(w) == status[worker[w].d] = "retrying"

\* status and attempts are those this worker loaded.
StillAsLoaded(w) ==
    /\ status[worker[w].d] = "retrying"
    /\ attempts[worker[w].d] = worker[w].n

\* Faulty variant: the claim does not count the attempt.
SameAttempt(n) == n

NextAttempt(n) == n + 1

ClaimRetry(w) ==
    LET d == worker[w].d IN
    /\ worker[w].pc = "claim"
    /\ \/ /\ StillAsLoaded(w)
          /\ Stored(d, "processing")
          /\ attempts' = [attempts EXCEPT ![d] = NextAttempt(worker[w].n)]
          /\ Becomes(w, [worker[w] EXCEPT !.pc = "send", !.n = NextAttempt(@)])
       \/ /\ ~StillAsLoaded(w)
          /\ Rest(w)
          /\ UNCHANGED <<status, attempts>>
    /\ UNCHANGED <<job, deadLetters, accepted, queues, rec, outbox, ctx, bounds>>

\* A retry's outcome is stored on condition of its own attempt number.
RetryOwns(w) ==
    /\ status[worker[w].d] = "processing"
    /\ attempts[worker[w].d] = worker[w].n

\* A failed retry keeps its worker: the loop loads the row again.
RetryFailed(w) ==
    /\ worker[w].pc = "err"
    /\ \/ /\ RetryOwns(w)
          /\ Stored(worker[w].d, "retrying")
          /\ Becomes(w, At("load", worker[w].d, 0))
       \/ /\ ~RetryOwns(w)
          /\ Rest(w)
          /\ UNCHANGED status
    /\ UNCHANGED <<job, attempts, deadLetters, accepted, queues, rec, outbox, ctx, bounds>>

RetrySucceeded(w) ==
    /\ worker[w].pc = "ok"
    /\ \/ /\ RetryOwns(w)
          /\ Stored(worker[w].d, "success")
          /\ Goto(w, "count")
       \/ /\ ~RetryOwns(w)
          /\ Rest(w)
          /\ UNCHANGED status
    /\ UNCHANGED <<job, attempts, deadLetters, accepted, queues, rec, outbox, ctx, bounds>>

\* moveDeliveryToDLQ: the row and its dead letter in one transaction.
MoveToDLQ(w) ==
    LET d == worker[w].d IN
    /\ worker[w].pc = "dlq"
    /\ \/ /\ StillAsLoaded(w)
          /\ Stored(d, "failed")
          /\ deadLetters' = [deadLetters EXCEPT ![d] = @ + 1]
          /\ Becomes(w, [worker[w] EXCEPT !.pc = "count", !.dead = TRUE])
       \/ /\ ~StillAsLoaded(w)
          /\ Rest(w)
          /\ UNCHANGED <<status, deadLetters>>
    /\ UNCHANGED <<job, attempts, accepted, queues, rec, outbox, ctx, bounds>>

\* The dead letter channel has no receiver anywhere in the program.
Bury(w) ==
    /\ worker[w].pc = "bury" /\ deadLetterCh < DeadLetterCap
    /\ deadLetterCh' = deadLetterCh + 1
    /\ Rest(w)
    /\ UNCHANGED <<durable, deliveryCh, retryCh, rec, outbox, ctx, bounds>>

-----------------------------------------------------------------------------
(* Errors and cancellation seen by a worker.                               *)

\* A statement fails: the worker logs it and drops the wake-up, except in
\* finalisation, whose error does not stop moveDeliveryToDLQ.
DbError(w) ==
    /\ faults < MaxFaults
    /\ faults' = faults + 1
    /\ \/ /\ worker[w].pc \in {"load", "claim", "err", "ok", "dlq"}
          /\ dropped' = dropped \cup {worker[w].d}
          /\ Rest(w)
       \/ /\ worker[w].pc \in {"count", "finalize"}
          /\ Leave(w)
          /\ UNCHANGED dropped
    /\ UNCHANGED <<durable, queues, rec, outbox, ctx, restarts>>

\* Faulty variant: the rate limiter is awaited after the claim.
WaitsAfterClaim == {"send", "push", "bury"}

\* Limiter, backoff and both blocking sends also wait on the context.
WaitsOnContext == {"claim", "push", "bury"}

Abandon(w) ==
    /\ ctx = "cancelled" /\ worker[w].pc \in WaitsOnContext
    /\ Rest(w)
    /\ UNCHANGED <<durable, queues, rec, outbox, ctx, bounds>>

-----------------------------------------------------------------------------
(* Start-up recovery.                                                      *)

\* RecoverUnfinishedJobs returned, with or without an error.
JobsRecovered ==
    /\ rec.pc = "jobs"
    /\ rec' = Recovery("release")
    /\ UNCHANGED <<durable, queues, worker, outbox, ctx, bounds>>

Interrupted(d) == status[d] = "processing"

\* One UPDATE releases every row in processing, whoever holds it.
Release ==
    /\ rec.pc = "release"
    /\ status' = [d \in Delivery |-> IF Interrupted(d) THEN "retrying" ELSE status[d]]
    /\ rec' = Recovery("scan")
    /\ UNCHANGED <<job, attempts, deadLetters, accepted, queues, worker, outbox, ctx, bounds>>

\* Faulty variant: only retries are published again.
RecoverableRetries(d) == status[d] = "retrying"

Recoverable(d) == status[d] \in {"pending", "retrying"}

\* The rows still to publish, one of them (the query has no ORDER BY) next.
PublishRest(todo) ==
    \/ /\ todo = {}
       /\ rec' = Recovery("done")
    \/ \E m \in todo : rec' = [pc |-> "publish", todo |-> todo, at |-> m]

Scan ==
    /\ rec.pc = "scan"
    /\ PublishRest({<<d, status[d]>> : d \in {e \in Delivery : Recoverable(e)}})
    /\ UNCHANGED <<durable, queues, worker, outbox, ctx, bounds>>

\* The channel follows the status the SELECT saw, not the present one.
PublishRecovered ==
    /\ rec.pc = "publish"
    /\ \/ /\ rec.at[2] = "pending" /\ Len(deliveryCh) < ChanCap
          /\ deliveryCh' = Append(deliveryCh, rec.at[1])
          /\ UNCHANGED retryCh
       \/ /\ rec.at[2] = "retrying" /\ Len(retryCh) < ChanCap
          /\ retryCh' = Append(retryCh, rec.at[1])
          /\ UNCHANGED deliveryCh
    /\ PublishRest(rec.todo \ {rec.at})
    /\ UNCHANGED <<durable, deadLetterCh, worker, outbox, ctx, bounds>>

\* The UPDATE or the SELECT fails: nothing is recovered until the next boot.
RecoveryError ==
    /\ rec.pc \in {"release", "scan"} /\ faults < MaxFaults
    /\ faults' = faults + 1
    /\ rec' = Recovery("done")
    /\ dropped' = {d \in Delivery : status[d] # "absent"}
    /\ UNCHANGED <<durable, queues, worker, outbox, ctx, restarts>>

AbandonRecovery ==
    /\ ctx = "cancelled" /\ rec.pc = "publish"
    /\ rec' = Recovery("done")
    /\ UNCHANGED <<durable, queues, worker, outbox, ctx, bounds>>

-----------------------------------------------------------------------------
(* The process.                                                            *)

\* The shutdown deadline expires or a second signal arrives.
Cancel ==
    /\ ctx = "live" /\ faults < MaxFaults
    /\ faults' = faults + 1
    /\ ctx' = "cancelled"
    /\ UNCHANGED <<durable, queues, worker, rec, outbox, restarts, dropped>>

\* The process dies anywhere and boots again: only the database and what the
\* provider has seen survive.  The intake half may fail to read the users.
Restart ==
    /\ restarts < MaxRestarts
    /\ restarts' = restarts + 1
    /\ deliveryCh' = <<>> /\ retryCh' = <<>> /\ deadLetterCh' = 0
    /\ worker' = [w \in Workers |-> Idle]
    /\ rec' = Recovery("jobs")
    /\ outbox' = {} /\ ctx' = "live" /\ dropped' = {}
    /\ faults' \in {faults, faults + 1} \cap (0 .. MaxFaults)
    /\ UNCHANGED durable

IntakeStep ==
    \/ IntakeError
    \/ \E j \in Jobs : \/ CreateJob(j) \/ RependJob(j) \/ ResetJob(j)
                       \/ FinishEmptyJob(j) \/ AbandonPublish(j)
                       \/ \E us \in SUBSET Users : CommitDeliveries(j, us)

NotifyStep(w) ==
    \/ Receive(w) \/ Claim(w) \/ Send(w) \/ NotifyFailed(w) \/ PushRetry(w)
    \/ NotifySucceeded(w) \/ Count(w) \/ Finalize(w) \/ Abandon(w)

RetryStep(w) ==
    \/ ReceiveRetry(w) \/ LoadRetry(w) \/ ClaimRetry(w) \/ Send(w)
    \/ RetryFailed(w) \/ RetrySucceeded(w) \/ MoveToDLQ(w)
    \/ Count(w) \/ Finalize(w) \/ Bury(w) \/ Abandon(w)

RecoveryStep ==
    JobsRecovered \/ Release \/ Scan \/ PublishRecovered \/ AbandonRecovery

FaultStep ==
    RecoveryError \/ Cancel \/ Restart \/ \E w \in Workers : DbError(w)

Next ==
    \/ IntakeStep
    \/ \E d \in Delivery : Publish(d)
    \/ \E w \in NotifyWorkers : NotifyStep(w)
    \/ \E w \in RetryWorkers : RetryStep(w)
    \/ RecoveryStep
    \/ FaultStep

Spec == Init /\ [][Next]_vars

\* The Go scheduler runs every goroutine that is not blocked: the workers, the
\* recovery goroutine, and the extraction worker that holds unsent wake-ups.
Fairness ==
    /\ \A w \in NotifyWorkers : WF_vars(NotifyStep(w))
    /\ \A w \in RetryWorkers : WF_vars(RetryStep(w))
    /\ \A d \in Delivery : WF_vars(Publish(d))
    /\ WF_vars(RecoveryStep)

FairSpec == Spec /\ Fairness

-----------------------------------------------------------------------------
(* Safety.                                                                 *)

\* The attempt a worker is making: claimed, its outcome not yet stored.
Attempting(w, d) == worker[w].pc \in InFlight /\ worker[w].d = d

\* A retry's stored outcome needs its own attempt number to be the row's; a
\* first attempt's does not.
CanStore(w, d) ==
    /\ Attempting(w, d)
    /\ w \in RetryWorkers => worker[w].n = attempts[d]

\* A delivery is closed for a reason: success means the provider accepted the
\* mail, failed means every allowed attempt was used, and a failed delivery
\* has exactly one dead letter, every other one none (moveDeliveryToDLQ under
\* recovered, duplicated and stale wake-ups).
ClosedForAReason ==
    \A d \in Delivery :
        /\ status[d] = "success" => d \in accepted
        /\ status[d] = "failed" => attempts[d] = MaxRetries + 1
        /\ deadLetters[d] = IF status[d] = "failed" THEN 1 ELSE 0

\* Two retry workers never make the same attempt at a delivery, even when
\* start-up recovery released the row under one of them (the attempts
\* condition of the claim).
RetryClaimExclusive ==
    \A d \in Delivery, v, w \in RetryWorkers :
        v # w /\ Attempting(v, d) /\ Attempting(w, d) => worker[v].n # worker[w].n

\* Something will still act on an unfinished row: a wake-up in a channel or on
\* its way to one, a worker that holds it, or recovery before its SELECT.
Covered(d) ==
    CASE status[d] = "pending" ->
            \/ d \in outbox
            \/ \E i \in DOMAIN deliveryCh : deliveryCh[i] = d
            \/ \E w \in NotifyWorkers : worker[w].pc = "claim" /\ worker[w].d = d
            \/ <<d, "pending">> \in rec.todo
            \/ rec.pc \in {"jobs", "release", "scan"}
      [] status[d] = "processing" ->
            \/ \E w \in Workers : CanStore(w, d)
            \/ rec.pc \in {"jobs", "release"}
      [] status[d] = "retrying" ->
            \/ \E i \in DOMAIN retryCh : retryCh[i] = d
            \/ \E w \in NotifyWorkers : worker[w].pc = "push" /\ worker[w].d = d
            \/ \E w \in RetryWorkers :
                  /\ worker[w].d = d
                  /\ \/ worker[w].pc = "load"
                     \/ worker[w].pc \in {"claim", "dlq"} /\ worker[w].n = attempts[d]
            \/ <<d, "retrying">> \in rec.todo
            \/ rec.pc \in {"jobs", "release", "scan"}
      [] OTHER -> TRUE

\* The database is the queue and the channels only wake workers: while the
\* process is not being stopped, no unfinished row is left without a wake-up,
\* whatever the interleaving of workers, recovery and restarts.
NoLostWakeup ==
    ctx = "live" => \A d \in Delivery \ dropped : Covered(d)

\* Stopping the workers never leaves a row in processing behind a worker that
\* has given it up ("waiting before the claim means shutdown cannot strand
\* the row in processing").
NoStrandedRow ==
    \A d \in Delivery \ dropped : status[d] = "processing" => Covered(d)

\* A job with rows that carries a verdict carries the one its rows add up to,
\* however many workers raced to finalise it.
VerdictAgrees ==
    \A j \in Jobs :
        Rows(j) # {} /\ job[j] \in Verdicts =>
            /\ \A d \in Rows(j) : status[d] \in Closed
            /\ job[j] = "done"   <=> \A d \in Rows(j) : status[d] = "success"
            /\ job[j] = "failed" <=> \A d \in Rows(j) : status[d] = "failed"

\* Without crashes and errors, once all rows of a processing job are closed
\* some worker is on its way to finalise it: concurrent last deliveries cannot
\* each leave the job to the other.
FinalizerPending ==
    \A j \in Jobs :
        /\ restarts = 0 /\ faults = 0
        /\ job[j] = "processing" /\ Rows(j) # {}
        /\ \A d \in Rows(j) : status[d] \in Closed
        => \E w \in Workers : /\ worker[w].pc \in {"count", "finalize"}
                             /\ JobOf(worker[w].d) = j

-----------------------------------------------------------------------------
(* The promise to the outside.                                             *)

\* A row is open until it is closed; attempts are tries; dlq_jobs rows are
\* letters.
Outcome ==
    [d \in Delivery |-> CASE status[d] = "absent"  -> "none"
                         [] status[d] = "success" -> "delivered"
                         [] status[d] = "failed"  -> "dead"
                         [] OTHER                 -> "open"]

Contract == INSTANCE DeliveryContract WITH
    MaxSends <- MaxRetries + 1,
    outcome  <- Outcome,
    tries    <- attempts,
    letters  <- deadLetters

\* The rows, the provider and the dead letter table behave as the contract of
\* one email per user says: opened once, tried at most maxRetries + 1 times
\* over all restarts, closed once.
KeepsContract == Contract!Spec

-----------------------------------------------------------------------------
(* What a step may never do, and what must happen.                         *)

\* No step, a late outcome or a second claim of a stale wake-up included,
\* changes a delivery once it is closed.
ClosedForever ==
    [][\A d \in Delivery : status[d] \in Closed =>
          /\ status'[d] = status[d] /\ attempts'[d] = attempts[d]
          /\ deadLetters'[d] = deadLetters[d]]_vars

\* Every delivery row that is created is eventually delivered or dead-lettered,
\* across restarts.
DeliveryResolved ==
    \A d \in Delivery : status[d] # "absent" ~> status[d] \in Closed

\* A worker that takes up a wake-up comes back for the next one: the pools and
\* the bounded channels between them never wait on each other for ever
\* ("workers finish in-flight jobs").
WorkersReturn ==
    \A w \in Workers : worker[w].pc # "idle" ~> worker[w].pc = "idle"

\* A job with delivery rows does not stay in processing for ever.
JobLeavesProcessing ==
    \A j \in Jobs : job[j] = "processing" /\ Rows(j) # {} ~> job[j] # "processing"

=============================================================================
