--------------------------- MODULE DeliveryProofs ---------------------------
(***************************************************************************)
(* For any jobs, users, workers, retries and capacities: the notification  *)
(* half keeps the contract of one email per user, never leaves an          *)
(* unfinished row without a wake-up, and gives a job the verdict its rows  *)
(* add up to.                                                              *)
(***************************************************************************)
EXTENDS NotificationProofs

-----------------------------------------------------------------------------
(* The contract of one email per user *)

\* What the contract needs beside SafeInv: a row that was never claimed has no
\* attempt, and an email in flight has one.
Tried ==
    /\ \A d \in Delivery : status[d] \in {"absent", "pending"} => attempts[d] = 0
    /\ \A w \in Workers : worker[w].pc \in InFlight => attempts[worker[w].d] > 0

\* Who writes rows: the intake half creates them, recovery releases them, and
\* a worker writes the row of its own delivery.
Writes(w) ==
    \/ w \in NotifyWorkers /\ (Claim(w) \/ NotifyFailed(w) \/ NotifySucceeded(w))
    \/ w \in RetryWorkers
         /\ (ClaimRetry(w) \/ RetryFailed(w) \/ RetrySucceeded(w) \/ MoveToDLQ(w))

LEMMA RowsWritten ==
    ASSUME Next
    PROVE  \/ \E j \in Jobs, us \in SUBSET Users : CommitDeliveries(j, us)
           \/ \E w \in Workers : Writes(w)
           \/ Release
           \/ UNCHANGED rows
<1> USE DEF rows, durable
<1>1. CASE IntakeStep \/ \E d \in Delivery : Publish(d)
  BY <1>1 DEF IntakeStep, IntakeError, CreateJob, RependJob, ResetJob, FinishEmptyJob,
              AbandonPublish, Publish
<1>2. ASSUME NEW w \in Workers, Send(w) \/ Count(w) \/ Finalize(w) \/ Abandon(w) \/ DbError(w)
      PROVE  UNCHANGED rows
  BY <1>2 DEF Send, Count, Finalize, Abandon, DbError
<1>3. ASSUME NEW w \in NotifyWorkers, NotifyStep(w) PROVE Writes(w) \/ UNCHANGED rows
  BY <1>2, <1>3 DEF NotifyStep, Writes, Receive, PushRetry, Workers
<1>4. ASSUME NEW w \in RetryWorkers, RetryStep(w) PROVE Writes(w) \/ UNCHANGED rows
  BY <1>2, <1>4 DEF RetryStep, Writes, ReceiveRetry, LoadRetry, Bury, Workers
<1>5. CASE RecoveryStep \/ FaultStep
  BY <1>2, <1>5 DEF RecoveryStep, FaultStep, JobsRecovered, Scan, PublishRecovered,
                    AbandonRecovery, RecoveryError, Cancel, Restart
<1> QED
  BY <1>1, <1>3, <1>4, <1>5 DEF Next, Workers

\* What a worker writes to the row of its delivery d.
LEMMA RowWritten ==
    ASSUME SafeInv, NEW w \in Workers, Writes(w)
    PROVE  LET d == worker[w].d IN
           /\ d \in Delivery
           /\ \A e \in Delivery \ {d} : /\ status'[e] = status[e] /\ attempts'[e] = attempts[e]
                                       /\ deadLetters'[e] = deadLetters[e]
           /\ accepted' = accepted
           /\ \/ UNCHANGED rows /\ Rest(w)
              \/ /\ status[d] = "pending" /\ status'[d] = "processing" /\ attempts'[d] = 1
                 /\ deadLetters' = deadLetters /\ worker[w].pc = "claim" /\ w \in NotifyWorkers
                 /\ worker'[w].pc = "send" /\ worker'[w].d = d
              \/ /\ status[d] = "retrying" /\ status'[d] = "processing"
                 /\ attempts[d] <= MaxRetries /\ attempts'[d] = attempts[d] + 1
                 /\ deadLetters' = deadLetters /\ worker[w].pc = "claim" /\ w \in RetryWorkers
                 /\ worker'[w].pc = "send" /\ worker'[w].d = d /\ worker'[w].n = attempts'[d]
              \/ /\ status[d] = "processing" /\ status'[d] = "retrying"
                 /\ UNCHANGED <<attempts, deadLetters>> /\ worker[w].pc = "err"
                 /\ worker'[w].d = d
                 /\ worker'[w].pc = IF w \in NotifyWorkers THEN "push" ELSE "load"
              \/ /\ status[d] = "processing" /\ status'[d] = "success" /\ d \in accepted
                 /\ UNCHANGED <<attempts, deadLetters>> /\ worker[w].pc = "ok"
                 /\ worker'[w].d = d /\ worker'[w].pc = "count"
              \/ /\ status[d] = "retrying" /\ status'[d] = "failed" /\ attempts' = attempts
                 /\ attempts[d] = MaxRetries + 1 /\ deadLetters'[d] = deadLetters[d] + 1
                 /\ worker[w].pc = "dlq" /\ worker'[w].d = d /\ worker'[w].pc = "count"
<1> DEFINE d == worker[w].d
<1>0. /\ worker \in [Workers -> WorkerState] /\ worker[w] \in WorkerState
      /\ worker[w].pc # "idle" => d \in Delivery
      /\ status \in [Delivery -> {"absent"} \cup Open \cup Closed]
      /\ attempts \in [Delivery -> 0 .. MaxRetries + 1] /\ deadLetters \in [Delivery -> Nat]
  BY DEF SafeInv, TypeInv, TypeOK, PlaceOK
<1>2. \A r : Becomes(w, r) => worker'[w] = r
  BY <1>0 DEF Becomes
<1>3. \A s : d \in Delivery /\ Stored(d, s) =>
          status'[d] = s /\ \A e \in Delivery \ {d} : status'[e] = status[e]
  BY <1>0 DEF Stored
<1>4. CASE w \in NotifyWorkers /\ Claim(w)
  <2>0. d \in Delivery
    BY <1>0, <1>4 DEF Claim
  <2>1. CASE Rest(w) /\ UNCHANGED <<status, attempts>>
    BY <1>4, <2>0, <2>1 DEF Claim, rows
  <2>2. CASE NotifyClaimable(d) /\ Stored(d, "processing")
             /\ attempts' = [attempts EXCEPT ![d] = 1]
             /\ Becomes(w, [worker[w] EXCEPT !.pc = "send", !.n = 1])
    <3>1. [worker[w] EXCEPT !.pc = "send", !.n = 1].pc = "send"
          /\ [worker[w] EXCEPT !.pc = "send", !.n = 1].d = d
      BY <1>0 DEF WorkerState
    <3>2. attempts'[d] = 1 /\ \A e \in Delivery \ {d} : attempts'[e] = attempts[e]
      BY <1>0, <2>0, <2>2
    <3> QED
      BY <1>2, <1>3, <1>4, <2>0, <2>2, <3>1, <3>2 DEF Claim, NotifyClaimable
  <2> QED
    BY <1>4, <2>1, <2>2 DEF Claim
<1>5. CASE w \in RetryWorkers /\ ClaimRetry(w)
  <2>0. d \in Delivery
    BY <1>0, <1>5 DEF ClaimRetry
  <2>1. CASE Rest(w) /\ UNCHANGED <<status, attempts>>
    BY <1>5, <2>0, <2>1 DEF ClaimRetry, rows
  <2> DEFINE r == [worker[w] EXCEPT !.pc = "send", !.n = worker[w].n + 1]
  <2>2. CASE StillAsLoaded(w) /\ Stored(d, "processing")
             /\ attempts' = [attempts EXCEPT ![d] = worker[w].n + 1] /\ Becomes(w, r)
    <3>1. r.pc = "send" /\ r.d = d /\ r.n = worker[w].n + 1
      BY <1>0 DEF WorkerState
    <3>2. attempts'[d] = attempts[d] + 1 /\ \A e \in Delivery \ {d} : attempts'[e] = attempts[e]
      BY <1>0, <2>0, <2>2 DEF StillAsLoaded
    <3>3. attempts[d] <= MaxRetries
      BY <1>5, <2>2 DEF ClaimRetry, StillAsLoaded, SafeInv, TypeInv, PlaceOK
    <3> HIDE DEF r
    <3> QED
      BY <1>2, <1>3, <1>5, <2>0, <2>2, <3>1, <3>2, <3>3 DEF ClaimRetry, StillAsLoaded
  <2> QED
    BY <1>5, <2>1, <2>2 DEF ClaimRetry, NextAttempt
<1>6. CASE w \in NotifyWorkers /\ NotifyFailed(w)
  <2>0. d \in Delivery
    BY <1>0, <1>6 DEF NotifyFailed
  <2>1. CASE Rest(w) /\ UNCHANGED status
    BY <1>6, <2>0, <2>1 DEF NotifyFailed, rows
  <2>2. CASE status[d] = "processing" /\ Stored(d, "retrying")
             /\ Becomes(w, [worker[w] EXCEPT !.pc = "push"])
    <3>1. worker'[w].pc = "push" /\ worker'[w].d = d
      BY <1>0, <1>2, <2>2 DEF WorkerState
    <3> QED
      BY <1>3, <1>6, <2>0, <2>2, <3>1 DEF NotifyFailed
  <2> QED
    BY <1>6, <2>1, <2>2 DEF NotifyFailed, NotifyOwns, Goto
<1>7. CASE w \in RetryWorkers /\ RetryFailed(w)
  <2>1. w \notin NotifyWorkers
    BY <1>7, WorkerAssumption
  <2>2. At("load", d, 0).pc = "load" /\ At("load", d, 0).d = d
    BY DEF At, Idle
  <2> QED
    BY <1>0, <1>2, <1>3, <1>7, <2>1, <2>2 DEF RetryFailed, RetryOwns, rows
<1>8. CASE \/ w \in NotifyWorkers /\ NotifySucceeded(w)
           \/ w \in RetryWorkers /\ RetrySucceeded(w)
  <2>1. worker[w].pc = "ok" => d \in accepted
    BY DEF SafeInv, Answered
  <2> QED
    <3>0. d \in Delivery
      BY <1>0, <1>8 DEF NotifySucceeded, RetrySucceeded
    <3>1. CASE Rest(w) /\ UNCHANGED status
      BY <1>8, <3>0, <3>1 DEF NotifySucceeded, RetrySucceeded, rows
    <3>2. CASE status[d] = "processing" /\ Stored(d, "success")
               /\ Becomes(w, [worker[w] EXCEPT !.pc = "count"])
      <4>1. worker'[w].pc = "count" /\ worker'[w].d = d
        BY <1>0, <1>2, <3>2 DEF WorkerState
      <4> QED
        BY <1>3, <1>8, <2>1, <3>0, <3>2, <4>1 DEF NotifySucceeded, RetrySucceeded
    <3> QED
      BY <1>8, <3>1, <3>2 DEF NotifySucceeded, NotifyOwns, RetrySucceeded, RetryOwns, Goto
<1>9. CASE w \in RetryWorkers /\ MoveToDLQ(w)
  <2>0. d \in Delivery
    BY <1>0, <1>9 DEF MoveToDLQ
  <2>1. CASE Rest(w) /\ UNCHANGED <<status, deadLetters>>
    BY <1>9, <2>0, <2>1 DEF MoveToDLQ, rows
  <2> DEFINE r == [worker[w] EXCEPT !.pc = "count", !.dead = TRUE]
  <2>2. CASE StillAsLoaded(w) /\ Stored(d, "failed") /\ Becomes(w, r)
             /\ deadLetters' = [deadLetters EXCEPT ![d] = @ + 1]
    <3>1. r.pc = "count" /\ r.d = d
      BY <1>0 DEF WorkerState
    <3>2. deadLetters'[d] = deadLetters[d] + 1
          /\ \A e \in Delivery \ {d} : deadLetters'[e] = deadLetters[e]
      BY <1>0, <2>0, <2>2
    <3>3. attempts[d] = MaxRetries + 1
      BY <1>9, <2>2 DEF MoveToDLQ, StillAsLoaded, SafeInv, Spent
    <3> HIDE DEF r
    <3> QED
      BY <1>2, <1>3, <1>9, <2>0, <2>2, <3>1, <3>2, <3>3 DEF MoveToDLQ, StillAsLoaded
  <2> QED
    BY <1>9, <2>1, <2>2 DEF MoveToDLQ
<1> QED
  BY <1>4, <1>5, <1>6, <1>7, <1>8, <1>9 DEF Writes

\* What a worker does, errors included.
Works(w) ==
    \/ w \in NotifyWorkers /\ NotifyStep(w)
    \/ w \in RetryWorkers /\ RetryStep(w)
    \/ DbError(w)

\* A worker's step changes no other worker.
LEMMA OthersKept ==
    ASSUME SafeInv, NEW u \in Workers, Works(u)
    PROVE  \A v \in Workers \ {u} : worker'[v] = worker[v]
<1>0. worker \in [Workers -> WorkerState]
  BY DEF SafeInv, TypeInv, TypeOK
<1>1. \A w \in Workers : \A r : Becomes(w, r) => \A v \in Workers \ {w} : worker'[v] = worker[v]
  BY <1>0 DEF Becomes
<1>2. ASSUME NEW w \in Workers,
             \/ Receive(w) \/ Claim(w) \/ Send(w) \/ NotifyFailed(w) \/ PushRetry(w)
             \/ NotifySucceeded(w) \/ Abandon(w)
      PROVE  \A v \in Workers \ {w} : worker'[v] = worker[v]
  BY <1>1, <1>2 DEF Receive, Claim, Send, NotifyFailed, PushRetry, NotifySucceeded, Abandon, Rest, Goto
<1>3. ASSUME NEW w \in Workers,
             \/ ReceiveRetry(w) \/ LoadRetry(w) \/ ClaimRetry(w) \/ RetryFailed(w)
             \/ RetrySucceeded(w) \/ MoveToDLQ(w) \/ Bury(w)
      PROVE  \A v \in Workers \ {w} : worker'[v] = worker[v]
  BY <1>1, <1>3 DEF ReceiveRetry, LoadRetry, ClaimRetry, RetryFailed, RetrySucceeded, MoveToDLQ,
                    Bury, Rest, Goto
<1>4. ASSUME NEW w \in Workers, Count(w) \/ Finalize(w) \/ DbError(w)
      PROVE  \A v \in Workers \ {w} : worker'[v] = worker[v]
  BY <1>1, <1>4 DEF Count, Finalize, DbError, Leave, Rest
<1> QED
  BY <1>2, <1>3, <1>4 DEF Works, NotifyStep, RetryStep

\* A step changes one worker, or boots all of them.
LEMMA OneWorker ==
    ASSUME SafeInv, Next
    PROVE  \/ worker' = worker
           \/ Restart /\ worker' = [w \in Workers |-> Idle]
           \/ \E w \in Workers :
                 Works(w) /\ \A v \in Workers \ {w} : worker'[v] = worker[v]
<1>1. CASE IntakeStep \/ \E d \in Delivery : Publish(d)
  BY <1>1 DEF IntakeStep, IntakeError, CreateJob, RependJob, ResetJob, FinishEmptyJob,
              CommitDeliveries, AbandonPublish, Publish
<1>2. CASE RecoveryStep \/ RecoveryError \/ Cancel \/ Restart
  BY <1>2 DEF RecoveryStep, JobsRecovered, Release, Scan, PublishRecovered, AbandonRecovery,
              RecoveryError, Cancel, Restart
<1>3. NotifyWorkers \subseteq Workers /\ RetryWorkers \subseteq Workers
  BY DEF Workers
<1> QED
  BY <1>1, <1>2, <1>3, OthersKept DEF Next, FaultStep, Works

\* A worker has an email in flight from its claim until the outcome is stored.
LEMMA FlightMoves ==
    ASSUME SafeInv, Next, NEW w \in Workers, worker'[w].pc \in InFlight
    PROVE  /\ worker'[w].d = worker[w].d
           /\ \/ worker[w].pc \in InFlight
              \/ Writes(w) /\ worker[w].pc = "claim" /\ status'[worker[w].d] = "processing"
<1>0. worker \in [Workers -> WorkerState] /\ worker[w] \in WorkerState
  BY DEF SafeInv, TypeInv, TypeOK
<1>1. \A r : Becomes(w, r) => worker'[w] = r
  BY <1>0 DEF Becomes
<1>2. ~Rest(w)
  BY <1>1, IdleType DEF Rest, InFlight
<1>3. ~Leave(w)
  <2>1. [worker[w] EXCEPT !.pc = "bury", !.verdict = "none"].pc = "bury"
    BY <1>0 DEF WorkerState
  <2> QED
    BY <1>1, <1>2, <2>1 DEF Leave, InFlight
<1>4. CASE worker'[w] = worker[w]
  BY <1>4
<1>5. ~(Receive(w) \/ ReceiveRetry(w) \/ LoadRetry(w) \/ Bury(w) \/ PushRetry(w) \/ Abandon(w)
        \/ DbError(w) \/ Count(w) \/ Finalize(w))
  <2>1. \A d : At("claim", d, 0).pc = "claim" /\ At("load", d, 0).pc = "load"
    BY DEF At, Idle
  <2>2. \A n : /\ [worker[w] EXCEPT !.pc = "dlq", !.n = n].pc = "dlq"
               /\ [worker[w] EXCEPT !.pc = "claim", !.n = n].pc = "claim"
               /\ [worker[w] EXCEPT !.pc = "finalize", !.verdict = n].pc = "finalize"
    BY <1>0 DEF WorkerState
  <2>3. ~(Receive(w) \/ ReceiveRetry(w))
    BY <1>1, <2>1 DEF Receive, ReceiveRetry, InFlight
  <2>4. ~LoadRetry(w)
    BY <1>1, <2>2 DEF LoadRetry, InFlight
  <2>5. ~Count(w)
    BY <1>1, <1>3, <2>2 DEF Count, InFlight
  <2> QED
    BY <1>2, <1>3, <2>3, <2>4, <2>5 DEF Bury, PushRetry, Abandon, DbError, Finalize
<1>6. CASE Send(w)
  <2>1. \A pc : [worker[w] EXCEPT !.pc = pc].d = worker[w].d
    BY <1>0 DEF WorkerState
  <2> QED
    BY <1>1, <1>6, <2>1 DEF Send, Goto, InFlight
<1>7. CASE Writes(w)
  <2>1. \/ worker'[w].pc = "send" /\ worker'[w].d = worker[w].d /\ worker[w].pc = "claim"
              /\ status'[worker[w].d] = "processing"
        \/ worker'[w].pc \in {"push", "load", "count"}
    BY <1>2, <1>7, RowWritten
  <2> QED
    BY <1>7, <2>1 DEF InFlight
<1>8. ~(Restart /\ worker' = [v \in Workers |-> Idle])
  BY IdleType DEF InFlight
<1>9. worker'[w] = worker[w] \/ Works(w)
  BY <1>8, OneWorker
<1> QED
  BY <1>4, <1>5, <1>6, <1>7, <1>9 DEF Works, NotifyStep, RetryStep, Writes

LEMMA TriedStep ==
    ASSUME SafeInv, Tried, Next
    PROVE  Tried'
<1>0. /\ attempts \in [Delivery -> 0 .. MaxRetries + 1]
      /\ \A w \in Workers : worker[w].pc # "idle" => worker[w].d \in Delivery
      /\ MaxRetries \in Nat
  BY BoundAssumption DEF SafeInv, TypeInv, TypeOK, PlaceOK
<1>1. ASSUME NEW d \in Delivery
      PROVE  /\ attempts[d] <= attempts'[d]
             /\ status'[d] \in {"absent", "pending"} => attempts'[d] = 0
             /\ status'[d] = "processing" => attempts'[d] > 0 \/ status[d] = "processing"
  <2>1. ASSUME NEW j \in Jobs, NEW us \in SUBSET Users, CommitDeliveries(j, us)
        PROVE  /\ attempts'[d] = attempts[d]
               /\ status'[d] = status[d] \/ (status[d] = "absent" /\ status'[d] = "pending")
    <3>1. JobOf(d) = j => status[d] = "absent"
      BY <2>1 DEF CommitDeliveries, Rows
    <3>2. status'[d] = IF JobOf(d) = j /\ d[2] \in us THEN "pending" ELSE status[d]
      <4>1. status' = [e \in Delivery |->
                IF JobOf(e) = j /\ e[2] \in us THEN "pending" ELSE status[e]]
        BY <2>1 DEF CommitDeliveries
      <4> QED
        BY <4>1
    <3> QED
      BY <2>1, <3>1, <3>2 DEF CommitDeliveries
  <2>2. ASSUME Release
        PROVE  /\ attempts'[d] = attempts[d]
               /\ status'[d] = status[d] \/ (status'[d] = "retrying")
    BY <2>2 DEF Release
  <2>3. CASE attempts'[d] = attempts[d] /\ status'[d] = status[d]
    BY <1>0, <2>3 DEF Tried
  <2>4. ASSUME NEW w \in Workers, Writes(w), worker[w].d = d
        PROVE  \/ attempts'[d] = attempts[d] /\ status'[d] = status[d]
               \/ attempts'[d] = attempts[d] /\ status'[d] \in {"retrying", "success", "failed"}
               \/ attempts'[d] = 1 /\ status[d] = "pending" /\ status'[d] = "processing"
               \/ attempts'[d] = attempts[d] + 1 /\ status'[d] = "processing"
    BY <2>4, RowWritten DEF rows
  <2>5. ASSUME NEW w \in Workers, Writes(w), worker[w].d # d
        PROVE  attempts'[d] = attempts[d] /\ status'[d] = status[d]
    BY <2>5, RowWritten
  <2>6. attempts[d] \in Nat
    BY <1>0
  <2> QED
    BY <2>1, <2>2, <2>3, <2>4, <2>5, <2>6, RowsWritten DEF Tried, rows
<1>2. ASSUME NEW w \in Workers, worker'[w].pc \in InFlight
      PROVE  attempts'[worker'[w].d] > 0
  <2>1. worker'[w].d = worker[w].d /\ worker[w].d \in Delivery
    BY <1>0, <1>2, FlightMoves DEF InFlight
  <2>2. CASE worker[w].pc \in InFlight
    <3>1. attempts[worker[w].d] > 0 /\ attempts[worker[w].d] \in Nat /\ attempts'[worker[w].d] \in Nat
      <4>1. TypeInv'
        BY NextType DEF SafeInv
      <4> QED
        BY <1>0, <2>1, <2>2, <4>1 DEF Tried, TypeInv, TypeOK
    <3> QED
      BY <1>1, <2>1, <3>1
  <2>3. CASE Writes(w) /\ worker[w].pc = "claim" /\ status'[worker[w].d] = "processing"
    <3>1. worker'[w] # Idle
      BY <1>2, IdleType DEF InFlight
    <3>2. ~Rest(w)
      BY <3>1 DEF Rest, Becomes, SafeInv, TypeInv, TypeOK
    <3>3. \/ attempts'[worker[w].d] = 1
          \/ attempts'[worker[w].d] = attempts[worker[w].d] + 1
      BY <2>1, <2>3, <3>2, RowWritten
    <3> QED
      BY <1>0, <2>1, <3>3
  <2> QED
    BY <1>2, <2>2, <2>3, FlightMoves
<1> QED
  BY <1>1, <1>2 DEF Tried

LEMMA AcceptedWritten ==
    ASSUME Next
    PROVE  accepted' = accepted \/ \E w \in Workers : Send(w)
<1> USE DEF durable
<1>1. CASE IntakeStep \/ \E d \in Delivery : Publish(d)
  BY <1>1 DEF IntakeStep, IntakeError, CreateJob, RependJob, ResetJob, FinishEmptyJob,
              CommitDeliveries, AbandonPublish, Publish
<1>2. ASSUME NEW w \in Workers, Count(w) \/ Finalize(w) \/ Abandon(w) \/ DbError(w)
      PROVE  accepted' = accepted
  BY <1>2 DEF Count, Finalize, Abandon, DbError
<1>3. ASSUME NEW w \in NotifyWorkers, NotifyStep(w) PROVE accepted' = accepted \/ Send(w)
  BY <1>2, <1>3 DEF NotifyStep, Receive, Claim, NotifyFailed, NotifySucceeded, PushRetry, Workers
<1>4. ASSUME NEW w \in RetryWorkers, RetryStep(w) PROVE accepted' = accepted \/ Send(w)
  BY <1>2, <1>4 DEF RetryStep, ReceiveRetry, LoadRetry, ClaimRetry, RetryFailed, RetrySucceeded,
                    MoveToDLQ, Bury, Workers
<1>5. CASE RecoveryStep \/ FaultStep
  BY <1>2, <1>5 DEF RecoveryStep, FaultStep, JobsRecovered, Release, Scan, PublishRecovered,
                    AbandonRecovery, RecoveryError, Cancel, Restart
<1> QED
  BY <1>1, <1>3, <1>4, <1>5 DEF Next, Workers

\* How the contract sees a row.
LEMMA OutcomeIs ==
    ASSUME NEW d \in Delivery
    PROVE  /\ Outcome[d] = CASE status[d] = "absent"  -> "none"
                             [] status[d] = "success" -> "delivered"
                             [] status[d] = "failed"  -> "dead"
                             [] OTHER                 -> "open"
           /\ Outcome'[d] = CASE status'[d] = "absent"  -> "none"
                              [] status'[d] = "success" -> "delivered"
                              [] status'[d] = "failed"  -> "dead"
                              [] OTHER                  -> "open"
BY DEF Outcome

LEMMA OutcomeKept ==
    ASSUME \A d \in Delivery : status'[d] = status[d]
                               \/ (status[d] \in Open /\ status'[d] \in Open)
    PROVE  Outcome' = Outcome
<1>1. \A d \in Delivery : Outcome'[d] = Outcome[d]
  BY OutcomeIs DEF Open
<1> QED
  BY <1>1 DEF Outcome

\* A worker that writes a row tries, delivers or gives up, or the contract sees
\* nothing.
LEMMA WriteKeepsContract ==
    ASSUME SafeInv, Tried, NEW w \in Workers, Writes(w)
    PROVE  \/ Contract!Try(worker[w].d) \/ Contract!Deliver(worker[w].d)
           \/ Contract!GiveUp(worker[w].d)
           \/ UNCHANGED <<Outcome, attempts, accepted, deadLetters>>
<1> DEFINE d == worker[w].d
<1>0. /\ d \in Delivery
      /\ \A e \in Delivery \ {d} : /\ status'[e] = status[e] /\ attempts'[e] = attempts[e]
                                  /\ deadLetters'[e] = deadLetters[e]
      /\ accepted' = accepted
  BY RowWritten
<1>1. /\ attempts \in [Delivery -> 0 .. MaxRetries + 1] /\ deadLetters \in [Delivery -> Nat]
      /\ attempts' \in [Delivery -> 0 .. MaxRetries + 1] /\ deadLetters' \in [Delivery -> Nat]
      /\ MaxRetries \in Nat
  <2>1. TypeInv'
    <3>1. Next
      BY DEF Writes, Next, NotifyStep, RetryStep
    <3> QED
      BY <3>1, NextType DEF SafeInv
  <2> QED
    BY <2>1, BoundAssumption DEF SafeInv, TypeInv, TypeOK
<1>2. CASE UNCHANGED rows
  <2>1. Outcome' = Outcome
    BY <1>2, OutcomeKept DEF rows
  <2> QED
    BY <1>0, <1>2, <2>1 DEF rows
<1>3. CASE /\ status[d] \in {"pending", "retrying"} /\ status'[d] = "processing"
           /\ attempts[d] <= MaxRetries /\ attempts'[d] = attempts[d] + 1
           /\ deadLetters' = deadLetters
  <2>1. Outcome' = Outcome
    BY <1>0, <1>3, OutcomeKept DEF Open
  <2>2. Outcome[d] = "open" /\ attempts[d] < MaxRetries + 1
    BY <1>0, <1>1, <1>3, OutcomeIs
  <2>3. attempts' = [attempts EXCEPT ![d] = attempts[d] + 1]
    BY <1>0, <1>1, <1>3
  <2> QED
    BY <1>0, <1>3, <2>1, <2>2, <2>3 DEF Contract!Try
<1>4. CASE status[d] = "processing" /\ status'[d] = "retrying" /\ UNCHANGED <<attempts, deadLetters>>
  BY <1>0, <1>4, OutcomeKept DEF Open
<1>5. ASSUME NEW s, Outcome'[d] = s, \A e \in Delivery \ {d} : Outcome'[e] = Outcome[e]
      PROVE  Outcome' = [Outcome EXCEPT ![d] = s]
  <2>1. /\ Outcome = [e \in Delivery |-> Outcome[e]]
        /\ Outcome' = [e \in Delivery |-> Outcome'[e]]
    BY DEF Outcome
  <2>2. [Outcome EXCEPT ![d] = s] = [e \in Delivery |-> IF e = d THEN s ELSE Outcome[e]]
    BY <2>1
  <2>3. \A e \in Delivery : Outcome'[e] = IF e = d THEN s ELSE Outcome[e]
    BY <1>0, <1>5
  <2> QED
    BY <2>1, <2>2, <2>3
<1>6. \A e \in Delivery \ {d} : Outcome'[e] = Outcome[e]
  BY <1>0, OutcomeIs
<1>7. CASE /\ status[d] = "processing" /\ status'[d] = "success" /\ d \in accepted
           /\ UNCHANGED <<attempts, deadLetters>>
  <2>1. Outcome[d] = "open" /\ Outcome'[d] = "delivered"
    BY <1>0, <1>7, OutcomeIs
  <2> QED
    BY <1>0, <1>5, <1>6, <1>7, <2>1 DEF Contract!Deliver
<1>8. CASE /\ status[d] = "retrying" /\ status'[d] = "failed" /\ attempts' = attempts
           /\ attempts[d] = MaxRetries + 1 /\ deadLetters'[d] = deadLetters[d] + 1
  <2>1. Outcome[d] = "open" /\ Outcome'[d] = "dead"
    BY <1>0, <1>8, OutcomeIs
  <2>2. deadLetters' = [deadLetters EXCEPT ![d] = deadLetters[d] + 1]
    BY <1>0, <1>1, <1>8
  <2> QED
    BY <1>0, <1>5, <1>6, <1>8, <2>1, <2>2 DEF Contract!GiveUp
<1>9. status[d] = "pending" => attempts[d] = 0
  BY <1>0 DEF Tried
<1> QED
  BY <1>0, <1>1, <1>2, <1>3, <1>4, <1>7, <1>8, <1>9, RowWritten

LEMMA ContractStep ==
    ASSUME SafeInv, Tried, [Next]_vars
    PROVE  [Contract!Next]_(Contract!contractVars)
<1> SUFFICES Contract!Next \/ UNCHANGED <<Outcome, attempts, accepted, deadLetters>>
  BY DEF Contract!contractVars
<1>1. CASE UNCHANGED <<rows, accepted>>
  BY <1>1, OutcomeKept DEF rows
<1>2. ASSUME NEW w \in Workers, Send(w)
      PROVE  \/ UNCHANGED <<rows, accepted>>
             \/ Contract!Accept(worker[w].d) /\ worker[w].d \in Delivery
  <2>1. worker[w].d \in Delivery /\ attempts[worker[w].d] > 0
    BY <1>2 DEF Send, SafeInv, TypeInv, PlaceOK, Tried, InFlight
  <2>2. Outcome' = Outcome
    BY <1>2, OutcomeKept DEF Send, rows
  <2> QED
    BY <1>2, <2>1, <2>2 DEF Send, rows, Contract!Accept
<1>3. ASSUME NEW j \in Jobs, NEW us \in SUBSET Users, CommitDeliveries(j, us)
      PROVE  \E ds \in SUBSET Delivery : Contract!Create(ds)
  <2> DEFINE ds == {d \in Delivery : JobOf(d) = j /\ d[2] \in us}
  <2>1. status' = [d \in Delivery |-> IF d \in ds THEN "pending" ELSE status[d]]
    BY <1>3 DEF CommitDeliveries
  <2>2. \A d \in ds : status[d] = "absent"
    BY <1>3 DEF CommitDeliveries, Rows
  <2> HIDE DEF ds
  <2>3. ds \in SUBSET Delivery
    BY DEF ds
  <2>4. \A d \in ds : Outcome[d] = "none"
    BY <2>2, <2>3, OutcomeIs
  <2>5. \A d \in Delivery : Outcome'[d] = IF d \in ds THEN "open" ELSE Outcome[d]
    <3> TAKE d \in Delivery
    <3>1. status'[d] = IF d \in ds THEN "pending" ELSE status[d]
      BY <2>1
    <3> QED
      BY <3>1, OutcomeIs
  <2>6. Outcome' = [d \in Delivery |-> IF d \in ds THEN "open" ELSE Outcome[d]]
    BY <2>5 DEF Outcome
  <2> QED
    BY <1>3, <2>3, <2>4, <2>6 DEF CommitDeliveries, Contract!Create
<1>4. CASE Release
  <2>1. \A d \in Delivery : status'[d] = status[d]
                            \/ (status[d] = "processing" /\ status'[d] = "retrying")
    BY <1>4 DEF Release, Interrupted
  <2>2. Outcome' = Outcome
    BY <2>1, OutcomeKept DEF Open
  <2> QED
    BY <1>4, <2>2 DEF Release
<1>5. ASSUME NEW w \in Workers, Writes(w)
      PROVE  Contract!Next \/ UNCHANGED <<Outcome, attempts, accepted, deadLetters>>
  BY <1>5, WriteKeepsContract, RowWritten DEF Contract!Next
<1>6. CASE UNCHANGED vars
  BY <1>1, <1>6 DEF vars, durable
<1> QED
  BY <1>1, <1>2, <1>3, <1>4, <1>5, <1>6, RowsWritten, AcceptedWritten DEF Contract!Next

LEMMA ContractInit == Init => Contract!Init
<1> SUFFICES ASSUME Init PROVE Contract!Init
  OBVIOUS
<1>1. Outcome = [d \in Delivery |-> "none"]
  BY DEF Init, Outcome
<1> QED
  BY <1>1 DEF Init, Contract!Init

LEMMA TriedCorrect == Spec => [](SafeInv /\ Tried)
<1>1. Init => Tried
  BY DEF Init, Tried, Idle, InFlight, Workers
<1>2. SafeInv /\ Tried /\ [Next]_vars => Tried'
  <2>1. SafeInv /\ Tried /\ UNCHANGED vars => Tried'
    BY DEF Tried, vars, durable, rows
  <2> QED
    BY <2>1, TriedStep
<1> QED
  BY <1>1, <1>2, InitSafe, NextSafe, PTL DEF Spec

\* Claims, outcomes, the dead letter transaction and the release at start-up
\* implement, over all restarts, the contract of one email per user
\* (emailNotification.go, retryFailedNotification.go, recoverNotificationDeliveries.go).
THEOREM KeepsContractHolds == Spec => KeepsContract
<1>1. SafeInv /\ Tried /\ [Next]_vars => [Contract!Next]_(Contract!contractVars)
  BY ContractStep
<1> QED
  BY <1>1, ContractInit, TriedCorrect, PTL DEF Spec, KeepsContract, Contract!Spec

-----------------------------------------------------------------------------
(* No unfinished row without a wake-up                                      *)

InQueue(q, d) == \E i \in DOMAIN q : q[i] = d

\* Worker w holds delivery d: it will claim it, store its outcome, or pass it
\* on, and the row is still as w needs it.
Holds(w, d) ==
    /\ worker[w].d = d
    /\ \/ status[d] = "pending" /\ w \in NotifyWorkers /\ worker[w].pc = "claim"
       \/ status[d] = "processing" /\ CanStore(w, d)
       \/ status[d] = "retrying" /\ w \in NotifyWorkers /\ worker[w].pc = "push"
       \/ /\ status[d] = "retrying" /\ w \in RetryWorkers
          /\ \/ worker[w].pc = "load"
             \/ worker[w].pc \in {"claim", "dlq"} /\ worker[w].n = attempts[d]

\* Delivery d needs no worker: a wake-up exists or recovery will send one.
Awaited(d) ==
    \/ status[d] \in {"absent"} \cup Closed
    \/ status[d] = "pending" /\ (d \in outbox \/ InQueue(deliveryCh, d))
    \/ status[d] = "retrying" /\ InQueue(retryCh, d)
    \/ status[d] \in {"pending", "retrying"}
         /\ (<<d, status[d]>> \in rec.todo \/ rec.pc \in {"jobs", "release", "scan"})
    \/ status[d] = "processing" /\ rec.pc \in {"jobs", "release"}

\* The two promises as one: while the context lives every row is covered, and
\* a row in processing is covered even when it does not.
CoverInv ==
    \A d \in Delivery \ dropped : ctx = "live" \/ status[d] = "processing" => Covered(d)

\* A row is covered when it is awaited or held.
CoverMeans ==
    TypeInv => \A d \in Delivery : Covered(d) <=> Awaited(d) \/ \E w \in Workers : Holds(w, d)

LEMMA CoveredWho == CoverMeans
<1> SUFFICES ASSUME TypeInv, NEW d \in Delivery
             PROVE  Covered(d) <=> Awaited(d) \/ \E w \in Workers : Holds(w, d)
  BY DEF CoverMeans
<1>0. status[d] \in {"absent"} \cup Open \cup Closed
  BY DEF TypeInv, TypeOK
<1>1. CASE status[d] = "pending"
  BY <1>1 DEF Covered, Awaited, Holds, InQueue, Closed, Workers
<1>2. CASE status[d] = "processing"
  BY <1>2 DEF Covered, Awaited, Holds, Closed, Workers, CanStore, Attempting
<1>3. CASE status[d] = "retrying"
  BY <1>3 DEF Covered, Awaited, Holds, InQueue, Closed, Workers
<1>4. CASE status[d] \in {"absent"} \cup Closed
  BY <1>4 DEF Covered, Awaited, Closed
<1> QED
  BY <1>0, <1>1, <1>2, <1>3, <1>4 DEF Open

LEMMA CoveredWhoNext == CoverMeans'
  BY CoveredWho, PTL

\* A worker's hold on a row lasts while neither of the two changes.
LEMMA HoldKept ==
    ASSUME NEW d \in Delivery, NEW v \in Workers, Holds(v, d), worker'[v] = worker[v],
           status'[d] = status[d], attempts'[d] = attempts[d]
    PROVE  Holds(v, d)'
  BY DEF Holds, CanStore, Attempting

\* A wake-up lasts while its row, the outbox, the channels and recovery do.
LEMMA AwaitKept ==
    ASSUME NEW d \in Delivery, Awaited(d), status'[d] = status[d],
           UNCHANGED <<outbox, deliveryCh, retryCh, rec>>
    PROVE  Awaited(d)'
  BY DEF Awaited, InQueue

LEMMA SendKeepsQueue ==
    ASSUME NEW q \in Seq(Delivery), NEW e \in Delivery, NEW d
    PROVE  InQueue(Append(q, e), d) <=> InQueue(q, d) \/ d = e
<1>1. /\ Len(Append(q, e)) = Len(q) + 1 /\ Len(q) \in Nat
      /\ DOMAIN Append(q, e) = 1 .. Len(q) + 1 /\ DOMAIN q = 1 .. Len(q)
      /\ \A i \in 1 .. Len(q) : Append(q, e)[i] = q[i]
      /\ Append(q, e)[Len(q) + 1] = e
  BY AppendProperties, LenProperties
<1>2. \A i \in 1 .. Len(q) + 1 : i \in 1 .. Len(q) \/ i = Len(q) + 1
  BY <1>1
<1>3. 1 .. Len(q) \subseteq 1 .. Len(q) + 1 /\ Len(q) + 1 \in 1 .. Len(q) + 1
  BY <1>1
<1> QED
  BY <1>1, <1>2, <1>3 DEF InQueue

LEMMA ReceiveKeepsQueue ==
    ASSUME NEW q \in Seq(Delivery), q # <<>>, NEW d, InQueue(q, d)
    PROVE  d = Head(q) \/ InQueue(Tail(q), d)
<1>1. /\ Len(q) \in Nat \ {0} /\ DOMAIN q = 1 .. Len(q) /\ Head(q) = q[1]
      /\ Len(Tail(q)) = Len(q) - 1 /\ DOMAIN Tail(q) = 1 .. Len(q) - 1
      /\ \A i \in 1 .. Len(q) - 1 : Tail(q)[i] = q[i + 1]
  BY HeadTailProperties, LenProperties, EmptySeq
<1>2. PICK i \in 1 .. Len(q) : q[i] = d
  BY <1>1 DEF InQueue
<1>3. i = 1 \/ (i - 1 \in 1 .. Len(q) - 1 /\ (i - 1) + 1 = i)
  BY <1>1
<1> QED
  BY <1>1, <1>2, <1>3 DEF InQueue

\* A row whose status and attempts stand stays covered if a wake-up that
\* disappears, and a worker that moves, leave it covered.
LEMMA CoverKept ==
    ASSUME TypeInv, TypeInv', NEW d \in Delivery, Covered(d),
           status'[d] = status[d], attempts'[d] = attempts[d],
           Awaited(d) => Awaited(d)' \/ \E w \in Workers : Holds(w, d)',
           \A v \in Workers : Holds(v, d) => \/ worker'[v] = worker[v]
                                             \/ Awaited(d)' \/ \E w \in Workers : Holds(w, d)'
    PROVE  Covered(d)'
  BY CoveredWho, CoveredWhoNext, HoldKept DEF CoverMeans

\* What the intake half does: new rows come with a wake-up in the outbox, and
\* a wake-up leaves the outbox for the channel, or once the context is cancelled.
LEMMA IntakeKeepsCover ==
    ASSUME TypeInv, TypeInv', CoverInv, IntakeStep \/ \E d \in Delivery : Publish(d)
    PROVE  CoverInv'
<1> SUFFICES ASSUME NEW d \in Delivery \ dropped', ctx' = "live" \/ status'[d] = "processing"
             PROVE  Covered(d)'
  BY DEF CoverInv
<1>0. worker' = worker /\ attempts' = attempts /\ dropped' = dropped /\ ctx' = ctx /\ rec' = rec
      /\ retryCh' = retryCh
  BY DEF IntakeStep, IntakeError, CreateJob, RependJob, ResetJob, FinishEmptyJob, AbandonPublish,
         CommitDeliveries, Publish, durable, rows, queues, bounds
<1>1. ASSUME status'[d] = status[d], Awaited(d) => Awaited(d)'
      PROVE  Covered(d)'
  <2>1. Covered(d)
    BY <1>0, <1>1 DEF CoverInv
  <2> QED
    BY <1>0, <1>1, <2>1, CoverKept
<1>2. CASE UNCHANGED <<status, outbox, deliveryCh>>
  BY <1>0, <1>1, <1>2, AwaitKept
<1>3. ASSUME NEW j \in Jobs, AbandonPublish(j)
      PROVE  Covered(d)'
  <2>1. status' = status /\ ctx = "cancelled"
    BY <1>3 DEF AbandonPublish, durable, rows
  <2>2. Awaited(d) => Awaited(d)'
    BY <1>0, <2>1 DEF Awaited, Closed
  <2> QED
    BY <1>1, <2>1, <2>2
<1>4. ASSUME NEW j \in Jobs, NEW us \in SUBSET Users, CommitDeliveries(j, us)
      PROVE  Covered(d)'
  <2>1. /\ status'[d] = IF JobOf(d) = j /\ d[2] \in us THEN "pending" ELSE status[d]
        /\ outbox' = outbox \cup ({j} \X us) /\ deliveryCh' = deliveryCh
    BY <1>4 DEF CommitDeliveries, queues
  <2>2. CASE JobOf(d) = j /\ d[2] \in us
    <3>1. d \in outbox'
      BY <2>1, <2>2 DEF JobOf, Delivery
    <3>2. Awaited(d)'
      BY <2>1, <2>2, <3>1 DEF Awaited
    <3> QED
      BY <3>2, CoveredWhoNext DEF CoverMeans
  <2>3. CASE ~(JobOf(d) = j /\ d[2] \in us)
    <3>1. Awaited(d) => Awaited(d)'
      BY <1>0, <2>1, <2>3 DEF Awaited, InQueue
    <3> QED
      BY <1>1, <2>1, <2>3, <3>1
  <2> QED
    BY <2>2, <2>3
<1>5. ASSUME NEW e \in Delivery, Publish(e)
      PROVE  Covered(d)'
  <2>1. /\ status' = status /\ deliveryCh' = Append(deliveryCh, e) /\ outbox' = outbox \ {e}
        /\ deliveryCh \in Seq(Delivery)
    BY <1>5 DEF Publish, durable, rows, TypeInv, TypeOK
  <2>2. d \in outbox \/ InQueue(deliveryCh, d) => d \in outbox' \/ InQueue(deliveryCh', d)
    BY <2>1, SendKeepsQueue
  <2>3. Awaited(d) => Awaited(d)'
    <3>1. InQueue(deliveryCh, d)' <=> InQueue(deliveryCh', d)
      BY DEF InQueue
    <3>2. InQueue(retryCh, d)' <=> InQueue(retryCh, d)
      BY <1>0 DEF InQueue
    <3> QED
      BY <1>0, <2>1, <2>2, <3>1, <3>2 DEF Awaited
  <2> QED
    BY <1>1, <2>1, <2>3
<1> QED
  BY <1>2, <1>3, <1>4, <1>5
     DEF IntakeStep, IntakeError, CreateJob, RependJob, ResetJob, FinishEmptyJob,
         durable, rows, queues

\* Start-up recovery: release, scan and publish pass a row on from one to the
\* next; a failed recovery drops the rows it leaves behind, a restart starts it.
LEMMA RecoveryKeepsCover ==
    ASSUME TypeInv, TypeInv', CoverInv, RecoveryStep \/ RecoveryError \/ Cancel \/ Restart
    PROVE  CoverInv'
<1> SUFFICES ASSUME NEW d \in Delivery \ dropped', ctx' = "live" \/ status'[d] = "processing"
             PROVE  Covered(d)'
  BY DEF CoverInv
<1>0. /\ status[d] \in {"absent"} \cup Open \cup Closed
      /\ deliveryCh \in Seq(Delivery) /\ retryCh \in Seq(Delivery)
      /\ rec.pc = "publish" => rec.at[1] \in Delivery
  BY DEF TypeInv, TypeOK, PlaceOK, Message
<1>1. ASSUME Awaited(d)' PROVE Covered(d)'
  BY <1>1, CoveredWhoNext DEF CoverMeans
<1>2. ASSUME UNCHANGED <<worker, status, attempts, dropped, ctx>>, Awaited(d) => Awaited(d)'
      PROVE  Covered(d)'
  <2>1. Covered(d)
    BY <1>2 DEF CoverInv
  <2> QED
    BY <1>2, <2>1, CoverKept
<1>3. CASE JobsRecovered
  <2>1. rec'.pc = "release"
    BY <1>3 DEF JobsRecovered, Recovery
  <2>2. Awaited(d)'
    BY <1>0, <1>3, <2>1 DEF JobsRecovered, Awaited, Open, Closed, durable, rows
  <2> QED
    BY <1>1, <2>2
<1>4. CASE Release
  <2>1. rec'.pc = "scan"
    BY <1>4 DEF Release, Recovery
  <2>2. status'[d] \in {"absent", "pending", "retrying"} \cup Closed
    BY <1>0, <1>4 DEF Release, Interrupted, Open
  <2>3. Awaited(d)'
    BY <2>1, <2>2 DEF Awaited, Closed
  <2> QED
    BY <1>1, <2>3
<1>5. CASE Scan
  <2> DEFINE todo == {<<e, status[e]>> : e \in {e \in Delivery : Recoverable(e)}}
  <2>1. rec.pc = "scan" /\ PublishRest(todo) /\ status' = status
        /\ UNCHANGED <<worker, attempts, dropped, ctx, deliveryCh, retryCh, outbox>>
    BY <1>5 DEF Scan, durable, rows, queues, bounds
  <2>2. rec'.todo = todo
    BY <2>1 DEF PublishRest, Recovery
  <2>3. status[d] \in {"pending", "retrying"} => <<d, status[d]>> \in todo
    BY DEF Recoverable
  <2> HIDE DEF todo
  <2>4. Awaited(d) => Awaited(d)'
    BY <2>1, <2>2, <2>3 DEF Awaited, InQueue
  <2> QED
    BY <1>2, <2>1, <2>4
<1>6. CASE PublishRecovered
  <2>1. /\ UNCHANGED <<worker, status, attempts, dropped, ctx, outbox>> /\ rec.pc = "publish"
        /\ \/ rec.at[2] = "pending" /\ deliveryCh' = Append(deliveryCh, rec.at[1])
              /\ retryCh' = retryCh
           \/ rec.at[2] = "retrying" /\ retryCh' = Append(retryCh, rec.at[1])
              /\ deliveryCh' = deliveryCh
        /\ PublishRest(rec.todo \ {rec.at})
    BY <1>6 DEF PublishRecovered, durable, rows, bounds
  <2>2. rec'.todo = rec.todo \ {rec.at}
    BY <2>1 DEF PublishRest, Recovery
  <2>3. /\ InQueue(deliveryCh, d) => InQueue(deliveryCh', d)
        /\ InQueue(retryCh, d) => InQueue(retryCh', d)
        /\ rec.at = <<d, "pending">> => InQueue(deliveryCh', d)
        /\ rec.at = <<d, "retrying">> => InQueue(retryCh', d)
    <3>1. CASE deliveryCh' = Append(deliveryCh, rec.at[1]) /\ retryCh' = retryCh
               /\ rec.at[2] = "pending"
      BY <1>0, <2>1, <3>1, SendKeepsQueue
    <3>2. CASE retryCh' = Append(retryCh, rec.at[1]) /\ deliveryCh' = deliveryCh
               /\ rec.at[2] = "retrying"
      BY <1>0, <2>1, <3>2, SendKeepsQueue
    <3> QED
      BY <2>1, <3>1, <3>2
  <2>4. /\ InQueue(deliveryCh, d)' <=> InQueue(deliveryCh', d)
        /\ InQueue(retryCh, d)' <=> InQueue(retryCh', d)
    BY DEF InQueue
  <2>5. <<d, status[d]>> \in rec.todo =>
            rec.at = <<d, status[d]>> \/ <<d, status[d]>> \in rec'.todo
    BY <2>2
  <2>6. Awaited(d) => Awaited(d)'
    BY <2>1, <2>3, <2>4, <2>5 DEF Awaited
  <2> QED
    BY <1>2, <2>1, <2>6
<1>7. CASE AbandonRecovery
  <2>1. /\ UNCHANGED <<worker, status, attempts, dropped, ctx>> /\ ctx = "cancelled"
        /\ rec.pc = "publish"
    BY <1>7 DEF AbandonRecovery, durable, rows, bounds
  <2>2. ~Awaited(d)
    BY <2>1 DEF Awaited, Closed
  <2> QED
    BY <1>2, <2>1, <2>2
<1>8. CASE RecoveryError
  BY <1>1, <1>8 DEF RecoveryError, Awaited, durable, rows
<1>9. CASE Cancel
  <2>1. UNCHANGED <<worker, status, attempts, dropped, outbox, deliveryCh, retryCh, rec>>
        /\ ctx = "live"
    BY <1>9 DEF Cancel, durable, rows, queues
  <2>2. Covered(d)
    BY <2>1 DEF CoverInv
  <2> QED
    BY <2>1, <2>2, AwaitKept, CoverKept
<1>10. CASE Restart
  <2>1. rec'.pc = "jobs" /\ status' = status
    BY <1>10 DEF Restart, Recovery, durable, rows
  <2>2. Awaited(d)'
    BY <1>0, <2>1 DEF Awaited, Open, Closed
  <2> QED
    BY <1>1, <2>2
<1> QED
  BY <1>3, <1>4, <1>5, <1>6, <1>7, <1>8, <1>9, <1>10 DEF RecoveryStep

\* What a worker writes leaves the row closed, or in the hands of that worker;
\* a worker that finds nothing to write had no hold on the row.
LEMMA WriteKeepsCover ==
    ASSUME SafeInv, TypeInv', CoverInv, NEW w \in Workers, Writes(w)
    PROVE  CoverInv'
<1> SUFFICES ASSUME NEW d, d = worker[w].d PROVE CoverInv'
  OBVIOUS
<1>0. /\ TypeInv /\ d \in Delivery
      /\ UNCHANGED <<queues, rec, outbox, ctx, dropped>>
      /\ \A v \in Workers \ {w} : worker'[v] = worker[v]
  <2>1. Works(w)
    BY DEF Writes, Works, NotifyStep, RetryStep
  <2> QED
    BY <2>1, OthersKept, RowWritten
       DEF SafeInv, Writes, Claim, NotifyFailed, NotifySucceeded, ClaimRetry, RetryFailed,
           RetrySucceeded, MoveToDLQ, bounds
<1>1. ASSUME NEW e \in Delivery \ dropped', ctx' = "live" \/ status'[e] = "processing",
             status'[e] = status[e], attempts'[e] = attempts[e], ~Holds(w, e)
      PROVE  Covered(e)'
  <2>1. Covered(e)
    BY <1>0, <1>1 DEF CoverInv
  <2>2. Awaited(e) => Awaited(e)'
    BY <1>0, <1>1, AwaitKept DEF queues
  <2>3. \A v \in Workers : Holds(v, e) => worker'[v] = worker[v]
    BY <1>0, <1>1
  <2> QED
    BY <1>0, <1>1, <2>1, <2>2, <2>3, CoverKept
<1>2. CASE UNCHANGED rows /\ Rest(w)
  <2>1. status' = status /\ attempts' = attempts
    BY <1>2 DEF rows
  <2>2. \A s : Stored(d, s) => status'[d] = s
    BY <1>0 DEF Stored, TypeInv, TypeOK
  <2>3. w \in NotifyWorkers => w \notin RetryWorkers
    BY WorkerAssumption
  <2>4. ~Holds(w, d)
    <3>1. CASE w \in NotifyWorkers /\ Claim(w)
      BY <2>1, <2>2, <2>3, <3>1 DEF Claim, NotifyClaimable, Holds, CanStore, Attempting, InFlight
    <3>2. CASE w \in NotifyWorkers /\ (NotifyFailed(w) \/ NotifySucceeded(w))
      BY <2>1, <2>2, <2>3, <3>2 DEF NotifyFailed, NotifySucceeded, NotifyOwns, Holds
    <3>3. CASE w \in RetryWorkers /\ (ClaimRetry(w) \/ MoveToDLQ(w))
      BY <2>1, <2>2, <2>3, <3>3
         DEF ClaimRetry, MoveToDLQ, StillAsLoaded, Holds, CanStore, Attempting, InFlight
    <3>4. CASE w \in RetryWorkers /\ (RetryFailed(w) \/ RetrySucceeded(w))
      BY <2>1, <2>2, <2>3, <3>4
         DEF RetryFailed, RetrySucceeded, RetryOwns, Holds, CanStore, Attempting
    <3> QED
      BY <3>1, <3>2, <3>3, <3>4 DEF Writes
  <2>5. \A e \in Delivery : ~Holds(w, e)
    BY <2>4 DEF Holds
  <2> QED
    BY <1>1, <2>1, <2>5 DEF CoverInv
<1>3. CASE ~(UNCHANGED rows /\ Rest(w))
  <2>1. Covered(d)'
    <3>1. \/ /\ status'[d] = "processing" /\ worker'[w].d = d /\ worker'[w].pc = "send"
             /\ w \in RetryWorkers => worker'[w].n = attempts'[d]
          \/ /\ status'[d] = "retrying" /\ worker'[w].d = d
             /\ worker'[w].pc = IF w \in NotifyWorkers THEN "push" ELSE "load"
          \/ status'[d] \in Closed
      BY <1>3, RowWritten, WorkerAssumption DEF Closed
    <3>2. Awaited(d)' \/ Holds(w, d)'
      BY <3>1 DEF Awaited, Closed, Holds, CanStore, Attempting, InFlight, Workers
    <3> QED
      BY <1>0, <3>2, CoveredWhoNext DEF CoverMeans
  <2>2. ASSUME NEW e \in Delivery \ {d}
        PROVE  status'[e] = status[e] /\ attempts'[e] = attempts[e] /\ ~Holds(w, e)
    BY <2>2, RowWritten DEF Holds
  <2> QED
    BY <1>1, <2>1, <2>2 DEF CoverInv
<1> QED
  BY <1>2, <1>3

\* A step of a worker that writes no row: it takes over a wake-up, passes it
\* on, keeps it, or drops it after an error or a cancellation.
LEMMA MoveKeepsCover ==
    ASSUME SafeInv, TypeInv', CoverInv, NEW w \in Workers, Works(w), ~Writes(w)
    PROVE  CoverInv'
<1> SUFFICES ASSUME NEW d \in Delivery \ dropped', ctx' = "live" \/ status'[d] = "processing"
             PROVE  Covered(d)'
  BY DEF CoverInv
<1>0. /\ TypeInv /\ worker \in [Workers -> WorkerState] /\ worker[w] \in WorkerState
      /\ deliveryCh \in Seq(Delivery) /\ retryCh \in Seq(Delivery)
      /\ w \in NotifyWorkers => w \notin RetryWorkers
  BY WorkerAssumption DEF SafeInv, TypeInv, TypeOK
<1>1. \A r : Becomes(w, r) => worker'[w] = r
  BY <1>0 DEF Becomes
<1>2. \/ w \in NotifyWorkers /\ (Receive(w) \/ PushRetry(w))
      \/ w \in RetryWorkers /\ (ReceiveRetry(w) \/ LoadRetry(w) \/ Bury(w))
      \/ Send(w) \/ Count(w) \/ Finalize(w) \/ Abandon(w) \/ DbError(w)
  BY DEF Works, Writes, NotifyStep, RetryStep
<1>3. UNCHANGED <<status, attempts, rec, outbox, ctx>> /\ dropped \subseteq dropped'
  BY <1>2 DEF Receive, PushRetry, ReceiveRetry, LoadRetry, Bury, Send, Count, Finalize, Abandon,
              DbError, durable, rows, bounds
<1>4. ASSUME Awaited(d) => Awaited(d)' \/ Holds(w, d)',
             Holds(w, d) => Awaited(d)' \/ Holds(w, d)'
      PROVE  Covered(d)'
  <2>1. Covered(d)
    BY <1>3 DEF CoverInv
  <2>2. \A v \in Workers : Holds(v, d) =>
            worker'[v] = worker[v] \/ Awaited(d)' \/ \E u \in Workers : Holds(u, d)'
    BY <1>4, OthersKept
  <2> QED
    BY <1>0, <1>3, <1>4, <2>1, <2>2, CoverKept
<1>5. UNCHANGED <<deliveryCh, retryCh>> => (Awaited(d) => Awaited(d)')
  BY <1>3, AwaitKept
<1>6. /\ InQueue(deliveryCh, d)' <=> InQueue(deliveryCh', d)
      /\ InQueue(retryCh, d)' <=> InQueue(retryCh', d)
  BY DEF InQueue
<1>7. CASE w \in NotifyWorkers /\ Receive(w)
  <2> DEFINE h == Head(deliveryCh)
  <2>1. worker'[w] = At("claim", h, 0) /\ deliveryCh' = Tail(deliveryCh) /\ deliveryCh # <<>>
        /\ retryCh' = retryCh /\ worker[w].pc = "idle"
    BY <1>1, <1>7 DEF Receive
  <2>2. worker'[w].pc = "claim" /\ worker'[w].d = h
    BY <2>1 DEF At, Idle
  <2>3. InQueue(deliveryCh, d) => d = h \/ InQueue(deliveryCh', d)
    BY <1>0, <2>1, ReceiveKeepsQueue
  <2> HIDE DEF h
  <2>4. Awaited(d) => Awaited(d)' \/ Holds(w, d)'
    <3>1. InQueue(retryCh', d) <=> InQueue(retryCh, d)
      BY <2>1
    <3> QED
      BY <1>3, <1>6, <1>7, <2>2, <2>3, <3>1 DEF Awaited, Holds
  <2>5. ~Holds(w, d)
    BY <2>1 DEF Holds, CanStore, Attempting, InFlight
  <2> QED
    BY <1>4, <2>4, <2>5
<1>8. CASE w \in NotifyWorkers /\ PushRetry(w)
  <2>1. retryCh' = Append(retryCh, worker[w].d) /\ deliveryCh' = deliveryCh
        /\ worker[w].pc = "push" /\ worker[w].d \in Delivery
    BY <1>0, <1>8 DEF PushRetry, TypeInv, PlaceOK
  <2>2. InQueue(retryCh', d) <=> InQueue(retryCh, d) \/ d = worker[w].d
    BY <1>0, <2>1, SendKeepsQueue
  <2>3. Awaited(d) => Awaited(d)'
    BY <1>3, <1>6, <2>1, <2>2 DEF Awaited
  <2>4. Holds(w, d) => Awaited(d)'
    BY <1>0, <1>3, <1>6, <1>8, <2>1, <2>2 DEF Holds, Awaited, CanStore, Attempting, InFlight
  <2> QED
    BY <1>4, <2>3, <2>4
<1>9. CASE w \in RetryWorkers /\ ReceiveRetry(w)
  <2> DEFINE h == Head(retryCh)
  <2>1. worker'[w] = At("load", h, 0) /\ retryCh' = Tail(retryCh) /\ retryCh # <<>>
        /\ deliveryCh' = deliveryCh /\ worker[w].pc = "idle"
    BY <1>1, <1>9 DEF ReceiveRetry
  <2>2. worker'[w].pc = "load" /\ worker'[w].d = h
    BY <2>1 DEF At, Idle
  <2>3. InQueue(retryCh, d) => d = h \/ InQueue(retryCh', d)
    BY <1>0, <2>1, ReceiveKeepsQueue
  <2> HIDE DEF h
  <2>4. Awaited(d) => Awaited(d)' \/ Holds(w, d)'
    <3>1. InQueue(deliveryCh', d) <=> InQueue(deliveryCh, d)
      BY <2>1
    <3> QED
      BY <1>3, <1>6, <1>9, <2>2, <2>3, <3>1 DEF Awaited, Holds
  <2>5. ~Holds(w, d)
    BY <2>1 DEF Holds, CanStore, Attempting, InFlight
  <2> QED
    BY <1>4, <2>4, <2>5
<1>10. CASE w \in RetryWorkers /\ LoadRetry(w)
  <2> DEFINE n == attempts[worker[w].d]
  <2>1. worker[w].pc = "load" /\ UNCHANGED <<deliveryCh, retryCh>>
        /\ \/ Becomes(w, [worker[w] EXCEPT !.pc = "dlq", !.n = n])
           \/ Becomes(w, [worker[w] EXCEPT !.pc = "claim", !.n = n])
    BY <1>10 DEF LoadRetry, queues
  <2>2. worker'[w].pc \in {"dlq", "claim"} /\ worker'[w].d = worker[w].d /\ worker'[w].n = n
    <3> HIDE DEF n
    <3> QED
      BY <1>0, <1>1, <2>1 DEF WorkerState
  <2>3. Holds(w, d) => Holds(w, d)'
    BY <1>0, <1>3, <1>10, <2>1, <2>2 DEF Holds, CanStore, Attempting, InFlight
  <2> QED
    BY <1>4, <1>5, <2>1, <2>3
<1>11. CASE Send(w)
  <2>1. /\ worker[w].pc = "send" /\ UNCHANGED <<deliveryCh, retryCh>>
        /\ Becomes(w, [worker[w] EXCEPT !.pc = "ok"]) \/ Becomes(w, [worker[w] EXCEPT !.pc = "err"])
    BY <1>11 DEF Send, Goto, queues
  <2>2. worker'[w].pc \in {"ok", "err"} /\ worker'[w].d = worker[w].d /\ worker'[w].n = worker[w].n
    BY <1>0, <1>1, <2>1 DEF WorkerState
  <2>3. Holds(w, d) => Holds(w, d)'
    BY <1>0, <1>3, <2>1, <2>2 DEF Holds, CanStore, Attempting, InFlight
  <2> QED
    BY <1>4, <1>5, <2>1, <2>3
<1>12. CASE worker[w].pc \in {"count", "finalize", "bury"} /\ UNCHANGED <<deliveryCh, retryCh>>
  <2>1. ~Holds(w, d)
    BY <1>12 DEF Holds, CanStore, Attempting, InFlight
  <2> QED
    BY <1>4, <1>5, <1>12, <2>1
<1>13. CASE Abandon(w)
  <2>1. ctx = "cancelled" /\ worker[w].pc \in {"claim", "push", "bury"}
        /\ UNCHANGED <<deliveryCh, retryCh>>
    BY <1>13 DEF Abandon, WaitsOnContext, queues
  <2>2. ~Holds(w, d)
    BY <1>3, <2>1 DEF Holds, CanStore, Attempting, InFlight
  <2> QED
    BY <1>4, <1>5, <2>1, <2>2
<1>14. CASE DbError(w)
  <2>1. UNCHANGED <<deliveryCh, retryCh>>
        /\ (worker[w].pc \in {"count", "finalize"} \/ dropped' = dropped \cup {worker[w].d})
    BY <1>14 DEF DbError, queues
  <2>2. ~Holds(w, d)
    BY <2>1 DEF Holds, CanStore, Attempting, InFlight
  <2> QED
    BY <1>4, <1>5, <2>1, <2>2
<1>15. Bury(w) \/ Count(w) \/ Finalize(w) =>
          worker[w].pc \in {"count", "finalize", "bury"} /\ UNCHANGED <<deliveryCh, retryCh>>
  BY DEF Bury, Count, Finalize, queues
<1> QED
  BY <1>2, <1>7, <1>8, <1>9, <1>10, <1>11, <1>12, <1>13, <1>14, <1>15

LEMMA CoverStep == SafeInv /\ CoverInv /\ [Next]_vars => CoverInv'
<1> SUFFICES ASSUME SafeInv, CoverInv, [Next]_vars PROVE CoverInv'
  OBVIOUS
<1>1. TypeInv /\ TypeInv'
  BY NextType DEF SafeInv
<1>2. CASE UNCHANGED vars
  <2>1. UNCHANGED <<status, attempts, outbox, deliveryCh, retryCh, rec, worker, dropped, ctx>>
    BY <1>2 DEF vars, durable, rows, queues, bounds
  <2> QED
    BY <1>1, <2>1, AwaitKept, CoverKept DEF CoverInv
<1>3. ASSUME NEW w \in Workers, Works(w) PROVE CoverInv'
  BY <1>1, <1>3, WriteKeepsCover, MoveKeepsCover
<1>4. CASE Next
  BY <1>1, <1>3, <1>4, IntakeKeepsCover, RecoveryKeepsCover DEF Next, FaultStep, Works, Workers
<1> QED
  BY <1>2, <1>4

LEMMA CoverCorrect == Spec => [](SafeInv /\ CoverInv)
<1>1. Init => CoverInv
  BY DEF Init, CoverInv, Covered
<1> QED
  BY <1>1, InitSafe, NextSafe, CoverStep, PTL DEF Spec

\* While the process is not being stopped no unfinished row is left without a
\* wake-up (the channels, the blocking sends of emailNotification.go, the retry
\* loop and recoverNotificationDeliveries.go).
THEOREM NoLostWakeupHolds == Spec => []NoLostWakeup
<1>1. CoverInv => NoLostWakeup
  BY DEF CoverInv, NoLostWakeup
<1> QED
  BY <1>1, CoverCorrect, PTL

\* Stopping the workers strands no row in processing (the wait before the claim
\* in emailNotification.go and retryFailedNotification.go).
THEOREM NoStrandedRowHolds == Spec => []NoStrandedRow
<1>1. CoverInv => NoStrandedRow
  BY DEF CoverInv, NoStrandedRow
<1> QED
  BY <1>1, CoverCorrect, PTL

-----------------------------------------------------------------------------
(* Verdicts                                                                 *)

\* What the two promises about verdicts need of each other: only a job has
\* rows, a verdict carried to the UPDATE is still the one the rows add up to,
\* and so is one that was stored.
VerdictInv ==
    /\ \A j \in Jobs : job[j] = "absent" => Rows(j) = {}
    /\ \A w \in Workers : worker[w].pc = "finalize" =>
          worker[w].verdict = JobVerdict(JobOf(worker[w].d))
    /\ \A j \in Jobs : Rows(j) # {} /\ job[j] \in Verdicts => job[j] = JobVerdict(j)

Resolved(j) == Rows(j) # {} /\ \A d \in Rows(j) : status[d] \in Closed

LEMMA VerdictIs ==
    TypeInv => \A j \in Jobs :
        /\ JobVerdict(j) # "none" <=> Resolved(j)
        /\ JobVerdict(j) = "done" <=> Rows(j) # {} /\ \A d \in Rows(j) : status[d] = "success"
        /\ JobVerdict(j) = "failed" <=> Rows(j) # {} /\ \A d \in Rows(j) : status[d] = "failed"
<1> SUFFICES ASSUME TypeInv, NEW j \in Jobs
             PROVE  /\ JobVerdict(j) # "none" <=> Resolved(j)
                    /\ JobVerdict(j) = "done" <=>
                          Rows(j) # {} /\ \A d \in Rows(j) : status[d] = "success"
                    /\ JobVerdict(j) = "failed" <=>
                          Rows(j) # {} /\ \A d \in Rows(j) : status[d] = "failed"
  OBVIOUS
<1> DEFINE R == Rows(j)
           O == {status[d] : d \in R}
<1>1. \A d \in R : status[d] \in Open \cup Closed
  BY DEF Rows, TypeInv, TypeOK
<1>2. /\ O = {} <=> R = {}
      /\ O \cap Open = {} <=> \A d \in R : status[d] \in Closed
  BY <1>1 DEF Open, Closed
<1>3. /\ O = {"success"} <=> R # {} /\ \A d \in R : status[d] = "success"
      /\ O = {"failed"} <=> R # {} /\ \A d \in R : status[d] = "failed"
  OBVIOUS
<1>4. JobVerdict(j) = CASE O = {} \/ O \cap Open # {} -> "none"
                        [] O = {"success"} -> "done"
                        [] O = {"failed"}  -> "failed"
                        [] OTHER           -> "partially_failed"
  BY DEF JobVerdict
<1>5. {"success"} \cap Open = {} /\ {"failed"} \cap Open = {} /\ {"success"} # {"failed"}
  BY DEF Open
<1> HIDE DEF O
<1>6. /\ JobVerdict(j) # "none" <=> ~(O = {} \/ O \cap Open # {})
      /\ JobVerdict(j) = "done" <=> O = {"success"}
      /\ JobVerdict(j) = "failed" <=> O = {"failed"}
  BY <1>4, <1>5
<1> QED
  BY <1>2, <1>3, <1>6 DEF Resolved

\* How the status of a row changes: it is created when its job has none, it
\* moves while it is open, and the worker that closes it goes on to count.
LEMMA RowMoves ==
    ASSUME SafeInv, Next, NEW d \in Delivery
    PROVE  \/ status'[d] = status[d]
           \/ status[d] = "absent" /\ status'[d] = "pending" /\ Rows(JobOf(d)) = {}
                /\ job[JobOf(d)] # "absent" /\ job'[JobOf(d)] = "processing"
           \/ status[d] \in Open /\ status'[d] \in Open
           \/ /\ status[d] \in Open /\ status'[d] \in Closed
              /\ \E w \in Workers : worker'[w].pc = "count" /\ worker'[w].d = d
<1>1. CASE UNCHANGED rows
  BY <1>1 DEF rows
<1>2. ASSUME NEW j \in Jobs, NEW us \in SUBSET Users, CommitDeliveries(j, us)
      PROVE  \/ status'[d] = status[d]
             \/ status[d] = "absent" /\ status'[d] = "pending" /\ Rows(JobOf(d)) = {}
                  /\ job[JobOf(d)] # "absent" /\ job'[JobOf(d)] = "processing"
  <2>1. status'[d] = IF JobOf(d) = j /\ d[2] \in us THEN "pending" ELSE status[d]
    <3>1. status' = [e \in Delivery |->
              IF JobOf(e) = j /\ e[2] \in us THEN "pending" ELSE status[e]]
      BY <1>2 DEF CommitDeliveries
    <3> QED
      BY <3>1
  <2>2. Rows(j) = {} /\ job[j] # "absent" /\ job'[j] = "processing"
    BY <1>2 DEF CommitDeliveries, SafeInv, TypeInv, TypeOK
  <2> QED
    BY <2>1, <2>2 DEF Rows
<1>3. CASE Release
  BY <1>3 DEF Release, Interrupted, Open
<1>4. ASSUME NEW w \in Workers, Writes(w)
      PROVE  \/ status'[d] = status[d]
             \/ status[d] \in Open /\ status'[d] \in Open
             \/ /\ status[d] \in Open /\ status'[d] \in Closed
                /\ worker'[w].pc = "count" /\ worker'[w].d = d
  <2>1. CASE d = worker[w].d
    BY <1>4, <2>1, RowWritten DEF Open, Closed, rows
  <2>2. CASE d # worker[w].d
    BY <1>4, <2>2, RowWritten
  <2> QED
    BY <2>1, <2>2
<1> QED
  BY <1>1, <1>2, <1>3, <1>4, RowsWritten

\* How the status of a job changes.
LEMMA JobMoves ==
    ASSUME SafeInv, Next, NEW j \in Jobs
    PROVE  \/ job'[j] = job[j]
           \/ job[j] # "absent" /\ job'[j] = "pending"
           \/ job[j] = "absent" /\ job'[j] = "processing" /\ UNCHANGED status
           \/ /\ job[j] # "absent" /\ job'[j] = "processing"
              /\ \E u \in Users : status'[<<j, u>>] = "pending"
           \/ job[j] # "absent" /\ job'[j] \in Verdicts /\ Rows(j) = {} /\ UNCHANGED status
           \/ \E w \in Workers : /\ worker[w].pc = "finalize" /\ JobOf(worker[w].d) = j
                                /\ job[j] = "processing" /\ job'[j] = worker[w].verdict
<1>0. job \in [Jobs -> {"absent", "pending", "processing"} \cup Verdicts]
  BY DEF SafeInv, TypeInv, TypeOK
<1>1. CASE UNCHANGED job
  BY <1>1
<1>2. ASSUME NEW i \in Jobs, CreateJob(i)
      PROVE  \/ job'[j] = job[j]
             \/ job[j] = "absent" /\ job'[j] = "processing" /\ UNCHANGED status
  BY <1>0, <1>2 DEF CreateJob, rows
<1>3. ASSUME NEW i \in Jobs, RependJob(i) \/ ResetJob(i)
      PROVE  job'[j] = job[j] \/ (job[j] # "absent" /\ job'[j] = "pending")
  BY <1>0, <1>3 DEF RependJob, ResetJob
<1>4. ASSUME NEW i \in Jobs, FinishEmptyJob(i)
      PROVE  \/ job'[j] = job[j]
             \/ job[j] # "absent" /\ job'[j] \in Verdicts /\ Rows(j) = {} /\ UNCHANGED status
  BY <1>0, <1>4 DEF FinishEmptyJob, rows, Verdicts
<1>5. ASSUME NEW i \in Jobs, NEW us \in SUBSET Users, CommitDeliveries(i, us)
      PROVE  \/ job'[j] = job[j]
             \/ /\ job[j] # "absent" /\ job'[j] = "processing"
                /\ \E u \in Users : status'[<<j, u>>] = "pending"
  <2>1. job' = [job EXCEPT ![i] = "processing"] /\ job[i] # "absent"
    BY <1>5 DEF CommitDeliveries
  <2>2. PICK u \in us : TRUE
    BY <1>5 DEF CommitDeliveries
  <2>3. status'[<<i, u>>] = "pending"
    BY <1>5, <2>2 DEF CommitDeliveries, Delivery, JobOf
  <2> QED
    BY <1>0, <2>1, <2>2, <2>3
<1>6. ASSUME NEW w \in Workers, Finalize(w)
      PROVE  \/ job'[j] = job[j]
             \/ /\ worker[w].pc = "finalize" /\ JobOf(worker[w].d) = j
                /\ job[j] = "processing" /\ job'[j] = worker[w].verdict
  BY <1>0, <1>6 DEF Finalize, Finalizable
<1>7. CASE IntakeError \/ (\E i \in Jobs : AbandonPublish(i)) \/ \E d \in Delivery : Publish(d)
  BY <1>7 DEF IntakeError, AbandonPublish, Publish, durable
<1>8. ASSUME NEW w \in Workers, Works(w) PROVE Finalize(w) \/ UNCHANGED job
  <2>1. Send(w) \/ Count(w) \/ Abandon(w) \/ DbError(w) => UNCHANGED job
    BY DEF Send, Count, Abandon, DbError, durable
  <2> QED
    BY <1>8, <2>1 DEF Works, NotifyStep, RetryStep, Receive, Claim, NotifyFailed, PushRetry,
           NotifySucceeded, ReceiveRetry, LoadRetry, ClaimRetry, RetryFailed, RetrySucceeded,
           MoveToDLQ, Bury, durable
<1>9. CASE RecoveryStep \/ RecoveryError \/ Cancel \/ Restart
  BY <1>9 DEF RecoveryStep, JobsRecovered, Release, Scan, PublishRecovered, AbandonRecovery,
              RecoveryError, Cancel, Restart, durable
<1> QED
  BY <1>1, <1>2, <1>3, <1>4, <1>5, <1>6, <1>7, <1>8, <1>9
     DEF Next, IntakeStep, FaultStep, Works, Workers

\* A worker that carries a verdict has just counted, or does not move.
LEMMA CountMoves ==
    ASSUME SafeInv, Next, NEW w \in Workers, worker'[w].pc = "finalize", worker'[w] # worker[w]
    PROVE  /\ worker[w].pc = "count" /\ worker'[w].d = worker[w].d
           /\ worker'[w].verdict = JobVerdict(JobOf(worker[w].d))
           /\ worker'[w].verdict # "none"
<1>0. worker \in [Workers -> WorkerState] /\ worker[w] \in WorkerState
  BY DEF SafeInv, TypeInv, TypeOK
<1>1. \A r : Becomes(w, r) => worker'[w] = r
  BY <1>0 DEF Becomes
<1>2. ~Rest(w)
  BY <1>1, IdleType DEF Rest
<1>3. ~Leave(w)
  <2>1. [worker[w] EXCEPT !.pc = "bury", !.verdict = "none"].pc = "bury"
    BY <1>0 DEF WorkerState
  <2> QED
    BY <1>1, <1>2, <2>1 DEF Leave
<1>4. Works(w)
  <2>1. ~(worker' = [v \in Workers |-> Idle])
    BY IdleType
  <2> QED
    BY <2>1, OneWorker
<1>5. ~(Receive(w) \/ ReceiveRetry(w) \/ LoadRetry(w) \/ Send(w) \/ Writes(w))
  <2>1. \A d : At("claim", d, 0).pc = "claim" /\ At("load", d, 0).pc = "load"
    BY DEF At, Idle
  <2>2. ~(Receive(w) \/ ReceiveRetry(w))
    BY <1>1, <2>1 DEF Receive, ReceiveRetry
  <2>3. \A n : /\ [worker[w] EXCEPT !.pc = "dlq", !.n = n].pc = "dlq"
               /\ [worker[w] EXCEPT !.pc = "claim", !.n = n].pc = "claim"
    BY <1>0 DEF WorkerState
  <2>4. ~LoadRetry(w)
    BY <1>1, <2>3 DEF LoadRetry
  <2>5. ~Send(w)
    <3>1. [worker[w] EXCEPT !.pc = "ok"].pc = "ok" /\ [worker[w] EXCEPT !.pc = "err"].pc = "err"
      BY <1>0 DEF WorkerState
    <3> QED
      BY <1>1, <3>1 DEF Send, Goto
  <2>6. ~Writes(w)
    BY <1>2, RowWritten
  <2> QED
    BY <2>2, <2>4, <2>5, <2>6
<1>6. Count(w)
  BY <1>2, <1>3, <1>4, <1>5
     DEF Works, Writes, NotifyStep, RetryStep, PushRetry, Bury, Abandon, DbError, Finalize
<1> DEFINE v == JobVerdict(JobOf(worker[w].d))
<1>7. /\ worker[w].pc = "count" /\ v # "none"
      /\ Becomes(w, [worker[w] EXCEPT !.pc = "finalize", !.verdict = v])
  BY <1>3, <1>6 DEF Count
<1>8. v \in Verdicts \cup {"none"}
  BY VerdictType
<1> HIDE DEF v
<1>9. worker'[w].d = worker[w].d /\ worker'[w].verdict = v
  BY <1>0, <1>1, <1>7 DEF WorkerState
<1> QED
  BY <1>7, <1>9 DEF v

\* The verdict of a job depends on its rows alone, and once it has one its
\* rows no longer move.
LEMMA SameRows ==
    ASSUME NEW j \in Jobs, \A d \in Delivery : JobOf(d) = j => status'[d] = status[d]
    PROVE  Rows(j)' = Rows(j) /\ JobVerdict(j)' = JobVerdict(j)
<1>1. Rows(j)' = Rows(j)
  BY DEF Rows
<1>2. {status[d] : d \in Rows(j)}' = {status[d] : d \in Rows(j)}
  BY <1>1 DEF Rows
<1> QED
  BY <1>1, <1>2 DEF JobVerdict

LEMMA VerdictKept ==
    ASSUME SafeInv, Next, NEW j \in Jobs, JobVerdict(j) # "none"
    PROVE  JobVerdict(j)' = JobVerdict(j) /\ Rows(j)' = Rows(j)
<1>1. Rows(j) # {} /\ \A d \in Rows(j) : status[d] \in Closed
  BY VerdictIs DEF Resolved, SafeInv
<1>2. ASSUME NEW d \in Delivery, JobOf(d) = j PROVE status'[d] = status[d]
  <2>1. status[d] = "absent" \/ status[d] \in Closed
    BY <1>1, <1>2 DEF Rows
  <2> QED
    BY <1>1, <1>2, <2>1, RowMoves DEF Open, Closed
<1> QED
  BY <1>2, SameRows

LEMMA VerdictStep == SafeInv /\ VerdictInv /\ [Next]_vars => VerdictInv'
<1> SUFFICES ASSUME SafeInv, VerdictInv, [Next]_vars PROVE VerdictInv'
  OBVIOUS
<1>0. /\ TypeInv
      /\ \A w \in Workers : worker[w].pc # "idle" => worker[w].d \in Delivery
      /\ \A w \in Workers : worker[w].pc = "finalize" => worker[w].verdict \in Verdicts
      /\ \A d \in Delivery : JobOf(d) \in Jobs
  BY JobOfType DEF SafeInv, TypeInv, PlaceOK
<1>1. CASE UNCHANGED vars
  <2>1. UNCHANGED <<status, job, worker>>
    BY <1>1 DEF vars, durable, rows
  <2>2. \A j \in Jobs : Rows(j)' = Rows(j) /\ JobVerdict(j)' = JobVerdict(j)
    BY <2>1, SameRows
  <2>3. ASSUME NEW w \in Workers, worker[w].pc = "finalize"
        PROVE  (worker[w].verdict = JobVerdict(JobOf(worker[w].d)))'
    BY <2>1, <2>2, <2>3, <1>0 DEF VerdictInv
  <2> QED
    BY <2>1, <2>2, <2>3 DEF VerdictInv
<1>2. CASE Next
  <2>1. ASSUME NEW j \in Jobs, job'[j] = "absent"
        PROVE  Rows(j)' = {}
    <3>1. job[j] = "absent"
      BY <1>0, <1>2, <2>1, JobMoves DEF Verdicts
    <3>2. \A d \in Delivery : JobOf(d) = j => status'[d] = "absent"
      BY <1>2, <2>1, <3>1, RowMoves DEF VerdictInv, Rows, Open
    <3> QED
      BY <3>2 DEF Rows
  <2>2. ASSUME NEW w \in Workers, worker'[w].pc = "finalize"
        PROVE  (worker[w].verdict = JobVerdict(JobOf(worker[w].d)))'
    <3>1. /\ worker'[w].d = worker[w].d /\ worker[w].d \in Delivery
          /\ worker'[w].verdict = JobVerdict(JobOf(worker[w].d))
          /\ JobVerdict(JobOf(worker[w].d)) # "none"
      <4>1. CASE worker'[w] = worker[w]
        BY <1>0, <2>2, <4>1 DEF VerdictInv, Verdicts
      <4>2. CASE worker'[w] # worker[w]
        BY <1>0, <1>2, <2>2, <4>2, CountMoves
      <4> QED
        BY <4>1, <4>2
    <3>2. ASSUME NEW j \in Jobs, j = JobOf(worker[w].d) PROVE JobVerdict(j)' = worker'[w].verdict
      BY <1>2, <3>1, <3>2, VerdictKept
    <3>3. JobOf(worker[w].d) = JobOf(worker[w].d)'
      BY <3>1 DEF JobOf
    <3> QED
      BY <1>0, <3>1, <3>2, <3>3
  <2>3. ASSUME NEW j \in Jobs, Rows(j)' # {}, job'[j] \in Verdicts
        PROVE  job'[j] = JobVerdict(j)'
    <3>1. job'[j] # "absent" /\ job'[j] # "pending" /\ job'[j] # "processing"
      BY <2>3 DEF Verdicts
    <3>2. Rows(j) # {}
      <4>1. SUFFICES ASSUME Rows(j) = {} PROVE FALSE
        OBVIOUS
      <4>2. PICK d \in Delivery : JobOf(d) = j /\ status'[d] # "absent"
        BY <2>3 DEF Rows
      <4>3. status[d] = "absent"
        BY <4>1, <4>2 DEF Rows
      <4> QED
        BY <1>2, <3>1, <4>2, <4>3, RowMoves DEF Open
    <3>3. CASE job'[j] = job[j]
      <4>1. job[j] = JobVerdict(j) /\ JobVerdict(j) # "none"
        BY <2>3, <3>2, <3>3 DEF VerdictInv, Verdicts
      <4> QED
        BY <1>2, <3>3, <4>1, VerdictKept
    <3>4. ASSUME NEW w \in Workers, worker[w].pc = "finalize", JobOf(worker[w].d) = j,
                 job'[j] = worker[w].verdict
          PROVE  job'[j] = JobVerdict(j)'
      <4>1. worker[w].verdict = JobVerdict(j) /\ JobVerdict(j) # "none"
        BY <1>0, <3>4 DEF VerdictInv, Verdicts
      <4> QED
        BY <1>2, <3>4, <4>1, VerdictKept
    <3> QED
      BY <1>2, <3>1, <3>2, <3>3, <3>4, JobMoves
  <2> QED
    BY <2>1, <2>2, <2>3 DEF VerdictInv
<1> QED
  BY <1>1, <1>2

LEMMA VerdictCorrect == Spec => [](SafeInv /\ VerdictInv)
<1>1. Init => VerdictInv
  BY DEF Init, VerdictInv, Rows, Idle
<1> QED
  BY <1>1, InitSafe, NextSafe, VerdictStep, PTL DEF Spec

\* However many workers raced to finalise it, a job with rows that carries a
\* verdict carries the one its rows add up to (finalizeNotificationJob.go: the
\* count and the UPDATE are two statements).
THEOREM VerdictAgreesHolds == Spec => []VerdictAgrees
<1>1. SafeInv /\ VerdictInv => VerdictAgrees
  <2> SUFFICES ASSUME SafeInv, VerdictInv, NEW j \in Jobs, Rows(j) # {}, job[j] \in Verdicts
               PROVE  /\ \A d \in Rows(j) : status[d] \in Closed
                      /\ job[j] = "done"   <=> \A d \in Rows(j) : status[d] = "success"
                      /\ job[j] = "failed" <=> \A d \in Rows(j) : status[d] = "failed"
    BY DEF VerdictAgrees
  <2>1. job[j] = JobVerdict(j) /\ JobVerdict(j) # "none"
    BY DEF VerdictInv, Verdicts
  <2> QED
    BY <2>1, VerdictIs DEF Resolved, SafeInv
<1> QED
  BY <1>1, VerdictCorrect, PTL

-----------------------------------------------------------------------------
(* A finaliser for every resolved job                                       *)

\* Worker w is about to finalise job j.
Finalizing(w, j) == worker[w].pc \in {"count", "finalize"} /\ JobOf(worker[w].d) = j

\* A worker about to finalise a resolved job goes on to store its verdict,
\* unless a statement fails.
LEMMA FinalizerMoves ==
    ASSUME SafeInv, Next, NEW w \in Workers, NEW j \in Jobs, Finalizing(w, j), Resolved(j),
           job[j] = "processing"
    PROVE  \/ Finalizing(w, j)'
           \/ job'[j] \in Verdicts
           \/ faults' = faults + 1 \/ restarts' = restarts + 1
<1>0. /\ worker \in [Workers -> WorkerState] /\ worker[w] \in WorkerState
      /\ job \in [Jobs -> {"absent", "pending", "processing"} \cup Verdicts]
      /\ worker[w].pc = "finalize" => worker[w].verdict \in Verdicts
  BY DEF SafeInv, TypeInv, TypeOK, PlaceOK
<1>1. CASE worker'[w] = worker[w]
  BY <1>1 DEF Finalizing, JobOf
<1>2. CASE Restart \/ DbError(w)
  BY <1>2 DEF Restart, DbError
<1>3. CASE Count(w)
  <2> DEFINE v == JobVerdict(j)
  <2>1. v # "none"
    BY VerdictIs DEF SafeInv
  <2>2. Becomes(w, [worker[w] EXCEPT !.pc = "finalize", !.verdict = v])
    BY <1>3, <2>1 DEF Count, Finalizing
  <2>3. v \in Verdicts \cup {"none"}
    BY VerdictType
  <2> HIDE DEF v
  <2>4. worker'[w].pc = "finalize" /\ worker'[w].d = worker[w].d
    BY <1>0, <2>2, <2>3 DEF Becomes, WorkerState
  <2> QED
    BY <2>4 DEF Finalizing, JobOf
<1>4. CASE Finalize(w)
  BY <1>0, <1>4 DEF Finalize, Finalizable, Finalizing
<1>5. Works(w) => Count(w) \/ Finalize(w) \/ DbError(w)
  BY DEF Finalizing, Works, NotifyStep, RetryStep, Receive, Claim, Send, NotifyFailed, PushRetry,
         NotifySucceeded, Abandon, WaitsOnContext, ReceiveRetry, LoadRetry, ClaimRetry,
         RetryFailed, RetrySucceeded, MoveToDLQ, Bury
<1> QED
  BY <1>1, <1>2, <1>3, <1>4, <1>5, OneWorker

\* The bounds on deaths and errors only count up.
LEMMA FaultsGrow ==
    ASSUME SafeInv, Next
    PROVE  restarts \in Nat /\ faults \in Nat /\ restarts <= restarts' /\ faults <= faults'
<1>0. restarts \in Nat /\ faults \in Nat
  BY BoundAssumption DEF SafeInv, TypeInv, TypeOK
<1>1. CASE UNCHANGED <<restarts, faults>>
  BY <1>0, <1>1
<1>2. CASE IntakeError \/ RecoveryError \/ Cancel \/ Restart \/ \E w \in Workers : DbError(w)
  BY <1>0, <1>2 DEF IntakeError, RecoveryError, Cancel, Restart, DbError
<1>3. \A w \in Workers : Send(w) \/ Count(w) \/ Finalize(w) \/ Abandon(w) =>
          UNCHANGED <<restarts, faults>>
  BY DEF Send, Count, Finalize, Abandon, bounds
<1>4. ASSUME NEW w \in NotifyWorkers, NotifyStep(w) PROVE UNCHANGED <<restarts, faults>>
  BY <1>3, <1>4 DEF NotifyStep, Receive, Claim, NotifyFailed, PushRetry, NotifySucceeded, bounds,
                    Workers
<1>5. ASSUME NEW w \in RetryWorkers, RetryStep(w) PROVE UNCHANGED <<restarts, faults>>
  BY <1>3, <1>5 DEF RetryStep, ReceiveRetry, LoadRetry, ClaimRetry, RetryFailed, RetrySucceeded,
                    MoveToDLQ, Bury, bounds, Workers
<1>6. CASE RecoveryStep
  BY <1>1, <1>6 DEF RecoveryStep, JobsRecovered, Release, Scan, PublishRecovered,
                    AbandonRecovery, bounds
<1>7. ASSUME NEW j \in Jobs, \/ CreateJob(j) \/ RependJob(j) \/ ResetJob(j)
                             \/ FinishEmptyJob(j) \/ AbandonPublish(j)
                             \/ \E us \in SUBSET Users : CommitDeliveries(j, us)
      PROVE  UNCHANGED <<restarts, faults>>
  BY <1>7 DEF CreateJob, RependJob, ResetJob, FinishEmptyJob, AbandonPublish, CommitDeliveries,
              bounds
<1>8. ASSUME NEW d \in Delivery, Publish(d) PROVE UNCHANGED <<restarts, faults>>
  BY <1>8 DEF Publish, bounds
<1> QED
  BY <1>1, <1>2, <1>4, <1>5, <1>6, <1>7, <1>8 DEF Next, IntakeStep, FaultStep

LEMMA PendingStep ==
    ASSUME SafeInv, VerdictInv, FinalizerPending, Next
    PROVE  FinalizerPending'
<1> SUFFICES ASSUME NEW j \in Jobs, restarts' = 0, faults' = 0, job'[j] = "processing",
                    Rows(j)' # {}, \A d \in Rows(j)' : status'[d] \in Closed
             PROVE  \E w \in Workers : Finalizing(w, j)'
  BY DEF FinalizerPending, Finalizing
<1>1. restarts = 0 /\ faults = 0
  BY FaultsGrow
<1>2. CASE job[j] = "processing" /\ Resolved(j)
  <2>1. PICK w \in Workers : Finalizing(w, j)
    BY <1>1, <1>2 DEF FinalizerPending, Resolved, Finalizing
  <2> QED
    BY <1>1, <1>2, <2>1, FinalizerMoves DEF Verdicts
<1>3. \A d \in Delivery : JobOf(d) = j => status'[d] # "pending"
  BY DEF Rows, Closed
<1>4. CASE job[j] # "processing"
  <2>1. \A u \in Users : status'[<<j, u>>] # "pending"
    BY <1>3 DEF Delivery, JobOf
  <2>2. job[j] = "absent" /\ UNCHANGED status
    BY <1>4, <2>1, JobMoves DEF Verdicts
  <2> QED
    BY <2>2 DEF VerdictInv, Rows
<1>5. CASE ~Resolved(j)
  <2>1. PICK d \in Delivery : JobOf(d) = j /\ status'[d] \in Closed
    BY DEF Rows
  <2>2. PICK e \in Delivery : JobOf(e) = j /\ status'[e] \in Closed /\ status[e] \notin Closed
    <3>1. CASE Rows(j) = {}
      BY <2>1, <3>1 DEF Rows, Closed
    <3>2. CASE Rows(j) # {}
      <4>1. PICK e \in Rows(j) : status[e] \notin Closed
        BY <1>5, <3>2 DEF Resolved
      <4>2. e \in Delivery /\ JobOf(e) = j /\ status[e] # "absent"
        BY DEF Rows
      <4>3. status'[e] # "absent"
        BY <4>2, RowMoves DEF Open, Closed
      <4>4. status'[e] \in Closed
        BY <4>2, <4>3 DEF Rows
      <4> QED
        BY <4>1, <4>2, <4>4
    <3> QED
      BY <3>1, <3>2
  <2>3. PICK w \in Workers : worker'[w].pc = "count" /\ worker'[w].d = e
    BY <2>2, RowMoves DEF Open, Closed
  <2> QED
    BY <2>2, <2>3 DEF Finalizing, JobOf
<1> QED
  BY <1>2, <1>4, <1>5

\* Without deaths and errors, concurrent last deliveries of a job cannot each
\* leave its finalisation to the other (finalizeNotificationJob.go is called
\* after the outcome is stored, by both pools).
THEOREM FinalizerPendingHolds == Spec => []FinalizerPending
<1>1. Init => FinalizerPending
  BY DEF Init, FinalizerPending, Rows
<1>2. SafeInv /\ VerdictInv /\ FinalizerPending /\ [Next]_vars => FinalizerPending'
  <2>1. SafeInv /\ FinalizerPending /\ UNCHANGED vars => FinalizerPending'
    BY DEF FinalizerPending, Rows, vars, durable, rows, bounds, JobOf
  <2> QED
    BY <2>1, PendingStep
<1> QED
  BY <1>1, <1>2, VerdictCorrect, PTL DEF Spec

=============================================================================
