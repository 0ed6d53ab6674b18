------------------------- MODULE NotificationProofs -------------------------
(* Machine-checked theorems about Notification, for every number of jobs,   *)
(* users, workers and retries and every channel capacity.                   *)
EXTENDS Notification, SequenceTheorems, TLAPS

-----------------------------------------------------------------------------
(* Facts about queues and verdicts.                                         *)

\* Receiving from a non-empty queue yields an element and a shorter queue.
LEMMA QueueTail ==
    ASSUME NEW S, NEW q \in Seq(S), q # <<>>
    PROVE  Head(q) \in S /\ Tail(q) \in Seq(S) /\ Len(Tail(q)) = Len(q) - 1
  BY HeadTailProperties

\* Sending to a queue that has room stays within its capacity.
LEMMA QueueAppend ==
    ASSUME NEW S, NEW q \in Seq(S), NEW e \in S, NEW cap \in Nat, Len(q) < cap
    PROVE  Append(q, e) \in Seq(S) /\ Len(Append(q, e)) <= cap
  BY AppendProperties, LenProperties

LEMMA VerdictType == \A j : JobVerdict(j) \in Verdicts \cup {"none"}
  BY DEF JobVerdict, Verdicts

LEMMA JobOfType == \A d \in Delivery : JobOf(d) \in Jobs
  BY DEF Delivery, JobOf

-----------------------------------------------------------------------------
(* Types.                                                                   *)

\* What the type of a worker or of the recovery goroutine says at a location:
\* a busy worker has a delivery, a retry is only claimed while attempts are
\* left, a verdict is carried to Finalize.
PlaceOK ==
    /\ \A w \in Workers :
          /\ worker[w].pc # "idle" => worker[w].d \in Delivery
          /\ w \in RetryWorkers /\ worker[w].pc = "claim" => worker[w].n <= MaxRetries
          /\ worker[w].pc = "finalize" => worker[w].verdict \in Verdicts
    /\ rec.pc = "publish" => rec.at \in Message

TypeInv == TypeOK /\ PlaceOK

LEMMA IdleType == Idle \in WorkerState /\ Idle.pc = "idle"
  BY BoundAssumption DEF Idle, WorkerState, Place

LEMMA AtType ==
    ASSUME NEW pc \in Place, NEW d \in Delivery, NEW n \in 0 .. MaxRetries + 1
    PROVE  /\ At(pc, d, n) \in WorkerState
           /\ At(pc, d, n).pc = pc /\ At(pc, d, n).d = d /\ At(pc, d, n).n = n
           /\ At(pc, d, n).verdict = "none"
  BY DEF At, Idle, WorkerState, Place

\* A worker whose new state fits its new location keeps the types.
LEMMA BecomesType ==
    ASSUME TypeInv, NEW w \in Workers, NEW r \in WorkerState, Becomes(w, r),
           r.pc # "idle" => r.d \in Delivery,
           w \in RetryWorkers /\ r.pc = "claim" => r.n <= MaxRetries,
           r.pc = "finalize" => r.verdict \in Verdicts
    PROVE  /\ worker' \in [Workers -> WorkerState]
           /\ worker'[w] = r
           /\ \A v \in Workers \ {w} : worker'[v] = worker[v]
           /\ UNCHANGED rec => PlaceOK'
<1>1. /\ worker' \in [Workers -> WorkerState]
      /\ worker'[w] = r
      /\ \A v \in Workers \ {w} : worker'[v] = worker[v]
  BY DEF Becomes, TypeInv, TypeOK
<1> QED
  BY <1>1 DEF TypeInv, PlaceOK

\* Coming to rest, starting on delivery d and moving on keep the types.
LEMMA RestType ==
    ASSUME TypeInv, NEW w \in Workers, Rest(w)
    PROVE  /\ worker' \in [Workers -> WorkerState]
           /\ UNCHANGED rec => PlaceOK'
  BY BecomesType, IdleType DEF Rest

LEMMA AtPlace ==
    ASSUME TypeInv, NEW w \in Workers, NEW d \in Delivery, NEW pc \in Place \ {"finalize"},
           Becomes(w, At(pc, d, 0))
    PROVE  /\ worker' \in [Workers -> WorkerState]
           /\ UNCHANGED rec => PlaceOK'
<1>1. /\ At(pc, d, 0) \in WorkerState
      /\ At(pc, d, 0).pc = pc /\ At(pc, d, 0).d = d /\ At(pc, d, 0).n = 0
  BY AtType, BoundAssumption
<1> QED
  BY <1>1, BecomesType, BoundAssumption

LEMMA InitType == Init => TypeInv
<1> SUFFICES ASSUME Init PROVE TypeInv
  OBVIOUS
<1>1. <<>> \in Seq(Delivery) /\ Len(<<>>) = 0
  OBVIOUS
<1>2. TypeOK
  BY <1>1, IdleType, BoundAssumption
     DEF Init, TypeOK, Recovery, RecoveryState, Open, Closed
<1>3. PlaceOK
  BY DEF Init, PlaceOK, Idle, Recovery
<1> QED
  BY <1>2, <1>3 DEF TypeInv

\* What the intake half does keeps the types.
LEMMA IntakeType == TypeInv /\ (IntakeStep \/ \E d \in Delivery : Publish(d)) => TypeInv'
<1> SUFFICES ASSUME TypeInv, IntakeStep \/ \E d \in Delivery : Publish(d)
             PROVE  TypeInv'
  OBVIOUS
<1> USE DEF TypeInv, TypeOK
<1>1. ASSUME NEW j \in Jobs, CreateJob(j) \/ RependJob(j) \/ FinishEmptyJob(j)
      PROVE  TypeInv'
  BY <1>1 DEF CreateJob, RependJob, FinishEmptyJob, PlaceOK, rows, queues, bounds, Verdicts
<1>2. ASSUME NEW j \in Jobs, ResetJob(j) PROVE TypeInv'
  BY <1>2 DEF ResetJob, PlaceOK, rows, queues, bounds
<1>3. ASSUME NEW j \in Jobs, AbandonPublish(j) PROVE TypeInv'
  BY <1>3 DEF AbandonPublish, PlaceOK, durable, rows, queues, bounds
<1>4. ASSUME NEW j \in Jobs, NEW us \in SUBSET Users, CommitDeliveries(j, us)
      PROVE  TypeInv'
  BY <1>4 DEF CommitDeliveries, PlaceOK, queues, bounds, Delivery, Open
<1>5. ASSUME NEW d \in Delivery, Publish(d) PROVE TypeInv'
  <2>1. deliveryCh' \in Seq(Delivery) /\ Len(deliveryCh') <= ChanCap
    BY <1>5, QueueAppend, BoundAssumption DEF Publish
  <2> QED
    BY <1>5, <2>1 DEF Publish, PlaceOK, durable, rows, queues, bounds
<1>6. ASSUME IntakeError PROVE TypeInv'
  BY <1>6, BoundAssumption DEF IntakeError, PlaceOK, durable, rows, queues
<1> QED
  BY <1>1, <1>2, <1>3, <1>4, <1>5, <1>6 DEF IntakeStep

\* A worker that moves on keeps the types.
LEMMA GotoType ==
    ASSUME TypeInv, NEW w \in Workers, NEW pc \in Place \ {"idle", "claim", "finalize"},
           worker[w].pc # "idle", Goto(w, pc)
    PROVE  /\ worker' \in [Workers -> WorkerState]
           /\ UNCHANGED rec => PlaceOK'
<1> DEFINE r == [worker[w] EXCEPT !.pc = pc]
<1>1. worker[w] \in WorkerState /\ worker[w].d \in Delivery
  BY DEF TypeInv, TypeOK, PlaceOK
<1>2. r \in WorkerState /\ r.pc = pc /\ r.d = worker[w].d
  BY <1>1 DEF WorkerState
<1> QED
  BY <1>1, <1>2, BecomesType DEF Goto

\* So does a worker that changes its attempt number, or its verdict.
LEMMA AttemptType ==
    ASSUME TypeInv, NEW w \in Workers, worker[w].pc # "idle",
           NEW pc \in Place \ {"idle", "finalize"}, NEW n \in 0 .. MaxRetries + 1,
           w \in RetryWorkers /\ pc = "claim" => n <= MaxRetries,
           Becomes(w, [worker[w] EXCEPT !.pc = pc, !.n = n])
    PROVE  /\ worker' \in [Workers -> WorkerState]
           /\ UNCHANGED rec => PlaceOK'
<1> DEFINE r == [worker[w] EXCEPT !.pc = pc, !.n = n]
<1>1. worker[w] \in WorkerState /\ worker[w].d \in Delivery
  BY DEF TypeInv, TypeOK, PlaceOK
<1>2. r \in WorkerState /\ r.pc = pc /\ r.d = worker[w].d /\ r.n = n
  BY <1>1 DEF WorkerState
<1> QED
  BY <1>1, <1>2, BecomesType

LEMMA CarryType ==
    ASSUME TypeInv, NEW w \in Workers, worker[w].pc # "idle",
           NEW pc \in {"finalize", "bury"}, NEW v \in Verdicts \cup {"none"},
           pc = "finalize" => v \in Verdicts,
           Becomes(w, [worker[w] EXCEPT !.pc = pc, !.verdict = v])
    PROVE  /\ worker' \in [Workers -> WorkerState]
           /\ UNCHANGED rec => PlaceOK'
<1> DEFINE r == [worker[w] EXCEPT !.pc = pc, !.verdict = v]
<1>1. worker[w] \in WorkerState /\ worker[w].d \in Delivery
  BY DEF TypeInv, TypeOK, PlaceOK
<1>2. r \in WorkerState /\ r.pc = pc /\ r.d = worker[w].d /\ r.verdict = v
  BY <1>1 DEF WorkerState, Place
<1> QED
  BY <1>1, <1>2, BecomesType

\* Leaving finalisation keeps the types.
LEMMA LeaveType ==
    ASSUME TypeInv, NEW w \in Workers, worker[w].pc # "idle", Leave(w)
    PROVE  /\ worker' \in [Workers -> WorkerState]
           /\ UNCHANGED rec => PlaceOK'
  BY RestType, CarryType DEF Leave

\* Steps both pools take keep the types.
LEMMA SharedType ==
    ASSUME TypeInv, NEW w \in Workers,
           Send(w) \/ Count(w) \/ Finalize(w) \/ Abandon(w) \/ DbError(w)
    PROVE  TypeInv'
<1> USE DEF TypeInv, TypeOK
<1>1. CASE Send(w)
  <2>1. worker[w].pc # "idle" /\ worker[w].d \in Delivery
    BY <1>1 DEF Send, PlaceOK
  <2>2. worker' \in [Workers -> WorkerState] /\ (UNCHANGED rec => PlaceOK')
    BY <1>1, <2>1, GotoType DEF Send, Place
  <2> QED
    BY <1>1, <2>1, <2>2 DEF Send, rows, queues, bounds
<1>2. CASE Abandon(w)
  BY <1>2, RestType DEF Abandon, durable, rows, queues, bounds
<1>3. CASE Count(w)
  <2>1. worker' \in [Workers -> WorkerState] /\ PlaceOK'
    <3>1. worker[w].pc # "idle" /\ UNCHANGED rec
      BY <1>3 DEF Count
    <3>2. CASE Leave(w)
      BY <3>1, <3>2, LeaveType
    <3>3. CASE ~Leave(w)
      BY <1>3, <3>1, <3>3, VerdictType, CarryType DEF Count
    <3> QED
      BY <3>2, <3>3
  <2> QED
    BY <1>3, <2>1 DEF Count, durable, rows, queues, bounds
<1>4. CASE Finalize(w)
  <2>1. worker' \in [Workers -> WorkerState] /\ PlaceOK'
    BY <1>4, LeaveType DEF Finalize
  <2>2. JobOf(worker[w].d) \in Jobs /\ worker[w].verdict \in Verdicts
    BY <1>4, JobOfType DEF Finalize, PlaceOK
  <2> QED
    BY <1>4, <2>1, <2>2 DEF Finalize, rows, queues, bounds
<1>5. CASE DbError(w)
  <2>1. faults' \in 0 .. MaxFaults
    BY <1>5, BoundAssumption DEF DbError
  <2>2. worker' \in [Workers -> WorkerState] /\ PlaceOK'
    BY <1>5, RestType, LeaveType DEF DbError
  <2>3. dropped' \subseteq Delivery
    BY <1>5 DEF DbError, PlaceOK, Rest, Becomes
  <2> QED
    BY <1>5, <2>1, <2>2, <2>3 DEF DbError, durable, rows, queues
<1> QED
  BY <1>1, <1>2, <1>3, <1>4, <1>5

\* The notification workers keep the types.
LEMMA NotifyType ==
    ASSUME TypeInv, NEW w \in NotifyWorkers, NotifyStep(w)
    PROVE  TypeInv'
<1> USE DEF TypeInv, TypeOK
<1>0. w \in Workers /\ w \notin RetryWorkers
  BY WorkerAssumption DEF Workers
<1>1. CASE Receive(w)
  <2>1. /\ Head(deliveryCh) \in Delivery
        /\ deliveryCh' \in Seq(Delivery) /\ Len(deliveryCh') <= ChanCap
    <3>1. Len(deliveryCh) \in Nat
      BY LenProperties
    <3> QED
      BY <1>1, <3>1, QueueTail, BoundAssumption DEF Receive
  <2>2. worker' \in [Workers -> WorkerState] /\ PlaceOK'
    BY <1>0, <1>1, <2>1, AtPlace DEF Receive, Place
  <2> QED
    BY <1>1, <2>1, <2>2 DEF Receive, durable, rows, bounds
<1>2. CASE Claim(w)
  <2>1. worker[w].d \in Delivery /\ 1 \in 0 .. MaxRetries + 1
    BY <1>0, <1>2, BoundAssumption DEF Claim, PlaceOK
  <2>2. worker' \in [Workers -> WorkerState] /\ PlaceOK'
    BY <1>0, <1>2, <2>1, RestType, AttemptType DEF Claim, Place
  <2> QED
    BY <1>2, <2>1, <2>2 DEF Claim, Stored, Open, queues, bounds
<1>3. CASE NotifyFailed(w)
  <2>1. worker' \in [Workers -> WorkerState] /\ PlaceOK'
    BY <1>0, <1>3, RestType, GotoType DEF NotifyFailed, Place
  <2> QED
    BY <1>0, <1>3, <2>1 DEF NotifyFailed, Stored, PlaceOK, Open, queues, bounds
<1>4. CASE PushRetry(w)
  <2>1. retryCh' \in Seq(Delivery) /\ Len(retryCh') <= ChanCap
    BY <1>0, <1>4, QueueAppend, BoundAssumption DEF PushRetry, PlaceOK
  <2> QED
    BY <1>0, <1>4, <2>1, RestType DEF PushRetry, durable, rows, bounds
<1>5. CASE NotifySucceeded(w)
  <2>1. worker' \in [Workers -> WorkerState] /\ PlaceOK'
    BY <1>0, <1>5, RestType, GotoType DEF NotifySucceeded, Place
  <2> QED
    BY <1>0, <1>5, <2>1 DEF NotifySucceeded, Stored, PlaceOK, Closed, queues, bounds
<1> QED
  BY <1>0, <1>1, <1>2, <1>3, <1>4, <1>5, SharedType DEF NotifyStep

\* The retry workers keep the types: a claim raises attempts only below the
\* limit.
LEMMA RetryType ==
    ASSUME TypeInv, NEW w \in RetryWorkers, RetryStep(w)
    PROVE  TypeInv'
<1> USE DEF TypeInv, TypeOK
<1>0. w \in Workers
  BY DEF Workers
<1>1. CASE ReceiveRetry(w)
  <2>1. /\ Head(retryCh) \in Delivery
        /\ retryCh' \in Seq(Delivery) /\ Len(retryCh') <= ChanCap
    <3>1. Len(retryCh) \in Nat
      BY LenProperties
    <3> QED
      BY <1>1, <3>1, QueueTail, BoundAssumption DEF ReceiveRetry
  <2>2. worker' \in [Workers -> WorkerState] /\ PlaceOK'
    BY <1>0, <1>1, <2>1, AtPlace DEF ReceiveRetry, Place
  <2> QED
    BY <1>1, <2>1, <2>2 DEF ReceiveRetry, durable, rows, bounds
<1>2. CASE LoadRetry(w)
  <2>1. worker[w].d \in Delivery
    BY <1>0, <1>2 DEF LoadRetry, PlaceOK
  <2>2. attempts[worker[w].d] \in 0 .. MaxRetries + 1
    BY <2>1
  <2>3. worker' \in [Workers -> WorkerState] /\ PlaceOK'
    <3> DEFINE n == attempts[worker[w].d]
    <3>0. worker[w].pc # "idle" /\ UNCHANGED rec
      BY <1>2 DEF LoadRetry
    <3>1. CASE n > MaxRetries /\ Becomes(w, [worker[w] EXCEPT !.pc = "dlq", !.n = n])
      <4>1. "dlq" \in Place \ {"idle", "finalize"}
        BY DEF Place
      <4> HIDE DEF n, TypeInv
      <4> QED
        BY <1>0, <2>2, <3>0, <3>1, <4>1, AttemptType DEF n
    <3>2. CASE n <= MaxRetries /\ Becomes(w, [worker[w] EXCEPT !.pc = "claim", !.n = n])
      <4>1. "claim" \in Place \ {"idle", "finalize"}
        BY DEF Place
      <4> HIDE DEF n, TypeInv
      <4> QED
        BY <1>0, <2>2, <3>0, <3>2, <4>1, AttemptType DEF n
    <3>3. n > MaxRetries \/ n <= MaxRetries
      BY <2>2, BoundAssumption
    <3> QED
      BY <1>2, <2>2, <3>1, <3>2, <3>3, BoundAssumption DEF LoadRetry, Exhausted
  <2> QED
    BY <1>2, <2>3 DEF LoadRetry, durable, rows, queues, bounds
<1>3. CASE ClaimRetry(w)
  <2>1. worker[w].d \in Delivery /\ worker[w].n + 1 \in 0 .. MaxRetries + 1
    BY <1>0, <1>3, BoundAssumption DEF ClaimRetry, PlaceOK, WorkerState
  <2>2. worker' \in [Workers -> WorkerState] /\ PlaceOK'
    <3>1. CASE Rest(w)
      BY <1>0, <1>3, <3>1, RestType DEF ClaimRetry
    <3>2. CASE Becomes(w, [worker[w] EXCEPT !.pc = "send", !.n = worker[w].n + 1])
      <4>1. worker[w].pc # "idle" /\ UNCHANGED rec /\ "send" \in Place \ {"idle", "finalize"}
        BY <1>3 DEF ClaimRetry, Place
      <4> HIDE DEF TypeInv
      <4> QED
        BY <1>0, <2>1, <3>2, <4>1, AttemptType
    <3> QED
      BY <1>3, <3>1, <3>2 DEF ClaimRetry, NextAttempt
  <2> QED
    BY <1>3, <2>1, <2>2 DEF ClaimRetry, NextAttempt, Stored, Open, queues, bounds
<1>4. CASE RetryFailed(w)
  <2>1. worker[w].d \in Delivery
    BY <1>0, <1>4 DEF RetryFailed, PlaceOK
  <2>2. worker' \in [Workers -> WorkerState] /\ PlaceOK'
    BY <1>0, <1>4, <2>1, RestType, AtPlace DEF RetryFailed, Place
  <2> QED
    BY <1>4, <2>1, <2>2 DEF RetryFailed, Stored, Open, queues, bounds
<1>5. CASE RetrySucceeded(w)
  <2>1. worker' \in [Workers -> WorkerState] /\ PlaceOK'
    BY <1>0, <1>5, RestType, GotoType DEF RetrySucceeded, Place
  <2> QED
    BY <1>0, <1>5, <2>1 DEF RetrySucceeded, Stored, PlaceOK, Closed, queues, bounds
<1>6. CASE MoveToDLQ(w)
  <2>1. worker[w].d \in Delivery
    BY <1>0, <1>6 DEF MoveToDLQ, PlaceOK
  <2>2. worker' \in [Workers -> WorkerState] /\ PlaceOK'
    <3>1. CASE Rest(w)
      BY <1>0, <1>6, <3>1, RestType DEF MoveToDLQ
    <3> DEFINE r == [worker[w] EXCEPT !.pc = "count", !.dead = TRUE]
    <3>2. r \in WorkerState /\ r.pc = "count" /\ r.d = worker[w].d
      BY <1>0 DEF WorkerState, Place
    <3>3. CASE Becomes(w, r)
      BY <1>0, <1>6, <2>1, <3>2, <3>3, BecomesType DEF MoveToDLQ
    <3> QED
      BY <1>6, <3>1, <3>3 DEF MoveToDLQ
  <2> QED
    <3>1. deadLetters' \in [Delivery -> Nat]
      <4>1. \/ deadLetters' = [deadLetters EXCEPT ![worker[w].d] = @ + 1]
            \/ deadLetters' = deadLetters
        BY <1>6 DEF MoveToDLQ
      <4>2. deadLetters \in [Delivery -> Nat]
        OBVIOUS
      <4>3. deadLetters[worker[w].d] + 1 \in Nat
        BY <2>1, <4>2
      <4> HIDE DEF TypeInv, TypeOK
      <4> QED
        BY <2>1, <4>1, <4>2, <4>3
    <3>2. status' \in [Delivery -> {"absent"} \cup Open \cup Closed]
      BY <1>6, <2>1 DEF MoveToDLQ, Stored, Closed
    <3> QED
      BY <1>6, <2>2, <3>1, <3>2 DEF MoveToDLQ, queues, bounds
<1>7. CASE Bury(w)
  <2>1. deadLetterCh' \in 0 .. DeadLetterCap
    BY <1>7, BoundAssumption DEF Bury
  <2> QED
    BY <1>0, <1>7, <2>1, RestType DEF Bury, durable, rows, bounds
<1> QED
  BY <1>0, <1>1, <1>2, <1>3, <1>4, <1>5, <1>6, <1>7, SharedType DEF RetryStep

\* The next message to publish is one of those left.
LEMMA PublishRestType ==
    ASSUME NEW todo \in SUBSET Message, PublishRest(todo)
    PROVE  /\ rec' \in RecoveryState
           /\ rec'.pc = "publish" => rec'.at \in Message
  BY DEF PublishRest, Recovery, RecoveryState

\* Start-up recovery keeps the types.
LEMMA RecoveryType == TypeInv /\ (RecoveryStep \/ RecoveryError) => TypeInv'
<1> SUFFICES ASSUME TypeInv, RecoveryStep \/ RecoveryError PROVE TypeInv'
  OBVIOUS
<1> USE DEF TypeInv, TypeOK
<1>1. CASE JobsRecovered
  BY <1>1 DEF JobsRecovered, Recovery, RecoveryState, PlaceOK, durable, rows, queues, bounds
<1>2. CASE Release
  BY <1>2 DEF Release, Recovery, RecoveryState, PlaceOK, queues, bounds, Open
<1>3. CASE Scan
  <2>1. {<<d, status[d]>> : d \in {e \in Delivery : Recoverable(e)}} \subseteq Message
    BY DEF Recoverable, Message
  <2> QED
    BY <1>3, <2>1, PublishRestType
       DEF Scan, PlaceOK, durable, rows, queues, bounds
<1>4. CASE PublishRecovered
  <2>1. rec.at[1] \in Delivery /\ rec.todo \ {rec.at} \in SUBSET Message
    BY <1>4 DEF PublishRecovered, PlaceOK, RecoveryState, Message
  <2>2. /\ deliveryCh' \in Seq(Delivery) /\ Len(deliveryCh') <= ChanCap
        /\ retryCh' \in Seq(Delivery) /\ Len(retryCh') <= ChanCap
    <3>1. CASE rec.at[2] = "pending" /\ UNCHANGED retryCh
      <4>1. deliveryCh' = Append(deliveryCh, rec.at[1]) /\ Len(deliveryCh) < ChanCap
        BY <1>4, <3>1 DEF PublishRecovered
      <4> QED
        BY <2>1, <3>1, <4>1, QueueAppend, BoundAssumption
    <3>2. CASE rec.at[2] = "retrying" /\ UNCHANGED deliveryCh
      <4>1. retryCh' = Append(retryCh, rec.at[1]) /\ Len(retryCh) < ChanCap
        BY <1>4, <3>2 DEF PublishRecovered
      <4> QED
        BY <2>1, <3>2, <4>1, QueueAppend, BoundAssumption
    <3> QED
      BY <1>4, <3>1, <3>2 DEF PublishRecovered
  <2>3. PublishRest(rec.todo \ {rec.at})
    BY <1>4 DEF PublishRecovered
  <2> QED
    BY <1>4, <2>1, <2>2, <2>3, PublishRestType
       DEF PublishRecovered, PlaceOK, durable, rows, bounds
<1>5. CASE AbandonRecovery
  BY <1>5 DEF AbandonRecovery, Recovery, RecoveryState, PlaceOK, durable, rows, queues, bounds
<1>6. CASE RecoveryError
  BY <1>6, BoundAssumption DEF RecoveryError, Recovery, RecoveryState, PlaceOK, durable, rows, queues
<1> QED
  BY <1>1, <1>2, <1>3, <1>4, <1>5, <1>6 DEF RecoveryStep

\* Cancellation and restarts keep the types.
LEMMA ProcessType == TypeInv /\ (Cancel \/ Restart) => TypeInv'
<1> SUFFICES ASSUME TypeInv, Cancel \/ Restart PROVE TypeInv'
  OBVIOUS
<1> USE DEF TypeInv, TypeOK
<1>1. CASE Cancel
  BY <1>1, BoundAssumption DEF Cancel, PlaceOK, durable, rows, queues
<1>2. CASE Restart
  <2>1. <<>> \in Seq(Delivery) /\ Len(<<>>) = 0
    OBVIOUS
  <2> QED
    BY <1>2, <2>1, IdleType, BoundAssumption
       DEF Restart, Recovery, RecoveryState, PlaceOK, durable, rows
<1> QED
  BY <1>1, <1>2

LEMMA StutterType == TypeInv /\ UNCHANGED vars => TypeInv'
  BY DEF TypeInv, TypeOK, PlaceOK, vars, durable, rows, queues, bounds

LEMMA NextType == TypeInv /\ [Next]_vars => TypeInv'
  BY IntakeType, NotifyType, RetryType, RecoveryType, ProcessType, SharedType, StutterType
     DEF Next, FaultStep

\* Type correctness of the notification half: every variable keeps its type,
\* and a worker is only ever at a location with what the code there uses.
THEOREM TypeCorrect == Spec => [](TypeOK /\ PlaceOK)
<1>1. Init => TypeInv
  BY InitType
<1>2. TypeInv /\ [Next]_vars => TypeInv'
  BY NextType
<1> QED
  BY <1>1, <1>2, PTL DEF Spec, TypeInv

-----------------------------------------------------------------------------
(* Closed deliveries and exclusive attempts.                                *)

\* What makes ClosedForAReason and RetryClaimExclusive inductive: a worker that
\* is about to record a success has the provider's answer, one that is about
\* to dead-letter saw all attempts used, and an attempt in flight is never
\* ahead of the row's counter, which is why the next claim gets a new number.
Answered == \A w \in Workers : worker[w].pc = "ok" => worker[w].d \in accepted
Spent == \A w \in Workers : worker[w].pc = "dlq" => worker[w].n = MaxRetries + 1
Numbered ==
    \A w \in RetryWorkers : worker[w].pc \in InFlight =>
        /\ worker[w].n <= attempts[worker[w].d]
        /\ status[worker[w].d] \notin {"absent", "pending"}

SafeInv ==
    TypeInv /\ ClosedForAReason /\ Answered /\ Spent /\ Numbered /\ RetryClaimExclusive

Parts == ClosedForAReason /\ Answered /\ Spent /\ Numbered /\ RetryClaimExclusive

LEMMA InitSafe == Init => SafeInv
  BY InitType
     DEF Init, SafeInv, ClosedForAReason, Answered, Spent, Numbered,
         RetryClaimExclusive, Attempting, InFlight, Idle, Workers

\* Steps that touch neither the rows nor the workers.
LEMMA AwaySafe ==
    ASSUME SafeInv, UNCHANGED <<status, attempts, deadLetters, accepted, worker>>
    PROVE  Parts'
  BY DEF SafeInv, Parts, ClosedForAReason, Answered, Spent, Numbered,
         RetryClaimExclusive, Attempting

\* A worker that moves to a place outside an attempt, the rows unchanged.
LEMMA QuietSafe ==
    ASSUME SafeInv, NEW w \in Workers, NEW r, Becomes(w, r),
           r.pc \notin InFlight \cup {"dlq"},
           UNCHANGED <<status, attempts, deadLetters, accepted>>
    PROVE  Parts'
<1>1. worker' = [worker EXCEPT ![w] = r] /\ worker \in [Workers -> WorkerState]
  BY DEF Becomes, SafeInv, TypeInv, TypeOK
<1>2. worker'[w] = r /\ \A v \in Workers \ {w} : worker'[v] = worker[v]
  BY <1>1
<1>3. RetryWorkers \subseteq Workers
  BY DEF Workers
<1> QED
  BY <1>2, <1>3
     DEF SafeInv, Parts, ClosedForAReason, Answered, Spent, Numbered,
         RetryClaimExclusive, Attempting, InFlight

LEMMA RestSafe ==
    ASSUME SafeInv, NEW w \in Workers, Rest(w),
           UNCHANGED <<status, attempts, deadLetters, accepted>>
    PROVE  Parts'
  BY QuietSafe, IdleType DEF Rest, InFlight

LEMMA LeaveSafe ==
    ASSUME SafeInv, NEW w \in Workers, Leave(w),
           UNCHANGED <<status, attempts, deadLetters, accepted>>
    PROVE  Parts'
<1>1. CASE ~worker[w].dead
  BY <1>1, RestSafe DEF Leave
<1>2. CASE worker[w].dead
  <2> DEFINE r == [worker[w] EXCEPT !.pc = "bury", !.verdict = "none"]
  <2>1. r.pc = "bury"
    BY DEF SafeInv, TypeInv, TypeOK, WorkerState
  <2>2. Becomes(w, r)
    BY <1>2 DEF Leave
  <2> QED
    BY <2>1, <2>2, QuietSafe DEF InFlight
<1> QED
  BY <1>1, <1>2

\* The steps of the intake half.
LEMMA IntakeSafe ==
    ASSUME SafeInv, IntakeStep \/ \E d \in Delivery : Publish(d)
    PROVE  Parts'
<1>1. CASE UNCHANGED <<status, attempts, deadLetters, accepted, worker>>
  BY <1>1, AwaySafe
<1>2. ASSUME NEW j \in Jobs, NEW us \in SUBSET Users, CommitDeliveries(j, us)
      PROVE  Parts'
  <2>1. \A d \in Delivery : JobOf(d) = j => status[d] = "absent"
    BY <1>2 DEF CommitDeliveries, Rows
  <2>2. \A d \in Delivery : status'[d] = status[d]
                \/ (status[d] = "absent" /\ status'[d] = "pending")
    <3> TAKE d \in Delivery
    <3>1. status'[d] = IF JobOf(d) = j /\ d[2] \in us THEN "pending" ELSE status[d]
      <4>1. status' = [e \in Delivery |->
                IF JobOf(e) = j /\ e[2] \in us THEN "pending" ELSE status[e]]
        BY <1>2 DEF CommitDeliveries
      <4> QED
        BY <4>1
    <3> QED
      BY <2>1, <3>1
  <2>3. UNCHANGED <<attempts, deadLetters, accepted, worker>>
    BY <1>2 DEF CommitDeliveries
  <2>4. \A w \in RetryWorkers : worker[w].pc \in InFlight => worker[w].d \in Delivery
    BY DEF SafeInv, TypeInv, PlaceOK, InFlight, Workers
  <2> QED
    BY <2>2, <2>3, <2>4
       DEF SafeInv, Parts, ClosedForAReason, Answered, Spent, Numbered,
           RetryClaimExclusive, Attempting
<1> QED
  BY <1>1, <1>2
     DEF IntakeStep, IntakeError, CreateJob, RependJob, ResetJob, FinishEmptyJob, AbandonPublish,
         Publish, rows, durable

\* Start-up recovery and the process: releasing a row keeps its attempts.
LEMMA RecoverySafe ==
    ASSUME SafeInv, RecoveryStep \/ RecoveryError \/ Cancel \/ Restart
    PROVE  Parts'
<1>1. CASE UNCHANGED <<status, attempts, deadLetters, accepted, worker>>
  BY <1>1, AwaySafe
<1>2. CASE Release
  <2>1. \A d \in Delivery : status'[d] = status[d]
                \/ (status[d] = "processing" /\ status'[d] = "retrying")
    <3> TAKE d \in Delivery
    <3>1. status'[d] = IF status[d] = "processing" THEN "retrying" ELSE status[d]
      BY <1>2 DEF Release, Interrupted
    <3> QED
      BY <3>1
  <2>2. UNCHANGED <<attempts, deadLetters, accepted, worker>>
    BY <1>2 DEF Release
  <2>3. \A w \in RetryWorkers : worker[w].pc \in InFlight => worker[w].d \in Delivery
    BY DEF SafeInv, TypeInv, PlaceOK, InFlight, Workers
  <2> QED
    BY <2>1, <2>2, <2>3
       DEF SafeInv, Parts, ClosedForAReason, Answered, Spent, Numbered,
           RetryClaimExclusive, Attempting
<1>3. CASE Restart
  <2>1. \A w \in Workers : worker'[w].pc = "idle"
    BY <1>3, IdleType DEF Restart
  <2>2. UNCHANGED <<status, attempts, deadLetters, accepted>>
    BY <1>3 DEF Restart, durable, rows
  <2> QED
    BY <2>1, <2>2
       DEF SafeInv, Parts, ClosedForAReason, Answered, Spent, Numbered,
           RetryClaimExclusive, Attempting, InFlight, Workers
<1> QED
  BY <1>1, <1>2, <1>3
     DEF RecoveryStep, JobsRecovered, Scan, PublishRecovered, AbandonRecovery,
         RecoveryError, Cancel, rows, durable

\* A worker that stores or claims on its own delivery d: what the other
\* deliveries and workers satisfy carries over.
LEMMA OwnRowSafe ==
    ASSUME SafeInv, NEW w \in Workers, NEW d \in Delivery, NEW r,
           worker[w].pc # "idle", worker[w].d = d, r.d = d, Becomes(w, r),
           \A e \in Delivery \ {d} : /\ status'[e] = status[e]
                                    /\ attempts'[e] = attempts[e]
                                    /\ deadLetters'[e] = deadLetters[e],
           accepted \subseteq accepted', accepted' \subseteq accepted \cup {d},
           status'[d] \notin {"absent", "pending"},
           attempts[d] <= attempts'[d],
           attempts[d] \in Nat, attempts'[d] \in Nat,
           \* the row stays explicable
           status'[d] = "success" => d \in accepted',
           status'[d] = "failed" => attempts'[d] = MaxRetries + 1,
           deadLetters'[d] = IF status'[d] = "failed" THEN 1 ELSE 0,
           \* and so does the worker
           r.pc = "ok" => d \in accepted', r.pc # "dlq",
           w \in RetryWorkers /\ r.pc \in InFlight =>
               /\ r.n <= attempts'[d]
               /\ \A v \in RetryWorkers \ {w} : Attempting(v, d) => worker[v].n # r.n
    PROVE  Parts'
<1>1. worker' = [worker EXCEPT ![w] = r] /\ worker \in [Workers -> WorkerState]
  BY DEF Becomes, SafeInv, TypeInv, TypeOK
<1>2. worker'[w] = r /\ \A v \in Workers \ {w} : worker'[v] = worker[v]
  BY <1>1
<1>3. RetryWorkers \subseteq Workers
  BY DEF Workers
<1>4. \A v \in Workers : worker[v].pc # "idle" =>
          worker[v].d \in Delivery /\ worker[v].n \in Nat
  BY <1>1, BoundAssumption DEF SafeInv, TypeInv, PlaceOK, WorkerState
<1>5. ClosedForAReason'
  BY DEF SafeInv, ClosedForAReason
<1>6. Answered'
  BY <1>2, <1>4 DEF SafeInv, Answered
<1>7. Spent'
  BY <1>2 DEF SafeInv, Spent
<1>8. Numbered'
  <2> SUFFICES ASSUME NEW v \in RetryWorkers, worker'[v].pc \in InFlight
               PROVE  /\ worker'[v].n <= attempts'[worker'[v].d]
                      /\ status'[worker'[v].d] \notin {"absent", "pending"}
    BY DEF Numbered
  <2>1. CASE v = w
    BY <1>2, <2>1
  <2>2. CASE v # w /\ worker[v].d = d
    BY <1>2, <1>3, <1>4, <2>2 DEF SafeInv, Numbered, InFlight
  <2>3. CASE v # w /\ worker[v].d # d
    BY <1>2, <1>3, <1>4, <2>3 DEF SafeInv, Numbered, InFlight
  <2> QED
    BY <2>1, <2>2, <2>3
<1>9. RetryClaimExclusive'
  BY <1>2, <1>3 DEF SafeInv, RetryClaimExclusive, Attempting
<1> QED
  BY <1>5, <1>6, <1>7, <1>8, <1>9 DEF Parts

\* Steps both pools take.
LEMMA SharedSafe ==
    ASSUME SafeInv, NEW w \in Workers,
           Send(w) \/ Count(w) \/ Finalize(w) \/ Abandon(w) \/ DbError(w)
    PROVE  Parts'
<1>0. worker[w] \in WorkerState /\ (worker[w].pc # "idle" => worker[w].d \in Delivery)
  BY DEF SafeInv, TypeInv, TypeOK, PlaceOK
<1>1. CASE Send(w)
  <2> DEFINE d == worker[w].d
  <2>1. worker[w].pc = "send" /\ d \in Delivery
    BY <1>0, <1>1 DEF Send
  <2>2. PICK pc \in {"ok", "err"} :
          /\ Becomes(w, [worker[w] EXCEPT !.pc = pc])
          /\ accepted \subseteq accepted' /\ accepted' \subseteq accepted \cup {d}
          /\ pc = "ok" => d \in accepted'
    BY <1>1 DEF Send, Goto
  <2>3. UNCHANGED <<status, attempts, deadLetters>>
    BY <1>1 DEF Send, rows
  <2> DEFINE r == [worker[w] EXCEPT !.pc = pc]
  <2>4. r.pc = pc /\ r.d = d /\ r.n = worker[w].n
    BY <1>0 DEF WorkerState
  <2>5. /\ worker'[w] = r /\ \A v \in Workers \ {w} : worker'[v] = worker[v]
    BY <2>2 DEF Becomes, SafeInv, TypeInv, TypeOK
  <2>6. RetryWorkers \subseteq Workers
    BY DEF Workers
  <2> HIDE DEF r
  <2>7. ClosedForAReason'
    BY <2>2, <2>3 DEF SafeInv, ClosedForAReason
  <2>8. Answered' /\ Spent'
    BY <2>2, <2>4, <2>5 DEF SafeInv, Answered, Spent
  <2>9. Numbered' /\ RetryClaimExclusive'
    BY <2>1, <2>2, <2>3, <2>4, <2>5, <2>6
       DEF SafeInv, Numbered, RetryClaimExclusive, Attempting, InFlight
  <2> QED
    BY <2>7, <2>8, <2>9 DEF Parts
<1>2. CASE Abandon(w)
  BY <1>2, RestSafe DEF Abandon, durable, rows
<1>3. CASE Count(w)
  <2>1. UNCHANGED <<status, attempts, deadLetters, accepted>>
    BY <1>3 DEF Count, durable, rows
  <2>2. CASE Leave(w)
    BY <2>1, <2>2, LeaveSafe
  <2>3. CASE ~Leave(w)
    <3>1. PICK v : Becomes(w, [worker[w] EXCEPT !.pc = "finalize", !.verdict = v])
      BY <1>3, <2>3 DEF Count
    <3>2. [worker[w] EXCEPT !.pc = "finalize", !.verdict = v].pc = "finalize"
      BY <1>0 DEF WorkerState
    <3> QED
      BY <2>1, <3>1, <3>2, QuietSafe DEF InFlight
  <2> QED
    BY <2>2, <2>3
<1>4. CASE Finalize(w)
  BY <1>4, LeaveSafe DEF Finalize, rows
<1>5. CASE DbError(w)
  <2>1. UNCHANGED <<status, attempts, deadLetters, accepted>>
    BY <1>5 DEF DbError, durable, rows
  <2> QED
    BY <1>5, <2>1, RestSafe, LeaveSafe DEF DbError
<1> QED
  BY <1>1, <1>2, <1>3, <1>4, <1>5

\* The notification workers: an outcome is only stored on a processing row, so
\* a closed row is not touched, and "success" follows the provider's answer.
LEMMA NotifySafe ==
    ASSUME SafeInv, NEW w \in NotifyWorkers, NotifyStep(w)
    PROVE  Parts'
<1>0. /\ w \in Workers /\ w \notin RetryWorkers /\ worker[w] \in WorkerState
      /\ worker[w].pc # "idle" => worker[w].d \in Delivery
  BY WorkerAssumption DEF Workers, SafeInv, TypeInv, TypeOK, PlaceOK
<1> DEFINE d == worker[w].d
<1>1. CASE Receive(w)
  <2>1. At("claim", Head(deliveryCh), 0).pc = "claim"
    BY DEF At, Idle
  <2> QED
    BY <1>0, <1>1, <2>1, QuietSafe DEF Receive, durable, rows, InFlight
<1>2. CASE Claim(w)
  <2>1. CASE Rest(w) /\ UNCHANGED <<status, attempts>>
    BY <1>0, <1>2, <2>1, RestSafe DEF Claim
  <2>2. CASE status[d] = "pending" /\ Stored(d, "processing")
             /\ attempts' = [attempts EXCEPT ![d] = 1]
             /\ Becomes(w, [worker[w] EXCEPT !.pc = "send", !.n = 1])
    <3> DEFINE r == [worker[w] EXCEPT !.pc = "send", !.n = 1]
    <3>1. r.pc = "send" /\ r.d = d
      BY <1>0 DEF WorkerState
    <3>2. worker[w].pc # "idle" /\ d \in Delivery /\ UNCHANGED <<deadLetters, accepted>>
      BY <1>0, <1>2 DEF Claim
    <3>3. status \in [Delivery -> {"absent"} \cup Open \cup Closed]
      BY DEF SafeInv, TypeInv, TypeOK
    <3>4. attempts \in [Delivery -> 0 .. MaxRetries + 1]
      BY DEF SafeInv, TypeInv, TypeOK
    <3>5. status'[d] = "processing" /\ attempts'[d] = 1
          /\ \A e \in Delivery \ {d} : status'[e] = status[e] /\ attempts'[e] = attempts[e]
      BY <2>2, <3>2, <3>3, <3>4 DEF Stored
    <3>6. \A v \in RetryWorkers : ~ Attempting(v, d)
      BY <2>2 DEF SafeInv, Numbered, Attempting
    <3>7. deadLetters[d] = 0
      BY <2>2, <3>2 DEF SafeInv, ClosedForAReason
    <3>8. ClosedForAReason'
      BY <2>2, <3>2, <3>5 DEF SafeInv, ClosedForAReason
    <3>9. worker'[w] = r /\ \A v \in Workers \ {w} : worker'[v] = worker[v]
      BY <1>0, <2>2 DEF Becomes, SafeInv, TypeInv, TypeOK
    <3>10. RetryWorkers \subseteq Workers \ {w}
      BY <1>0 DEF Workers
    <3> HIDE DEF r
    <3>11. Answered' /\ Spent'
      BY <3>1, <3>2, <3>9 DEF SafeInv, Answered, Spent
    <3>12. Numbered' /\ RetryClaimExclusive'
      <4>1. \A v \in RetryWorkers : worker'[v] = worker[v]
        BY <3>9, <3>10
      <4>2. \A v \in RetryWorkers : worker[v].pc \in InFlight =>
              worker[v].d \in Delivery \ {d}
        BY <3>6, <3>10 DEF Attempting, SafeInv, TypeInv, PlaceOK, InFlight
      <4> QED
        BY <3>5, <4>1, <4>2 DEF SafeInv, Numbered, RetryClaimExclusive, Attempting
    <3> QED
      BY <3>8, <3>11, <3>12 DEF Parts
  <2> QED
    BY <1>2, <2>1, <2>2 DEF Claim, NotifyClaimable
<1>3. CASE NotifyFailed(w)
  <2>1. CASE Rest(w) /\ UNCHANGED <<status>>
    BY <1>0, <1>3, <2>1, RestSafe DEF NotifyFailed
  <2>2. CASE status[d] = "processing" /\ Stored(d, "retrying") /\ Goto(w, "push")
    <3> DEFINE r == [worker[w] EXCEPT !.pc = "push"]
    <3>1. r.pc = "push" /\ r.d = d
      BY <1>0 DEF WorkerState
    <3>2. /\ worker[w].pc # "idle" /\ d \in Delivery
          /\ UNCHANGED <<attempts, deadLetters, accepted>>
      BY <1>0, <1>3 DEF NotifyFailed
    <3>3. status'[d] = "retrying" /\ \A e \in Delivery \ {d} : status'[e] = status[e]
      BY <2>2, <3>2 DEF Stored, SafeInv, TypeInv, TypeOK
    <3>4. attempts[d] \in Nat
      BY <3>2, BoundAssumption DEF SafeInv, TypeInv, TypeOK
    <3>5. deadLetters[d] = 0
      BY <2>2, <3>2 DEF SafeInv, ClosedForAReason
    <3>6. Becomes(w, r)
      BY <2>2 DEF Goto
    <3> HIDE DEF r
    <3> QED
      BY <1>0, <3>1, <3>2, <3>3, <3>4, <3>5, <3>6, OwnRowSafe
  <2> QED
    BY <1>3, <2>1, <2>2 DEF NotifyFailed, NotifyOwns
<1>4. CASE PushRetry(w)
  BY <1>0, <1>4, RestSafe DEF PushRetry, durable, rows
<1>5. CASE NotifySucceeded(w)
  <2>1. CASE Rest(w) /\ UNCHANGED <<status>>
    BY <1>0, <1>5, <2>1, RestSafe DEF NotifySucceeded
  <2>2. CASE status[d] = "processing" /\ Stored(d, "success") /\ Goto(w, "count")
    <3> DEFINE r == [worker[w] EXCEPT !.pc = "count"]
    <3>1. r.pc = "count" /\ r.d = d
      BY <1>0 DEF WorkerState
    <3>2. /\ worker[w].pc # "idle" /\ d \in Delivery
          /\ UNCHANGED <<attempts, deadLetters, accepted>>
      BY <1>0, <1>5 DEF NotifySucceeded
    <3>3. status'[d] = "success" /\ \A e \in Delivery \ {d} : status'[e] = status[e]
      BY <2>2, <3>2 DEF Stored, SafeInv, TypeInv, TypeOK
    <3>4. attempts[d] \in Nat
      BY <3>2, BoundAssumption DEF SafeInv, TypeInv, TypeOK
    <3>5. deadLetters[d] = 0
      BY <2>2, <3>2 DEF SafeInv, ClosedForAReason
    <3>6. d \in accepted
      BY <1>0, <1>5 DEF NotifySucceeded, SafeInv, Answered
    <3>7. Becomes(w, r)
      BY <2>2 DEF Goto
    <3> HIDE DEF r
    <3> QED
      BY <1>0, <3>1, <3>2, <3>3, <3>4, <3>5, <3>6, <3>7, OwnRowSafe DEF InFlight
  <2> QED
    BY <1>5, <2>1, <2>2 DEF NotifySucceeded, NotifyOwns
<1> QED
  BY <1>0, <1>1, <1>2, <1>3, <1>4, <1>5, SharedSafe DEF NotifyStep

\* The retry workers: a claim takes a number above every attempt in flight, and
\* a row is dead-lettered only as it was loaded, with all attempts used.
LEMMA RetrySafe ==
    ASSUME SafeInv, NEW w \in RetryWorkers, RetryStep(w)
    PROVE  Parts'
<1>0. /\ w \in Workers /\ worker[w] \in WorkerState
      /\ worker[w].pc # "idle" => worker[w].d \in Delivery
  BY DEF Workers, SafeInv, TypeInv, TypeOK, PlaceOK
<1> DEFINE d == worker[w].d
<1>1. d \in Delivery => /\ attempts[d] \in 0 .. MaxRetries + 1
                        /\ attempts[d] \in Nat
  BY BoundAssumption DEF SafeInv, TypeInv, TypeOK
<1>2. ASSUME NEW s, d \in Delivery, Stored(d, s)
      PROVE  status'[d] = s /\ \A e \in Delivery \ {d} : status'[e] = status[e]
  BY <1>2 DEF Stored, SafeInv, TypeInv, TypeOK
<1>3. CASE ReceiveRetry(w)
  <2>1. At("load", Head(retryCh), 0).pc = "load"
    BY DEF At, Idle
  <2> QED
    BY <1>0, <1>3, <2>1, QuietSafe DEF ReceiveRetry, durable, rows, InFlight
<1>4. CASE LoadRetry(w)
  <2>1. UNCHANGED <<status, attempts, deadLetters, accepted>> /\ d \in Delivery
    BY <1>0, <1>4 DEF LoadRetry, durable, rows
  <2>2. CASE Becomes(w, [worker[w] EXCEPT !.pc = "claim", !.n = attempts[d]])
    <3>1. [worker[w] EXCEPT !.pc = "claim", !.n = attempts[d]].pc = "claim"
      BY <1>0 DEF WorkerState
    <3> QED
      BY <1>0, <2>1, <2>2, <3>1, QuietSafe DEF InFlight
  <2>3. CASE /\ Becomes(w, [worker[w] EXCEPT !.pc = "dlq", !.n = attempts[d]])
             /\ attempts[d] > MaxRetries
    <3> DEFINE r == [worker[w] EXCEPT !.pc = "dlq", !.n = attempts[d]]
    <3>1. r.pc = "dlq" /\ r.n = attempts[d]
      BY <1>0 DEF WorkerState
    <3>2. attempts[d] = MaxRetries + 1
      BY <1>1, <2>1, <2>3, BoundAssumption
    <3>3. worker'[w] = r /\ \A v \in Workers \ {w} : worker'[v] = worker[v]
      BY <1>0, <2>3 DEF Becomes, SafeInv, TypeInv, TypeOK
    <3>4. RetryWorkers \subseteq Workers
      BY DEF Workers
    <3> HIDE DEF r
    <3>5. ClosedForAReason'
      BY <2>1 DEF SafeInv, ClosedForAReason
    <3>6. Answered' /\ Spent'
      BY <2>1, <3>1, <3>2, <3>3 DEF SafeInv, Answered, Spent
    <3>7. Numbered' /\ RetryClaimExclusive'
      BY <2>1, <3>1, <3>3, <3>4
         DEF SafeInv, Numbered, RetryClaimExclusive, Attempting, InFlight
    <3> QED
      BY <3>5, <3>6, <3>7 DEF Parts
  <2> QED
    BY <1>4, <2>2, <2>3 DEF LoadRetry, Exhausted
<1>5. CASE ClaimRetry(w)
  <2>1. CASE Rest(w) /\ UNCHANGED <<status, attempts>>
    BY <1>0, <1>5, <2>1, RestSafe DEF ClaimRetry
  <2> DEFINE r == [worker[w] EXCEPT !.pc = "send", !.n = worker[w].n + 1]
  <2>2. CASE /\ StillAsLoaded(w) /\ Stored(d, "processing") /\ Becomes(w, r)
             /\ attempts' = [attempts EXCEPT ![d] = worker[w].n + 1]
    <3>1. /\ worker[w].pc # "idle" /\ d \in Delivery
          /\ UNCHANGED <<deadLetters, accepted>>
      BY <1>0, <1>5 DEF ClaimRetry
    <3>2. r.pc = "send" /\ r.d = d /\ r.n = worker[w].n + 1
      BY <1>0 DEF WorkerState
    <3>3. status[d] = "retrying" /\ attempts[d] = worker[w].n
      BY <2>2 DEF StillAsLoaded
    <3>4. attempts'[d] = attempts[d] + 1
          /\ \A e \in Delivery \ {d} : attempts'[e] = attempts[e]
      BY <2>2, <3>1, <3>3 DEF SafeInv, TypeInv, TypeOK
    <3>5. status'[d] = "processing" /\ \A e \in Delivery \ {d} : status'[e] = status[e]
      BY <1>2, <2>2, <3>1
    <3>6. \A v \in RetryWorkers \ {w} : Attempting(v, d) => worker[v].n <= attempts[d]
      BY DEF SafeInv, Numbered, Attempting
    <3>7. \A v \in RetryWorkers : worker[v].n \in Nat
      BY BoundAssumption DEF SafeInv, TypeInv, TypeOK, WorkerState, Workers
    <3>8. \A v \in RetryWorkers \ {w} : Attempting(v, d) => worker[v].n # r.n
      BY <1>1, <3>1, <3>2, <3>3, <3>6, <3>7
    <3>9. deadLetters[d] = 0
      BY <3>1, <3>3 DEF SafeInv, ClosedForAReason
    <3>10. attempts[d] <= attempts'[d] /\ r.n <= attempts'[d] /\ attempts'[d] \in Nat
      BY <1>1, <3>1, <3>2, <3>3, <3>4
    <3> HIDE DEF r
    <3> QED
      BY <1>0, <1>1, <2>2, <3>1, <3>2, <3>4, <3>5, <3>8, <3>9, <3>10, OwnRowSafe
  <2> QED
    BY <1>5, <2>1, <2>2 DEF ClaimRetry, NextAttempt
<1>6. CASE RetryFailed(w)
  <2>1. CASE Rest(w) /\ UNCHANGED <<status>>
    BY <1>0, <1>6, <2>1, RestSafe DEF RetryFailed
  <2> DEFINE r == At("load", d, 0)
  <2>2. CASE status[d] = "processing" /\ Stored(d, "retrying") /\ Becomes(w, r)
    <3>1. r.pc = "load" /\ r.d = d
      BY DEF At, Idle
    <3>2. /\ worker[w].pc # "idle" /\ d \in Delivery
          /\ UNCHANGED <<attempts, deadLetters, accepted>>
      BY <1>0, <1>6 DEF RetryFailed
    <3>3. status'[d] = "retrying" /\ \A e \in Delivery \ {d} : status'[e] = status[e]
      BY <1>2, <2>2, <3>2
    <3>4. deadLetters[d] = 0
      BY <2>2, <3>2 DEF SafeInv, ClosedForAReason
    <3> HIDE DEF r
    <3> QED
      BY <1>0, <1>1, <2>2, <3>1, <3>2, <3>3, <3>4, OwnRowSafe DEF InFlight
  <2> QED
    BY <1>6, <2>1, <2>2 DEF RetryFailed, RetryOwns
<1>7. CASE RetrySucceeded(w)
  <2>1. CASE Rest(w) /\ UNCHANGED <<status>>
    BY <1>0, <1>7, <2>1, RestSafe DEF RetrySucceeded
  <2> DEFINE r == [worker[w] EXCEPT !.pc = "count"]
  <2>2. CASE status[d] = "processing" /\ Stored(d, "success") /\ Goto(w, "count")
    <3>1. r.pc = "count" /\ r.d = d
      BY <1>0 DEF WorkerState
    <3>2. /\ worker[w].pc # "idle" /\ d \in Delivery
          /\ UNCHANGED <<attempts, deadLetters, accepted>>
      BY <1>0, <1>7 DEF RetrySucceeded
    <3>3. status'[d] = "success" /\ \A e \in Delivery \ {d} : status'[e] = status[e]
      BY <1>2, <2>2, <3>2
    <3>4. deadLetters[d] = 0
      BY <2>2, <3>2 DEF SafeInv, ClosedForAReason
    <3>5. d \in accepted
      BY <1>0, <1>7 DEF RetrySucceeded, SafeInv, Answered
    <3>6. Becomes(w, r)
      BY <2>2 DEF Goto
    <3> HIDE DEF r
    <3> QED
      BY <1>0, <1>1, <3>1, <3>2, <3>3, <3>4, <3>5, <3>6, OwnRowSafe DEF InFlight
  <2> QED
    BY <1>7, <2>1, <2>2 DEF RetrySucceeded, RetryOwns
<1>8. CASE MoveToDLQ(w)
  <2>1. CASE Rest(w) /\ UNCHANGED <<status, deadLetters>>
    BY <1>0, <1>8, <2>1, RestSafe DEF MoveToDLQ
  <2> DEFINE r == [worker[w] EXCEPT !.pc = "count", !.dead = TRUE]
  <2>2. CASE /\ StillAsLoaded(w) /\ Stored(d, "failed") /\ Becomes(w, r)
             /\ deadLetters' = [deadLetters EXCEPT ![d] = @ + 1]
    <3>1. r.pc = "count" /\ r.d = d
      BY <1>0 DEF WorkerState
    <3>2. /\ worker[w].pc = "dlq" /\ d \in Delivery
          /\ UNCHANGED <<attempts, accepted>>
      BY <1>0, <1>8 DEF MoveToDLQ
    <3>3. status'[d] = "failed" /\ \A e \in Delivery \ {d} : status'[e] = status[e]
      BY <1>2, <2>2, <3>2
    <3>4. status[d] = "retrying" /\ attempts[d] = worker[w].n
      BY <2>2 DEF StillAsLoaded
    <3>5. attempts[d] = MaxRetries + 1
      BY <1>0, <3>2, <3>4 DEF SafeInv, Spent
    <3>6. deadLetters[d] = 0
      BY <3>2, <3>4 DEF SafeInv, ClosedForAReason
    <3>7. deadLetters'[d] = 1 /\ \A e \in Delivery \ {d} : deadLetters'[e] = deadLetters[e]
      BY <2>2, <3>2, <3>6 DEF SafeInv, TypeInv, TypeOK
    <3> HIDE DEF r
    <3> QED
      BY <1>0, <1>1, <2>2, <3>1, <3>2, <3>3, <3>5, <3>7, OwnRowSafe DEF InFlight
  <2> QED
    BY <1>8, <2>1, <2>2 DEF MoveToDLQ
<1>9. CASE Bury(w)
  BY <1>0, <1>9, RestSafe DEF Bury, durable, rows
<1> QED
  BY <1>0, <1>3, <1>4, <1>5, <1>6, <1>7, <1>8, <1>9, SharedSafe DEF RetryStep

LEMMA NextSafe == SafeInv /\ [Next]_vars => SafeInv'
<1> SUFFICES ASSUME SafeInv, [Next]_vars PROVE SafeInv'
  OBVIOUS
<1>1. TypeInv'
  BY NextType DEF SafeInv
<1>2. Parts'
  <2>1. CASE UNCHANGED vars
    BY <2>1, AwaySafe DEF vars, durable, rows
  <2> QED
    BY <2>1, IntakeSafe, NotifySafe, RetrySafe, RecoverySafe, SharedSafe
       DEF Next, FaultStep
<1> QED
  BY <1>1, <1>2 DEF SafeInv, Parts

LEMMA SafeCorrect == Spec => []SafeInv
<1> QED
  BY InitSafe, NextSafe, PTL DEF Spec

\* A delivery is only ever recorded as sent after the provider accepted it, and
\* only ever dead-lettered with all attempts used and exactly one dead letter.
THEOREM ClosedForAReasonHolds == Spec => []ClosedForAReason
<1>1. SafeInv => ClosedForAReason
  BY DEF SafeInv
<1> QED
  BY <1>1, SafeCorrect, PTL

\* No two retry workers ever make the same attempt at the same delivery.
THEOREM RetryClaimExclusiveHolds == Spec => []RetryClaimExclusive
<1>1. SafeInv => RetryClaimExclusive
  BY DEF SafeInv
<1> QED
  BY <1>1, SafeCorrect, PTL

-----------------------------------------------------------------------------
(* Closed deliveries stay closed.                                           *)

Frozen(d) == /\ status'[d] = status[d] /\ attempts'[d] = attempts[d]
             /\ deadLetters'[d] = deadLetters[d]

\* Every action that writes a row asks for an open status of that very row.
LEMMA StepFreezes ==
    ASSUME SafeInv, [Next]_vars, NEW d \in Delivery, status[d] \in Closed
    PROVE  Frozen(d)
<1>0. /\ status \in [Delivery -> {"absent"} \cup Open \cup Closed]
      /\ attempts \in [Delivery -> 0 .. MaxRetries + 1]
      /\ deadLetters \in [Delivery -> Nat]
      /\ status[d] \notin {"absent", "pending", "processing", "retrying"}
  BY DEF SafeInv, TypeInv, TypeOK, Closed
<1>1. CASE UNCHANGED <<status, attempts, deadLetters>>
  BY <1>1 DEF Frozen
<1>2. CASE IntakeStep \/ \E e \in Delivery : Publish(e)
  <2>1. ASSUME NEW j \in Jobs, NEW us \in SUBSET Users, CommitDeliveries(j, us)
        PROVE  Frozen(d)
    <3>1. JobOf(d) # j
      BY <1>0, <2>1 DEF CommitDeliveries, Rows
    <3>2. status' = [e \in Delivery |->
              IF JobOf(e) = j /\ e[2] \in us THEN "pending" ELSE status[e]]
      BY <2>1 DEF CommitDeliveries
    <3> QED
      BY <2>1, <3>1, <3>2 DEF CommitDeliveries, Frozen
  <2> QED
    BY <1>1, <1>2, <2>1
       DEF IntakeStep, IntakeError, CreateJob, RependJob, ResetJob, FinishEmptyJob, AbandonPublish,
           Publish, rows, durable
<1>3. ASSUME NEW w \in Workers,
             Send(w) \/ Count(w) \/ Finalize(w) \/ Abandon(w) \/ DbError(w)
      PROVE  Frozen(d)
  BY <1>1, <1>3 DEF Send, Count, Finalize, Abandon, DbError, rows, durable
<1>4. ASSUME NEW w \in NotifyWorkers, NotifyStep(w) PROVE Frozen(d)
  <2>1. CASE Claim(w)
    BY <1>0, <2>1 DEF Claim, NotifyClaimable, Stored, Frozen
  <2>2. CASE NotifyFailed(w) \/ NotifySucceeded(w)
    BY <1>0, <2>2 DEF NotifyFailed, NotifySucceeded, NotifyOwns, Stored, Frozen
  <2> QED
    BY <1>1, <1>3, <1>4, <2>1, <2>2
       DEF NotifyStep, Receive, PushRetry, rows, durable, Workers
<1>5. ASSUME NEW w \in RetryWorkers, RetryStep(w) PROVE Frozen(d)
  <2>1. CASE ClaimRetry(w) \/ MoveToDLQ(w)
    BY <1>0, <2>1 DEF ClaimRetry, MoveToDLQ, StillAsLoaded, Stored, Frozen
  <2>2. CASE RetryFailed(w) \/ RetrySucceeded(w)
    BY <1>0, <2>2 DEF RetryFailed, RetrySucceeded, RetryOwns, Stored, Frozen
  <2> QED
    BY <1>1, <1>3, <1>5, <2>1, <2>2
       DEF RetryStep, ReceiveRetry, LoadRetry, Bury, rows, durable, Workers
<1>6. CASE RecoveryStep \/ RecoveryError
  <2>1. CASE Release
    <3>1. status'[d] = status[d]
      BY <1>0, <2>1 DEF Release, Interrupted
    <3> QED
      BY <2>1, <3>1 DEF Release, Frozen
  <2> QED
    BY <1>1, <1>6, <2>1
       DEF RecoveryStep, RecoveryError, JobsRecovered, Scan, PublishRecovered,
           AbandonRecovery, rows, durable
<1>7. CASE Cancel \/ Restart
  BY <1>1, <1>7 DEF Cancel, Restart, rows, durable
<1> QED
  BY <1>1, <1>2, <1>3, <1>4, <1>5, <1>6, <1>7 DEF Next, FaultStep, vars, rows, durable

\* Once a delivery is recorded as sent or failed, no step of any worker, of
\* recovery or of a later boot changes it again.
THEOREM ClosedForeverHolds == Spec => ClosedForever
<1>1. SafeInv /\ [Next]_vars =>
        [\A d \in Delivery : status[d] \in Closed =>
             /\ status'[d] = status[d] /\ attempts'[d] = attempts[d]
             /\ deadLetters'[d] = deadLetters[d]]_vars
  BY StepFreezes DEF Frozen
<1> QED
  BY <1>1, SafeCorrect, PTL DEF Spec, ClosedForever

=============================================================================
