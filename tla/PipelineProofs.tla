--------------------------- MODULE PipelineProofs ---------------------------
(***************************************************************************)
(* The two halves of the pipeline fit: for any jobs, users, pools and      *)
(* capacities the composition is a behaviour of each of them, so what is   *)
(* proved of a half alone holds of the whole.                              *)
(***************************************************************************)
EXTENDS Pipeline, TLAPS

D == INSTANCE DeliveryProofs
Q == INSTANCE IntakeProofs WITH notified <- Notified

-----------------------------------------------------------------------------
(* The halves, as the pipeline names them and as their theorems do          *)

LEMMA DeliveryAssumed ==
    /\ NotifyWorkers \cap RetryWorkers = {}
    /\ D!IsFiniteSet(Jobs) /\ D!IsFiniteSet(Users)
    /\ None \notin D!Delivery
    /\ MaxRetries \in Nat /\ ChanCap \in Nat \ {0} /\ DeadLetterCap \in Nat
    /\ MaxRestarts \in Nat /\ MaxFaults \in Nat
  BY PipelineAssumption DEF D!Delivery, D!IsFiniteSet, IsFiniteSet

LEMMA IntakeAssumed ==
    /\ QueueCap \in Nat \ {0}
    /\ MaxRestarts \in Nat /\ MaxFaults \in Nat
    /\ Near \in [Jobs -> SUBSET Users]
    /\ Kind \in [Jobs -> {"good", "unlocated", "short", "garbled"}]
    /\ Legacy \subseteq Jobs
    /\ \A j \in Jobs : Kind[j] # "good" => j \in Legacy
    /\ None \notin Jobs
  BY PipelineAssumption

\* The pipeline and the theorems each have their own copy of a half: every
\* definition of one is, letter by letter, that of the other.
LEMMA SameDelivery ==
    /\ N!Init <=> D!Init
    /\ N!Next <=> D!Next
    /\ N!vars = D!vars
<1> USE DEF N!durable, D!durable, N!rows, D!rows, N!queues, D!queues, N!bounds, D!bounds,
            N!Delivery, D!Delivery, N!JobOf, D!JobOf, N!Workers, D!Workers, N!Rows, D!Rows,
            N!Idle, D!Idle, N!At, D!At, N!Recovery, D!Recovery, N!Becomes, D!Becomes,
            N!Goto, D!Goto, N!Rest, D!Rest, N!Stored, D!Stored, N!Verdicts, D!Verdicts,
            N!Open, D!Open
<1>1. N!vars = D!vars /\ (N!Init <=> D!Init)
  BY DEF N!vars, D!vars, N!Init, D!Init
<1>2. N!IntakeStep <=> D!IntakeStep
  BY DEF N!IntakeStep, D!IntakeStep, N!IntakeError, D!IntakeError, N!CreateJob, D!CreateJob,
         N!RependJob, D!RependJob, N!ResetJob, D!ResetJob, N!FinishEmptyJob,
         D!FinishEmptyJob, N!CommitDeliveries, D!CommitDeliveries, N!AbandonPublish,
         D!AbandonPublish
<1>3. \A d : N!Publish(d) <=> D!Publish(d)
  BY DEF N!Publish, D!Publish
<1>4. /\ \A w : N!NotifyStep(w) <=> D!NotifyStep(w)
      /\ \A w : N!RetryStep(w) <=> D!RetryStep(w)
  <2>1. \A w : N!Receive(w) <=> D!Receive(w)
    BY DEF N!Receive, D!Receive
  <2>2. \A w : N!Claim(w) <=> D!Claim(w)
    BY DEF N!Claim, D!Claim, N!NotifyClaimable, D!NotifyClaimable
  <2>3. \A w : N!Send(w) <=> D!Send(w)
    BY DEF N!Send, D!Send
  <2>4. \A w : N!NotifyFailed(w) <=> D!NotifyFailed(w)
    BY DEF N!NotifyFailed, D!NotifyFailed, N!NotifyOwns, D!NotifyOwns
  <2>5. \A w : N!PushRetry(w) <=> D!PushRetry(w)
    BY DEF N!PushRetry, D!PushRetry
  <2>6. \A w : N!NotifySucceeded(w) <=> D!NotifySucceeded(w)
    BY DEF N!NotifySucceeded, D!NotifySucceeded, N!NotifyOwns, D!NotifyOwns
  <2>7. \A w : N!Count(w) <=> D!Count(w)
    BY DEF N!Count, D!Count, N!JobVerdict, D!JobVerdict, N!Leave, D!Leave
  <2>8. \A w : N!Finalize(w) <=> D!Finalize(w)
    BY DEF N!Finalize, D!Finalize, N!Finalizable, D!Finalizable, N!Leave, D!Leave
  <2>9. \A w : N!ReceiveRetry(w) <=> D!ReceiveRetry(w)
    BY DEF N!ReceiveRetry, D!ReceiveRetry
  <2>10. \A w : N!LoadRetry(w) <=> D!LoadRetry(w)
    BY DEF N!LoadRetry, D!LoadRetry, N!Exhausted, D!Exhausted
  <2>11. \A w : N!ClaimRetry(w) <=> D!ClaimRetry(w)
    BY DEF N!ClaimRetry, D!ClaimRetry, N!StillAsLoaded, D!StillAsLoaded, N!NextAttempt,
           D!NextAttempt
  <2>12. \A w : N!RetryFailed(w) <=> D!RetryFailed(w)
    BY DEF N!RetryFailed, D!RetryFailed, N!RetryOwns, D!RetryOwns
  <2>13. \A w : N!RetrySucceeded(w) <=> D!RetrySucceeded(w)
    BY DEF N!RetrySucceeded, D!RetrySucceeded, N!RetryOwns, D!RetryOwns
  <2>14. \A w : N!MoveToDLQ(w) <=> D!MoveToDLQ(w)
    BY DEF N!MoveToDLQ, D!MoveToDLQ, N!StillAsLoaded, D!StillAsLoaded
  <2>15. \A w : N!Bury(w) <=> D!Bury(w)
    BY DEF N!Bury, D!Bury
  <2>16. \A w : N!Abandon(w) <=> D!Abandon(w)
    BY DEF N!Abandon, D!Abandon, N!WaitsOnContext, D!WaitsOnContext
  <2> QED
    BY <2>1, <2>2, <2>3, <2>4, <2>5, <2>6, <2>7, <2>8, <2>9, <2>10, <2>11, <2>12, <2>13,
       <2>14, <2>15, <2>16
       DEF N!NotifyStep, D!NotifyStep, N!RetryStep, D!RetryStep
<1>5. \A w : N!DbError(w) <=> D!DbError(w)
  BY DEF N!DbError, D!DbError, N!Leave, D!Leave
<1>6. N!RecoveryStep <=> D!RecoveryStep
  BY DEF N!RecoveryStep, D!RecoveryStep, N!JobsRecovered, D!JobsRecovered, N!Interrupted,
         D!Interrupted, N!Release, D!Release, N!Recoverable, D!Recoverable, N!PublishRest,
         D!PublishRest, N!Scan, D!Scan, N!PublishRecovered, D!PublishRecovered,
         N!AbandonRecovery, D!AbandonRecovery
<1>7. N!RecoveryError <=> D!RecoveryError
  BY DEF N!RecoveryError, D!RecoveryError
<1>8. N!Cancel <=> D!Cancel
  BY DEF N!Cancel, D!Cancel
<1>9. N!Restart <=> D!Restart
  BY DEF N!Restart, D!Restart
<1>10. N!Delivery = D!Delivery /\ N!Workers = D!Workers
  OBVIOUS
<1> HIDE DEF N!Delivery, D!Delivery, N!Workers, D!Workers
<1>11. N!Next <=> D!Next
  <2>1. (\E d \in N!Delivery : N!Publish(d)) <=> \E d \in D!Delivery : D!Publish(d)
    BY <1>3, <1>10
  <2>2. (\E w \in NotifyWorkers : N!NotifyStep(w)) <=> \E w \in NotifyWorkers : D!NotifyStep(w)
    BY <1>4
  <2>3. (\E w \in RetryWorkers : N!RetryStep(w)) <=> \E w \in RetryWorkers : D!RetryStep(w)
    BY <1>4
  <2>4. N!FaultStep <=> D!FaultStep
    BY <1>5, <1>7, <1>8, <1>9, <1>10 DEF N!FaultStep, D!FaultStep
  <2> QED
    BY <1>2, <1>6, <2>1, <2>2, <2>3, <2>4 DEF N!Next, D!Next
<1> QED
  BY <1>1, <1>11

LEMMA SameIntake ==
    /\ I!Init <=> Q!Init
    /\ I!Next <=> Q!Next
    /\ I!vars = Q!vars
<1> USE DEF I!db, Q!db, I!queues, Q!queues, I!agents, Q!agents, I!boot, Q!boot, I!bounds,
            Q!bounds, I!Idle, Q!Idle, I!At, Q!At, I!Recovery, Q!Recovery, I!SetVerifier,
            Q!SetVerifier, I!SetExtractor, Q!SetExtractor, I!SetJob, Q!SetJob, I!HasRoom,
            Q!HasRoom, I!GiveUp, Q!GiveUp, I!Unfinished, Q!Unfinished, I!Verdicts,
            Q!Verdicts, I!Affected, Q!Affected, I!Treat, Q!Treat
<1>1. I!vars = Q!vars /\ (I!Init <=> Q!Init)
  BY DEF I!vars, Q!vars, I!Init, Q!Init
<1>2. \A u : I!Register(u) <=> Q!Register(u)
  BY DEF I!Register, Q!Register
<1>3. \A j : I!CreateReport(j) <=> Q!CreateReport(j)
  BY DEF I!CreateReport, Q!CreateReport
<1>4. \A j : I!Enqueue(j) <=> Q!Enqueue(j)
  BY DEF I!Enqueue, Q!Enqueue
<1>5. \A j : I!JobFinalized(j) <=> Q!JobFinalized(j)
  BY DEF I!JobFinalized, Q!JobFinalized
<1>6. \A v : I!VerifyStep(v) <=> Q!VerifyStep(v)
  BY DEF I!VerifyStep, Q!VerifyStep, I!TakeJob, Q!TakeJob, I!NextCheck, Q!NextCheck,
         I!Fetch, Q!Fetch, I!RejectReport, Q!RejectReport, I!PushReport, Q!PushReport,
         I!DropJob, Q!DropJob
<1>7. \A v : I!ResetJob(v) <=> Q!ResetJob(v)
  BY DEF I!ResetJob, Q!ResetJob
<1>8. \A v : I!FailJob(v) <=> Q!FailJob(v)
  BY DEF I!FailJob, Q!FailJob
<1>9. \A x : I!ExtractStep(x) <=> Q!ExtractStep(x)
  BY DEF I!ExtractStep, Q!ExtractStep, I!TakeReport, Q!TakeReport, I!ExtractNobody,
         Q!ExtractNobody, I!NobodyStatus, Q!NobodyStatus, I!FreshRows, Q!FreshRows, I!ExtractUsers, Q!ExtractUsers,
         I!ExtractFails, Q!ExtractFails, I!AbandonPublish, Q!AbandonPublish, I!Publish,
         Q!Publish
<1>10. I!RecoveryStep <=> Q!RecoveryStep
  BY DEF I!RecoveryStep, Q!RecoveryStep, I!UnfinishedJob, Q!UnfinishedJob, I!ScanJobs,
         Q!ScanJobs, I!Resettable, Q!Resettable, I!RecoverReset, Q!RecoverReset,
         I!RecoverSkip, Q!RecoverSkip, I!RecoverPush, Q!RecoverPush, I!RecoverStop,
         Q!RecoverStop
<1>11. I!DeliveryError <=> Q!DeliveryError
  BY DEF I!DeliveryError, Q!DeliveryError
<1>12. I!Cancel <=> Q!Cancel
  BY DEF I!Cancel, Q!Cancel
<1>13. I!Restart <=> Q!Restart
  BY DEF I!Restart, Q!Restart
<1> QED
  BY <1>1, <1>2, <1>3, <1>4, <1>5, <1>6, <1>7, <1>8, <1>9, <1>10, <1>11, <1>12, <1>13
     DEF I!Next, Q!Next

-----------------------------------------------------------------------------
(* The pipeline is a delivery half                                          *)

\* Every step of the pipeline is a step of Notification or leaves it alone.
LEMMA DeliveryStep == [Next]_vars => [N!Next]_(N!vars)
<1> USE DEF N!IntakeStep
<1>1. UNCHANGED delivery => UNCHANGED N!vars
  BY DEF delivery, N!vars, N!durable, N!rows, N!queues, N!bounds
<1>2. Alone => N!Next \/ UNCHANGED N!vars
  BY <1>1 DEF Alone, N!Next
<1>3. CASE \/ \E u \in Users : Register(u)
           \/ \E j \in Jobs : Enqueue(j)
           \/ \E v \in Verifiers : VerifyStep(v)
           \/ \E x \in Extractors : ExtractStep(x)
           \/ RecoverJobs
  BY <1>2, <1>3 DEF Register, Enqueue, VerifyStep, ExtractStep, RecoverJobs
<1>4. ASSUME NEW j \in Jobs, CreateReport(j) PROVE N!Next
  BY <1>4 DEF CreateReport, N!Next
<1>5. ASSUME NEW v \in Verifiers, JudgeJob(v) PROVE N!Next
  BY <1>5 DEF JudgeJob, N!Next
<1>6. ASSUME NEW x \in Extractors, ExtractJob(x) PROVE N!Next
  <2>1. \A j \in Jobs : I!Affected(j) \in SUBSET Users
    BY PipelineAssumption DEF I!Affected
  <2>2. PICK j \in Jobs :
            \/ N!FinishEmptyJob(j) \/ N!CommitDeliveries(j, I!Affected(j))
            \/ (\E d \in N!Delivery : N!Publish(d)) \/ N!AbandonPublish(j)
    BY <1>6 DEF ExtractJob
  <2> QED
    BY <2>1, <2>2 DEF N!Next
<1>7. ASSUME NEW w \in NotifyWorkers, NotifyStep(w) PROVE N!Next
  BY <1>7 DEF NotifyStep, N!Next
<1>8. ASSUME NEW w \in RetryWorkers, RetryStep(w) PROVE N!Next
  BY <1>8 DEF RetryStep, N!Next
<1>9. ASSUME NEW w \in NotifyWorkers \cup RetryWorkers, WorkerError(w) PROVE N!Next
  BY <1>9 DEF WorkerError, N!Next, N!FaultStep, N!Workers
<1>10. CASE ResetStalledJob \/ RecoverDeliveries \/ Cancel \/ Restart
  BY <1>10 DEF ResetStalledJob, RecoverDeliveries, Cancel, Restart, N!Next, N!FaultStep
<1>11. CASE UNCHANGED vars
  BY <1>1, <1>11 DEF vars
<1> QED
  BY <1>3, <1>4, <1>5, <1>6, <1>7, <1>8, <1>9, <1>10, <1>11 DEF Next

LEMMA DeliveryHolds == Spec => D!Spec
<1>1. Init => D!Init
  BY SameDelivery DEF Init
<1>2. [Next]_vars => [D!Next]_(D!vars)
  <2>1. UNCHANGED N!vars => UNCHANGED D!vars
    BY DEF N!vars, D!vars, N!durable, D!durable, N!rows, D!rows, N!queues, D!queues, N!bounds,
           D!bounds
  <2>2. [Next]_vars => N!Next \/ UNCHANGED N!vars
    BY DeliveryStep
  <2>3. N!Next => D!Next
    BY SameDelivery
  <2> QED
    BY <2>1, <2>2, <2>3
<1> QED
  BY <1>1, <1>2, PTL DEF Spec, D!Spec

\* What the theorems of the delivery half say of the pipeline's state.
LEMMA DeliveryCorrect ==
    Spec => [](D!SafeInv /\ D!VerdictInv /\ D!CoverInv /\ D!FinalizerPending)
BY DeliveryHolds, DeliveryAssumed, D!VerdictCorrect, D!CoverCorrect, D!FinalizerPendingHolds, PTL

-----------------------------------------------------------------------------
(* The pipeline is an intake                                                *)

\* Workers move rows that exist; they neither create nor remove one.
LEMMA RowsStay ==
    ASSUME D!TypeInv, NEW w, N!NotifyStep(w) \/ N!RetryStep(w) \/ N!DbError(w)
    PROVE  Notified' = Notified
<1> SUFFICES \A d \in Jobs \X Users : status[d] = "absent" <=> status'[d] = "absent"
  BY DEF Notified
<1>0. status \in [Jobs \X Users -> {"absent"} \cup D!Open \cup D!Closed]
  BY DEF D!TypeInv, D!TypeOK, D!Delivery
<1>1. CASE UNCHANGED status
  BY <1>1
<1>2. ASSUME NEW d, NEW s \in {"processing", "retrying", "success", "failed"},
             status[d] # "absent", N!Stored(d, s)
      PROVE  \A e \in Jobs \X Users : status[e] = "absent" <=> status'[e] = "absent"
  BY <1>0, <1>2 DEF N!Stored
<1>3. ~UNCHANGED status => \/ N!Claim(w) \/ N!NotifyFailed(w) \/ N!NotifySucceeded(w)
                           \/ N!ClaimRetry(w) \/ N!RetryFailed(w) \/ N!RetrySucceeded(w)
                           \/ N!MoveToDLQ(w)
  BY DEF N!NotifyStep, N!RetryStep, N!DbError, N!Receive, N!Send, N!PushRetry, N!Count, N!Finalize,
         N!Abandon, N!ReceiveRetry, N!LoadRetry, N!Bury, N!durable, N!rows
<1> DEFINE d == worker[w].d
<1>4. CASE N!Claim(w) /\ ~UNCHANGED status
  BY <1>2, <1>4 DEF N!Claim, N!NotifyClaimable
<1>5. CASE (N!NotifyFailed(w) \/ N!NotifySucceeded(w)) /\ ~UNCHANGED status
  BY <1>2, <1>5 DEF N!NotifyFailed, N!NotifySucceeded, N!NotifyOwns
<1>6. CASE (N!ClaimRetry(w) \/ N!MoveToDLQ(w)) /\ ~UNCHANGED status
  BY <1>2, <1>6 DEF N!ClaimRetry, N!MoveToDLQ, N!StillAsLoaded
<1>7. CASE (N!RetryFailed(w) \/ N!RetrySucceeded(w)) /\ ~UNCHANGED status
  BY <1>2, <1>7 DEF N!RetryFailed, N!RetrySucceeded, N!RetryOwns
<1> QED
  BY <1>1, <1>3, <1>4, <1>5, <1>6, <1>7

\* For the intake a worker stores the verdict of a job with rows, meets an
\* error, or does nothing.
LEMMA WorkerIsIntake ==
    ASSUME D!SafeInv, D!VerdictInv, NEW w \in NotifyWorkers \cup RetryWorkers, UNCHANGED intake,
           N!NotifyStep(w) \/ N!RetryStep(w) \/ N!DbError(w)
    PROVE  (\E j \in Jobs : I!JobFinalized(j)) \/ I!DeliveryError \/ UNCHANGED I!vars
<1> USE DEF I!db, I!queues, I!agents, I!boot, I!bounds, intake
<1>0. Notified' = Notified
  BY RowsStay DEF D!SafeInv
<1>1. CASE UNCHANGED <<job, outbox, ctx, restarts, faults>>
  BY <1>0, <1>1 DEF I!vars
<1>2. CASE N!DbError(w)
  BY <1>0, <1>2 DEF N!DbError, N!durable, I!DeliveryError
<1>3. CASE N!Finalize(w)
  <2> DEFINE j == D!JobOf(worker[w].d)
  <2>1. /\ worker[w].pc = "finalize" /\ UNCHANGED <<outbox, ctx, restarts, faults>>
        /\ job' = IF job[j] = "processing" THEN [job EXCEPT ![j] = worker[w].verdict] ELSE job
    BY <1>3 DEF N!Finalize, N!Finalizable, N!JobOf, D!JobOf, N!bounds
  <2>2. /\ worker[w].d \in D!Delivery /\ j \in Jobs /\ worker[w].verdict \in D!Verdicts
        /\ worker[w].verdict = D!JobVerdict(j)
    BY <2>1 DEF D!SafeInv, D!TypeInv, D!PlaceOK, D!Workers, D!VerdictInv, D!Delivery, D!JobOf
  <2>3. D!Rows(j) # {}
    BY <2>2, DeliveryAssumed, D!VerdictIs DEF D!SafeInv, D!Resolved, D!Verdicts
  <2>4. Notified[j] # {}
    <3>1. PICK d \in Jobs \X Users : d[1] = j /\ status[d] # "absent"
      BY <2>3 DEF D!Rows, D!Delivery, D!JobOf
    <3>2. d[2] \in Users /\ d = <<j, d[2]>>
      BY <3>1
    <3> QED
      BY <2>2, <3>1, <3>2 DEF Notified
  <2>5. CASE job[j] = "processing"
    <3>1. I!JobFinalized(j)
      BY <1>0, <2>1, <2>2, <2>4, <2>5 DEF I!JobFinalized, I!SetJob, I!Verdicts, D!Verdicts
    <3> QED
      BY <2>2, <3>1
  <2> QED
    BY <1>1, <2>1, <2>5
<1>4. N!NotifyStep(w) \/ N!RetryStep(w) =>
          N!Finalize(w) \/ UNCHANGED <<job, outbox, ctx, restarts, faults>>
  BY DEF N!NotifyStep, N!RetryStep, N!Receive, N!Claim, N!Send, N!NotifyFailed, N!PushRetry,
         N!NotifySucceeded, N!Count, N!Abandon, N!ReceiveRetry, N!LoadRetry, N!ClaimRetry,
         N!RetryFailed, N!RetrySucceeded, N!MoveToDLQ, N!Bury, N!durable, N!bounds
<1> QED
  BY <1>1, <1>2, <1>3, <1>4

\* So does the recovery of delivery rows.
LEMMA RecoveryIsIntake ==
    ASSUME D!TypeInv, RecoverDeliveries
    PROVE  I!DeliveryError \/ UNCHANGED I!vars
<1> USE DEF I!db, I!queues, I!agents, I!boot, I!bounds, intake, N!durable, N!rows, N!queues,
            N!bounds
<1>1. Notified' = Notified
  <2> SUFFICES \A d \in Jobs \X Users : status[d] = "absent" <=> status'[d] = "absent"
    BY DEF Notified
  <2>1. CASE UNCHANGED status
    BY <2>1
  <2>2. CASE N!Release
    BY <2>2 DEF N!Release, N!Interrupted, N!Delivery
  <2> QED
    BY <2>1, <2>2 DEF RecoverDeliveries, N!RecoveryStep, N!RecoveryError, N!JobsRecovered, N!Scan,
                      N!PublishRecovered, N!AbandonRecovery
<1>2. CASE N!RecoveryError
  BY <1>1, <1>2 DEF RecoverDeliveries, N!RecoveryError, I!DeliveryError
<1>3. CASE N!RecoveryStep
  BY <1>1, <1>3 DEF RecoverDeliveries, N!RecoveryStep, N!JobsRecovered, N!Release, N!Scan,
                    N!PublishRecovered, N!AbandonRecovery, I!vars
<1> QED
  BY <1>2, <1>3 DEF RecoverDeliveries

LEMMA IntakeIsStep ==
    ASSUME D!SafeInv, D!VerdictInv, [Next]_vars
    PROVE  [I!Next]_(I!vars)
<1> USE DEF I!Next
<1>1. CASE \/ \E u \in Users : Register(u)
           \/ \E j \in Jobs : CreateReport(j) \/ Enqueue(j)
           \/ \E v \in Verifiers : VerifyStep(v)
  BY <1>1 DEF Register, CreateReport, Enqueue, VerifyStep
<1>2. ASSUME NEW v \in Verifiers, JudgeJob(v) PROVE I!Next
  BY <1>2 DEF JudgeJob
<1>3. ASSUME NEW x \in Extractors, ExtractStep(x) \/ ExtractJob(x) PROVE I!Next
  <2>1. I!ExtractStep(x)
    BY <1>3 DEF ExtractStep, ExtractJob, I!ExtractStep, N!Delivery
  <2> QED
    BY <2>1
<1>4. CASE RecoverJobs \/ ResetStalledJob \/ Cancel \/ Restart
  BY <1>4 DEF RecoverJobs, ResetStalledJob, I!RecoveryStep, Cancel, Restart
<1>5. CASE RecoverDeliveries
  BY <1>5, RecoveryIsIntake DEF D!SafeInv
<1>6. ASSUME NEW w \in NotifyWorkers \cup RetryWorkers,
             \/ w \in NotifyWorkers /\ NotifyStep(w)
             \/ w \in RetryWorkers /\ RetryStep(w)
             \/ WorkerError(w)
      PROVE  I!Next \/ UNCHANGED I!vars
  BY <1>6, WorkerIsIntake DEF NotifyStep, RetryStep, WorkerError
<1>7. CASE UNCHANGED vars
  BY <1>7 DEF vars, delivery, intake, I!vars, I!db, I!queues, I!agents, I!boot, I!bounds, Notified
<1> QED
  BY <1>1, <1>2, <1>3, <1>4, <1>5, <1>6, <1>7 DEF Next

\* The delivery half keeps to what Intake.tla assumes of it: workers, recovery
\* of rows and errors touch a job only to store the verdict of one with rows
\* (finalizeNotificationJob.go), and never rows, wake-ups or the context.
THEOREM IntakeKeptHolds == Spec => IntakeKept
<1>1. D!SafeInv /\ D!VerdictInv /\ [Next]_vars => [I!Next]_(I!vars)
  BY IntakeIsStep
<1>2. Init => I!Init
  BY DEF Init
<1> QED
  BY <1>1, <1>2, DeliveryCorrect, PTL DEF Spec, IntakeKept, I!Spec

LEMMA IntakeHolds == Spec => Q!Spec
<1>1. I!Init => Q!Init
  BY SameIntake
<1>2. [I!Next]_(I!vars) => [Q!Next]_(Q!vars)
  <2>1. UNCHANGED I!vars => UNCHANGED Q!vars
    BY DEF I!vars, Q!vars, I!db, Q!db, I!queues, Q!queues, I!agents, Q!agents, I!boot, Q!boot,
           I!bounds, Q!bounds
  <2>2. I!Next => Q!Next
    BY SameIntake
  <2> QED
    BY <2>1, <2>2
<1> QED
  BY <1>1, <1>2, IntakeKeptHolds, PTL DEF IntakeKept, I!Spec, Q!Spec

\* What the theorems of the intake say of the pipeline's state.
LEMMA IntakeCorrect == Spec => [](Q!IntakeInv /\ Q!BootRows /\ Q!Sent)
BY IntakeHolds, IntakeAssumed, Q!RowsCorrect, PTL

-----------------------------------------------------------------------------
(* The intake is not hindered                                               *)

\* Rows are recovered after jobs, in every boot.
RecoveryInOrder == jobRec.pc # "done" => rec.pc = "jobs"

LEMMA RecoveryStaysInOrder == RecoveryInOrder /\ [Next]_vars => RecoveryInOrder'
<1> SUFFICES ASSUME RecoveryInOrder, [Next]_vars PROVE RecoveryInOrder'
  OBVIOUS
<1>1. CASE RecoverDeliveries
  BY <1>1 DEF RecoverDeliveries, RecoveryInOrder, intake
<1>2. CASE Restart
  BY <1>2 DEF Restart, N!Restart, N!Recovery, RecoveryInOrder
<1>3. CASE RecoverJobs \/ ResetStalledJob
  <2>1. rec' = rec
    BY <1>3 DEF RecoverJobs, ResetStalledJob, Alone, delivery, N!IntakeError, N!RependJob
  <2>2. jobRec.pc # "done"
    BY <1>3 DEF RecoverJobs, ResetStalledJob, I!ScanJobs, I!RecoverSkip, I!RecoverPush,
                I!RecoverStop
  <2> QED
    BY <2>1, <2>2 DEF RecoveryInOrder
<1>4. CASE UNCHANGED <<rec, jobRec>>
  BY <1>4 DEF RecoveryInOrder
<1>5. ASSUME \/ \E u \in Users : Register(u)
             \/ \E j \in Jobs : CreateReport(j) \/ Enqueue(j)
             \/ \E v \in Verifiers : VerifyStep(v) \/ JudgeJob(v)
      PROVE  UNCHANGED <<rec, jobRec>>
  BY <1>5 DEF Register, CreateReport, Enqueue, VerifyStep, JudgeJob, Alone, delivery,
     N!IntakeError, N!CreateJob, N!ResetJob, N!FinishEmptyJob, I!Register, I!CreateReport,
     I!Enqueue, I!VerifyStep, I!TakeJob, I!Fetch, I!RejectReport, I!PushReport, I!DropJob,
     I!ResetJob, I!FailJob, I!agents
<1>6. ASSUME NEW x \in Extractors, ExtractStep(x) \/ ExtractJob(x)
      PROVE  UNCHANGED <<rec, jobRec>>
  BY <1>6 DEF ExtractStep, ExtractJob, Alone, delivery, N!IntakeError, N!FinishEmptyJob,
     N!CommitDeliveries, N!Publish, N!AbandonPublish, I!TakeReport, I!ExtractFails,
     I!ExtractNobody, I!ExtractUsers, I!Publish, I!AbandonPublish
<1>7. ASSUME NEW w, NotifyStep(w) \/ RetryStep(w) \/ WorkerError(w)
      PROVE  UNCHANGED <<rec, jobRec>>
  BY <1>7 DEF NotifyStep, RetryStep, WorkerError, intake, N!NotifyStep, N!RetryStep, N!DbError,
     N!Receive, N!Claim, N!Send, N!NotifyFailed, N!PushRetry, N!NotifySucceeded, N!Count,
     N!Finalize, N!Abandon, N!ReceiveRetry, N!LoadRetry, N!ClaimRetry, N!RetryFailed,
     N!RetrySucceeded, N!MoveToDLQ, N!Bury
<1>8. Cancel => UNCHANGED <<rec, jobRec>>
  BY DEF Cancel, N!Cancel, I!Cancel, I!agents
<1>9. UNCHANGED vars => UNCHANGED <<rec, jobRec>>
  BY DEF vars, delivery, intake
<1> QED
  BY <1>1, <1>2, <1>3, <1>4, <1>5, <1>6, <1>7, <1>8, <1>9 DEF Next

\* The jobs table and the delivery rows never surprise a verification or an
\* extraction worker: whenever one is about to store something, the composed
\* step is enabled, so Notification.tla's guards restrict nothing that
\* verifyReport.go, extractUserIDs.go and recoverStalledJobs.go do.
THEOREM IntakeUnhinderedHolds == Spec => []IntakeUnhindered
<1>1. Init => RecoveryInOrder
  BY DEF Init, N!Init, N!Recovery, RecoveryInOrder
<1>2. Q!IntakeInv /\ Q!BootRows /\ Q!Sent /\ RecoveryInOrder => IntakeUnhindered
  <2> SUFFICES ASSUME Q!IntakeInv, Q!BootRows, Q!Sent, RecoveryInOrder PROVE IntakeUnhindered
    OBVIOUS
  <2>1. \A j \in Jobs : Notified[j] = {} => N!Rows(j) = {}
    BY DEF Notified, N!Rows, N!Delivery, N!JobOf
  <2>2. /\ \A v \in Verifiers : verifier[v].pc # "idle" => verifier[v].j \in Jobs
        /\ \A j \in Jobs : Q!Handled(j) => job[j] # "absent"
    BY DEF Q!IntakeInv, Q!TypeInv, Q!PlaceOK, Q!HandledStored
  <2>3. ASSUME NEW v \in Verifiers
        PROVE  /\ verifier[v].pc # "idle" => job[verifier[v].j] # "absent"
               /\ verifier[v].pc = "fail" => N!Rows(verifier[v].j) = {}
    <3>1. verifier[v].pc # "idle" => Q!Handled(verifier[v].j)
      BY DEF Q!Handled
    <3>2. verifier[v].pc = "fail" => Notified[verifier[v].j] = {}
      BY <2>2 DEF Q!IntakeInv, Q!Verified
    <3> QED
      BY <2>1, <2>2, <3>1, <3>2
  <2>4. ASSUME NEW x \in Extractors, NEW j \in Jobs, extractor[x] = I!At("extract", j),
               I!Affected(j) = {} \/ I!FreshRows(j, I!Affected(j))
        PROVE  job[j] # "absent" /\ N!Rows(j) = {}
    <3>1. Q!Handled(j)
      BY <2>4 DEF Q!Handled, I!At
    <3>2. Notified[j] # {} => Q!Affected(j) # {} /\ Q!Affected(j) \subseteq Notified[j]
      BY <3>1 DEF Q!BootRows
    <3>3. Notified[j] = {}
      BY <2>4, <3>2 DEF I!FreshRows, I!Affected, Q!Affected
    <3> QED
      BY <2>1, <2>2, <3>1, <3>3
  <2>5. \A d \in outbox : \E x \in Extractors : extractor[x] = I!At("publish", d[1])
    BY DEF Q!Sent, Q!At, I!At
  <2> QED
    BY <2>3, <2>4, <2>5 DEF IntakeUnhindered, RecoveryInOrder
<1> QED
  BY <1>1, <1>2, RecoveryStaysInOrder, IntakeCorrect, PTL DEF Spec

-----------------------------------------------------------------------------
(* What is proved of a half holds of the whole                              *)

LEMMA SameProperties ==
    /\ D!NoLostWakeup <=> N!NoLostWakeup
    /\ D!NoStrandedRow <=> N!NoStrandedRow
    /\ D!VerdictAgrees <=> N!VerdictAgrees
    /\ D!ClosedForAReason <=> N!ClosedForAReason
    /\ D!RetryClaimExclusive <=> N!RetryClaimExclusive
    /\ D!FinalizerPending <=> N!FinalizerPending
    /\ Q!NoLostJob <=> I!NoLostJob
    /\ Q!OnePublisher <=> I!OnePublisher
    /\ Q!VerifiedOnly <=> I!VerifiedOnly
<1>1. N!Workers = D!Workers /\ N!Delivery = D!Delivery
  BY DEF N!Delivery, D!Delivery, N!Workers, D!Workers
<1>2. \A j : N!Rows(j) = D!Rows(j) /\ \A d : N!JobOf(d) = D!JobOf(d)
  BY DEF N!Rows, D!Rows, N!JobOf, D!JobOf, N!Delivery, D!Delivery
<1>3. \A d : N!Covered(d) <=> D!Covered(d)
  <2>1. \A w, d : N!CanStore(w, d) <=> D!CanStore(w, d)
    BY DEF N!CanStore, D!CanStore, N!Attempting, D!Attempting, N!InFlight, D!InFlight
  <2> QED
    BY <1>1, <2>1 DEF N!Covered, D!Covered
<1>4. /\ D!NoLostWakeup <=> N!NoLostWakeup
      /\ D!NoStrandedRow <=> N!NoStrandedRow
  BY <1>1, <1>3 DEF N!NoLostWakeup, D!NoLostWakeup, N!NoStrandedRow, D!NoStrandedRow
<1>5. D!VerdictAgrees <=> N!VerdictAgrees
  BY <1>2 DEF N!VerdictAgrees, D!VerdictAgrees, N!Closed, D!Closed, N!Verdicts, D!Verdicts
<1>6. D!FinalizerPending <=> N!FinalizerPending
  BY <1>1, <1>2 DEF N!FinalizerPending, D!FinalizerPending, N!Closed, D!Closed
<1>7. /\ D!ClosedForAReason <=> N!ClosedForAReason
      /\ D!RetryClaimExclusive <=> N!RetryClaimExclusive
  BY <1>1 DEF N!ClosedForAReason, D!ClosedForAReason, N!RetryClaimExclusive,
              D!RetryClaimExclusive, N!Attempting, D!Attempting, N!InFlight, D!InFlight
<1>8. Q!NoLostJob <=> I!NoLostJob
  <2>1. \A j : I!Tracked(j) <=> Q!Tracked(j)
    BY DEF I!Tracked, Q!Tracked, I!InQueue, Q!InQueue, I!At, Q!At
  <2> QED
    BY <2>1 DEF I!NoLostJob, Q!NoLostJob, I!Unextracted, Q!Unextracted, I!Unfinished, Q!Unfinished
<1>9. /\ Q!OnePublisher <=> I!OnePublisher
      /\ Q!VerifiedOnly <=> I!VerifiedOnly
  BY DEF I!OnePublisher, Q!OnePublisher, I!VerifiedOnly, Q!VerifiedOnly
<1> QED
  BY <1>4, <1>5, <1>6, <1>7, <1>8, <1>9

\* In the composed system, with the other half running beside each: no wake-up
\* and no row is lost, every verdict agrees with the rows, rows close for a
\* reason, no two retry workers hold a row, no stored job is forgotten, no job
\* is published twice, and a rejected report reaches nobody.
THEOREM HalvesHold ==
    Spec => []( /\ N!NoLostWakeup /\ N!NoStrandedRow /\ N!VerdictAgrees
                /\ N!ClosedForAReason /\ N!RetryClaimExclusive /\ N!FinalizerPending
                /\ I!NoLostJob /\ I!OnePublisher /\ I!VerifiedOnly )
<1>1. Spec => []( /\ D!NoLostWakeup /\ D!NoStrandedRow /\ D!VerdictAgrees
                  /\ D!ClosedForAReason /\ D!RetryClaimExclusive /\ D!FinalizerPending )
  BY DeliveryHolds, DeliveryAssumed, D!NoLostWakeupHolds, D!NoStrandedRowHolds,
     D!VerdictAgreesHolds, D!ClosedForAReasonHolds, D!RetryClaimExclusiveHolds,
     D!FinalizerPendingHolds, PTL
<1>2. Spec => [](Q!NoLostJob /\ Q!OnePublisher /\ Q!VerifiedOnly)
  BY IntakeHolds, IntakeAssumed, Q!NoLostJobHolds, Q!OnePublisherHolds, Q!VerifiedOnlyHolds, PTL
<1> QED
  BY <1>1, <1>2, SameProperties, PTL

LEMMA SameContract ==
    /\ D!Contract!Init <=> N!Contract!Init
    /\ D!Contract!Next <=> N!Contract!Next
    /\ D!Contract!contractVars = N!Contract!contractVars
<1>1. N!Outcome = D!Outcome /\ N!Delivery = D!Delivery
  BY DEF N!Outcome, D!Outcome, N!Delivery, D!Delivery
<1>2. D!Contract!contractVars = N!Contract!contractVars
  BY <1>1 DEF N!Contract!contractVars, D!Contract!contractVars
<1>3. D!Contract!Init <=> N!Contract!Init
  BY <1>1 DEF N!Contract!Init, D!Contract!Init
<1>4. N!Outcome' = D!Outcome'
  BY DEF N!Outcome, D!Outcome, N!Delivery, D!Delivery
<1>5. \A ds : D!Contract!Create(ds) <=> N!Contract!Create(ds)
  BY <1>1, <1>4 DEF D!Contract!Create, N!Contract!Create
<1>6. \A d : /\ D!Contract!Try(d) <=> N!Contract!Try(d)
             /\ D!Contract!Accept(d) <=> N!Contract!Accept(d)
  BY <1>1, <1>4 DEF D!Contract!Try, N!Contract!Try, D!Contract!Accept, N!Contract!Accept
<1>7. \A d : /\ D!Contract!Deliver(d) <=> N!Contract!Deliver(d)
             /\ D!Contract!GiveUp(d) <=> N!Contract!GiveUp(d)
  BY <1>1, <1>4 DEF D!Contract!Deliver, N!Contract!Deliver, D!Contract!GiveUp, N!Contract!GiveUp
<1> QED
  BY <1>1, <1>2, <1>3, <1>5, <1>6, <1>7 DEF D!Contract!Next, N!Contract!Next

\* The whole program, intake and its recovery included, keeps the contract of
\* one email per user, never changes a closed delivery, and without database
\* errors never changes a verdict.
THEOREM PipelineKeepsContract == Spec => N!KeepsContract /\ N!ClosedForever /\ I!FinishedStays
<1>1. Spec => D!KeepsContract /\ D!ClosedForever
  BY DeliveryHolds, DeliveryAssumed, D!KeepsContractHolds, D!ClosedForeverHolds
<1>2. Spec => Q!FinishedStays
  BY IntakeHolds, IntakeAssumed, Q!FinishedStaysHolds
<1>3. D!KeepsContract => N!KeepsContract
  <2>1. D!Contract!Init => N!Contract!Init
    BY SameContract
  <2>2. [D!Contract!Next]_(D!Contract!contractVars) => [N!Contract!Next]_(N!Contract!contractVars)
    <3>1. UNCHANGED D!Contract!contractVars => UNCHANGED N!Contract!contractVars
      BY DEF N!Contract!contractVars, D!Contract!contractVars, N!Outcome, D!Outcome,
             N!Delivery, D!Delivery
    <3> QED
      BY <3>1, SameContract
  <2> QED
    BY <2>1, <2>2, PTL DEF D!KeepsContract, N!KeepsContract, D!Contract!Spec, N!Contract!Spec
<1>4. D!ClosedForever => N!ClosedForever
  <2>1. [\A d \in D!Delivery : status[d] \in D!Closed =>
             /\ status'[d] = status[d] /\ attempts'[d] = attempts[d]
             /\ deadLetters'[d] = deadLetters[d]]_(D!vars) =>
        [\A d \in N!Delivery : status[d] \in N!Closed =>
             /\ status'[d] = status[d] /\ attempts'[d] = attempts[d]
             /\ deadLetters'[d] = deadLetters[d]]_(N!vars)
    BY DEF N!Closed, D!Closed, N!Delivery, D!Delivery, N!vars, D!vars, N!durable, D!durable,
           N!rows, D!rows, N!queues, D!queues, N!bounds, D!bounds
  <2> QED
    BY <2>1, PTL DEF D!ClosedForever, N!ClosedForever
<1>5. Q!FinishedStays => I!FinishedStays
  <2>1. [\A j \in Jobs : faults' = 0 /\ job[j] \in Q!Verdicts => job'[j] = job[j]]_(Q!vars) =>
        [\A j \in Jobs : faults' = 0 /\ job[j] \in I!Verdicts => job'[j] = job[j]]_(I!vars)
    BY DEF I!Verdicts, Q!Verdicts, I!vars, Q!vars, I!db, Q!db, I!queues, Q!queues, I!agents,
           Q!agents, I!boot, Q!boot, I!bounds, Q!bounds
  <2> QED
    BY <2>1, PTL DEF Q!FinishedStays, I!FinishedStays
<1> QED
  BY <1>1, <1>2, <1>3, <1>4, <1>5

=============================================================================
