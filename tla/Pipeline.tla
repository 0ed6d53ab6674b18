------------------------------ MODULE Pipeline ------------------------------
(***************************************************************************)
(* The whole pipeline: the intake of Intake.tla feeding the delivery of    *)
(* Notification.tla through the jobs table, the delivery rows, the         *)
(* delivery channel and the context that stops all workers.                *)
(*                                                                         *)
(* A step on state that both halves see is the conjunction of what it is   *)
(* for each of them; every other step is one half's alone.                 *)
(***************************************************************************)
EXTENDS Naturals, Sequences, FiniteSets

CONSTANTS
    Jobs, Users, Verifiers, Extractors, NotifyWorkers, RetryWorkers,
    QueueCap, ChanCap, DeadLetterCap, MaxRetries, Near, Legacy, Kind,
    MaxRestarts, MaxFaults, None

\* What the two halves assume of the constants.
ASSUME PipelineAssumption ==
    /\ NotifyWorkers \cap RetryWorkers = {}
    /\ IsFiniteSet(Jobs) /\ IsFiniteSet(Users)
    /\ None \notin Jobs /\ None \notin Jobs \X Users
    /\ QueueCap \in Nat \ {0} /\ ChanCap \in Nat \ {0} /\ DeadLetterCap \in Nat
    /\ MaxRetries \in Nat /\ MaxRestarts \in Nat /\ MaxFaults \in Nat
    /\ Near \in [Jobs -> SUBSET Users]
    /\ Kind \in [Jobs -> {"good", "unlocated", "short", "garbled"}]
    /\ Legacy \subseteq Jobs
    /\ \A j \in Jobs : Kind[j] # "good" => j \in Legacy

VARIABLES
    job, outbox, ctx, restarts, faults,                     \* both halves
    status, attempts, deadLetters, accepted,                \* delivery half
    deliveryCh, retryCh, deadLetterCh, worker, rec, dropped,
    present, registered, snapshot, reply,                   \* intake half
    verifyCh, reportCh, verifier, extractor, jobRec, givenUp

\* The unique (job_id, user_id) rows are one table for both halves.
Notified == [j \in Jobs |-> {u \in Users : status[<<j, u>>] # "absent"}]

N == INSTANCE Notification
I == INSTANCE Intake WITH notified <- Notified

delivery == <<job, outbox, ctx, restarts, faults, status, attempts,
              deadLetters, accepted, deliveryCh, retryCh, deadLetterCh, worker,
              rec, dropped>>
intake == <<present, registered, snapshot, reply, verifyCh, reportCh,
            verifier, extractor, jobRec, givenUp>>
vars == <<delivery, intake>>

Init == N!Init /\ I!Init

-----------------------------------------------------------------------------
(* Steps both halves see.                                                  *)

\* The handler's commit.
CreateReport(j) == N!CreateJob(j) /\ I!CreateReport(j)

\* A verification worker's UPDATE of the job.
JudgeJob(v) ==
    \E j \in Jobs :
        \/ verifier[v] = I!At("reset", j) /\ N!ResetJob(j) /\ I!ResetJob(v)
        \/ verifier[v] = I!At("fail", j) /\ N!FinishEmptyJob(j) /\ I!FailJob(v)

\* An extraction worker's transaction, its sends, and its giving up on them.
ExtractJob(x) ==
    \E j \in Jobs :
        \/ /\ extractor[x] = I!At("extract", j)
           /\ \/ N!FinishEmptyJob(j) /\ I!ExtractNobody(x)
              \/ N!CommitDeliveries(j, I!Affected(j)) /\ I!ExtractUsers(x)
        \/ /\ extractor[x] = I!At("publish", j)
           /\ \/ \E d \in N!Delivery : N!Publish(d) /\ I!Publish(x, d)
              \/ N!AbandonPublish(j) /\ I!AbandonPublish(x)

\* The start-up goroutine: job recovery, and after it delivery recovery.
ResetStalledJob ==
    \E j \in Jobs :
        /\ jobRec.pc = "reset" /\ jobRec.at[1] = j
        /\ N!RependJob(j) /\ I!RecoverReset
RecoverDeliveries ==
    /\ rec.pc = "jobs" => jobRec.pc = "done"
    /\ N!RecoveryStep \/ N!RecoveryError
    /\ UNCHANGED intake

Cancel  == N!Cancel /\ I!Cancel
Restart == N!Restart /\ I!Restart

(* Steps of one half alone.                                                *)

NotifyStep(w)  == N!NotifyStep(w) /\ UNCHANGED intake
RetryStep(w)   == N!RetryStep(w) /\ UNCHANGED intake
WorkerError(w) == N!DbError(w) /\ UNCHANGED intake

\* What intake does beside the steps above leaves the delivery half alone, but
\* for the count of errors.
Alone == UNCHANGED delivery \/ N!IntakeError

Register(u)   == Alone /\ I!Register(u)
Enqueue(j)    == Alone /\ I!Enqueue(j)
VerifyStep(v) == Alone /\ I!VerifyStep(v)
ExtractStep(x) ==
    Alone /\ (I!TakeReport(x) \/ I!ExtractFails(x))
RecoverJobs ==
    Alone /\ (I!ScanJobs \/ I!RecoverSkip \/ I!RecoverPush \/ I!RecoverStop)

Next ==
    \/ \E u \in Users : Register(u)
    \/ \E j \in Jobs : CreateReport(j) \/ Enqueue(j)
    \/ \E v \in Verifiers : VerifyStep(v) \/ JudgeJob(v)
    \/ \E x \in Extractors : ExtractStep(x) \/ ExtractJob(x)
    \/ \E w \in NotifyWorkers : NotifyStep(w)
    \/ \E w \in RetryWorkers : RetryStep(w)
    \/ \E w \in NotifyWorkers \cup RetryWorkers : WorkerError(w)
    \/ RecoverJobs \/ ResetStalledJob \/ RecoverDeliveries
    \/ Cancel \/ Restart

Spec == Init /\ [][Next]_vars

\* One weak fairness per goroutine: handler, worker, start-up recovery.
Fairness ==
    /\ \A j \in Jobs : WF_vars(Enqueue(j))
    /\ \A v \in Verifiers : WF_vars(VerifyStep(v) \/ JudgeJob(v))
    /\ \A x \in Extractors : WF_vars(ExtractStep(x) \/ ExtractJob(x))
    /\ \A w \in NotifyWorkers : WF_vars(NotifyStep(w))
    /\ \A w \in RetryWorkers : WF_vars(RetryStep(w))
    /\ WF_vars(RecoverJobs \/ ResetStalledJob \/ RecoverDeliveries)

FairSpec == Spec /\ Fairness

-----------------------------------------------------------------------------
(* Properties.                                                             *)

\* The delivery half keeps to what Intake.tla assumes of it: it changes a job
\* only from processing, with rows, to a verdict, and never the rows, the
\* wake-ups or the context behind extraction's back.
IntakeKept == I!Spec

\* What Notification.tla assumes of intake is no restriction of it: whatever
\* the verification and extraction workers are about to store, its guards
\* allow.
IntakeUnhindered ==
    /\ \A v \in Verifiers :
          /\ verifier[v].pc # "idle" => job[verifier[v].j] # "absent"
          /\ verifier[v].pc = "fail" => N!Rows(verifier[v].j) = {}
    /\ \A x \in Extractors : \A j \in Jobs :
          extractor[x] = I!At("extract", j)
                  /\ (I!Affected(j) = {} \/ I!FreshRows(j, I!Affected(j)))
              => job[j] # "absent" /\ N!Rows(j) = {}
    /\ \A d \in outbox : \E x \in Extractors : extractor[x] = I!At("publish", d[1])
    /\ jobRec.pc # "done" => rec.pc = "jobs"

\* End to end: once a report is accepted, every nearby user the running
\* process knows of gets the email or a dead letter, whatever workers,
\* recovery and restarts do.
AcceptedReportDelivered ==
    \A j \in Jobs, u \in Users :
        reply[j] = "accepted" /\ u \in Near[j] \cap snapshot
            ~> status[<<j, u>>] \in N!Closed

\* Every stored report reaches extraction, also when its client was told
\* QUEUE_FULL or nothing at all, with the delivery half live beside it.
StoredJobsExtracted == I!StoredJobsExtracted

\* Every job whose emails are all settled gets its verdict.
SettledJobsDecided ==
    \A j \in Jobs :
        N!Rows(j) # {} /\ (\A d \in N!Rows(j) : status[d] \in N!Closed)
            ~> job[j] \in N!Verdicts

=============================================================================
