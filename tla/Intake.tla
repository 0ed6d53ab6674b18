------------------------------- MODULE Intake -------------------------------
(***************************************************************************)
(* The intake half of the pipeline: the report handler, the verification   *)
(* and extraction workers, and the start-up recovery of jobs that never    *)
(* got delivery rows.                                                      *)
(*                                                                         *)
(* Each database statement or transaction and each channel operation is    *)
(* one step.  The delivery half appears only as JobFinalized and as the    *)
(* receiver of what Publish sends; Pipeline.tla composes the two.          *)
(***************************************************************************)
EXTENDS Naturals, Sequences, FiniteSets

CONSTANTS
    Jobs, Users,
    Verifiers, Extractors,    \* goroutines of the two pools
    QueueCap,                 \* capacity of the verification and report channels
    Near,                     \* Near[j]: users within 20 km of the report of j
    Legacy,                   \* jobs already stored when the behaviour starts
    Kind,                     \* what the stored report or payload of a job is
    MaxRestarts, MaxFaults,   \* bounds: process deaths; errors and forced stops
    None                      \* no job

\* The handler only stores reports that pass every later check; the other
\* kinds are rows older than those checks.
ASSUME IntakeAssumption ==
    /\ QueueCap \in Nat \ {0}
    /\ MaxRestarts \in Nat /\ MaxFaults \in Nat
    /\ Near \in [Jobs -> SUBSET Users]
    /\ Kind \in [Jobs -> {"good", "unlocated", "short", "garbled"}]
    /\ Legacy \subseteq Jobs
    /\ \A j \in Jobs : Kind[j] # "good" => j \in Legacy
    /\ None \notin Jobs

VARIABLES
    job,            \* jobs.status, "absent" before the row exists
    notified,       \* users with a notification_deliveries row, per job
    present,        \* jobs whose report row exists
    registered,     \* rows of the users table
    snapshot,       \* allUsers of StartExtractWorkers, read once per boot
    reply,          \* what the client of CreateReport was told in this boot
    verifyCh,       \* verificationChannel
    reportCh,       \* reportsChannel
    verifier, extractor,    \* where each worker goroutine is
    jobRec,         \* RecoverUnfinishedJobs
    outbox,         \* committed rows whose wake-up extraction has not sent
    ctx,            \* workContext: "live" or "cancelled"
    restarts, faults,   \* counters of the bounds
    givenUp         \* ghost: jobs given up after a database error, this boot

db     == <<job, notified, present, registered>>
queues == <<verifyCh, reportCh>>
agents == <<verifier, extractor, jobRec>>
boot   == <<snapshot, ctx, restarts>>
bounds == <<faults, givenUp>>
own    == <<present, registered, snapshot, reply, queues, agents, givenUp>>
vars   == <<db, reply, queues, agents, boot, bounds, outbox>>

Verdicts == {"done", "failed", "partially_failed"}
Unfinished == {"pending", "processing"}

Idle == [pc |-> "idle", j |-> None]
At(pc, j) == [pc |-> pc, j |-> j]
Recovery(pc) == [pc |-> pc, todo |-> {}, at |-> None]

SetVerifier(v, s)  == verifier' = [verifier EXCEPT ![v] = s]
SetExtractor(x, s) == extractor' = [extractor EXCEPT ![x] = s]
SetJob(j, s)       == job' = [job EXCEPT ![j] = s]

HasRoom(q) == Len(q) < QueueCap

\* A database error that makes the program give up the jobs js until it boots.
GiveUp(js) ==
    /\ faults < MaxFaults
    /\ faults' = faults + 1
    /\ givenUp' = givenUp \cup js

Found == Jobs \X Unfinished     \* a job as the recovery scan saw it

\* Every variable keeps its type: a job has a status of jobs, never one of
\* deliveries, whoever writes it; the queues keep their capacity.
TypeOK ==
    /\ job \in [Jobs -> {"absent"} \cup Unfinished \cup Verdicts]
    /\ notified \in [Jobs -> SUBSET Users]
    /\ present \subseteq Jobs
    /\ registered \subseteq Users /\ snapshot \subseteq Users
    /\ reply \in [Jobs -> {"none", "committed", "accepted", "full", "past"}]
    /\ verifyCh \in Seq(Jobs) /\ Len(verifyCh) <= QueueCap
    /\ reportCh \in Seq(Jobs) /\ Len(reportCh) <= QueueCap
    /\ verifier \in [Verifiers ->
          [pc : {"idle", "fetch", "reset", "fail", "save", "delete", "push"},
           j : Jobs \cup {None}]]
    /\ extractor \in [Extractors ->
          [pc : {"idle", "extract", "publish"}, j : Jobs \cup {None}]]
    /\ jobRec \in [pc : {"scan", "reset", "push", "done"}, todo : SUBSET Found,
                   at : Found \cup {None}]
    /\ outbox \subseteq Jobs \X Users
    /\ ctx \in {"live", "cancelled"}
    /\ restarts \in 0 .. MaxRestarts /\ faults \in 0 .. MaxFaults
    /\ givenUp \subseteq Jobs

Init ==
    /\ job = [j \in Jobs |-> IF j \in Legacy THEN "pending" ELSE "absent"]
    /\ notified = [j \in Jobs |-> {}]
    /\ present = Legacy
    /\ registered \in SUBSET Users /\ snapshot = registered
    /\ reply = [j \in Jobs |-> "none"]
    /\ verifyCh = <<>> /\ reportCh = <<>>
    /\ verifier = [v \in Verifiers |-> Idle]
    /\ extractor = [x \in Extractors |-> Idle]
    /\ jobRec = Recovery("scan")
    /\ outbox = {} /\ ctx = "live"
    /\ restarts = 0 /\ faults = 0 /\ givenUp = {}

-----------------------------------------------------------------------------
(* HTTP handlers.                                                          *)

\* UserRegistration commits a located user.
Register(u) ==
    /\ u \notin registered
    /\ registered' = registered \cup {u}
    /\ UNCHANGED <<job, notified, present, reply, queues, agents, boot, bounds, outbox>>

\* CreateReport's transaction stores the report and its job.  Every rejection
\* before or in it (input, user, geocoding, database) leaves nothing behind.
CreateReport(j) ==
    /\ job[j] = "absent"
    /\ SetJob(j, "processing")
    /\ present' = present \cup {j}
    /\ reply' = [reply EXCEPT ![j] = "committed"]
    /\ UNCHANGED <<notified, registered, queues, agents, boot, bounds, outbox>>

\* After the commit: queue the job without blocking, or answer QUEUE_FULL.
Enqueue(j) ==
    /\ reply[j] = "committed"
    /\ \/ /\ HasRoom(verifyCh)
          /\ verifyCh' = Append(verifyCh, j)
          /\ reply' = [reply EXCEPT ![j] = "accepted"]
       \/ /\ ~HasRoom(verifyCh)
          /\ reply' = [reply EXCEPT ![j] = "full"]
          /\ UNCHANGED verifyCh
    /\ UNCHANGED <<db, reportCh, agents, boot, bounds, outbox>>

-----------------------------------------------------------------------------
(* Verification workers.                                                   *)

TakeJob(v) ==
    /\ verifier[v].pc = "idle" /\ verifyCh # <<>>
    /\ SetVerifier(v, At("fetch", Head(verifyCh)))
    /\ verifyCh' = Tail(verifyCh)
    /\ UNCHANGED <<db, reply, reportCh, extractor, jobRec, boot, bounds, outbox>>

\* Faulty variant: the locations are not looked at.
NextCheckUnlocated(j) ==
    CASE Kind[j] = "garbled" -> "fail"
      [] Kind[j] # "garbled" /\ j \notin present -> "reset"
      [] Kind[j] = "short" /\ j \in present -> "delete"
      [] OTHER -> "push"

\* What follows from the job, the report and the author the worker has read.
NextCheck(j) ==
    CASE Kind[j] = "garbled"    -> "fail"
      [] Kind[j] # "garbled" /\ j \notin present -> "reset"
      [] Kind[j] = "unlocated" /\ j \in present  -> "save"
      [] Kind[j] = "short" /\ j \in present      -> "delete"
      [] OTHER                  -> "push"

\* A failed read of the job drops the message; a failed read of the report or
\* of its author sets the job back.
Fetch(v) ==
    LET j == verifier[v].j IN
    /\ verifier[v].pc = "fetch"
    /\ \/ SetVerifier(v, At(NextCheck(j), j)) /\ UNCHANGED bounds
       \/ SetVerifier(v, Idle) /\ GiveUp({j})
       \/ SetVerifier(v, At("reset", j)) /\ GiveUp({j})
    /\ UNCHANGED <<db, reply, queues, extractor, jobRec, boot, outbox>>

\* Neither UPDATE has a condition on the status it replaces.
ResetJob(v) ==
    /\ verifier[v].pc = "reset"
    /\ SetJob(verifier[v].j, "pending")
    /\ SetVerifier(v, Idle)
    /\ UNCHANGED <<notified, present, registered, reply, queues, extractor,
                   jobRec, boot, bounds, outbox>>

FailJob(v) ==
    /\ verifier[v].pc = "fail"
    /\ SetJob(verifier[v].j, "failed")
    /\ SetVerifier(v, Idle)
    /\ UNCHANGED <<notified, present, registered, reply, queues, extractor,
                   jobRec, boot, bounds, outbox>>

\* An unverified report is marked or deleted; its job keeps its status.
RejectReport(v) ==
    /\ verifier[v].pc \in {"save", "delete"}
    /\ present' = IF verifier[v].pc = "delete" THEN present \ {verifier[v].j}
                  ELSE present
    /\ SetVerifier(v, Idle)
    /\ UNCHANGED <<job, notified, registered, reply, queues, extractor, jobRec,
                   boot, bounds, outbox>>

PushReport(v) ==
    /\ verifier[v].pc = "push" /\ HasRoom(reportCh)
    /\ reportCh' = Append(reportCh, verifier[v].j)
    /\ SetVerifier(v, Idle)
    /\ UNCHANGED <<db, reply, verifyCh, extractor, jobRec, boot, bounds, outbox>>

\* A failing statement is logged; a cancelled context ends the blocked send.
DropJob(v) ==
    /\ \/ verifier[v].pc \in {"reset", "fail", "save", "delete"} /\ GiveUp({verifier[v].j})
       \/ verifier[v].pc = "push" /\ ctx = "cancelled" /\ UNCHANGED bounds
    /\ SetVerifier(v, Idle)
    /\ UNCHANGED <<db, reply, queues, extractor, jobRec, boot, outbox>>

VerifyStep(v) ==
    \/ TakeJob(v) \/ Fetch(v) \/ RejectReport(v) \/ PushReport(v) \/ DropJob(v)

-----------------------------------------------------------------------------
(* Extraction workers.                                                     *)

TakeReport(x) ==
    /\ extractor[x].pc = "idle" /\ reportCh # <<>>
    /\ SetExtractor(x, At("extract", Head(reportCh)))
    /\ reportCh' = Tail(reportCh)
    /\ UNCHANGED <<db, reply, verifyCh, verifier, jobRec, boot, bounds, outbox>>

Affected(j) == IF Kind[j] = "unlocated" THEN {} ELSE Near[j] \cap snapshot

\* Faulty variant: the status of a delivery that needs nothing more.
NobodyStatusOfDelivery == "success"

\* The status of a job without affected users.
NobodyStatus == "done"

\* Nobody is near: the job is done, whatever its status was.
ExtractNobody(x) ==
    LET j == extractor[x].j IN
    /\ extractor[x].pc = "extract" /\ Affected(j) = {}
    /\ SetJob(j, NobodyStatus)
    /\ SetExtractor(x, Idle)
    /\ UNCHANGED <<notified, present, registered, reply, queues, verifier,
                   jobRec, boot, bounds, outbox>>

\* Faulty variant: no unique index on (job_id, user_id).
AnyRows(j, us) == TRUE

\* The unique index lets a job's rows be inserted once.
FreshRows(j, us) == us \cap notified[j] = {}

\* One transaction inserts every row and sets the job's status.
ExtractUsers(x) ==
    LET j == extractor[x].j IN
    /\ extractor[x].pc = "extract" /\ Affected(j) # {} /\ FreshRows(j, Affected(j))
    /\ notified' = [notified EXCEPT ![j] = @ \cup Affected(j)]
    /\ SetJob(j, "processing")
    /\ outbox' = outbox \cup ({j} \X Affected(j))
    /\ SetExtractor(x, At("publish", j))
    /\ UNCHANGED <<present, registered, reply, queues, verifier, jobRec, boot, bounds>>

\* The transaction rolls back: a row exists already, or the database fails.
ExtractFails(x) ==
    LET j == extractor[x].j IN
    /\ extractor[x].pc = "extract"
    /\ \/ Affected(j) # {} /\ ~FreshRows(j, Affected(j)) /\ UNCHANGED bounds
       \/ GiveUp({j})
    /\ SetExtractor(x, Idle)
    /\ UNCHANGED <<db, reply, queues, verifier, jobRec, boot, outbox>>

\* Send one wake-up; the worker is free after the job's last one.
Publish(x, d) ==
    /\ extractor[x].pc = "publish" /\ d \in outbox /\ d[1] = extractor[x].j
    /\ outbox' = outbox \ {d}
    /\ SetExtractor(x, IF \E e \in outbox' : e[1] = d[1] THEN extractor[x] ELSE Idle)
    /\ UNCHANGED <<db, reply, queues, verifier, jobRec, boot, bounds>>

AbandonPublish(x) ==
    /\ extractor[x].pc = "publish" /\ ctx = "cancelled"
    /\ outbox' = {d \in outbox : d[1] # extractor[x].j}
    /\ SetExtractor(x, Idle)
    /\ UNCHANGED <<db, reply, queues, verifier, jobRec, boot, bounds>>

\* The delivery half stores the verdict once every row is closed.
JobFinalized(j) ==
    /\ job[j] = "processing" /\ notified[j] # {}
    /\ \E verdict \in Verdicts : SetJob(j, verdict)
    /\ UNCHANGED <<notified, present, registered, reply, queues, agents, boot,
                   bounds, outbox>>

\* A database error met by the delivery half.
DeliveryError ==
    /\ faults < MaxFaults
    /\ faults' = faults + 1
    /\ UNCHANGED <<db, reply, queues, agents, boot, givenUp, outbox>>

-----------------------------------------------------------------------------
(* RecoverUnfinishedJobs.                                                  *)

\* The jobs still to treat, one of them (the query has no ORDER BY) next.
Treat(todo) ==
    \/ todo = {} /\ jobRec' = Recovery("done")
    \/ \E m \in todo :
          jobRec' = [pc |-> IF m[2] = "processing" THEN "reset" ELSE "push",
                     todo |-> todo, at |-> m]

\* Faulty variants: the SELECT misses one of the two states.
UnfinishedPending(j)    == job[j] = "pending" /\ notified[j] = {}
UnfinishedProcessing(j) == job[j] = "processing" /\ notified[j] = {}

UnfinishedJob(j) == job[j] \in Unfinished /\ notified[j] = {}

ScanJobs ==
    /\ jobRec.pc = "scan"
    /\ Treat({<<j, job[j]>> : j \in {i \in Jobs : UnfinishedJob(i)}})
    /\ UNCHANGED <<db, reply, queues, verifier, extractor, boot, bounds, outbox>>

\* Faulty variant: the UPDATE has no condition on the status.
ResettableAlways(j) == TRUE

Resettable(j) == job[j] = "processing"

\* Reset a job seen in processing; if its state changed, leave it alone.
RecoverReset ==
    LET j == jobRec.at[1] IN
    /\ jobRec.pc = "reset" /\ Resettable(j)
    /\ SetJob(j, "pending")
    /\ jobRec' = [jobRec EXCEPT !.pc = "push"]
    /\ UNCHANGED <<notified, present, registered, reply, queues, verifier,
                   extractor, boot, bounds, outbox>>

RecoverSkip ==
    /\ jobRec.pc = "reset" /\ ~Resettable(jobRec.at[1])
    /\ Treat(jobRec.todo \ {jobRec.at})
    /\ UNCHANGED <<db, reply, queues, verifier, extractor, boot, bounds, outbox>>

RecoverPush ==
    /\ jobRec.pc = "push" /\ HasRoom(verifyCh)
    /\ verifyCh' = Append(verifyCh, jobRec.at[1])
    /\ Treat(jobRec.todo \ {jobRec.at})
    /\ UNCHANGED <<db, reply, reportCh, verifier, extractor, boot, bounds, outbox>>

\* The first error ends the recovery of this boot; so does a cancelled context.
RecoverStop ==
    /\ \/ jobRec.pc = "scan" /\ GiveUp(Jobs)
       \/ jobRec.pc = "reset" /\ GiveUp({m[1] : m \in jobRec.todo})
       \/ jobRec.pc = "push" /\ ctx = "cancelled" /\ UNCHANGED bounds
    /\ jobRec' = Recovery("done")
    /\ UNCHANGED <<db, reply, queues, verifier, extractor, boot, outbox>>

RecoveryStep ==
    ScanJobs \/ RecoverReset \/ RecoverSkip \/ RecoverPush \/ RecoverStop

-----------------------------------------------------------------------------
(* The process.                                                            *)

Cancel ==
    /\ ctx = "live" /\ faults < MaxFaults
    /\ faults' = faults + 1
    /\ ctx' = "cancelled"
    /\ UNCHANGED <<db, reply, queues, agents, snapshot, restarts, givenUp, outbox>>

\* The process dies anywhere and boots again.  StartExtractWorkers reads the
\* users once; when that read fails it logs the error and starts with nobody.
Restart ==
    /\ restarts < MaxRestarts
    /\ restarts' = restarts + 1
    /\ \/ snapshot' = registered /\ UNCHANGED faults
       \/ snapshot' = {} /\ faults < MaxFaults /\ faults' = faults + 1
    /\ reply' = [j \in Jobs |-> IF reply[j] = "none" THEN "none" ELSE "past"]
    /\ verifyCh' = <<>> /\ reportCh' = <<>>
    /\ verifier' = [v \in Verifiers |-> Idle]
    /\ extractor' = [x \in Extractors |-> Idle]
    /\ jobRec' = Recovery("scan")
    /\ outbox' = {} /\ ctx' = "live" /\ givenUp' = {}
    /\ UNCHANGED db

ExtractStep(x) ==
    \/ TakeReport(x) \/ ExtractNobody(x) \/ ExtractUsers(x) \/ ExtractFails(x)
    \/ AbandonPublish(x) \/ \E d \in Jobs \X Users : Publish(x, d)

Next ==
    \/ \E u \in Users : Register(u)
    \/ \E j \in Jobs : CreateReport(j) \/ Enqueue(j) \/ JobFinalized(j)
    \/ \E v \in Verifiers : VerifyStep(v) \/ ResetJob(v) \/ FailJob(v)
    \/ \E x \in Extractors : ExtractStep(x)
    \/ RecoveryStep
    \/ DeliveryError \/ Cancel \/ Restart

Spec == Init /\ [][Next]_vars

\* The Go scheduler runs every goroutine that is not blocked, request handlers
\* included; clients, the delivery half and crashes owe nothing.
Fairness ==
    /\ \A j \in Jobs : WF_vars(Enqueue(j))
    /\ \A v \in Verifiers : WF_vars(VerifyStep(v) \/ ResetJob(v) \/ FailJob(v))
    /\ \A x \in Extractors : WF_vars(ExtractStep(x))
    /\ WF_vars(RecoveryStep)

FairSpec == Spec /\ Fairness

-----------------------------------------------------------------------------
(* Properties.                                                             *)

Unextracted(j) == job[j] \in Unfinished /\ notified[j] = {}

InQueue(j, q) == \E i \in DOMAIN q : q[i] = j

\* Something of this boot will still act on the job, or its client was told
\* that it waits for the next boot.
Tracked(j) ==
    \/ reply[j] \in {"committed", "full"}
    \/ InQueue(j, verifyCh) \/ InQueue(j, reportCh)
    \/ \E v \in Verifiers : verifier[v].j = j
    \/ \E x \in Extractors : extractor[x] = At("extract", j)
    \/ jobRec.pc = "scan"
    \/ \E m \in jobRec.todo : m[1] = j

\* A stored job that extraction has not reached is never forgotten: while the
\* process is not being stopped it is in a queue, in a worker's hands, in the
\* recovery's list, or its client got QUEUE_FULL in this boot.
NoLostJob ==
    \A j \in Jobs \ givenUp :
        Kind[j] = "good" /\ ctx = "live" /\ Unextracted(j) => Tracked(j)

\* The handler's and the recovery's messages for the same job never make two
\* extraction workers publish its rows.
OnePublisher ==
    \A x, y \in Extractors :
        x # y /\ extractor[x].pc = "publish" /\ extractor[y].pc = "publish"
            => extractor[x].j # extractor[y].j

\* Nobody is emailed about a report that verification rejects, and its job is
\* not done, in whatever order its messages and the deletion of it come.
VerifiedOnly ==
    \A j \in Jobs : Kind[j] # "good" => notified[j] = {} /\ job[j] # "done"

\* Without database errors a job that has its verdict keeps it, although stale
\* and duplicate messages for it still pass through verification, extraction
\* and recovery.
FinishedStays ==
    [][\A j \in Jobs :
          faults' = 0 /\ job[j] \in Verdicts => job'[j] = job[j]]_vars

\* A stored report reaches extraction: one whose client was told 202, and, at
\* every boot, each job that the process before it left behind, the one whose
\* client was told QUEUE_FULL or nothing at all included.
StoredJobsExtracted ==
    \A j \in Jobs :
        Kind[j] = "good" /\ Unextracted(j)
                /\ (reply[j] = "accepted" \/ jobRec.pc = "scan")
            ~> ~Unextracted(j)

=============================================================================
