---------------------------- MODULE IntakeProofs ----------------------------
(***************************************************************************)
(* For any jobs, users, kinds of stored rows, pool sizes, queue capacity,  *)
(* restarts and faults: no stored job is forgotten, no job is published    *)
(* twice, a rejected report reaches nobody, and a verdict stays.           *)
(***************************************************************************)
EXTENDS Intake, SequenceTheorems, TLAPS

\* What appending to a queue and taking its head does to what is in it.
LEMMA QueueAppend ==
    ASSUME NEW S, NEW q \in Seq(S), NEW e \in S, HasRoom(q), Len(q) <= QueueCap
    PROVE  /\ Append(q, e) \in Seq(S) /\ Len(Append(q, e)) <= QueueCap
           /\ \A j : InQueue(j, Append(q, e)) <=> InQueue(j, q) \/ j = e
<1> DEFINE r == Append(q, e)
<1>1. /\ r \in Seq(S) /\ Len(r) = Len(q) + 1 /\ Len(q) \in Nat
      /\ \A i \in 1 .. Len(q) : r[i] = q[i]
      /\ r[Len(q) + 1] = e /\ DOMAIN r = 1 .. Len(q) + 1 /\ DOMAIN q = 1 .. Len(q)
  OBVIOUS
<1>2. \A i : i \in 1 .. Len(q) + 1 <=> i \in 1 .. Len(q) \/ i = Len(q) + 1
  BY <1>1
<1>3. Len(r) <= QueueCap
  BY <1>1, IntakeAssumption DEF HasRoom
<1> HIDE DEF r
<1>4. \A j : InQueue(j, r) <=> InQueue(j, q) \/ j = e
  BY <1>1, <1>2 DEF InQueue
<1> QED
  BY <1>1, <1>3, <1>4 DEF r

LEMMA QueueTail ==
    ASSUME NEW S, NEW q \in Seq(S), q # <<>>
    PROVE  /\ Head(q) \in S /\ Tail(q) \in Seq(S) /\ Len(Tail(q)) <= Len(q)
           /\ \A j : InQueue(j, q) <=> j = Head(q) \/ InQueue(j, Tail(q))
<1> DEFINE r == Tail(q)
<1>1. /\ r \in Seq(S) /\ Len(q) \in Nat \ {0} /\ Len(r) = Len(q) - 1
      /\ DOMAIN q = 1 .. Len(q) /\ DOMAIN r = 1 .. Len(q) - 1
      /\ Head(q) = q[1] /\ q[1] \in S
      /\ \A i \in 1 .. Len(q) - 1 : r[i] = q[i + 1]
  OBVIOUS
<1> HIDE DEF r
<1>2. ASSUME NEW j, InQueue(j, q) PROVE j = Head(q) \/ InQueue(j, r)
  <2>1. PICK i \in 1 .. Len(q) : q[i] = j
    BY <1>1, <1>2 DEF InQueue
  <2>2. CASE i # 1
    <3>1. i - 1 \in 1 .. Len(q) - 1 /\ q[(i - 1) + 1] = j
      BY <1>1, <2>1, <2>2
    <3> QED
      BY <1>1, <3>1 DEF InQueue
  <2> QED
    BY <1>1, <2>1, <2>2
<1>3. ASSUME NEW j, InQueue(j, r) PROVE InQueue(j, q)
  <2>1. PICK i \in 1 .. Len(q) - 1 : r[i] = j
    BY <1>1, <1>3 DEF InQueue
  <2>2. i + 1 \in 1 .. Len(q) /\ q[i + 1] = j
    BY <1>1, <2>1
  <2> QED
    BY <1>1, <2>2 DEF InQueue
<1>4. InQueue(Head(q), q)
  BY <1>1 DEF InQueue
<1> QED
  BY <1>1, <1>2, <1>3, <1>4 DEF r

-----------------------------------------------------------------------------
(* Types *)

VerifierState ==
    [pc : {"idle", "fetch", "reset", "fail", "save", "delete", "push"}, j : Jobs \cup {None}]
ExtractorState == [pc : {"idle", "extract", "publish"}, j : Jobs \cup {None}]

\* What the type of a goroutine says at a location: a busy worker has a job, and
\* the recovery treats one of those it still has to.
PlaceOK ==
    /\ \A v \in Verifiers : IF verifier[v].pc = "idle" THEN verifier[v].j = None
                                                      ELSE verifier[v].j \in Jobs
    /\ \A x \in Extractors : IF extractor[x].pc = "idle" THEN extractor[x].j = None
                                                        ELSE extractor[x].j \in Jobs
    /\ IF jobRec.pc \in {"reset", "push"} THEN jobRec.at \in jobRec.todo ELSE jobRec.todo = {}
    /\ jobRec.pc = "reset" => jobRec.at[2] = "processing"

TypeInv == TypeOK /\ PlaceOK

LEMMA IdleType ==
    /\ Idle \in VerifierState /\ Idle \in ExtractorState
    /\ Idle.pc = "idle" /\ Idle.j = None
  BY DEF Idle, VerifierState, ExtractorState

\* A verification worker whose new state fits keeps the types, and so does an
\* extraction worker.
LEMMA VerifierType ==
    ASSUME TypeInv, NEW v \in Verifiers, NEW s \in VerifierState, SetVerifier(v, s),
           IF s.pc = "idle" THEN s.j = None ELSE s.j \in Jobs
    PROVE  /\ verifier' \in [Verifiers -> VerifierState]
           /\ verifier'[v] = s /\ \A w \in Verifiers \ {v} : verifier'[w] = verifier[w]
           /\ UNCHANGED <<extractor, jobRec>> => PlaceOK'
<1>1. verifier \in [Verifiers -> VerifierState]
  BY DEF TypeInv, TypeOK, VerifierState
<1>2. /\ verifier' \in [Verifiers -> VerifierState]
      /\ verifier'[v] = s /\ \A w \in Verifiers \ {v} : verifier'[w] = verifier[w]
  BY <1>1 DEF SetVerifier
<1> QED
  BY <1>2 DEF TypeInv, PlaceOK

LEMMA ExtractorType ==
    ASSUME TypeInv, NEW x \in Extractors, NEW s \in ExtractorState, SetExtractor(x, s),
           IF s.pc = "idle" THEN s.j = None ELSE s.j \in Jobs
    PROVE  /\ extractor' \in [Extractors -> ExtractorState]
           /\ extractor'[x] = s /\ \A y \in Extractors \ {x} : extractor'[y] = extractor[y]
           /\ UNCHANGED <<verifier, jobRec>> => PlaceOK'
<1>1. extractor \in [Extractors -> ExtractorState]
  BY DEF TypeInv, TypeOK, ExtractorState
<1>2. /\ extractor' \in [Extractors -> ExtractorState]
      /\ extractor'[x] = s /\ \A y \in Extractors \ {x} : extractor'[y] = extractor[y]
  BY <1>1 DEF SetExtractor
<1> QED
  BY <1>2 DEF TypeInv, PlaceOK

\* Going on with a part of the jobs found keeps the recovery's type.
LEMMA TreatType ==
    ASSUME NEW todo \in SUBSET Found, Treat(todo)
    PROVE  /\ jobRec' \in [pc : {"scan", "reset", "push", "done"}, todo : SUBSET Found,
                           at : Found \cup {None}]
           /\ jobRec'.todo = todo /\ jobRec'.pc # "scan"
           /\ IF jobRec'.pc \in {"reset", "push"} THEN jobRec'.at \in todo ELSE todo = {}
           /\ jobRec'.pc = "reset" => jobRec'.at[2] = "processing"
           /\ jobRec'.pc = "push" => jobRec'.at[2] # "processing"
<1>1. CASE todo = {} /\ jobRec' = Recovery("done")
  BY <1>1 DEF Recovery
<1>2. CASE todo # {}
  <2>1. PICK m \in todo : jobRec' = [pc |-> IF m[2] = "processing" THEN "reset" ELSE "push",
                                     todo |-> todo, at |-> m]
    BY <1>2 DEF Treat
  <2> QED
    BY <2>1
<1> QED
  BY <1>1, <1>2 DEF Treat

LEMMA InitType == Init => TypeInv
<1> SUFFICES ASSUME Init PROVE TypeInv
  OBVIOUS
<1>1. <<>> \in Seq(Jobs) /\ Len(<<>>) = 0
  OBVIOUS
<1>2. TypeOK
  BY <1>1, IdleType, IntakeAssumption
     DEF Init, TypeOK, VerifierState, ExtractorState, Recovery, Unfinished, db
<1>3. PlaceOK
  BY DEF Init, PlaceOK, Idle, Recovery
<1> QED
  BY <1>2, <1>3 DEF TypeInv

\* Giving jobs up keeps the types.
LEMMA GiveUpType ==
    ASSUME TypeInv, NEW js \in SUBSET Jobs, GiveUp(js)
    PROVE  faults' \in 0 .. MaxFaults /\ givenUp' \subseteq Jobs /\ faults' > 0
BY IntakeAssumption DEF TypeInv, TypeOK, GiveUp

\* Handlers keep the types.
LEMMA HandlerType ==
    ASSUME TypeInv,
           \/ \E u \in Users : Register(u)
           \/ \E j \in Jobs : CreateReport(j) \/ Enqueue(j) \/ JobFinalized(j)
    PROVE  TypeInv'
<1> USE DEF TypeInv, TypeOK, db, queues, agents, boot, bounds
<1>1. ASSUME NEW u \in Users, Register(u) PROVE TypeInv'
  BY <1>1 DEF Register, PlaceOK
<1>2. ASSUME NEW j \in Jobs, CreateReport(j) PROVE TypeInv'
  BY <1>2 DEF CreateReport, SetJob, PlaceOK, Unfinished
<1>3. ASSUME NEW j \in Jobs, Enqueue(j) PROVE TypeInv'
  <2>1. verifyCh' \in Seq(Jobs) /\ Len(verifyCh') <= QueueCap
    <3>1. CASE HasRoom(verifyCh) /\ verifyCh' = Append(verifyCh, j)
      BY <3>1, QueueAppend
    <3> QED
      BY <1>3, <3>1 DEF Enqueue
  <2> QED
    BY <1>3, <2>1 DEF Enqueue, PlaceOK
<1>4. ASSUME NEW j \in Jobs, JobFinalized(j) PROVE TypeInv'
  BY <1>4 DEF JobFinalized, SetJob, PlaceOK
<1> QED
  BY <1>1, <1>2, <1>3, <1>4

LEMMA VerifyType ==
    ASSUME TypeInv, NEW v \in Verifiers, VerifyStep(v) \/ ResetJob(v) \/ FailJob(v)
    PROVE  TypeInv'
<1> DEFINE j == verifier[v].j
<1>0. /\ verifier[v].pc # "idle" => j \in Jobs
      /\ \A pc \in {"fetch", "reset", "fail", "save", "delete", "push"}, i \in Jobs :
            At(pc, i) \in VerifierState /\ At(pc, i).pc = pc /\ At(pc, i).j = i
  BY DEF TypeInv, PlaceOK, At, VerifierState
<1> USE DEF db, queues, agents, boot, bounds
<1>1. CASE TakeJob(v)
  <2>1. /\ Head(verifyCh) \in Jobs /\ verifyCh' \in Seq(Jobs) /\ Len(verifyCh') <= QueueCap
    BY <1>1, QueueTail, IntakeAssumption DEF TakeJob, TypeInv, TypeOK
  <2>2. verifier' \in [Verifiers -> VerifierState] /\ PlaceOK'
    BY <1>0, <1>1, <2>1, VerifierType DEF TakeJob
  <2> QED
    BY <1>1, <2>1, <2>2 DEF TakeJob, TypeInv, TypeOK, VerifierState
<1>2. CASE Fetch(v)
  <2>1. NextCheck(j) \in {"fail", "reset", "save", "delete", "push"}
    BY DEF NextCheck
  <2>2. j \in Jobs
    BY <1>0, <1>2 DEF Fetch
  <2>3. verifier' \in [Verifiers -> VerifierState] /\ PlaceOK'
    BY <1>0, <1>2, <2>1, <2>2, VerifierType, IdleType DEF Fetch
  <2>4. faults' \in 0 .. MaxFaults /\ givenUp' \subseteq Jobs
    BY <1>2, <2>2, GiveUpType DEF Fetch, TypeInv, TypeOK
  <2> QED
    BY <1>2, <2>3, <2>4 DEF Fetch, TypeInv, TypeOK, VerifierState
<1>3. CASE ResetJob(v) \/ FailJob(v)
  <2>1. verifier' \in [Verifiers -> VerifierState] /\ PlaceOK'
    BY <1>3, VerifierType, IdleType DEF ResetJob, FailJob
  <2> QED
    BY <1>0, <1>3, <2>1
       DEF ResetJob, FailJob, SetJob, TypeInv, TypeOK, VerifierState, Unfinished, Verdicts
<1>4. CASE RejectReport(v)
  <2>1. verifier' \in [Verifiers -> VerifierState] /\ PlaceOK'
    BY <1>4, VerifierType, IdleType DEF RejectReport
  <2> QED
    BY <1>4, <2>1 DEF RejectReport, TypeInv, TypeOK, VerifierState
<1>5. CASE PushReport(v)
  <2>1. verifier' \in [Verifiers -> VerifierState] /\ PlaceOK'
    BY <1>5, VerifierType, IdleType DEF PushReport
  <2>2. reportCh' \in Seq(Jobs) /\ Len(reportCh') <= QueueCap
    BY <1>0, <1>5, QueueAppend DEF PushReport, TypeInv, TypeOK
  <2> QED
    BY <1>5, <2>1, <2>2 DEF PushReport, TypeInv, TypeOK, VerifierState
<1>6. CASE DropJob(v)
  <2>1. verifier' \in [Verifiers -> VerifierState] /\ PlaceOK'
    BY <1>6, VerifierType, IdleType DEF DropJob
  <2>2. faults' \in 0 .. MaxFaults /\ givenUp' \subseteq Jobs
    BY <1>0, <1>6, GiveUpType DEF DropJob, TypeInv, TypeOK
  <2> QED
    BY <1>6, <2>1, <2>2 DEF DropJob, TypeInv, TypeOK, VerifierState
<1> QED
  BY <1>1, <1>2, <1>3, <1>4, <1>5, <1>6 DEF VerifyStep

LEMMA ExtractType ==
    ASSUME TypeInv, NEW x \in Extractors, ExtractStep(x)
    PROVE  TypeInv'
<1> DEFINE j == extractor[x].j
<1>0. /\ extractor[x].pc # "idle" => j \in Jobs
      /\ \A pc \in {"extract", "publish"}, i \in Jobs :
            At(pc, i) \in ExtractorState /\ At(pc, i).pc = pc /\ At(pc, i).j = i
  BY DEF TypeInv, PlaceOK, At, ExtractorState
<1> USE DEF db, queues, agents, boot, bounds
<1>1. CASE TakeReport(x)
  <2>1. /\ Head(reportCh) \in Jobs /\ reportCh' \in Seq(Jobs) /\ Len(reportCh') <= QueueCap
    BY <1>1, QueueTail, IntakeAssumption DEF TakeReport, TypeInv, TypeOK
  <2>2. extractor' \in [Extractors -> ExtractorState] /\ PlaceOK'
    BY <1>0, <1>1, <2>1, ExtractorType DEF TakeReport
  <2> QED
    BY <1>1, <2>1, <2>2 DEF TakeReport, TypeInv, TypeOK, ExtractorState
<1>2. CASE ExtractNobody(x)
  <2>1. extractor' \in [Extractors -> ExtractorState] /\ PlaceOK'
    BY <1>2, ExtractorType, IdleType DEF ExtractNobody
  <2> QED
    BY <1>0, <1>2, <2>1
       DEF ExtractNobody, NobodyStatus, SetJob, TypeInv, TypeOK, ExtractorState, Unfinished, Verdicts
<1>3. CASE ExtractUsers(x)
  <2>1. j \in Jobs /\ Affected(j) \subseteq Users
    BY <1>0, <1>3, IntakeAssumption DEF ExtractUsers, Affected
  <2>2. extractor' \in [Extractors -> ExtractorState] /\ PlaceOK'
    BY <1>0, <1>3, <2>1, ExtractorType DEF ExtractUsers
  <2> QED
    BY <1>3, <2>1, <2>2
       DEF ExtractUsers, SetJob, TypeInv, TypeOK, ExtractorState, Unfinished, Verdicts
<1>4. CASE ExtractFails(x)
  <2>1. extractor' \in [Extractors -> ExtractorState] /\ PlaceOK'
    BY <1>4, ExtractorType, IdleType DEF ExtractFails
  <2>2. faults' \in 0 .. MaxFaults /\ givenUp' \subseteq Jobs
    BY <1>0, <1>4, GiveUpType DEF ExtractFails, TypeInv, TypeOK
  <2> QED
    BY <1>4, <2>1, <2>2 DEF ExtractFails, TypeInv, TypeOK, ExtractorState
<1>5. CASE AbandonPublish(x)
  <2>1. extractor' \in [Extractors -> ExtractorState] /\ PlaceOK'
    BY <1>5, ExtractorType, IdleType DEF AbandonPublish
  <2> QED
    BY <1>5, <2>1 DEF AbandonPublish, TypeInv, TypeOK, ExtractorState
<1>6. ASSUME NEW d \in Jobs \X Users, Publish(x, d) PROVE TypeInv'
  <2>1. extractor[x] \in ExtractorState
    BY DEF TypeInv, TypeOK, ExtractorState
  <2>2. extractor' \in [Extractors -> ExtractorState] /\ PlaceOK'
    BY <1>0, <1>6, <2>1, ExtractorType, IdleType DEF Publish
  <2> QED
    BY <1>6, <2>2 DEF Publish, TypeInv, TypeOK, ExtractorState
<1> QED
  BY <1>1, <1>2, <1>3, <1>4, <1>5, <1>6 DEF ExtractStep

LEMMA RecoveryType ==
    ASSUME TypeInv, RecoveryStep
    PROVE  TypeInv'
<1> USE DEF db, queues, agents, boot, bounds
<1>1. ASSUME NEW todo \in SUBSET Found, Treat(todo),
             UNCHANGED <<db, reply, reportCh, verifier, extractor, boot, bounds, outbox>>,
             verifyCh' \in Seq(Jobs) /\ Len(verifyCh') <= QueueCap
      PROVE  TypeInv'
  BY <1>1, TreatType DEF TypeInv, TypeOK, PlaceOK
<1>2. jobRec.todo \subseteq Found /\ (jobRec.pc \in {"reset", "push"} => jobRec.at[1] \in Jobs)
  BY DEF TypeInv, TypeOK, PlaceOK, Found
<1>3. CASE ScanJobs
  <2>1. {<<i, job[i]>> : i \in {k \in Jobs : UnfinishedJob(k)}} \in SUBSET Found
    BY DEF Found, UnfinishedJob
  <2> QED
    BY <1>1, <1>3, <2>1 DEF ScanJobs, TypeInv, TypeOK
<1>4. CASE RecoverReset
  BY <1>2, <1>4 DEF RecoverReset, SetJob, TypeInv, TypeOK, PlaceOK, Unfinished
<1>5. CASE RecoverSkip
  BY <1>1, <1>2, <1>5 DEF RecoverSkip, TypeInv, TypeOK
<1>6. CASE RecoverPush
  <2>1. verifyCh' \in Seq(Jobs) /\ Len(verifyCh') <= QueueCap
    BY <1>2, <1>6, QueueAppend DEF RecoverPush, TypeInv, TypeOK
  <2> QED
    BY <1>1, <1>2, <1>6, <2>1 DEF RecoverPush
<1>7. CASE RecoverStop
  <2>1. {m[1] : m \in jobRec.todo} \subseteq Jobs
    BY <1>2 DEF Found
  <2>2. faults' \in 0 .. MaxFaults /\ givenUp' \subseteq Jobs
    BY <1>7, <2>1, GiveUpType DEF RecoverStop, TypeInv, TypeOK
  <2> QED
    BY <1>7, <2>2 DEF RecoverStop, Recovery, TypeInv, TypeOK, PlaceOK
<1> QED
  BY <1>3, <1>4, <1>5, <1>6, <1>7 DEF RecoveryStep

LEMMA ProcessType ==
    ASSUME TypeInv, DeliveryError \/ Cancel \/ Restart \/ UNCHANGED vars
    PROVE  TypeInv'
<1> USE IntakeAssumption DEF db, queues, agents, boot, bounds
<1>1. CASE DeliveryError \/ Cancel
  BY <1>1 DEF DeliveryError, Cancel, TypeInv, TypeOK, PlaceOK
<1>2. CASE Restart
  <2>1. <<>> \in Seq(Jobs) /\ Len(<<>>) = 0
    OBVIOUS
  <2>2. TypeOK'
    BY <1>2, <2>1, IdleType
       DEF Restart, TypeInv, TypeOK, VerifierState, ExtractorState, Recovery
  <2>3. PlaceOK'
    BY <1>2, IdleType DEF Restart, PlaceOK, Recovery
  <2> QED
    BY <2>2, <2>3 DEF TypeInv
<1>3. CASE UNCHANGED vars
  BY <1>3 DEF vars, TypeInv, TypeOK, PlaceOK
<1> QED
  BY <1>1, <1>2, <1>3

LEMMA NextType == TypeInv /\ [Next]_vars => TypeInv'
BY HandlerType, VerifyType, ExtractType, RecoveryType, ProcessType DEF Next

\* Queues keep their capacity, and every goroutine is at one of its places with a
\* job in hand exactly when it is busy (createReport.go, verifyReport.go,
\* extractUserIDs.go, recoverStalledJobs.go).
THEOREM TypeCorrect == Spec => [](TypeOK /\ PlaceOK)
<1>1. TypeInv => TypeOK /\ PlaceOK
  BY DEF TypeInv
<1> QED
  BY <1>1, InitType, NextType, PTL DEF Spec

-----------------------------------------------------------------------------
(* The inductive invariant *)

\* Some message, list or handler of this boot still carries the job.
Handled(j) ==
    \/ reply[j] = "committed"
    \/ InQueue(j, verifyCh) \/ InQueue(j, reportCh)
    \/ \E v \in Verifiers : verifier[v].j = j
    \/ \E x \in Extractors : extractor[x].j = j
    \/ \E m \in jobRec.todo : m[1] = j

\* Only jobs that are stored are handled, and a good one keeps its report.
HandledStored ==
    \A j \in Jobs : /\ Handled(j) => job[j] # "absent"
                    /\ Kind[j] = "good" /\ job[j] # "absent" => j \in present

\* Only good reports pass verification, and which way the others take.
Verified ==
    /\ \A v \in Verifiers :
          /\ verifier[v].pc = "push" => Kind[verifier[v].j] = "good"
          /\ verifier[v].pc = "fail" => Kind[verifier[v].j] = "garbled"
          /\ verifier[v].pc \in {"save", "delete"} => Kind[verifier[v].j] # "good"
    /\ \A j \in Jobs : InQueue(j, reportCh) => Kind[j] = "good"
    /\ \A x \in Extractors : extractor[x].pc # "idle" => Kind[extractor[x].j] = "good"
    /\ \A j \in Jobs : Kind[j] # "good" =>
          /\ notified[j] = {} /\ job[j] \in {"pending", "processing", "failed"}
          /\ job[j] = "failed" => Kind[j] = "garbled"

\* Whoever publishes has stored rows of this boot's users.
Published ==
    /\ OnePublisher
    /\ \A x \in Extractors : extractor[x].pc = "publish" =>
          Affected(extractor[x].j) # {} /\ Affected(extractor[x].j) \subseteq notified[extractor[x].j]

\* Nobody sets a good or a garbled job back without giving it up, except the
\* recovery, which then queues it.
SetBack ==
    /\ \A v \in Verifiers : verifier[v].pc = "reset" =>
          Kind[verifier[v].j] \notin {"good", "garbled"} \/ verifier[v].j \in givenUp
    /\ \A m \in jobRec.todo :
          /\ m[2] = "processing" /\ job[m[1]] = "pending"
          /\ Kind[m[1]] = "good" /\ m[1] \notin givenUp
          => jobRec.pc = "push" /\ jobRec.at = m

\* What a verdict says of the rows, and who may still see it.
Settled ==
    /\ snapshot \subseteq registered
    /\ faults = 0 => givenUp = {} /\ \A j \in Jobs : notified[j] \subseteq snapshot
    /\ \A j \in Jobs :
          /\ notified[j] \subseteq Near[j]
          /\ Kind[j] = "good" /\ notified[j] = {} /\ job[j] \in Verdicts => job[j] = "done"
          /\ Kind[j] = "good" /\ notified[j] = {} /\ job[j] = "done" /\ Handled(j) => Affected(j) = {}

IntakeInv ==
    TypeInv /\ HandledStored /\ Verified /\ Published /\ SetBack /\ NoLostJob /\ Settled

-----------------------------------------------------------------------------
(* Who handles a job *)

LEMMA RestartForgets ==
    ASSUME Restart, NEW i \in Jobs
    PROVE  ~Handled(i)'
<1>1. ~InQueue(i, <<>>)
  BY DEF InQueue
<1>2. InQueue(i, verifyCh)' = InQueue(i, verifyCh') /\ InQueue(i, reportCh)' = InQueue(i, reportCh')
  BY DEF InQueue
<1> QED
  BY <1>1, <1>2, IdleType, IntakeAssumption DEF Restart, Handled, Recovery

\* A job is handled after a step only if it was before, or the step stored it, or
\* the recovery has just found it unfinished.
LEMMA HandledNew ==
    ASSUME TypeInv, Next, NEW i \in Jobs, Handled(i)'
    PROVE  Handled(i) \/ CreateReport(i) \/ (ScanJobs /\ UnfinishedJob(i))
<1> USE DEF db, queues, agents, boot, bounds
<1>0. /\ InQueue(i, verifyCh)' = InQueue(i, verifyCh')
      /\ InQueue(i, reportCh)' = InQueue(i, reportCh')
      /\ verifyCh \in Seq(Jobs) /\ Len(verifyCh) <= QueueCap
      /\ reportCh \in Seq(Jobs) /\ Len(reportCh) <= QueueCap
      /\ None \notin Jobs
  BY IntakeAssumption DEF TypeInv, TypeOK, InQueue
<1>1. ASSUME NEW u \in Users, Register(u) PROVE Handled(i)
  BY <1>1 DEF Register, Handled
<1>2. ASSUME NEW j \in Jobs, CreateReport(j), i # j PROVE Handled(i)
  BY <1>2 DEF CreateReport, Handled, TypeInv, TypeOK
<1>3. ASSUME NEW j \in Jobs, Enqueue(j) PROVE Handled(i)
  <2>1. reply[i] = "committed" \/ reply'[i] # "committed"
    BY <1>3 DEF Enqueue, TypeInv, TypeOK
  <2>2. InQueue(i, verifyCh') => InQueue(i, verifyCh) \/ reply[i] = "committed"
    <3>1. CASE HasRoom(verifyCh) /\ verifyCh' = Append(verifyCh, j)
      BY <1>0, <1>3, <3>1, QueueAppend DEF Enqueue
    <3> QED
      BY <1>3, <3>1 DEF Enqueue
  <2> QED
    BY <1>0, <1>3, <2>1, <2>2 DEF Enqueue, Handled
<1>4. ASSUME NEW j \in Jobs, JobFinalized(j) PROVE Handled(i)
  BY <1>4 DEF JobFinalized, Handled
<1>5. ASSUME NEW v \in Verifiers, VerifyStep(v) \/ ResetJob(v) \/ FailJob(v) PROVE Handled(i)
  <2>1. verifier \in [Verifiers -> VerifierState]
    BY DEF TypeInv, TypeOK, VerifierState
  <2>2. CASE TakeJob(v)
    <3>1. verifier' = [verifier EXCEPT ![v] = At("fetch", Head(verifyCh))] /\ verifyCh' = Tail(verifyCh)
          /\ verifyCh # <<>>
      BY <2>2 DEF TakeJob, SetVerifier
    <3>2. \A w \in Verifiers : verifier'[w].j = i => verifier[w].j = i \/ Head(verifyCh) = i
      BY <2>1, <3>1 DEF At
    <3>3. InQueue(i, verifyCh') \/ Head(verifyCh) = i => InQueue(i, verifyCh)
      BY <1>0, <3>1, QueueTail
    <3> QED
      BY <1>0, <2>2, <3>2, <3>3 DEF TakeJob, Handled
  <2>3. CASE Fetch(v) \/ ResetJob(v) \/ FailJob(v) \/ RejectReport(v) \/ DropJob(v)
    <3>1. \A w \in Verifiers : verifier'[w].j = i => verifier[w].j = i
      BY <1>0, <2>1, <2>3
         DEF Fetch, ResetJob, FailJob, RejectReport, DropJob, SetVerifier, At, Idle
    <3> QED
      BY <2>3, <3>1 DEF Fetch, ResetJob, FailJob, RejectReport, DropJob, Handled
  <2>4. CASE PushReport(v)
    <3>1. \A w \in Verifiers : verifier'[w].j = i => verifier[w].j = i
      BY <1>0, <2>1, <2>4 DEF PushReport, SetVerifier, Idle
    <3>2. verifier[v].j \in Jobs
      BY <2>4 DEF PushReport, TypeInv, PlaceOK
    <3>3. InQueue(i, reportCh') => InQueue(i, reportCh) \/ verifier[v].j = i
      BY <1>0, <2>4, <3>2, QueueAppend DEF PushReport
    <3> QED
      BY <1>0, <2>4, <3>1, <3>3 DEF PushReport, Handled
  <2> QED
    BY <1>5, <2>2, <2>3, <2>4 DEF VerifyStep
<1>6. ASSUME NEW x \in Extractors, ExtractStep(x) PROVE Handled(i)
  <2>1. extractor \in [Extractors -> ExtractorState]
    BY DEF TypeInv, TypeOK, ExtractorState
  <2>2. CASE TakeReport(x)
    <3>1. extractor' = [extractor EXCEPT ![x] = At("extract", Head(reportCh))]
          /\ reportCh' = Tail(reportCh) /\ reportCh # <<>>
      BY <2>2 DEF TakeReport, SetExtractor
    <3>2. \A y \in Extractors : extractor'[y].j = i => extractor[y].j = i \/ Head(reportCh) = i
      BY <2>1, <3>1 DEF At
    <3>3. InQueue(i, reportCh') \/ Head(reportCh) = i => InQueue(i, reportCh)
      BY <1>0, <3>1, QueueTail
    <3> QED
      BY <1>0, <2>2, <3>2, <3>3 DEF TakeReport, Handled
  <2>3. CASE ExtractNobody(x) \/ ExtractUsers(x) \/ ExtractFails(x) \/ AbandonPublish(x)
             \/ \E d \in Jobs \X Users : Publish(x, d)
    <3>1. \A y \in Extractors : extractor'[y].j = i => extractor[y].j = i
      BY <1>0, <2>1, <2>3
         DEF ExtractNobody, ExtractUsers, ExtractFails, AbandonPublish, Publish, SetExtractor, At, Idle
    <3> QED
      BY <2>3, <3>1 DEF ExtractNobody, ExtractUsers, ExtractFails, AbandonPublish, Publish, Handled
  <2> QED
    BY <1>6, <2>2, <2>3 DEF ExtractStep
<1>7. ASSUME ScanJobs PROVE Handled(i) \/ UnfinishedJob(i)
  <2> DEFINE found == {<<j, job[j]>> : j \in {k \in Jobs : UnfinishedJob(k)}}
  <2>1. found \in SUBSET Found
    BY DEF Found, UnfinishedJob
  <2>2. jobRec'.todo = found
    BY <1>7, <2>1, TreatType DEF ScanJobs
  <2>3. (\E m \in jobRec'.todo : m[1] = i) => UnfinishedJob(i)
    BY <2>2
  <2> QED
    BY <1>7, <2>3 DEF ScanJobs, Handled
<1>8. ASSUME RecoverReset \/ RecoverSkip \/ RecoverPush \/ RecoverStop PROVE Handled(i)
  <2>1. jobRec.todo \subseteq Found /\ (jobRec.pc # "scan" /\ jobRec.pc # "done" => jobRec.at \in jobRec.todo)
    BY DEF TypeInv, TypeOK, PlaceOK
  <2>2. jobRec'.todo \subseteq jobRec.todo
    <3>1. CASE RecoverReset
      BY <3>1 DEF RecoverReset, TypeInv, TypeOK
    <3>2. CASE RecoverSkip \/ RecoverPush
      BY <2>1, <3>2, TreatType DEF RecoverSkip, RecoverPush
    <3>3. CASE RecoverStop
      BY <3>3 DEF RecoverStop, Recovery
    <3> QED
      BY <1>8, <3>1, <3>2, <3>3
  <2>3. InQueue(i, verifyCh') => InQueue(i, verifyCh) \/ \E m \in jobRec.todo : m[1] = i
    <3>1. CASE RecoverPush
      <4>1. jobRec.at \in jobRec.todo /\ jobRec.at[1] \in Jobs
        BY <2>1, <3>1 DEF RecoverPush, Found
      <4> QED
        BY <1>0, <3>1, <4>1, QueueAppend DEF RecoverPush
    <3> QED
      BY <1>8, <3>1 DEF RecoverReset, RecoverSkip, RecoverStop
  <2> QED
    BY <1>0, <1>8, <2>2, <2>3 DEF RecoverReset, RecoverSkip, RecoverPush, RecoverStop, Handled
<1>9. ASSUME DeliveryError \/ Cancel PROVE Handled(i)
  BY <1>9 DEF DeliveryError, Cancel, Handled
<1>10. ~Restart
  BY RestartForgets
<1> QED
  BY <1>1, <1>2, <1>3, <1>4, <1>5, <1>6, <1>7, <1>8, <1>9, <1>10 DEF Next, RecoveryStep

-----------------------------------------------------------------------------
(* The inductive step, one part of the invariant at a time *)

LEMMA NextCheckCases ==
    ASSUME NEW j \in Jobs
    PROVE  /\ NextCheck(j) \in {"fail", "reset", "save", "delete", "push"}
           /\ NextCheck(j) = "push" => Kind[j] = "good"
           /\ NextCheck(j) = "fail" <=> Kind[j] = "garbled"
           /\ NextCheck(j) \in {"save", "delete"} => Kind[j] # "good"
           /\ Kind[j] = "good" /\ j \in present => NextCheck(j) = "push"
<1>1. Kind[j] \in {"good", "unlocated", "short", "garbled"}
  BY IntakeAssumption
<1> QED
  BY <1>1 DEF NextCheck

\* Who may write a job's status, add its rows, or touch its report.
LEMMA StatusWritten ==
    ASSUME TypeInv, Next, NEW i \in Jobs, job'[i] # job[i]
    PROVE  \/ CreateReport(i) \/ JobFinalized(i)
           \/ \E v \in Verifiers : (ResetJob(v) \/ FailJob(v)) /\ verifier[v].j = i
           \/ \E x \in Extractors : (ExtractNobody(x) \/ ExtractUsers(x)) /\ extractor[x].j = i
           \/ RecoverReset /\ jobRec.at[1] = i
<1> USE DEF db, SetJob
<1>0. job \in [Jobs -> {"absent"} \cup Unfinished \cup Verdicts]
  BY DEF TypeInv, TypeOK
<1>1. ~\E u \in Users : Register(u)
  BY DEF Register
<1>2. ASSUME NEW j \in Jobs, CreateReport(j) \/ Enqueue(j) \/ JobFinalized(j)
      PROVE  CreateReport(i) \/ JobFinalized(i)
  BY <1>0, <1>2 DEF CreateReport, Enqueue, JobFinalized
<1>3. ASSUME NEW v \in Verifiers, VerifyStep(v) \/ ResetJob(v) \/ FailJob(v)
      PROVE  (ResetJob(v) \/ FailJob(v)) /\ verifier[v].j = i
  <2>1. ~VerifyStep(v)
    BY DEF VerifyStep, TakeJob, Fetch, RejectReport, PushReport, DropJob
  <2> QED
    BY <1>0, <1>3, <2>1 DEF ResetJob, FailJob
<1>4. ASSUME NEW x \in Extractors, ExtractStep(x)
      PROVE  (ExtractNobody(x) \/ ExtractUsers(x)) /\ extractor[x].j = i
  <2>1. ~(TakeReport(x) \/ ExtractFails(x) \/ AbandonPublish(x) \/ \E d \in Jobs \X Users : Publish(x, d))
    BY DEF TakeReport, ExtractFails, AbandonPublish, Publish
  <2> QED
    BY <1>0, <1>4, <2>1 DEF ExtractStep, ExtractNobody, ExtractUsers
<1>5. ASSUME RecoveryStep PROVE RecoverReset /\ jobRec.at[1] = i
  BY <1>0, <1>5 DEF RecoveryStep, ScanJobs, RecoverReset, RecoverSkip, RecoverPush, RecoverStop
<1>6. ~(DeliveryError \/ Cancel \/ Restart)
  BY DEF DeliveryError, Cancel, Restart
<1> QED
  BY <1>1, <1>2, <1>3, <1>4, <1>5, <1>6 DEF Next

LEMMA RowsWritten ==
    ASSUME TypeInv, Next, NEW i \in Jobs
    PROVE  \/ notified'[i] = notified[i]
           \/ \E x \in Extractors : /\ ExtractUsers(x) /\ extractor[x].j = i
                                    /\ notified'[i] = notified[i] \cup Affected(i)
<1> USE DEF db
<1>0. notified \in [Jobs -> SUBSET Users]
  BY DEF TypeInv, TypeOK
<1>1. CASE UNCHANGED notified
  BY <1>1
<1>2. ASSUME NEW x \in Extractors, ExtractUsers(x)
      PROVE  notified'[i] = IF extractor[x].j = i THEN notified[i] \cup Affected(i) ELSE notified[i]
  BY <1>0, <1>2 DEF ExtractUsers
<1>3. (\E x \in Extractors : ExtractUsers(x)) \/ UNCHANGED notified
  <2>1. ASSUME NEW x \in Extractors, ExtractStep(x) PROVE ExtractUsers(x) \/ UNCHANGED notified
    BY <2>1 DEF ExtractStep, TakeReport, ExtractNobody, ExtractFails, AbandonPublish, Publish
  <2>2. ASSUME NEW v \in Verifiers, VerifyStep(v) \/ ResetJob(v) \/ FailJob(v) PROVE UNCHANGED notified
    BY <2>2 DEF VerifyStep, TakeJob, Fetch, RejectReport, PushReport, DropJob, ResetJob, FailJob
  <2>3. RecoveryStep => UNCHANGED notified
    BY DEF RecoveryStep, ScanJobs, RecoverReset, RecoverSkip, RecoverPush, RecoverStop
  <2> QED
    BY <2>1, <2>2, <2>3
       DEF Next, Register, CreateReport, Enqueue, JobFinalized, DeliveryError, Cancel, Restart
<1> QED
  BY <1>1, <1>2, <1>3

LEMMA ReportWritten ==
    ASSUME TypeInv, Next, NEW i \in Jobs, (i \in present) # (i \in present')
    PROVE  \/ CreateReport(i)
           \/ \E v \in Verifiers : RejectReport(v) /\ verifier[v].pc = "delete" /\ verifier[v].j = i
<1> USE DEF db
<1>1. ASSUME NEW v \in Verifiers, VerifyStep(v) \/ ResetJob(v) \/ FailJob(v)
      PROVE  RejectReport(v) /\ verifier[v].pc = "delete" /\ verifier[v].j = i
  BY <1>1 DEF VerifyStep, TakeJob, Fetch, RejectReport, PushReport, DropJob, ResetJob, FailJob
<1>2. ASSUME NEW x \in Extractors, ExtractStep(x) PROVE FALSE
  BY <1>2 DEF ExtractStep, TakeReport, ExtractNobody, ExtractUsers, ExtractFails, AbandonPublish, Publish
<1>3. ~RecoveryStep
  BY DEF RecoveryStep, ScanJobs, RecoverReset, RecoverSkip, RecoverPush, RecoverStop
<1>4. ASSUME NEW j \in Jobs, CreateReport(j) PROVE CreateReport(i)
  <2>1. i = j
    BY <1>4 DEF CreateReport
  <2> QED
    BY <1>4, <2>1
<1> QED
  BY <1>1, <1>2, <1>3, <1>4
     DEF Next, Register, Enqueue, JobFinalized, DeliveryError, Cancel, Restart

\* A worker's job and the recovery's are handled.
LEMMA HandledNow ==
    ASSUME TypeInv
    PROVE  /\ \A v \in Verifiers : Handled(verifier[v].j)
           /\ \A x \in Extractors : Handled(extractor[x].j)
           /\ jobRec.pc \in {"reset", "push"} =>
                 /\ jobRec.at[1] \in Jobs /\ jobRec.at \in jobRec.todo /\ jobRec.at \in Found
                 /\ Handled(jobRec.at[1])
BY DEF Handled, TypeInv, TypeOK, PlaceOK, Found

LEMMA HandledStep ==
    ASSUME TypeInv, HandledStored, Verified, Next
    PROVE  HandledStored'
<1> SUFFICES ASSUME NEW i \in Jobs
             PROVE  /\ Handled(i)' => job'[i] # "absent"
                    /\ Kind[i] = "good" /\ job'[i] # "absent" => i \in present'
  BY DEF HandledStored
<1>0. job \in [Jobs -> {"absent"} \cup Unfinished \cup Verdicts]
  BY DEF TypeInv, TypeOK
<1>1. ASSUME job'[i] # job[i] PROVE job'[i] # "absent" /\ (job[i] # "absent" \/ i \in present')
  <2>1. CASE CreateReport(i) \/ JobFinalized(i)
    BY <1>0, <2>1 DEF CreateReport, JobFinalized, SetJob, Verdicts
  <2>2. ASSUME NEW v \in Verifiers, ResetJob(v) \/ FailJob(v), verifier[v].j = i
        PROVE  job'[i] # "absent" /\ job[i] # "absent"
    BY <1>0, <2>2, HandledNow DEF ResetJob, FailJob, SetJob, HandledStored
  <2>3. ASSUME NEW x \in Extractors, ExtractNobody(x) \/ ExtractUsers(x), extractor[x].j = i
        PROVE  job'[i] # "absent" /\ job[i] # "absent"
    BY <1>0, <2>3, HandledNow DEF ExtractNobody, ExtractUsers, NobodyStatus, SetJob, HandledStored
  <2>4. CASE RecoverReset /\ jobRec.at[1] = i
    BY <1>0, <2>4 DEF RecoverReset, Resettable, SetJob
  <2> QED
    BY <1>1, <2>1, <2>2, <2>3, <2>4, StatusWritten
<1>2. ASSUME Handled(i)' PROVE job'[i] # "absent"
  <2>1. Handled(i) \/ CreateReport(i) \/ (ScanJobs /\ UnfinishedJob(i))
    BY <1>2, HandledNew
  <2>2. CASE CreateReport(i)
    BY <1>0, <2>2 DEF CreateReport, SetJob
  <2> QED
    BY <1>1, <2>1, <2>2 DEF HandledStored, UnfinishedJob, Unfinished
<1>3. ASSUME Kind[i] = "good", job'[i] # "absent" PROVE i \in present'
  <2>1. job[i] # "absent" => i \in present
    BY <1>3 DEF HandledStored
  <2>2. i \in present /\ i \notin present' => FALSE
    <3>1. ~CreateReport(i) \/ i \in present'
      BY DEF CreateReport
    <3>2. ~\E v \in Verifiers : verifier[v].pc = "delete" /\ verifier[v].j = i
      BY <1>3 DEF Verified
    <3> QED
      BY <3>1, <3>2, ReportWritten
  <2> QED
    BY <1>1, <1>3, <2>1, <2>2
<1> QED
  BY <1>2, <1>3

\* How a worker changes its place.
LEMMA VerifierMoves ==
    ASSUME TypeInv, Next, NEW w \in Verifiers, verifier'[w] # verifier[w]
    PROVE  LET j == verifier[w].j IN
           \/ verifier'[w] = Idle
           \/ TakeJob(w) /\ verifier'[w] = At("fetch", Head(verifyCh))
           \/ Fetch(w) /\ j \in Jobs /\ verifier'[w] = At(NextCheck(j), j)
           \/ Fetch(w) /\ j \in Jobs /\ verifier'[w] = At("reset", j) /\ j \in givenUp'
<1> USE DEF db, queues, agents, boot, bounds
<1>0. verifier \in [Verifiers -> VerifierState]
  BY DEF TypeInv, TypeOK, VerifierState
<1>1. ASSUME NEW v \in Verifiers, VerifyStep(v) \/ ResetJob(v) \/ FailJob(v)
      PROVE  v = w
  <2>1. \A s : SetVerifier(v, s) => v = w
    BY <1>0 DEF SetVerifier
  <2> QED
    BY <1>1, <2>1
       DEF VerifyStep, TakeJob, Fetch, RejectReport, PushReport, DropJob, ResetJob, FailJob
<1>2. CASE VerifyStep(w) \/ ResetJob(w) \/ FailJob(w)
  <2>1. \A s : SetVerifier(w, s) => verifier'[w] = s
    BY <1>0 DEF SetVerifier
  <2>2. Fetch(w) => verifier[w].j \in Jobs
    BY DEF Fetch, TypeInv, PlaceOK
  <2>3. \A js : GiveUp(js) => js \subseteq givenUp'
    BY DEF GiveUp
  <2>4. CASE Fetch(w)
    BY <2>1, <2>2, <2>3, <2>4 DEF Fetch
  <2>5. CASE TakeJob(w)
    BY <2>1, <2>5 DEF TakeJob
  <2> QED
    BY <1>2, <2>1, <2>4, <2>5 DEF VerifyStep, RejectReport, PushReport, DropJob, ResetJob, FailJob
<1>3. CASE Restart
  BY <1>3 DEF Restart
<1>4. ~\E x \in Extractors : ExtractStep(x)
  BY DEF ExtractStep, TakeReport, ExtractNobody, ExtractUsers, ExtractFails, AbandonPublish, Publish
<1>5. ~RecoveryStep
  BY DEF RecoveryStep, ScanJobs, RecoverReset, RecoverSkip, RecoverPush, RecoverStop
<1> QED
  BY <1>1, <1>2, <1>3, <1>4, <1>5
     DEF Next, Register, CreateReport, Enqueue, JobFinalized, DeliveryError, Cancel

LEMMA ExtractorMoves ==
    ASSUME TypeInv, Next, NEW y \in Extractors, extractor'[y] # extractor[y]
    PROVE  \/ extractor'[y] = Idle
           \/ TakeReport(y) /\ extractor'[y] = At("extract", Head(reportCh))
           \/ ExtractUsers(y) /\ extractor[y].j \in Jobs /\ extractor'[y] = At("publish", extractor[y].j)
<1> USE DEF db, queues, agents, boot, bounds
<1>0. extractor \in [Extractors -> ExtractorState]
  BY DEF TypeInv, TypeOK, ExtractorState
<1>1. ASSUME NEW x \in Extractors, ExtractStep(x)
      PROVE  x = y
  <2>1. \A s : SetExtractor(x, s) => x = y
    BY <1>0 DEF SetExtractor
  <2> QED
    BY <1>1, <2>1
       DEF ExtractStep, TakeReport, ExtractNobody, ExtractUsers, ExtractFails, AbandonPublish, Publish
<1>2. CASE ExtractStep(y)
  <2>1. \A s : SetExtractor(y, s) => extractor'[y] = s
    BY <1>0 DEF SetExtractor
  <2>2. ExtractUsers(y) => extractor[y].j \in Jobs
    BY DEF ExtractUsers, TypeInv, PlaceOK
  <2>3. CASE ExtractUsers(y)
    BY <2>1, <2>2, <2>3 DEF ExtractUsers
  <2>4. CASE TakeReport(y)
    BY <2>1, <2>4 DEF TakeReport
  <2>5. ASSUME NEW d \in Jobs \X Users, Publish(y, d) PROVE extractor'[y] = Idle
    BY <2>1, <2>5 DEF Publish
  <2> QED
    BY <1>2, <2>1, <2>3, <2>4, <2>5 DEF ExtractStep, ExtractNobody, ExtractFails, AbandonPublish
<1>3. CASE Restart
  BY <1>3 DEF Restart
<1>4. ~\E v \in Verifiers : VerifyStep(v) \/ ResetJob(v) \/ FailJob(v)
  BY DEF VerifyStep, TakeJob, Fetch, RejectReport, PushReport, DropJob, ResetJob, FailJob
<1>5. ~RecoveryStep
  BY DEF RecoveryStep, ScanJobs, RecoverReset, RecoverSkip, RecoverPush, RecoverStop
<1> QED
  BY <1>1, <1>2, <1>3, <1>4, <1>5
     DEF Next, Register, CreateReport, Enqueue, JobFinalized, DeliveryError, Cancel

\* Only verification puts a job in the report channel.
LEMMA ReportQueued ==
    ASSUME TypeInv, Next, NEW i \in Jobs, InQueue(i, reportCh')
    PROVE  InQueue(i, reportCh) \/ \E v \in Verifiers : PushReport(v) /\ verifier[v].j = i
<1> USE DEF db, queues, agents, boot, bounds
<1>0. reportCh \in Seq(Jobs) /\ Len(reportCh) <= QueueCap
  BY DEF TypeInv, TypeOK
<1>1. ASSUME NEW v \in Verifiers, VerifyStep(v) \/ ResetJob(v) \/ FailJob(v)
      PROVE  InQueue(i, reportCh) \/ (PushReport(v) /\ verifier[v].j = i)
  <2>1. CASE PushReport(v)
    <3>1. verifier[v].j \in Jobs
      BY <2>1 DEF PushReport, TypeInv, PlaceOK
    <3> QED
      BY <1>0, <2>1, <3>1, QueueAppend DEF PushReport
  <2> QED
    BY <1>1, <2>1 DEF VerifyStep, TakeJob, Fetch, RejectReport, DropJob, ResetJob, FailJob
<1>2. ASSUME NEW x \in Extractors, ExtractStep(x) PROVE InQueue(i, reportCh)
  <2>1. CASE TakeReport(x)
    BY <1>0, <2>1, QueueTail DEF TakeReport
  <2> QED
    BY <1>2, <2>1 DEF ExtractStep, ExtractNobody, ExtractUsers, ExtractFails, AbandonPublish, Publish
<1>3. CASE Restart
  BY <1>3 DEF Restart, InQueue
<1>4. RecoveryStep => UNCHANGED reportCh
  BY DEF RecoveryStep, ScanJobs, RecoverReset, RecoverSkip, RecoverPush, RecoverStop
<1> QED
  BY <1>1, <1>2, <1>3, <1>4
     DEF Next, Register, CreateReport, Enqueue, JobFinalized, DeliveryError, Cancel

LEMMA VerifiedStep ==
    ASSUME TypeInv, Verified, Next
    PROVE  Verified'
<1>0. /\ job \in [Jobs -> {"absent"} \cup Unfinished \cup Verdicts]
      /\ notified \in [Jobs -> SUBSET Users]
  BY DEF TypeInv, TypeOK
<1>1. ASSUME NEW w \in Verifiers
      PROVE  /\ verifier'[w].pc = "push" => Kind[verifier'[w].j] = "good"
             /\ verifier'[w].pc = "fail" => Kind[verifier'[w].j] = "garbled"
             /\ verifier'[w].pc \in {"save", "delete"} => Kind[verifier'[w].j] # "good"
  <2>1. CASE verifier'[w] = verifier[w]
    BY <2>1 DEF Verified
  <2>2. CASE verifier'[w].pc \in {"idle", "fetch", "reset"}
    BY <2>2
  <2>3. CASE verifier[w].j \in Jobs /\ verifier'[w] = At(NextCheck(verifier[w].j), verifier[w].j)
    <3> DEFINE j == verifier[w].j
    <3>1. verifier'[w].pc = NextCheck(j) /\ verifier'[w].j = j /\ j \in Jobs
      BY <2>3 DEF At
    <3> HIDE DEF j
    <3> QED
      BY <3>1, NextCheckCases
  <2>4. \A i : At("fetch", i).pc = "fetch" /\ At("reset", i).pc = "reset"
    BY DEF At
  <2>5. verifier'[w].pc \in {"idle", "fetch", "reset"} \/ verifier'[w] = verifier[w]
        \/ (verifier[w].j \in Jobs /\ verifier'[w] = At(NextCheck(verifier[w].j), verifier[w].j))
    BY <2>4, VerifierMoves, IdleType
  <2> QED
    BY <2>1, <2>2, <2>3, <2>5
<1>2. ASSUME NEW i \in Jobs, InQueue(i, reportCh') PROVE Kind[i] = "good"
  BY <1>2, ReportQueued DEF Verified, PushReport
<1>3. ASSUME NEW y \in Extractors, extractor'[y].pc # "idle" PROVE Kind[extractor'[y].j] = "good"
  <2>1. CASE extractor'[y] = extractor[y]
    BY <1>3, <2>1 DEF Verified
  <2>2. CASE TakeReport(y) /\ extractor'[y] = At("extract", Head(reportCh))
    BY <2>2, QueueTail DEF Verified, TakeReport, At, TypeInv, TypeOK
  <2>3. CASE ExtractUsers(y) /\ extractor'[y] = At("publish", extractor[y].j)
    BY <2>3 DEF Verified, ExtractUsers, At
  <2> QED
    BY <1>3, <2>1, <2>2, <2>3, ExtractorMoves, IdleType
<1>4. ASSUME NEW i \in Jobs, Kind[i] # "good"
      PROVE  /\ notified'[i] = {} /\ job'[i] \in {"pending", "processing", "failed"}
             /\ job'[i] = "failed" => Kind[i] = "garbled"
  <2>1. /\ notified[i] = {} /\ job[i] \in {"pending", "processing", "failed"}
        /\ job[i] = "failed" => Kind[i] = "garbled"
    BY <1>4 DEF Verified
  <2>2. ASSUME NEW x \in Extractors, extractor[x].j = i PROVE ~ExtractUsers(x) /\ ~ExtractNobody(x)
    BY <1>4, <2>2 DEF Verified, ExtractUsers, ExtractNobody
  <2>3. notified'[i] = {}
    BY <2>1, <2>2, RowsWritten
  <2>4. ~CreateReport(i) /\ ~JobFinalized(i)
    BY <2>1 DEF CreateReport, JobFinalized
  <2>5. ASSUME NEW v \in Verifiers, verifier[v].j = i, ResetJob(v) PROVE job'[i] = "pending"
    BY <1>0, <2>5 DEF ResetJob, SetJob
  <2>6. ASSUME NEW v \in Verifiers, verifier[v].j = i, FailJob(v)
        PROVE  job'[i] = "failed" /\ Kind[i] = "garbled"
    BY <1>0, <2>6 DEF FailJob, SetJob, Verified
  <2>7. RecoverReset /\ jobRec.at[1] = i => job'[i] = "pending"
    BY <1>0 DEF RecoverReset, SetJob
  <2> QED
    BY <2>1, <2>2, <2>3, <2>4, <2>5, <2>6, <2>7, StatusWritten
<1>5. \A i \in Jobs : InQueue(i, reportCh)' = InQueue(i, reportCh')
  BY DEF InQueue
<1> QED
  BY <1>1, <1>2, <1>3, <1>4, <1>5 DEF Verified

\* What holds as long as the process does not die.
LEMMA BootStep ==
    ASSUME TypeInv, Next
    PROVE  /\ faults <= faults'
           /\ \/ Restart
              \/ /\ snapshot' = snapshot /\ givenUp \subseteq givenUp' /\ registered \subseteq registered'
                 /\ ctx' = "live" => ctx = "live"
                 /\ faults' = 0 => givenUp' = givenUp
<1> USE DEF db, queues, agents, boot, bounds
<1>0. faults \in Nat
  BY IntakeAssumption DEF TypeInv, TypeOK
<1>1. ASSUME NEW js, GiveUp(js)
      PROVE  faults <= faults' /\ faults' # 0 /\ givenUp \subseteq givenUp'
  BY <1>0, <1>1 DEF GiveUp
<1>2. ASSUME NEW v \in Verifiers, VerifyStep(v) \/ ResetJob(v) \/ FailJob(v)
      PROVE  /\ UNCHANGED <<snapshot, registered, ctx>>
             /\ UNCHANGED bounds \/ \E js : GiveUp(js)
  BY <1>2 DEF VerifyStep, TakeJob, Fetch, RejectReport, PushReport, DropJob, ResetJob, FailJob
<1>3. ASSUME NEW x \in Extractors, ExtractStep(x)
      PROVE  /\ UNCHANGED <<snapshot, registered, ctx>>
             /\ UNCHANGED bounds \/ \E js : GiveUp(js)
  BY <1>3 DEF ExtractStep, TakeReport, ExtractNobody, ExtractUsers, ExtractFails, AbandonPublish, Publish
<1>4. ASSUME RecoveryStep
      PROVE  /\ UNCHANGED <<snapshot, registered, ctx>>
             /\ UNCHANGED bounds \/ \E js : GiveUp(js)
  BY <1>4 DEF RecoveryStep, ScanJobs, RecoverReset, RecoverSkip, RecoverPush, RecoverStop
<1>5. CASE DeliveryError \/ Cancel
  BY <1>0, <1>5 DEF DeliveryError, Cancel
<1>6. CASE Restart
  BY <1>0, <1>6 DEF Restart
<1>7. CASE \/ \E u \in Users : Register(u)
           \/ \E j \in Jobs : CreateReport(j) \/ Enqueue(j) \/ JobFinalized(j)
  BY <1>0, <1>7 DEF Register, CreateReport, Enqueue, JobFinalized
<1> QED
  BY <1>0, <1>1, <1>2, <1>3, <1>4, <1>5, <1>6, <1>7 DEF Next

LEMMA PublishedStep ==
    ASSUME TypeInv, Published, Next
    PROVE  Published'
<1>0. CASE Restart
  BY <1>0, IdleType DEF Restart, Published, OnePublisher
<1>1. CASE snapshot' = snapshot
  <2>0. \A i : Affected(i)' = Affected(i)
    BY <1>1 DEF Affected
  <2>1. ASSUME NEW y \in Extractors, extractor'[y].pc = "publish"
        PROVE  \/ extractor'[y] = extractor[y]
               \/ ExtractUsers(y) /\ extractor[y].j \in Jobs /\ extractor'[y] = At("publish", extractor[y].j)
    <3>1. At("extract", Head(reportCh)).pc # "publish"
      BY DEF At
    <3> QED
      BY <2>1, <3>1, IdleType, ExtractorMoves
  <2>2. ASSUME NEW y \in Extractors, extractor'[y].pc = "publish"
        PROVE  /\ Affected(extractor'[y].j) # {}
               /\ Affected(extractor'[y].j) \subseteq notified'[extractor'[y].j]
    <3>1. CASE extractor'[y] = extractor[y]
      <4>1. extractor[y].j \in Jobs
        BY <2>2, <3>1 DEF TypeInv, PlaceOK
      <4> QED
        BY <2>2, <3>1, <4>1, RowsWritten DEF Published
    <3>2. CASE /\ ExtractUsers(y) /\ extractor[y].j \in Jobs
               /\ extractor'[y] = At("publish", extractor[y].j)
      BY <3>2 DEF ExtractUsers, At, TypeInv, TypeOK
    <3> QED
      BY <2>1, <2>2, <3>1, <3>2
  <2>3. ASSUME NEW x \in Extractors, NEW y \in Extractors, x # y, ExtractUsers(x),
               extractor'[y].pc = "publish"
        PROVE  extractor[x].j # extractor'[y].j
    <3>1. extractor'[y] = extractor[y]
      BY <2>3 DEF ExtractUsers, SetExtractor, TypeInv, TypeOK
    <3>2. Affected(extractor[y].j) # {} /\ Affected(extractor[y].j) \subseteq notified[extractor[y].j]
      BY <2>3, <3>1 DEF Published
    <3> QED
      BY <2>3, <3>1, <3>2 DEF ExtractUsers, FreshRows
  <2>4. ASSUME NEW x \in Extractors, NEW y \in Extractors, x # y,
               extractor'[x].pc = "publish", extractor'[y].pc = "publish"
        PROVE  extractor'[x].j # extractor'[y].j
    <3>1. \A z \in {x, y} : At("publish", extractor[z].j).j = extractor[z].j
      BY DEF At
    <3>2. CASE extractor'[x] = extractor[x] /\ extractor'[y] = extractor[y]
      BY <2>4, <3>2 DEF Published, OnePublisher
    <3> QED
      BY <2>1, <2>3, <2>4, <3>1, <3>2
  <2> QED
    BY <2>0, <2>2, <2>4 DEF Published, OnePublisher
<1> QED
  BY <1>0, <1>1, BootStep

LEMMA SetBackStep ==
    ASSUME TypeInv, HandledStored, Verified, SetBack, Next
    PROVE  SetBack'
<1>0. job \in [Jobs -> {"absent"} \cup Unfinished \cup Verdicts]
  BY DEF TypeInv, TypeOK
<1>1. CASE Restart
  BY <1>1, IdleType DEF Restart, SetBack, Recovery
<1>2. ASSUME givenUp \subseteq givenUp' PROVE SetBack'
  <2>1. ASSUME NEW w \in Verifiers, verifier'[w].pc = "reset"
        PROVE  Kind[verifier'[w].j] \notin {"good", "garbled"} \/ verifier'[w].j \in givenUp'
    <3> DEFINE j == verifier[w].j
    <3>1. CASE verifier'[w] = verifier[w]
      BY <1>2, <2>1, <3>1 DEF SetBack
    <3>2. CASE j \in Jobs /\ verifier'[w] = At(NextCheck(j), j)
      <4>1. j \in Jobs /\ Handled(j) /\ verifier'[w].j = j /\ NextCheck(j) = "reset"
        BY <2>1, <3>2, HandledNow DEF At
      <4>2. Kind[j] = "good" => j \in present
        BY <4>1 DEF HandledStored
      <4> QED
        BY <4>1, <4>2, NextCheckCases
    <3>3. CASE verifier'[w] = At("reset", j) /\ j \in givenUp'
      BY <3>3 DEF At
    <3>4. At("fetch", Head(verifyCh)).pc = "fetch"
      BY DEF At
    <3> QED
      BY <2>1, <3>1, <3>2, <3>3, <3>4, VerifierMoves, IdleType
  <2>2. ASSUME NEW m \in Found, m \in jobRec.todo, m[2] = "processing", job'[m[1]] = "pending",
               Kind[m[1]] = "good", m[1] \notin givenUp', job[m[1]] # "pending"
        PROVE  RecoverReset /\ jobRec.at = m
    <3> DEFINE i == m[1]
    <3>1. i \in Jobs /\ job'[i] # job[i] /\ i \notin givenUp
      BY <1>2, <2>2 DEF Found
    <3>2. ~CreateReport(i) /\ ~JobFinalized(i)
      BY <1>0, <2>2, <3>1 DEF CreateReport, JobFinalized, SetJob, Verdicts
    <3>3. ASSUME NEW v \in Verifiers, verifier[v].j = i PROVE ~ResetJob(v) /\ ~FailJob(v)
      BY <2>2, <3>1, <3>3 DEF ResetJob, FailJob, SetBack, Verified
    <3>4. ASSUME NEW x \in Extractors, extractor[x].j = i PROVE ~ExtractNobody(x) /\ ~ExtractUsers(x)
      BY <1>0, <2>2, <3>1, <3>4 DEF ExtractNobody, ExtractUsers, NobodyStatus, SetJob
    <3>5. RecoverReset /\ jobRec.at[1] = i
      BY <3>1, <3>2, <3>3, <3>4, StatusWritten
    <3>6. jobRec.at \in Found /\ jobRec.at[2] = "processing"
      BY <3>5, HandledNow DEF RecoverReset, TypeInv, PlaceOK
    <3> QED
      BY <2>2, <3>5, <3>6 DEF Found
  <2>3. ASSUME NEW m \in jobRec'.todo, m[2] = "processing", job'[m[1]] = "pending",
               Kind[m[1]] = "good", m[1] \notin givenUp'
        PROVE  jobRec'.pc = "push" /\ jobRec'.at = m
    <3>0. jobRec.todo \subseteq Found /\ jobRec'.todo \subseteq Found
      <4>1. TypeInv'
        BY NextType
      <4> QED
        BY <4>1 DEF TypeInv, TypeOK
    <3>1. m \in jobRec.todo => \/ RecoverReset /\ jobRec.at = m
                               \/ jobRec.pc = "push" /\ jobRec.at = m
      BY <1>2, <2>2, <2>3, <3>0 DEF SetBack
    <3>2. CASE UNCHANGED jobRec
      BY <2>3, <3>1, <3>2 DEF RecoverReset, TypeInv, TypeOK
    <3>3. ~ScanJobs
      <4> SUFFICES ASSUME ScanJobs PROVE FALSE
        OBVIOUS
      <4> DEFINE found == {<<i, job[i]>> : i \in {k \in Jobs : UnfinishedJob(k)}}
      <4>1. found \in SUBSET Found
        BY DEF Found, UnfinishedJob
      <4>2. jobRec'.todo = found
        BY <4>1, TreatType DEF ScanJobs
      <4>3. m[2] = job[m[1]] /\ job' = job
        BY <2>3, <4>2 DEF ScanJobs, db
      <4> QED
        BY <2>3, <4>3
    <3>4. CASE RecoverReset
      <4>1. jobRec'.todo = jobRec.todo /\ jobRec'.pc = "push" /\ jobRec'.at = jobRec.at
            /\ jobRec.pc = "reset"
        BY <3>4 DEF RecoverReset, TypeInv, TypeOK
      <4> QED
        BY <2>3, <3>1, <4>1
    <3>5. ~(RecoverSkip \/ RecoverPush)
      <4> SUFFICES ASSUME RecoverSkip \/ RecoverPush PROVE FALSE
        OBVIOUS
      <4>1. Treat(jobRec.todo \ {jobRec.at}) /\ jobRec.todo \ {jobRec.at} \in SUBSET Found
        BY <3>0 DEF RecoverSkip, RecoverPush
      <4>2. jobRec'.todo = jobRec.todo \ {jobRec.at}
        BY <4>1, TreatType
      <4>3. m \in jobRec.todo /\ m # jobRec.at
        BY <2>3, <4>2
      <4> QED
        BY <3>1, <4>3
    <3>6. ~RecoverStop
      BY <2>3 DEF RecoverStop, Recovery
    <3>7. RecoveryStep \/ UNCHANGED jobRec
      <4>1. ASSUME NEW v \in Verifiers, VerifyStep(v) \/ ResetJob(v) \/ FailJob(v) PROVE UNCHANGED jobRec
        BY <4>1 DEF VerifyStep, TakeJob, Fetch, RejectReport, PushReport, DropJob, ResetJob, FailJob, agents
      <4>2. ASSUME NEW x \in Extractors, ExtractStep(x) PROVE UNCHANGED jobRec
        BY <4>2 DEF ExtractStep, TakeReport, ExtractNobody, ExtractUsers, ExtractFails, AbandonPublish,
                    Publish, agents
      <4>3. ~Restart
        BY <2>3 DEF Restart, Recovery
      <4> QED
        BY <4>1, <4>2, <4>3
           DEF Next, Register, CreateReport, Enqueue, JobFinalized, DeliveryError, Cancel, agents
    <3> QED
      BY <3>2, <3>3, <3>4, <3>5, <3>6, <3>7 DEF RecoveryStep
  <2> QED
    BY <2>1, <2>3 DEF SetBack
<1> QED
  BY <1>1, <1>2, BootStep

LEMMA SettledStep ==
    ASSUME TypeInv, HandledStored, Verified, Settled, Next
    PROVE  Settled'
<1>0. /\ job \in [Jobs -> {"absent"} \cup Unfinished \cup Verdicts]
      /\ faults \in Nat /\ faults' \in Nat
  <2>1. TypeInv'
    BY NextType
  <2> QED
    BY <2>1, IntakeAssumption DEF TypeInv, TypeOK
<1>1. faults' = 0 => faults = 0
  BY <1>0, BootStep
<1>2. ASSUME NEW i \in Jobs
      PROVE  /\ notified'[i] \subseteq notified[i] \cup snapshot
             /\ notified'[i] \subseteq Near[i]
             /\ notified'[i] = {} => notified[i] = {}
  BY RowsWritten DEF Settled, Affected
<1>3. snapshot' \subseteq registered' /\ (snapshot' = snapshot \/ Restart)
  BY BootStep DEF Settled, Restart, db
<1>4. ASSUME faults' = 0
      PROVE  givenUp' = {} /\ \A i \in Jobs : notified'[i] \subseteq snapshot'
  <2>1. CASE Restart
    BY <1>0, <1>1, <1>4, <2>1 DEF Restart, Settled, db
  <2>2. CASE ~Restart
    BY <1>1, <1>2, <1>4, <2>2, BootStep DEF Settled
  <2> QED
    BY <2>1, <2>2
<1>5. ASSUME NEW i \in Jobs, Kind[i] = "good", notified'[i] = {}, job'[i] \in Verdicts, job'[i] # job[i]
      PROVE  job'[i] = "done" /\ Affected(i) = {}
  <2>1. ~CreateReport(i) /\ ~JobFinalized(i)
    BY <1>0, <1>2, <1>5 DEF CreateReport, JobFinalized, SetJob, Verdicts
  <2>2. ASSUME NEW v \in Verifiers, verifier[v].j = i PROVE ~ResetJob(v) /\ ~FailJob(v)
    BY <1>0, <1>5, <2>2 DEF ResetJob, FailJob, SetJob, Verdicts, Verified
  <2>3. ASSUME NEW x \in Extractors, extractor[x].j = i, ExtractNobody(x) \/ ExtractUsers(x)
        PROVE  job'[i] = "done" /\ Affected(i) = {}
    BY <1>0, <1>5, <2>3 DEF ExtractNobody, ExtractUsers, NobodyStatus, SetJob, Verdicts
  <2>4. ~(RecoverReset /\ jobRec.at[1] = i)
    BY <1>0, <1>5 DEF RecoverReset, SetJob, Verdicts
  <2> QED
    BY <1>5, <2>1, <2>2, <2>3, <2>4, StatusWritten
<1>6. ASSUME NEW i \in Jobs, Kind[i] = "good", notified'[i] = {}, job'[i] \in Verdicts
      PROVE  job'[i] = "done" /\ (Handled(i)' => Affected(i)' = {})
  <2>1. Affected(i)' = Affected(i) \/ Restart
    BY <1>3 DEF Affected
  <2>2. CASE job'[i] # job[i]
    BY <1>5, <1>6, <2>1, <2>2, RestartForgets
  <2>3. CASE job'[i] = job[i]
    <3>1. job[i] = "done" /\ (Handled(i) => Affected(i) = {})
      BY <1>2, <1>6, <2>3 DEF Settled
    <3>2. ~CreateReport(i) /\ ~UnfinishedJob(i)
      BY <3>1 DEF CreateReport, UnfinishedJob, Unfinished
    <3> QED
      BY <2>1, <2>3, <3>1, <3>2, HandledNew, RestartForgets
  <2> QED
    BY <2>2, <2>3
<1> QED
  BY <1>2, <1>3, <1>4, <1>6, BootStep DEF Settled, Verdicts

\* A job that becomes unextracted in a boot is a new one, or was given up.
LEMMA Unextract ==
    ASSUME TypeInv, Verified, SetBack, Next, NEW i \in Jobs, Kind[i] = "good",
           i \notin givenUp, Unextracted(i)'
    PROVE  Unextracted(i) \/ CreateReport(i)
<1>0. /\ job \in [Jobs -> {"absent"} \cup Unfinished \cup Verdicts]
      /\ notified \in [Jobs -> SUBSET Users]
  BY DEF TypeInv, TypeOK
<1>1. notified'[i] = {} /\ job'[i] \in Unfinished /\ notified[i] = {}
  BY RowsWritten DEF Unextracted
<1> SUFFICES ASSUME job[i] \notin Unfinished PROVE CreateReport(i)
  BY <1>1 DEF Unextracted
<1>2. ~JobFinalized(i)
  BY <1>1 DEF JobFinalized
<1>3. ASSUME NEW v \in Verifiers, verifier[v].j = i PROVE ~ResetJob(v) /\ ~FailJob(v)
  BY <1>3 DEF ResetJob, FailJob, Verified, SetBack
<1>4. ASSUME NEW x \in Extractors, extractor[x].j = i PROVE ~ExtractNobody(x) /\ ~ExtractUsers(x)
  BY <1>0, <1>1, <1>4 DEF ExtractNobody, ExtractUsers, NobodyStatus, SetJob, Unfinished
<1>5. ~(RecoverReset /\ jobRec.at[1] = i)
  BY DEF RecoverReset, Resettable, Unfinished
<1> QED
  BY <1>1, <1>2, <1>3, <1>4, <1>5, StatusWritten

\* One lemma per goroutine: it hands on a job that still has to be extracted, or
\* keeps it.
LEMMA QueuesPrimed ==
    ASSUME TypeInv, NEW i \in Jobs
    PROVE  /\ InQueue(i, verifyCh)' = InQueue(i, verifyCh')
           /\ InQueue(i, reportCh)' = InQueue(i, reportCh')
           /\ verifyCh \in Seq(Jobs) /\ Len(verifyCh) <= QueueCap
           /\ reportCh \in Seq(Jobs) /\ Len(reportCh) <= QueueCap
           /\ None \notin Jobs
BY IntakeAssumption DEF TypeInv, TypeOK, InQueue

LEMMA HandlerHandsOn ==
    ASSUME TypeInv, NEW i \in Jobs, Tracked(i),
           \/ \E u \in Users : Register(u)
           \/ \E j \in Jobs : CreateReport(j) \/ Enqueue(j) \/ JobFinalized(j)
           \/ DeliveryError \/ Cancel
    PROVE  Tracked(i)'
<1> USE DEF db, queues, agents
<1>0. reply \in [Jobs -> {"none", "committed", "accepted", "full", "past"}]
  BY DEF TypeInv, TypeOK
<1>1. CASE UNCHANGED <<reply, queues, agents>>
  BY <1>1 DEF Tracked
<1>2. ASSUME NEW j \in Jobs, CreateReport(j) PROVE Tracked(i)'
  <2>1. reply[i] \in {"committed", "full"} => reply'[i] \in {"committed", "full"}
    BY <1>0, <1>2 DEF CreateReport
  <2> QED
    BY <1>2, <2>1 DEF CreateReport, Tracked
<1>3. ASSUME NEW j \in Jobs, Enqueue(j) PROVE Tracked(i)'
  <2>1. CASE HasRoom(verifyCh) /\ verifyCh' = Append(verifyCh, j) /\ reply' = [reply EXCEPT ![j] = "accepted"]
    <3>1. InQueue(i, verifyCh') <=> InQueue(i, verifyCh) \/ i = j
      BY <2>1, QueueAppend, QueuesPrimed
    <3>2. i # j => reply'[i] = reply[i]
      BY <1>0, <2>1
    <3> QED
      BY <1>3, <3>1, <3>2, QueuesPrimed DEF Enqueue, Tracked
  <2>2. CASE UNCHANGED verifyCh /\ reply' = [reply EXCEPT ![j] = "full"]
    <3>1. reply[i] \in {"committed", "full"} => reply'[i] \in {"committed", "full"}
      BY <1>0, <2>2
    <3> QED
      BY <1>3, <2>2, <3>1 DEF Enqueue, Tracked
  <2> QED
    BY <1>3, <2>1, <2>2 DEF Enqueue
<1> QED
  BY <1>1, <1>2, <1>3 DEF Register, JobFinalized, DeliveryError, Cancel

LEMMA VerifierHandsOn ==
    ASSUME TypeInv, Verified, SetBack, NEW i \in Jobs, Tracked(i), Kind[i] = "good",
           i \notin givenUp, i \notin givenUp', ctx = "live",
           NEW v \in Verifiers, VerifyStep(v) \/ ResetJob(v) \/ FailJob(v)
    PROVE  Tracked(i)'
<1> USE DEF db, queues, agents
<1> DEFINE j == verifier[v].j
<1>0. verifier \in [Verifiers -> VerifierState]
  BY DEF TypeInv, TypeOK, VerifierState
<1>1. UNCHANGED <<reply, extractor, jobRec>>
  BY DEF VerifyStep, TakeJob, Fetch, RejectReport, PushReport, DropJob, ResetJob, FailJob
<1>2. ASSUME NEW s, SetVerifier(v, s), j = i => s.j = i,
             UNCHANGED reportCh, InQueue(i, verifyCh) => InQueue(i, verifyCh') \/ s.j = i
      PROVE  Tracked(i)'
  <2>1. verifier'[v] = s /\ \A w \in Verifiers \ {v} : verifier'[w] = verifier[w]
    BY <1>0, <1>2 DEF SetVerifier
  <2>2. \A w \in Verifiers : verifier[w].j = i => verifier'[w].j = i
    BY <1>2, <2>1
  <2>3. InQueue(i, reportCh)' = InQueue(i, reportCh)
    BY <1>2 DEF InQueue
  <2> QED
    BY <1>1, <1>2, <2>1, <2>2, <2>3, QueuesPrimed DEF Tracked
<1>3. CASE TakeJob(v)
  <2>1. j # i
    BY <1>3, QueuesPrimed DEF TakeJob, TypeInv, PlaceOK
  <2>2. InQueue(i, verifyCh) => InQueue(i, verifyCh') \/ At("fetch", Head(verifyCh)).j = i
    BY <1>3, QueueTail, QueuesPrimed DEF TakeJob, At
  <2> QED
    BY <1>2, <1>3, <2>1, <2>2 DEF TakeJob
<1>4. CASE Fetch(v)
  <2>1. At(NextCheck(j), j).j = j /\ At("reset", j).j = j
    BY DEF At
  <2>2. GiveUp({j}) => j # i
    BY DEF GiveUp
  <2> QED
    BY <1>2, <1>4, <2>1, <2>2 DEF Fetch
<1>5. CASE PushReport(v)
  <2>1. j \in Jobs
    BY <1>5 DEF PushReport, TypeInv, PlaceOK
  <2>2. InQueue(i, reportCh') <=> InQueue(i, reportCh) \/ i = j
    BY <1>5, <2>1, QueueAppend, QueuesPrimed DEF PushReport
  <2>3. \A w \in Verifiers : verifier[w].j = i => verifier'[w].j = i \/ i = j
    BY <1>0, <1>5 DEF PushReport, SetVerifier
  <2>4. InQueue(i, verifyCh)' = InQueue(i, verifyCh)
    BY <1>5 DEF PushReport, InQueue
  <2> QED
    BY <1>1, <2>2, <2>3, <2>4, QueuesPrimed DEF Tracked
<1>6. CASE ResetJob(v) \/ FailJob(v) \/ RejectReport(v)
  <2>1. j # i
    BY <1>6 DEF ResetJob, FailJob, RejectReport, Verified, SetBack
  <2> QED
    BY <1>2, <1>6, <2>1 DEF ResetJob, FailJob, RejectReport
<1>7. CASE DropJob(v)
  <2>1. j # i
    BY <1>7 DEF DropJob, GiveUp
  <2> QED
    BY <1>2, <1>7, <2>1 DEF DropJob
<1> QED
  BY <1>3, <1>4, <1>5, <1>6, <1>7 DEF VerifyStep

LEMMA ExtractorHandsOn ==
    ASSUME TypeInv, NEW i \in Jobs, Tracked(i), Unextracted(i), Unextracted(i)',
           i \notin givenUp', ctx = "live", NEW x \in Extractors, ExtractStep(x)
    PROVE  Tracked(i)'
<1> USE DEF db, queues, agents
<1> DEFINE j == extractor[x].j
<1>0. /\ extractor \in [Extractors -> ExtractorState]
      /\ job \in [Jobs -> {"absent"} \cup Unfinished \cup Verdicts]
      /\ notified \in [Jobs -> SUBSET Users]
  BY DEF TypeInv, TypeOK, ExtractorState
<1>1. UNCHANGED <<reply, verifyCh, verifier, jobRec>>
  BY DEF ExtractStep, TakeReport, ExtractNobody, ExtractUsers, ExtractFails, AbandonPublish, Publish
<1>2. \A y \in Extractors \ {x} : extractor'[y] = extractor[y]
  <2>1. \A s : SetExtractor(x, s) => \A y \in Extractors \ {x} : extractor'[y] = extractor[y]
    BY <1>0 DEF SetExtractor
  <2> QED
    BY <2>1
       DEF ExtractStep, TakeReport, ExtractNobody, ExtractUsers, ExtractFails, AbandonPublish, Publish
<1>3. CASE TakeReport(x)
  <2>1. extractor'[x] = At("extract", Head(reportCh)) /\ extractor[x].pc = "idle"
    BY <1>0, <1>3 DEF TakeReport, SetExtractor
  <2>2. extractor[x] # At("extract", i)
    BY <2>1 DEF At
  <2>3. InQueue(i, reportCh) => InQueue(i, reportCh') \/ Head(reportCh) = i
    BY <1>3, QueueTail, QueuesPrimed DEF TakeReport
  <2>4. (\E y \in Extractors : extractor[y] = At("extract", i))
           => \E y \in Extractors : extractor'[y] = At("extract", i)
    BY <1>2, <2>2
  <2>5. InQueue(i, verifyCh)' = InQueue(i, verifyCh)
    BY <1>1 DEF InQueue
  <2> QED
    BY <1>1, <2>1, <2>3, <2>4, <2>5, QueuesPrimed DEF Tracked
<1>4. ASSUME extractor[x] # At("extract", i), UNCHANGED reportCh PROVE Tracked(i)'
  <2>1. InQueue(i, verifyCh)' = InQueue(i, verifyCh) /\ InQueue(i, reportCh)' = InQueue(i, reportCh)
    BY <1>1, <1>4 DEF InQueue
  <2>2. At("extract", i)' = At("extract", i)
    BY DEF At
  <2> QED
    BY <1>1, <1>2, <1>4, <2>1, <2>2 DEF Tracked
<1>5. CASE ExtractNobody(x) \/ ExtractUsers(x)
  <2>1. j # i
    BY <1>0, <1>5 DEF ExtractNobody, ExtractUsers, Unextracted, NobodyStatus, SetJob, Unfinished
  <2> QED
    BY <1>4, <1>5, <2>1 DEF At, ExtractNobody, ExtractUsers
<1>6. CASE ExtractFails(x)
  <2>1. j # i
    BY <1>6 DEF ExtractFails, FreshRows, Unextracted, GiveUp
  <2> QED
    BY <1>4, <1>6, <2>1 DEF At, ExtractFails
<1>7. CASE AbandonPublish(x) \/ \E d \in Jobs \X Users : Publish(x, d)
  BY <1>4, <1>7 DEF At, AbandonPublish, Publish
<1> QED
  BY <1>3, <1>5, <1>6, <1>7 DEF ExtractStep

LEMMA RecoveryHandsOn ==
    ASSUME TypeInv, SetBack, NEW i \in Jobs, Tracked(i), Unextracted(i), Kind[i] = "good",
           i \notin givenUp, i \notin givenUp', ctx = "live", RecoveryStep
    PROVE  Tracked(i)'
<1> USE DEF db, queues, agents
<1>0. /\ jobRec.todo \subseteq Found
      /\ jobRec.pc \in {"reset", "push"} => jobRec.at \in jobRec.todo /\ jobRec.at \in Found
  BY DEF TypeInv, TypeOK, PlaceOK
<1>1. /\ UNCHANGED <<reply, reportCh, verifier, extractor>>
      /\ InQueue(i, reportCh)' = InQueue(i, reportCh)
  BY DEF RecoveryStep, ScanJobs, RecoverReset, RecoverSkip, RecoverPush, RecoverStop, InQueue
<1>2. ASSUME jobRec.pc # "scan", InQueue(i, verifyCh) => InQueue(i, verifyCh'),
             (\E m \in jobRec.todo : m[1] = i) => InQueue(i, verifyCh') \/ \E m \in jobRec'.todo : m[1] = i
      PROVE  Tracked(i)'
  BY <1>1, <1>2, QueuesPrimed DEF Tracked
<1>3. CASE ScanJobs
  <2> DEFINE found == {<<k, job[k]>> : k \in {l \in Jobs : UnfinishedJob(l)}}
  <2>1. found \in SUBSET Found
    BY DEF Found, UnfinishedJob
  <2>2. jobRec'.todo = found
    BY <1>3, <2>1, TreatType DEF ScanJobs
  <2>3. <<i, job[i]>> \in jobRec'.todo
    BY <2>2 DEF UnfinishedJob, Unextracted
  <2> QED
    BY <2>3 DEF Tracked
<1>4. CASE RecoverReset
  <2>1. jobRec'.todo = jobRec.todo /\ jobRec.pc = "reset" /\ verifyCh' = verifyCh
    BY <1>4 DEF RecoverReset, TypeInv, TypeOK
  <2> QED
    BY <1>2, <2>1
<1>5. ASSUME Treat(jobRec.todo \ {jobRec.at}) PROVE jobRec'.todo = jobRec.todo \ {jobRec.at}
  BY <1>0, <1>5, TreatType
<1>6. CASE RecoverSkip
  <2>1. jobRec.at[1] # i
    <3> SUFFICES ASSUME jobRec.at[1] = i PROVE FALSE
      OBVIOUS
    <3>1. jobRec.pc = "reset" /\ jobRec.at \in jobRec.todo /\ jobRec.at[2] = "processing"
      BY <1>6 DEF RecoverSkip, TypeInv, PlaceOK
    <3>2. job[i] = "pending"
      BY <1>6 DEF RecoverSkip, Resettable, Unextracted, Unfinished
    <3> QED
      BY <3>1, <3>2 DEF SetBack
  <2> QED
    BY <1>2, <1>5, <1>6, <2>1 DEF RecoverSkip
<1>7. CASE RecoverPush
  <2>1. jobRec.at[1] \in Jobs
    BY <1>0, <1>7 DEF RecoverPush, Found
  <2>2. InQueue(i, verifyCh') <=> InQueue(i, verifyCh) \/ i = jobRec.at[1]
    BY <1>7, <2>1, QueueAppend, QueuesPrimed DEF RecoverPush
  <2> QED
    BY <1>2, <1>5, <1>7, <2>2 DEF RecoverPush
<1>8. CASE RecoverStop
  <2>1. jobRec.pc = "reset" /\ \A m \in jobRec.todo : m[1] # i
    BY <1>8 DEF RecoverStop, GiveUp
  <2> QED
    BY <1>2, <1>8, <2>1 DEF RecoverStop
<1> QED
  BY <1>3, <1>4, <1>6, <1>7, <1>8 DEF RecoveryStep

LEMMA NoLostStep ==
    ASSUME TypeInv, Verified, SetBack, NoLostJob, Next
    PROVE  NoLostJob'
<1> SUFFICES ASSUME NEW i \in Jobs, i \notin givenUp', Kind[i] = "good", ctx' = "live", Unextracted(i)'
             PROVE  Tracked(i)'
  BY DEF NoLostJob
<1>1. CASE Restart
  BY <1>1 DEF Restart, Recovery, Tracked
<1>2. CASE ~Restart
  <2>1. ctx = "live" /\ i \notin givenUp
    BY <1>2, BootStep
  <2>2. CASE CreateReport(i)
    BY <2>2 DEF CreateReport, Tracked, TypeInv, TypeOK
  <2>3. CASE Unextracted(i)
    <3>1. Tracked(i)
      BY <2>1, <2>3 DEF NoLostJob
    <3> QED
      BY <1>2, <2>1, <2>3, <3>1, HandlerHandsOn, VerifierHandsOn, ExtractorHandsOn, RecoveryHandsOn
         DEF Next
  <2> QED
    BY <2>1, <2>2, <2>3, Unextract
<1> QED
  BY <1>1, <1>2

-----------------------------------------------------------------------------
(* The theorems *)

LEMMA IntakeInit == Init => IntakeInv
<1> SUFFICES ASSUME Init PROVE IntakeInv
  OBVIOUS
<1>0. \A i \in Jobs : ~InQueue(i, <<>>)
  BY DEF InQueue
<1>1. \A i \in Jobs : ~Handled(i)
  BY <1>0, IdleType, IntakeAssumption DEF Init, Handled, Recovery
<1>2. HandledStored
  BY <1>1 DEF HandledStored, Init, db
<1>3. Verified
  BY <1>0, IdleType, IntakeAssumption DEF Verified, Init, db
<1>4. Published /\ SetBack /\ NoLostJob
  BY IdleType DEF Published, OnePublisher, SetBack, NoLostJob, Tracked, Init, Recovery
<1>5. Settled
  BY DEF Settled, Init, Verdicts
<1> QED
  BY <1>2, <1>3, <1>4, <1>5, InitType DEF IntakeInv

LEMMA IntakeStutter ==
    ASSUME IntakeInv, UNCHANGED vars
    PROVE  IntakeInv'
<1> USE DEF vars, db, queues, agents, boot, bounds
<1>1. TypeInv'
  BY NextType DEF IntakeInv
<1>2. \A i : /\ InQueue(i, verifyCh)' = InQueue(i, verifyCh)
             /\ InQueue(i, reportCh)' = InQueue(i, reportCh)
             /\ Affected(i)' = Affected(i) /\ Unextracted(i)' = Unextracted(i)
             /\ At("extract", i)' = At("extract", i)
  BY DEF InQueue, Affected, Unextracted, At
<1>3. \A i : Handled(i)' = Handled(i) /\ Tracked(i)' = Tracked(i)
  BY <1>2 DEF Handled, Tracked
<1>4. HandledStored' /\ Verified' /\ NoLostJob'
  BY <1>2, <1>3 DEF IntakeInv, HandledStored, Verified, NoLostJob
<1>5. Published'
  BY <1>2 DEF IntakeInv, Published, OnePublisher
<1>6. SetBack'
  BY DEF IntakeInv, SetBack
<1>7. Settled'
  BY <1>2, <1>3 DEF IntakeInv, Settled
<1> QED
  BY <1>1, <1>4, <1>5, <1>6, <1>7 DEF IntakeInv

LEMMA IntakeNext == IntakeInv /\ [Next]_vars => IntakeInv'
<1> SUFFICES ASSUME IntakeInv, Next PROVE IntakeInv'
  BY IntakeStutter
<1> QED
  BY NextType, HandledStep, VerifiedStep, PublishedStep, SetBackStep, NoLostStep, SettledStep
     DEF IntakeInv

\* The invariant the properties of the intake rest on: together its parts are
\* kept by every step of handlers, workers, recovery and restarts
\* (createReport.go, verifyReport.go, extractUserIDs.go, recoverStalledJobs.go).
THEOREM IntakeCorrect == Spec => []IntakeInv
BY IntakeInit, IntakeNext, PTL DEF Spec

\* The two-channel hand-off and the start-up recovery lose no stored job that
\* extraction has still to reach: the running process holds it somewhere, has
\* told its client QUEUE_FULL, or has met a database error over it.
THEOREM NoLostJobHolds == Spec => []NoLostJob
<1>1. IntakeInv => NoLostJob
  BY DEF IntakeInv
<1> QED
  BY <1>1, IntakeCorrect, PTL

\* The unique index makes extraction of a job publish its wake-ups once, however
\* many messages for it the handler and the recovery have queued.
THEOREM OnePublisherHolds == Spec => []OnePublisher
<1>1. IntakeInv => OnePublisher
  BY DEF IntakeInv, Published
<1> QED
  BY <1>1, IntakeCorrect, PTL

\* No row and no "done" for a report that verification turns down.
THEOREM VerifiedOnlyHolds == Spec => []VerifiedOnly
<1>1. IntakeInv => VerifiedOnly
  BY DEF IntakeInv, Verified, VerifiedOnly
<1> QED
  BY <1>1, IntakeCorrect, PTL

LEMMA FinishedStep ==
    ASSUME IntakeInv, Next, faults' = 0, NEW i \in Jobs, job[i] \in Verdicts
    PROVE  job'[i] = job[i]
<1> USE DEF IntakeInv
<1>0. /\ job \in [Jobs -> {"absent"} \cup Unfinished \cup Verdicts]
      /\ faults \in Nat /\ faults' \in Nat
  <2>1. TypeInv'
    BY NextType
  <2> QED
    BY <2>1, IntakeAssumption DEF TypeInv, TypeOK
<1>1. givenUp = {} /\ notified[i] \subseteq snapshot \cap Near[i]
  <2>1. faults = 0
    BY <1>0, BootStep
  <2> QED
    BY <2>1 DEF Settled
<1> SUFFICES ASSUME job'[i] # job[i] PROVE FALSE
  OBVIOUS
<1>2. ~CreateReport(i) /\ ~JobFinalized(i) /\ ~(RecoverReset /\ jobRec.at[1] = i)
  BY DEF CreateReport, JobFinalized, RecoverReset, Resettable, Verdicts
<1>3. ASSUME NEW v \in Verifiers, verifier[v].j = i PROVE ~ResetJob(v) /\ ~FailJob(v)
  <2>1. ResetJob(v) => Kind[i] \notin {"good", "garbled"}
    BY <1>1, <1>3 DEF ResetJob, SetBack
  <2>2. FailJob(v) => Kind[i] = "garbled" /\ job'[i] = "failed"
    BY <1>0, <1>3 DEF FailJob, SetJob, Verified
  <2>3. Kind[i] # "good" => job[i] = "failed" /\ Kind[i] = "garbled"
    BY DEF Verified, Verdicts
  <2> QED
    BY <2>1, <2>2, <2>3
<1>4. ASSUME NEW x \in Extractors, extractor[x].j = i PROVE ~ExtractNobody(x) /\ ~ExtractUsers(x)
  <2>1. ASSUME ExtractNobody(x) \/ ExtractUsers(x) PROVE FALSE
    <3>1. Kind[i] = "good" /\ Handled(i)
      BY <1>4, <2>1, HandledNow DEF ExtractNobody, ExtractUsers, Verified
    <3>2. Affected(i) = Near[i] \cap snapshot
      BY <3>1 DEF Affected
    <3>3. notified[i] = {}
      BY <1>1, <1>4, <2>1, <3>2 DEF ExtractNobody, ExtractUsers, FreshRows
    <3>4. job[i] = "done" /\ Affected(i) = {}
      BY <3>1, <3>3 DEF Settled
    <3>5. job'[i] = "done"
      BY <1>0, <1>4, <2>1, <3>4 DEF ExtractNobody, ExtractUsers, NobodyStatus, SetJob
    <3> QED
      BY <3>4, <3>5
  <2> QED
    BY <2>1
<1> QED
  BY <1>2, <1>3, <1>4, StatusWritten

\* As long as no database call fails, a stale or duplicate message for a job
\* that has its verdict reaches none of the statements that would change it:
\* neither the two unconditional UPDATEs of verification nor those of extraction.
THEOREM FinishedStaysHolds == Spec => FinishedStays
<1>1. IntakeInv /\ [Next]_vars =>
         [\A j \in Jobs : faults' = 0 /\ job[j] \in Verdicts => job'[j] = job[j]]_vars
  BY FinishedStep
<1> QED
  BY <1>1, IntakeCorrect, PTL DEF Spec, FinishedStays

-----------------------------------------------------------------------------
(* What the delivery half may rely on                                       *)

\* A job that is not stored has no rows, and the rows of a job that is still
\* handled are this boot's: they are those of every user near it.
BootRows ==
    \A j \in Jobs :
        /\ job[j] = "absent" => notified[j] = {}
        /\ Handled(j) /\ notified[j] # {} => Affected(j) # {} /\ Affected(j) \subseteq notified[j]

\* A wake-up that is still to be sent has an extraction worker that sends it.
Sent == \A d \in outbox : \E x \in Extractors : extractor[x] = At("publish", d[1])

LEMMA BootRowsStep ==
    ASSUME IntakeInv, BootRows, Next
    PROVE  BootRows'
<1> USE DEF IntakeInv
<1>1. ASSUME NEW i \in Jobs, job'[i] = "absent"
      PROVE  notified'[i] = {}
  <2>0. job \in [Jobs -> {"absent"} \cup Unfinished \cup Verdicts]
    BY DEF TypeInv, TypeOK
  <2>1. job[i] = "absent"
    <3>1. SUFFICES ASSUME job'[i] # job[i] PROVE FALSE
      BY <1>1
    <3>2. ~CreateReport(i) /\ ~JobFinalized(i) /\ ~(RecoverReset /\ jobRec.at[1] = i)
      BY <1>1, <2>0 DEF CreateReport, JobFinalized, RecoverReset, SetJob, Verdicts
    <3>3. ASSUME NEW v \in Verifiers, verifier[v].j = i PROVE ~ResetJob(v) /\ ~FailJob(v)
      BY <1>1, <2>0, <3>3 DEF ResetJob, FailJob, SetJob
    <3>4. ASSUME NEW x \in Extractors, extractor[x].j = i
          PROVE  ~ExtractNobody(x) /\ ~ExtractUsers(x)
      BY <1>1, <2>0, <3>4 DEF ExtractNobody, ExtractUsers, NobodyStatus, SetJob
    <3> QED
      BY <3>1, <3>2, <3>3, <3>4, StatusWritten
  <2>2. ASSUME NEW x \in Extractors, ExtractUsers(x), extractor[x].j = i PROVE FALSE
    BY <1>1, <2>0, <2>2 DEF ExtractUsers, SetJob
  <2> QED
    BY <2>1, <2>2, RowsWritten DEF BootRows
<1>2. ASSUME NEW i \in Jobs, Handled(i)', notified'[i] # {}
      PROVE  Affected(i)' # {} /\ Affected(i)' \subseteq notified'[i]
  <2>1. snapshot' = snapshot
    BY <1>2, BootStep, RestartForgets
  <2>2. Affected(i)' = Affected(i)
    BY <2>1 DEF Affected
  <2>3. CASE \E x \in Extractors : /\ ExtractUsers(x) /\ extractor[x].j = i
                                   /\ notified'[i] = notified[i] \cup Affected(i)
    BY <2>2, <2>3 DEF ExtractUsers
  <2>4. CASE notified'[i] = notified[i]
    <3>1. Handled(i)
      BY <1>2, <2>4, HandledNew DEF CreateReport, UnfinishedJob, BootRows
    <3> QED
      BY <1>2, <2>2, <2>4, <3>1 DEF BootRows
  <2> QED
    BY <2>3, <2>4, RowsWritten
<1> QED
  BY <1>1, <1>2 DEF BootRows

LEMMA SentStep ==
    ASSUME IntakeInv, Sent, Next
    PROVE  Sent'
<1> USE DEF db, queues, agents, boot, bounds
<1> SUFFICES ASSUME NEW d \in outbox'
             PROVE  \E x \in Extractors : extractor'[x] = At("publish", d[1])
  BY DEF Sent, At
<1>0. /\ extractor \in [Extractors -> ExtractorState]
      /\ \A i : At("publish", i).pc = "publish" /\ At("publish", i).j = i
  BY DEF IntakeInv, TypeInv, TypeOK, ExtractorState, At
<1>1. CASE UNCHANGED <<outbox, extractor>>
  BY <1>1 DEF Sent
<1>2. \A y, x \in Extractors : \A s : SetExtractor(y, s) =>
          extractor'[x] = IF x = y THEN s ELSE extractor[x]
  BY <1>0 DEF SetExtractor
<1>3. ASSUME NEW y \in Extractors, TakeReport(y) \/ ExtractNobody(y) \/ ExtractFails(y)
      PROVE  \E x \in Extractors : extractor'[x] = At("publish", d[1])
  <2>1. outbox' = outbox /\ extractor[y].pc # "publish" /\ \E s : SetExtractor(y, s)
    BY <1>3 DEF TakeReport, ExtractNobody, ExtractFails
  <2>2. PICK x \in Extractors : extractor[x] = At("publish", d[1])
    BY <2>1 DEF Sent
  <2> QED
    BY <1>0, <1>2, <2>1, <2>2
<1>4. ASSUME NEW y \in Extractors, ExtractUsers(y)
      PROVE  \E x \in Extractors : extractor'[x] = At("publish", d[1])
  <2>1. /\ outbox' = outbox \cup ({extractor[y].j} \X Affected(extractor[y].j))
        /\ extractor[y].pc = "extract" /\ SetExtractor(y, At("publish", extractor[y].j))
    BY <1>4 DEF ExtractUsers
  <2>2. CASE d \in outbox
    <3>1. PICK x \in Extractors : extractor[x] = At("publish", d[1])
      BY <2>2 DEF Sent
    <3> QED
      BY <1>0, <1>2, <2>1, <3>1
  <2>3. CASE d \notin outbox
    BY <1>2, <2>1, <2>3
  <2> QED
    BY <2>2, <2>3
<1>5. ASSUME NEW y \in Extractors, NEW e \in Jobs \X Users, Publish(y, e)
      PROVE  \E x \in Extractors : extractor'[x] = At("publish", d[1])
  <2>1. /\ outbox' = outbox \ {e} /\ e[1] = extractor[y].j
        /\ SetExtractor(y, IF \E c \in outbox' : c[1] = e[1] THEN extractor[y] ELSE Idle)
    BY <1>5 DEF Publish
  <2>2. PICK x \in Extractors : extractor[x] = At("publish", d[1])
    BY <2>1 DEF Sent
  <2>3. x = y => \E c \in outbox' : c[1] = e[1]
    BY <1>0, <2>1, <2>2
  <2> QED
    BY <1>2, <2>1, <2>2, <2>3
<1>6. ASSUME NEW y \in Extractors, AbandonPublish(y)
      PROVE  \E x \in Extractors : extractor'[x] = At("publish", d[1])
  <2>1. outbox' = {c \in outbox : c[1] # extractor[y].j} /\ SetExtractor(y, Idle)
    BY <1>6 DEF AbandonPublish
  <2>2. PICK x \in Extractors : extractor[x] = At("publish", d[1])
    BY <2>1 DEF Sent
  <2> QED
    BY <1>0, <1>2, <2>1, <2>2
<1>7. Restart => outbox' = {}
  BY DEF Restart
<1>8. ASSUME NEW v \in Verifiers, VerifyStep(v) \/ ResetJob(v) \/ FailJob(v)
      PROVE  UNCHANGED <<outbox, extractor>>
  BY <1>8 DEF VerifyStep, TakeJob, Fetch, RejectReport, PushReport, DropJob, ResetJob, FailJob
<1>9. RecoveryStep => UNCHANGED <<outbox, extractor>>
  BY DEF RecoveryStep, ScanJobs, RecoverReset, RecoverSkip, RecoverPush, RecoverStop
<1> QED
  BY <1>1, <1>3, <1>4, <1>5, <1>6, <1>7, <1>8, <1>9
     DEF Next, ExtractStep, Register, CreateReport, Enqueue, JobFinalized, DeliveryError, Cancel

LEMMA RowsCorrect == Spec => [](IntakeInv /\ BootRows /\ Sent)
<1>1. Init => BootRows /\ Sent
  <2>1. Init => \A j \in Jobs : notified[j] = {}
    BY DEF Init
  <2> QED
    BY <2>1 DEF Init, BootRows, Sent
<1>2. UNCHANGED vars /\ BootRows /\ Sent => BootRows' /\ Sent'
  <2> SUFFICES ASSUME UNCHANGED vars, BootRows, Sent PROVE BootRows' /\ Sent'
    OBVIOUS
  <2>1. \A i : Handled(i)' = Handled(i) /\ Affected(i)' = Affected(i)
    BY DEF Handled, InQueue, Affected, vars, db, queues, agents, boot
  <2> QED
    BY <2>1 DEF BootRows, Sent, At, vars, db, agents
<1> QED
  BY <1>1, <1>2, IntakeInit, IntakeNext, BootRowsStep, SentStep, PTL DEF Spec

=============================================================================
