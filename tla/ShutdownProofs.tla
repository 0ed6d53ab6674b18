--------------------------- MODULE ShutdownProofs ---------------------------
(***************************************************************************)
(* For any number of stages, any pools and any capacities, nobody can send *)
(* on a channel that the shutdown has closed, and a clean end leaves no    *)
(* message behind.                                                         *)
(***************************************************************************)
EXTENDS Shutdown, TLAPS

\* What main knows at each of its positions: intake is over, the recovery is
\* over, the stages before the present one have no worker left.
Position ==
    /\ main \in {"serve", "http", "recovery"} => closed = {}
    /\ main = "close" => closed = 1 .. (stage - 1)
    /\ main \in {"wait", "bury"} => closed = 1 .. stage
    /\ main \notin {"serve", "http"} /\ (closed # {} \/ main # "failed")
          => \A h \in Handlers : handler[h] # "active"
    /\ main \in {"close", "wait", "bury", "clean"} \/ closed # {} => recovery = "done"
    /\ \A i \in Stages : i < stage => \A w \in Workers : worker[<<i, w>>] = "gone"
    /\ main \in {"bury", "clean"} =>
          \A w \in Workers : worker[<<NumStages, w>>] = "gone"
    /\ stage = 1 \/ main \in {"close", "wait", "bury", "clean", "failed"}
    /\ main \in {"bury", "clean"} => stage = NumStages

\* NoSendOnClosed is not inductive: it says nothing of the channel that main
\* is about to close.
ShutdownInv == TypeOK /\ NoSendOnClosed /\ Position

\* The next channel after the first k is k + 1.
LEMMA CloseNext ==
    ASSUME NEW k \in 0 .. NumStages
    PROVE  1 .. k \in InOrder /\ 1 .. (k + 1) \in InOrder /\ (1 .. k) \cup {k + 1} = 1 .. (k + 1)
<1>1. NumStages \in Nat /\ k \in 0 .. NumStages + 1 /\ k + 1 \in 0 .. NumStages + 1
  BY ShutdownAssumption
<1>2. (1 .. k) \cup {k + 1} = 1 .. (k + 1)
  BY <1>1
<1> QED
  BY <1>1, <1>2 DEF InOrder

LEMMA InitInv == Init => ShutdownInv
<1>1. {} \in InOrder
  <2>1. 0 \in 0 .. NumStages /\ 1 .. 0 = {}
    BY ShutdownAssumption
  <2> QED
    BY <2>1, CloseNext
<1> QED
  BY <1>1, ShutdownAssumption
     DEF Init, ShutdownInv, TypeOK, NoSendOnClosed, Position, Stages, Channels

\* A send keeps the lengths within the capacities.
LEMMA SendType ==
    ASSUME TypeOK, NEW i \in Channels, Send(i)
    PROVE  len' \in [Channels -> Nat] /\ \A c \in Channels : len'[c] <= Cap[c]
<1>1. len[i] \in Nat /\ Cap[i] \in Nat /\ len[i] < Cap[i]
  BY ShutdownAssumption DEF TypeOK, Send, HasRoom
<1>2. len[i] + 1 \in Nat /\ len[i] + 1 <= Cap[i]
  BY <1>1
<1>3. len' = [len EXCEPT ![i] = len[i] + 1]
  BY DEF Send
<1> QED
  BY <1>2, <1>3 DEF TypeOK

\* So does a receipt.
LEMMA TakeType ==
    ASSUME TypeOK, NEW i \in Channels, len[i] > 0, len' = [len EXCEPT ![i] = @ - 1]
    PROVE  len' \in [Channels -> Nat] /\ \A c \in Channels : len'[c] <= Cap[c]
<1>1. len[i] \in Nat /\ Cap[i] \in Nat /\ len[i] <= Cap[i]
  BY ShutdownAssumption DEF TypeOK
<1>2. len[i] - 1 \in Nat /\ len[i] - 1 <= Cap[i]
  BY <1>1
<1> QED
  BY <1>2 DEF TypeOK

\* Sends, receipts and worker moves keep the types.
LEMMA PoolType ==
    ASSUME TypeOK,
           \/ \E h \in Handlers : Answer(h)
           \/ RecoverySend
           \/ \E w \in Stages \X Workers : WorkerStep(w) \/ Panic(w)
    PROVE  TypeOK'
<1>0. 1 \in Channels /\ Stages \subseteq Channels /\ Targets \subseteq Channels
      /\ \A i \in Stages : i + 1 \in Channels
  BY ShutdownAssumption DEF Stages, Channels
<1>1. ASSUME NEW h \in Handlers, Answer(h) PROVE TypeOK'
  <2>1. CASE Send(1) /\ Budget
    BY <1>0, <1>1, <2>1, SendType, ShutdownAssumption DEF Answer, TypeOK, Budget, signal
  <2>2. CASE UNCHANGED <<len, sends>>
    BY <1>1, <2>2 DEF Answer, TypeOK, signal
  <2> QED
    BY <1>1, <2>1, <2>2 DEF Answer
<1>2. ASSUME RecoverySend PROVE TypeOK'
  BY <1>0, <1>2, SendType, ShutdownAssumption DEF RecoverySend, TypeOK, Budget, signal
<1>3. ASSUME NEW w \in Stages \X Workers, WorkerStep(w) \/ Panic(w) PROVE TypeOK'
  <2>0. w[1] \in Channels /\ w[1] + 1 \in Channels
    BY <1>0
  <2>1. CASE Take(w)
    BY <2>0, <2>1, TakeType DEF Take, Becomes, TypeOK, signal
  <2>2. CASE Work(w)
    BY <2>2, ShutdownAssumption DEF Work, Becomes, Budget, TypeOK, signal
  <2>3. CASE SendOn(w)
    BY <2>0, <2>3, SendType DEF SendOn, Becomes, TypeOK, signal
  <2>4. CASE Leave(w)
    BY <2>4 DEF Leave, Becomes, TypeOK, signal
  <2>5. CASE Panic(w)
    BY <2>5, ShutdownAssumption DEF Panic, Becomes, TypeOK, signal
  <2> QED
    BY <1>3, <2>1, <2>2, <2>3, <2>4, <2>5 DEF WorkerStep
<1> QED
  BY <1>1, <1>2, <1>3

\* A worker that is gone stays gone.
LEMMA GoneStays ==
    ASSUME TypeOK, NEW v \in Stages \X Workers, WorkerStep(v) \/ Panic(v),
           NEW w \in Stages \X Workers, worker[w] = "gone"
    PROVE  worker'[w] = "gone"
  BY DEF TypeOK, WorkerStep, Take, Work, SendOn, Leave, Panic, Becomes

\* Requests, the recovery and the workers move behind main's back.
LEMMA OthersInv ==
    ASSUME ShutdownInv,
           \/ \E h \in Handlers : Begin(h) \/ Answer(h)
           \/ RecoverySend \/ RecoveryEnd
           \/ \E w \in Stages \X Workers : WorkerStep(w) \/ Panic(w)
    PROVE  ShutdownInv'
<1>1. ASSUME NEW h \in Handlers, Begin(h) PROVE ShutdownInv'
  BY <1>1 DEF ShutdownInv, TypeOK, NoSendOnClosed, Position, Begin, pool, signal
<1>2. ASSUME NEW h \in Handlers, Answer(h) PROVE ShutdownInv'
  <2>1. TypeOK'
    BY <1>2, PoolType DEF ShutdownInv
  <2> QED
    BY <1>2, <2>1 DEF ShutdownInv, TypeOK, NoSendOnClosed, Position, Answer, signal
<1>3. ASSUME RecoverySend PROVE ShutdownInv'
  <2>1. TypeOK'
    BY <1>3, PoolType DEF ShutdownInv
  <2> QED
    BY <1>3, <2>1 DEF ShutdownInv, NoSendOnClosed, Position, RecoverySend, signal
<1>4. ASSUME RecoveryEnd PROVE ShutdownInv'
  BY <1>4 DEF ShutdownInv, TypeOK, NoSendOnClosed, Position, RecoveryEnd, pool, signal
<1>5. ASSUME NEW w \in Stages \X Workers, WorkerStep(w) \/ Panic(w) PROVE ShutdownInv'
  <2>1. TypeOK'
    BY <1>5, PoolType DEF ShutdownInv
  <2>2. \A v \in Stages \X Workers : worker[v] = "gone" => worker'[v] = "gone"
    BY <1>5, GoneStays DEF ShutdownInv
  <2>3. UNCHANGED <<closed, handler, recovery, main, stage>>
    BY <1>5 DEF WorkerStep, Take, Work, SendOn, Leave, Panic
  <2>4. NumStages \in Stages
    BY ShutdownAssumption DEF Stages
  <2> QED
    BY <2>1, <2>2, <2>3, <2>4 DEF ShutdownInv, NoSendOnClosed, Position
<1> QED
  BY <1>1, <1>2, <1>3, <1>4, <1>5

\* main closes a channel only behind everyone who could send on it.
LEMMA MainInv ==
    ASSUME ShutdownInv, FirstSignal \/ MainStep \/ Deadline \/ CancelWorkers
    PROVE  ShutdownInv'
<1> USE ShutdownAssumption DEF ShutdownInv, TypeOK, NoSendOnClosed, Position, pool, signal
<1>1. CASE FirstSignal
  BY <1>1 DEF FirstSignal
<1>2. CASE HttpStopped
  BY <1>2 DEF HttpStopped
<1>3. CASE RecoveryWaited
  BY <1>3 DEF RecoveryWaited
<1>4. CASE CloseInput
  <2>1. stage - 1 \in 0 .. NumStages /\ (stage - 1) + 1 = stage /\ main = "close"
    BY <1>4 DEF CloseInput, Stages
  <2>2. closed' = 1 .. stage /\ closed' \in InOrder
    BY <1>4, <2>1, CloseNext DEF CloseInput, Input
  <2>3. closed' = closed \cup {stage} /\ main' = "wait"
        /\ UNCHANGED <<pool, handler, recovery, stage, signal>>
    BY <1>4 DEF CloseInput, Input
  <2> QED
    BY <2>1, <2>2, <2>3 DEF Stages, Channels
<1>5. CASE StageDrained
  <2>1. stage \in Nat /\ (stage + 1) - 1 = stage
    BY DEF Stages
  <2> QED
    BY <1>5, <2>1 DEF StageDrained, Drained, Stages
<1>6. CASE CloseDeadLetters
  <2>1. closed = 1 .. NumStages /\ NumStages \in 0 .. NumStages
    BY <1>6 DEF CloseDeadLetters
  <2>2. closed' = closed \cup {NumStages + 1} /\ closed' \in InOrder
    BY <1>6, <2>1, CloseNext DEF CloseDeadLetters
  <2>3. main' = "clean" /\ UNCHANGED <<pool, handler, recovery, stage, signal>>
    BY <1>6 DEF CloseDeadLetters
  <2> QED
    BY <1>6, <2>2, <2>3 DEF CloseDeadLetters, Stages, Channels
<1>7. CASE GiveUp
  BY <1>7 DEF GiveUp
<1>8. CASE Deadline \/ CancelWorkers
  BY <1>8 DEF Deadline, CancelWorkers
<1> QED
  BY <1>1, <1>2, <1>3, <1>4, <1>5, <1>6, <1>7, <1>8 DEF MainStep

LEMMA StepInv == ShutdownInv /\ [Next]_vars => ShutdownInv'
<1> SUFFICES ASSUME ShutdownInv, [Next]_vars PROVE ShutdownInv'
  OBVIOUS
<1>1. CASE Next
  BY <1>1, OthersInv, MainInv DEF Next
<1>2. CASE UNCHANGED vars
  BY <1>2 DEF ShutdownInv, TypeOK, NoSendOnClosed, Position, vars, pool, signal
<1> QED
  BY <1>1, <1>2

\* Nobody is at a place with nothing to do there, no channel holds more than its
\* capacity, and main closes the channels in order and without a gap (main.go,
\* shutdown.go and the loops of the workers).
THEOREM TypeCorrect == Spec => []TypeOK
<1>1. ShutdownInv => TypeOK
  BY DEF ShutdownInv
<1> QED
  BY <1>1, InitInv, StepInv, PTL DEF Spec

\* Whatever the number of stages and however the shutdown is forced, no
\* goroutine is left that could send on a channel main has closed.
THEOREM NeverSendOnClosed == Spec => []NoSendOnClosed
<1>1. ShutdownInv => NoSendOnClosed
  BY DEF ShutdownInv
<1> QED
  BY <1>1, InitInv, StepInv, PTL DEF Spec

-----------------------------------------------------------------------------
(* What a clean end says of the messages                                   *)

\* A worker that was neither cancelled nor hit by a panic has left an empty,
\* closed channel.  Position ties this to main: CleanMeansDrained alone says
\* nothing before the end.
LeftBehind ==
    ctx = "live" /\ panics = 0 =>
        \A w \in Stages \X Workers : worker[w] = "gone" => w[1] \in closed /\ len[w[1]] = 0

\* A closed channel gets no message and stays closed.
LEMMA ClosedShrinks ==
    ASSUME TypeOK, Next, NEW i \in Channels, i \in closed
    PROVE  i \in closed' /\ len'[i] <= len[i] /\ len'[i] \in Nat
<1> USE DEF pool, signal
<1>0. len \in [Channels -> Nat]
  BY DEF TypeOK
<1>1. ASSUME NEW c, Send(c) PROVE len'[i] = len[i]
  BY <1>0, <1>1 DEF Send
<1>2. ASSUME NEW w \in Stages \X Workers, WorkerStep(w) \/ Panic(w)
      PROVE  closed' = closed /\ (len'[i] = len[i] \/ (len[i] > 0 /\ len'[i] = len[i] - 1))
  <2>1. CASE Take(w)
    BY <1>0, <2>1 DEF Take
  <2>2. CASE SendOn(w)
    BY <1>1, <2>2 DEF SendOn
  <2> QED
    BY <1>2, <2>1, <2>2 DEF WorkerStep, Work, Leave, Panic
<1>3. ASSUME \E h \in Handlers : Begin(h) \/ Answer(h)
      PROVE  closed' = closed /\ len'[i] = len[i]
  BY <1>1, <1>3 DEF Begin, Answer
<1>4. ASSUME RecoverySend \/ RecoveryEnd
      PROVE  closed' = closed /\ len'[i] = len[i]
  BY <1>1, <1>4 DEF RecoverySend, RecoveryEnd
<1>5. ASSUME FirstSignal \/ MainStep \/ Deadline \/ CancelWorkers
      PROVE  closed \subseteq closed' /\ len' = len
  BY <1>5 DEF FirstSignal, MainStep, HttpStopped, RecoveryWaited, CloseInput, StageDrained,
              CloseDeadLetters, GiveUp, Deadline, CancelWorkers
<1> QED
  BY <1>0, <1>2, <1>3, <1>4, <1>5 DEF Next

LEMMA LeftBehindStep ==
    ASSUME TypeOK, LeftBehind, Next
    PROVE  LeftBehind'
<1> USE DEF pool, signal
<1> SUFFICES ASSUME ctx' = "live", panics' = 0, NEW w \in Stages \X Workers, worker'[w] = "gone"
             PROVE  w[1] \in closed' /\ len'[w[1]] = 0
  BY DEF LeftBehind
<1>0. /\ w[1] \in Channels
      /\ len[w[1]] \in Nat /\ panics \in Nat
      /\ worker \in [Stages \X Workers -> {"idle", "busy", "sending", "gone"}]
  BY ShutdownAssumption DEF Stages, Channels, TypeOK
<1>1. w[1] \in closed /\ len[w[1]] = 0 => w[1] \in closed' /\ len'[w[1]] = 0
  BY <1>0, ClosedShrinks
<1>2. ctx = "live" /\ panics = 0
  <2>1. ASSUME NEW v \in Stages \X Workers, WorkerStep(v) \/ Panic(v)
        PROVE  ctx = "live" /\ panics = 0
    BY <1>0, <2>1 DEF WorkerStep, Take, Work, SendOn, Leave, Panic
  <2> QED
    BY <2>1 DEF Next, Begin, Answer, RecoverySend, RecoveryEnd, FirstSignal, MainStep, HttpStopped,
                RecoveryWaited, CloseInput, StageDrained, CloseDeadLetters, GiveUp, Deadline,
                CancelWorkers
<1>3. worker[w] = "gone" \/ Leave(w)
  <2>1. ASSUME NEW v \in Stages \X Workers, WorkerStep(v) \/ Panic(v)
        PROVE  worker[w] = "gone" \/ Leave(w)
    <3>1. \A s : Becomes(v, s) => worker'[w] = IF w = v THEN s ELSE worker[w]
      BY <1>0 DEF Becomes
    <3>2. ~Panic(v)
      BY <1>0, <1>2 DEF Panic
    <3>3. ~Leave(v) => worker[w] = worker'[w] \/ worker'[w] # "gone"
      BY <2>1, <3>1, <3>2 DEF WorkerStep, Take, Work, SendOn
    <3>4. Leave(v) => v = w \/ worker[w] = worker'[w]
      BY <3>1 DEF Leave
    <3> QED
      BY <3>3, <3>4
  <2>2. CASE worker' = worker
    BY <2>2
  <2> QED
    BY <2>1, <2>2
       DEF Next, Begin, Answer, RecoverySend, RecoveryEnd, FirstSignal, MainStep, HttpStopped,
           RecoveryWaited, CloseInput, StageDrained, CloseDeadLetters, GiveUp, Deadline, CancelWorkers
<1>4. CASE Leave(w)
  BY <1>1, <1>2, <1>4 DEF Leave, InputEnded
<1> QED
  BY <1>1, <1>2, <1>3, <1>4 DEF LeftBehind

\* A shutdown that was not forced and met no panic ends with every stage's
\* channel drained and its pool gone (shutdown.go, stages in main.go).
THEOREM CleanIsDrained == Spec => []CleanMeansDrained
<1>1. Init => LeftBehind
  BY DEF Init, LeftBehind
<1>2. ShutdownInv /\ LeftBehind /\ [Next]_vars => LeftBehind'
  BY LeftBehindStep DEF ShutdownInv, LeftBehind, vars, pool, signal
<1>3. ShutdownInv /\ LeftBehind => CleanMeansDrained
  <2> SUFFICES ASSUME ShutdownInv, LeftBehind, main = "clean", ctx = "live", panics = 0,
                      NEW i \in Stages
               PROVE  len[i] = 0 /\ \A w \in Workers : worker[<<i, w>>] = "gone"
    BY DEF CleanMeansDrained
  <2>1. i < stage \/ i = NumStages
    BY ShutdownAssumption DEF ShutdownInv, Position, Stages
  <2>2. \A w \in Workers : worker[<<i, w>>] = "gone"
    BY <2>1 DEF ShutdownInv, Position
  <2>3. PICK w \in Workers : TRUE
    BY ShutdownAssumption
  <2>4. <<i, w>> \in Stages \X Workers /\ <<i, w>>[1] = i
    BY <2>3
  <2> QED
    BY <2>2, <2>3, <2>4 DEF LeftBehind
<1> QED
  BY <1>1, <1>2, <1>3, InitInv, StepInv, PTL DEF Spec

=============================================================================
