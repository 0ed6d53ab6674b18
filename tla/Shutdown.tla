------------------------------ MODULE Shutdown ------------------------------
(***************************************************************************)
(* Graceful shutdown: the main goroutine stops HTTP intake, waits for the  *)
(* start-up recovery, then closes and drains the worker stages from first  *)
(* to last, while a watcher may force the stop.                            *)
(*                                                                         *)
(* Messages are only counted: channel i feeds the workers of stage i, who  *)
(* send to channel i + 1; the last channel holds the dead letters and has  *)
(* no receiver.  In Go a send on a closed channel panics.                  *)
(***************************************************************************)
EXTENDS Naturals, FiniteSets

CONSTANTS
    NumStages,      \* drain stages: 4 in main.go
    Workers,        \* goroutines of each stage's pool
    Handlers,       \* HTTP requests that create reports
    Targets,        \* channels the start-up recovery sends to
    Cap,            \* Cap[i]: capacity of channel i
    MaxSends,       \* bound: messages sent in a behaviour
    MaxPanics,      \* bound: panics recovered by a worker goroutine
    CanForce        \* whether the deadline or a second signal may come

Stages   == 1 .. NumStages
Channels == 1 .. NumStages + 1

ASSUME ShutdownAssumption ==
    /\ NumStages \in Nat \ {0} /\ Workers # {}
    /\ Targets \subseteq Stages
    /\ Cap \in [Channels -> Nat \ {0}]
    /\ MaxSends \in Nat /\ MaxPanics \in Nat
    /\ CanForce \in BOOLEAN

VARIABLES
    len,            \* messages in each channel
    closed,         \* closed channels
    worker,         \* each worker of each stage
    handler,        \* each HTTP request
    recovery,       \* recoveryWG: "running" or "done"
    main, stage,    \* where main is, and the stage it drains
    ctx,            \* workContext: "live" or "cancelled"
    deadline,       \* shutdownCtx: "off", "running", "expired"
    sends, panics   \* counters of the bounds

pool   == <<len, worker, sends, panics>>
signal == <<ctx, deadline>>
vars   == <<pool, closed, handler, recovery, main, stage, signal>>

\* The channels as they may be closed: from the first on, without a gap.
InOrder == {1 .. k : k \in 0 .. NumStages + 1}

\* Every variable keeps its type: no channel holds more than its capacity, and
\* the channels are closed in the order of the stages in main.go.
TypeOK ==
    /\ len \in [Channels -> Nat] /\ \A i \in Channels : len[i] <= Cap[i]
    /\ closed \in InOrder
    /\ worker \in [Stages \X Workers -> {"idle", "busy", "sending", "gone"}]
    /\ handler \in [Handlers -> {"new", "active", "done"}]
    /\ recovery \in {"running", "done"}
    /\ main \in {"serve", "http", "recovery", "close", "wait", "bury", "clean", "failed"}
    /\ stage \in Stages
    /\ ctx \in {"live", "cancelled"}
    /\ deadline \in {"off", "running", "expired"}
    /\ sends \in 0 .. MaxSends /\ panics \in 0 .. MaxPanics

Init ==
    /\ len = [i \in Channels |-> 0] /\ closed = {}
    /\ worker = [w \in Stages \X Workers |-> "idle"]
    /\ handler = [h \in Handlers |-> "new"]
    /\ recovery = "running"
    /\ main = "serve" /\ stage = 1
    /\ ctx = "live" /\ deadline = "off"
    /\ sends = 0 /\ panics = 0

Becomes(w, s) == worker' = [worker EXCEPT ![w] = s]

HasRoom(i) == len[i] < Cap[i]

\* A send needs room; on a closed channel it panics, see Panic.
Send(i) ==
    /\ i \notin closed /\ HasRoom(i)
    /\ len' = [len EXCEPT ![i] = @ + 1]

Budget == sends < MaxSends /\ sends' = sends + 1

-----------------------------------------------------------------------------
(* HTTP handlers and start-up recovery.                                    *)

Begin(h) ==
    /\ handler[h] = "new" /\ main = "serve"
    /\ handler' = [handler EXCEPT ![h] = "active"]
    /\ UNCHANGED <<pool, closed, recovery, main, stage, signal>>

\* CreateReport's non-blocking send, or a request that ends without one.
Answer(h) ==
    /\ handler[h] = "active"
    /\ handler' = [handler EXCEPT ![h] = "done"]
    /\ \/ Send(1) /\ Budget
       \/ UNCHANGED <<len, sends>>
    /\ UNCHANGED <<worker, panics, closed, recovery, main, stage, signal>>

RecoverySend ==
    /\ recovery = "running"
    /\ \E i \in Targets : Send(i)
    /\ Budget
    /\ UNCHANGED <<worker, panics, closed, handler, recovery, main, stage, signal>>

RecoveryEnd ==
    /\ recovery = "running"
    /\ recovery' = "done"
    /\ UNCHANGED <<pool, closed, handler, main, stage, signal>>

-----------------------------------------------------------------------------
(* The workers of a stage; w[1] is the stage.                              *)

Take(w) ==
    /\ worker[w] = "idle" /\ len[w[1]] > 0
    /\ len' = [len EXCEPT ![w[1]] = @ - 1]
    /\ Becomes(w, "busy")
    /\ UNCHANGED <<sends, panics, closed, handler, recovery, main, stage, signal>>

\* The message has something to send on, or is finished.
Work(w) ==
    /\ worker[w] = "busy"
    /\ \/ Becomes(w, "sending") /\ Budget
       \/ Becomes(w, "idle") /\ UNCHANGED sends
    /\ UNCHANGED <<len, panics, closed, handler, recovery, main, stage, signal>>

\* The blocking send downstream, given up when the context is cancelled.
SendOn(w) ==
    /\ worker[w] = "sending"
    /\ \/ Send(w[1] + 1) /\ Becomes(w, "busy")
       \/ ctx = "cancelled" /\ Becomes(w, "idle") /\ UNCHANGED len
    /\ UNCHANGED <<sends, panics, closed, handler, recovery, main, stage, signal>>

\* Faulty variants: a closed channel ends a worker before its buffer is empty,
\* or not at all.
InputEndedEarly(i) == i \in closed
InputNeverEnds(i)  == FALSE

\* A receive reports the end of a closed channel once its buffer is empty.
InputEnded(i) == i \in closed /\ len[i] = 0

Leave(w) ==
    /\ worker[w] = "idle"
    /\ InputEnded(w[1]) \/ ctx = "cancelled"
    /\ Becomes(w, "gone")
    /\ UNCHANGED <<len, sends, panics, closed, handler, recovery, main, stage, signal>>

\* A panic, a send on a closed channel included, is recovered outside the
\* worker's loop: the goroutine ends and its pool is smaller.
Panic(w) ==
    /\ \/ worker[w] = "busy"
       \/ worker[w] = "sending" /\ w[1] + 1 \in closed
    /\ panics < MaxPanics /\ panics' = panics + 1
    /\ Becomes(w, "gone")
    /\ UNCHANGED <<len, sends, closed, handler, recovery, main, stage, signal>>

WorkerStep(w) == Take(w) \/ Work(w) \/ SendOn(w) \/ Leave(w)

-----------------------------------------------------------------------------
(* main and the watcher.                                                   *)

FirstSignal ==
    /\ main = "serve"
    /\ main' = "http" /\ deadline' = "running"
    /\ UNCHANGED <<pool, closed, handler, recovery, stage, ctx>>

\* server.Shutdown has stopped the listener; it waits for active requests.
HttpStopped ==
    /\ main = "http" /\ \A h \in Handlers : handler[h] # "active"
    /\ main' = "recovery"
    /\ UNCHANGED <<pool, closed, handler, recovery, stage, signal>>

RecoveryWaited ==
    /\ main = "recovery" /\ recovery = "done"
    /\ main' = "close"
    /\ UNCHANGED <<pool, closed, handler, recovery, stage, signal>>

\* Faulty variant: a stage closes the channel its workers send to.
InputDownstream(i) == i + 1

\* The channel that the input function of a stage closes.
Input(i) == i

CloseInput ==
    /\ main = "close"
    /\ closed' = closed \cup {Input(stage)}
    /\ main' = "wait"
    /\ UNCHANGED <<pool, handler, recovery, stage, signal>>

\* Faulty variant: one worker's end is taken for the pool's.
DrainedAny(i) == \E w \in Workers : worker[<<i, w>>] = "gone"

\* The stage's WaitGroup is at zero.
Drained(i) == \A w \in Workers : worker[<<i, w>>] = "gone"

StageDrained ==
    /\ main = "wait" /\ Drained(stage)
    /\ IF stage < NumStages
       THEN main' = "close" /\ stage' = stage + 1
       ELSE main' = "bury" /\ UNCHANGED stage
    /\ UNCHANGED <<pool, closed, handler, recovery, signal>>

CloseDeadLetters ==
    /\ main = "bury"
    /\ closed' = closed \cup {NumStages + 1}
    /\ main' = "clean"
    /\ UNCHANGED <<pool, handler, recovery, stage, signal>>

\* Faulty variant: the wait does not watch the deadline.
NeverExpires == FALSE

Expired == deadline = "expired"

\* Every wait of shutdownGracefully also ends with the deadline's error; main
\* then cancels the workers and returns.
GiveUp ==
    /\ main \in {"http", "recovery", "wait"} /\ Expired
    /\ main' = "failed" /\ ctx' = "cancelled"
    /\ UNCHANGED <<pool, closed, handler, recovery, stage, deadline>>

\* The deadline expires; or a second signal comes: watchForForcedShutdown
\* cancels the workers first, and then the deadline.
Deadline ==
    /\ CanForce /\ deadline = "running"
    /\ deadline' = "expired"
    /\ UNCHANGED <<pool, closed, handler, recovery, main, stage, ctx>>

CancelWorkers ==
    /\ CanForce /\ deadline # "off" /\ ctx = "live"
    /\ main \notin {"clean", "failed"}
    /\ ctx' = "cancelled"
    /\ UNCHANGED <<pool, closed, handler, recovery, main, stage, deadline>>

MainStep ==
    \/ HttpStopped \/ RecoveryWaited \/ CloseInput \/ StageDrained
    \/ CloseDeadLetters \/ GiveUp

Running == main \notin {"clean", "failed"}      \* main's return ends it all

Next ==
    /\ Running
    /\ \/ \E h \in Handlers : Begin(h) \/ Answer(h)
       \/ RecoverySend \/ RecoveryEnd
       \/ \E w \in Stages \X Workers : WorkerStep(w) \/ Panic(w)
       \/ FirstSignal \/ MainStep
       \/ Deadline \/ CancelWorkers

Spec == Init /\ [][Next]_vars

\* The scheduler runs every goroutine that is not blocked.  Nothing is assumed
\* of the timer of the grace period or of a second signal.
Fairness ==
    /\ \A h \in Handlers : WF_vars(Running /\ Answer(h))
    /\ \A w \in Stages \X Workers : WF_vars(Running /\ WorkerStep(w))
    /\ WF_vars(Running /\ RecoveryEnd)
    /\ WF_vars(Running /\ MainStep)

FairSpec == Spec /\ Fairness

-----------------------------------------------------------------------------
(* Properties.                                                             *)

\* Nobody is left who could send on a channel that main has closed: neither a
\* request, nor the recovery, nor a worker of the stage before it, whether the
\* shutdown is drained or forced at any point.
NoSendOnClosed ==
    /\ 1 \in closed => \A h \in Handlers : handler[h] # "active"
    /\ closed # {} => recovery = "done"
    /\ \A i \in Stages : i + 1 \in closed => \A w \in Workers : worker[<<i, w>>] = "gone"

\* A shutdown that ends cleanly, unforced and without panics, leaves no message
\* behind ("Waiting before closing the next stage guarantees that every output
\* produced by this stage can still be delivered downstream").
CleanMeansDrained ==
    main = "clean" /\ ctx = "live" /\ panics = 0
        => \A i \in Stages : len[i] = 0 /\ \A w \in Workers : worker[<<i, w>>] = "gone"

\* Once the deadline has passed the process ends, whatever its goroutines are
\* stuck on: it bounds every wait of shutdownGracefully.
MainReturns == Expired ~> ~Running

\* The drain ends by itself, whatever is buffered between the stages and
\* whenever the workers are cancelled, unless a panic cost a stage its workers
\* or the dead letters have no room.
DrainEnds ==
    main # "serve" ~> \/ ~Running
                      \/ panics > 0
                      \/ len[NumStages + 1] = Cap[NumStages + 1]

=============================================================================
