---------------------------- MODULE NtpLifecycle ----------------------------
(***************************************************************************)
(* The threads of the polling engine (src/src/ntp.c): the UI thread starts *)
(* cycles and shuts the engine down, an aggregator thread per cycle spawns *)
(* one worker thread per slot, waits for them at most its budget, detaches *)
(* the late ones and harvests the rest.  A detached worker lives on into   *)
(* the cycles that follow.  Interlocked operations and event calls are     *)
(* steps of their own; what a worker fetches is left to Concur.            *)
(***************************************************************************)
EXTENDS Integers, FiniteSets

CONSTANTS
    Slots,          \* 0..5 in the code
    MaxCycles       \* bound: aggregator threads of a behaviour

ASSUME LifecycleConstants ==
    /\ Slots \in SUBSET Nat /\ IsFiniteSet(Slots) /\ Slots # {}
    /\ MaxCycles \in Nat \ {0}

Cycles == 1..MaxCycles
Workers == Cycles \X Slots

VARIABLES
    running,            \* g_running
    shutdownRequested,  \* g_shutdownRequested
    activeWorkers,      \* g_activeWorkers
    idle,               \* g_workersIdleEvent is set
    aggregatorThread,   \* g_aggregatorThread: the cycle it belongs to; 0 is NULL
    agg,                \* each aggregator thread's program counter
    todo,               \* the slots it has yet to spawn
    slot,               \* the slot it is spawning
    ctx,                \* the slots whose context pointer it holds
    worker,             \* each worker thread's program counter
    refs,               \* each worker context's reference count
    snapshot,           \* what the aggregator took from each slot
    ui,                 \* the UI thread's program counter
    uiThread,           \* the handle Ntp_Shutdown waits for
    report              \* what Ntp_Shutdown logged of the aggregator, the workers

vars == <<running, shutdownRequested, activeWorkers, idle, aggregatorThread, agg,
          todo, slot, ctx, worker, refs, snapshot, ui, uiThread, report>>

aggVars == <<agg, todo, slot, ctx>>
uiVars == <<ui, uiThread, report, shutdownRequested>>

AggPC == {"none", "next", "reset", "create", "undo", "undoSignal", "wait", "harvest",
          "release", "clock", "exiting", "exited"}

\* The part of AggregatorProc between the claim of g_running and its release.
Body == AggPC \ {"none", "exiting", "exited"}
Spawned(c) == {s \in Slots : worker[<<c, s>>] # "none"}

\* The workers between WorkerStarted's increment and WorkerFinished's decrement.
Counted ==
    {w \in Workers : worker[w] \in {"working", "finishing"}
                     \/ (agg[w[1]] \in {"reset", "create", "undo"} /\ slot[w[1]] = w[2])}

Init ==
    /\ running = FALSE /\ shutdownRequested = FALSE
    /\ activeWorkers = 0 /\ idle = TRUE
    /\ aggregatorThread = 0
    /\ agg = [c \in Cycles |-> "none"]
    /\ todo = [c \in Cycles |-> {}] /\ slot = [c \in Cycles |-> -1]
    /\ ctx = [c \in Cycles |-> {}]
    /\ worker = [w \in Workers |-> "none"] /\ refs = [w \in Workers |-> 0]
    /\ snapshot = [w \in Workers |-> "none"]
    /\ ui = "free" /\ uiThread = 0
    /\ report = [aggregator |-> "none", workers |-> "none"]
-----------------------------------------------------------------------------
(***************************************************************************)
(* The UI thread: Ntp_Start under g_lifecycleCs, and Ntp_Shutdown.         *)
(***************************************************************************)

\* Ntp_CloseFinishedAggregatorLocked.
OpenThread ==
    IF aggregatorThread # 0 /\ agg[aggregatorThread] = "exited" THEN 0 ELSE aggregatorThread

\* A request during shutdown, one while a cycle runs, or a thread that cannot
\* be created leaves nothing but the finished handle closed.
StartRefused ==
    /\ ui \in {"free", "down"}
    /\ aggregatorThread' = OpenThread
    /\ UNCHANGED <<running, activeWorkers, idle, aggVars, worker, refs, snapshot, uiVars>>

\* Mutant: g_running is not consulted.
MayStartUnclaimed == ~shutdownRequested

\* Mutant: a request during shutdown is honoured.
MayStartLate == ~running

MayStart == ~shutdownRequested /\ ~running

Start(c) ==
    /\ ui \in {"free", "down"}
    /\ agg[c] = "none" /\ \A d \in Cycles : d < c => agg[d] # "none"
    /\ MayStart
    /\ running' = TRUE
    /\ aggregatorThread' = c
    /\ agg' = [agg EXCEPT ![c] = "next"]
    /\ todo' = [todo EXCEPT ![c] = Slots]
    /\ UNCHANGED <<activeWorkers, idle, slot, ctx, worker, refs, snapshot, uiVars>>

ShutdownRequest ==
    /\ ui = "free"
    /\ shutdownRequested' = TRUE
    /\ uiThread' = aggregatorThread
    /\ ui' = IF aggregatorThread = 0 THEN "waitIdle" ELSE "waitAggregator"
    /\ UNCHANGED <<running, activeWorkers, idle, aggregatorThread, aggVars, worker,
                   refs, snapshot, report>>

ShutdownAggregatorStopped ==
    /\ ui = "waitAggregator"
    /\ agg[uiThread] = "exited"
    /\ aggregatorThread' = IF aggregatorThread = uiThread THEN 0 ELSE aggregatorThread
    /\ report' = [report EXCEPT !.aggregator = "stopped"]
    /\ ui' = "waitIdle"
    /\ UNCHANGED <<running, shutdownRequested, activeWorkers, idle, aggVars, worker,
                   refs, snapshot, uiThread>>

\* NTP_SHUTDOWN_AGGREGATOR_WAIT_MS: the grace and one slice are shorter, but
\* the clock update, the audit line and the pin file come after them.
ShutdownAggregatorTimeout ==
    /\ ui = "waitAggregator"
    /\ agg[uiThread] # "exited"
    /\ report' = [report EXCEPT !.aggregator = "timeout"]
    /\ ui' = "waitIdle"
    /\ UNCHANGED <<running, shutdownRequested, activeWorkers, idle, aggregatorThread,
                   aggVars, worker, refs, snapshot, uiThread>>

\* Mutant: the wait for the idle event has no limit.
ShutdownIdleUnbounded ==
    /\ ui = "waitIdle" /\ idle
    /\ report' = [report EXCEPT !.workers = "stopped"]
    /\ ui' = "down"
    /\ UNCHANGED <<running, shutdownRequested, activeWorkers, idle, aggregatorThread,
                   aggVars, worker, refs, snapshot, uiThread>>

ShutdownIdle ==
    /\ ui = "waitIdle"
    /\ report' = [report EXCEPT !.workers = IF idle THEN "stopped" ELSE "timeout"]
    /\ ui' = "down"
    /\ UNCHANGED <<running, shutdownRequested, activeWorkers, idle, aggregatorThread,
                   aggVars, worker, refs, snapshot, uiThread>>
-----------------------------------------------------------------------------
(***************************************************************************)
(* AggregatorProc of cycle c.                                              *)
(***************************************************************************)
\* Mutant: the last worker to finish forgets the event.
NobodySignals == FALSE

\* The decrement about to be made brings the count to zero.
LastActive == activeWorkers = 1

Goto(c, pc) == agg' = [agg EXCEPT ![c] = pc]

\* The slots are spawned in order.  With a context allocated, WorkerStarted's
\* increment follows; a slot whose context cannot be allocated is skipped.
SpawnNext(c) ==
    /\ agg[c] = "next" /\ todo[c] # {}
    /\ LET s == CHOOSE i \in todo[c] : \A j \in todo[c] : i <= j
       IN  /\ todo' = [todo EXCEPT ![c] = @ \ {s}]
           /\ \/ /\ slot' = [slot EXCEPT ![c] = s]
                 /\ ctx' = [ctx EXCEPT ![c] = @ \cup {s}]
                 /\ refs' = [refs EXCEPT ![<<c, s>>] = 2]
                 /\ activeWorkers' = activeWorkers + 1
                 /\ Goto(c, "reset")
              \/ UNCHANGED <<slot, ctx, refs, activeWorkers, agg>>
    /\ UNCHANGED <<running, idle, aggregatorThread, worker, snapshot, uiVars>>

SpawnReset(c) ==
    /\ agg[c] = "reset"
    /\ idle' = FALSE
    /\ Goto(c, "create")
    /\ UNCHANGED <<running, activeWorkers, aggregatorThread, todo, slot, ctx, worker, refs,
                   snapshot, uiVars>>

SpawnCreate(c) ==
    /\ agg[c] = "create"
    /\ worker' = [worker EXCEPT ![<<c, slot[c]>>] = "working"]
    /\ Goto(c, "next")
    /\ UNCHANGED <<running, activeWorkers, idle, aggregatorThread, todo, slot, ctx, refs,
                   snapshot, uiVars>>

\* CreateThread failed: the worker's reference is dropped, then its count.
SpawnFailed(c) ==
    /\ agg[c] = "create"
    /\ refs' = [refs EXCEPT ![<<c, slot[c]>>] = @ - 1]
    /\ Goto(c, "undo")
    /\ UNCHANGED <<running, activeWorkers, idle, aggregatorThread, todo, slot, ctx, worker,
                   snapshot, uiVars>>

\* ... by WorkerFinished, which the aggregator calls in the worker's place.
SpawnUndo(c) ==
    /\ agg[c] = "undo"
    /\ activeWorkers' = activeWorkers - 1
    /\ Goto(c, IF LastActive THEN "undoSignal" ELSE "next")
    /\ UNCHANGED <<running, idle, aggregatorThread, todo, slot, ctx, worker, refs,
                   snapshot, uiVars>>

SpawnUndoSignal(c) ==
    /\ agg[c] = "undoSignal"
    /\ idle' = TRUE
    /\ Goto(c, "next")
    /\ UNCHANGED <<running, activeWorkers, aggregatorThread, todo, slot, ctx, worker, refs,
                   snapshot, uiVars>>

SpawnedAll(c) ==
    /\ agg[c] = "next" /\ todo[c] = {}
    /\ Goto(c, IF Spawned(c) = {} THEN "harvest" ELSE "wait")
    /\ UNCHANGED <<running, activeWorkers, idle, aggregatorThread, todo, slot, ctx, worker,
                   refs, snapshot, uiVars>>

\* Every worker has ended.
WaitAll(c) ==
    /\ agg[c] = "wait"
    /\ \A s \in Spawned(c) : worker[<<c, s>>] = "exited"
    /\ Goto(c, "harvest")
    /\ UNCHANGED <<running, activeWorkers, idle, aggregatorThread, todo, slot, ctx, worker,
                   refs, snapshot, uiVars>>

\* Mutant: the wait has neither budget nor grace.
WaitWithoutBudget(c) == FALSE

\* The budget, the shutdown grace or the wait itself has run out.
WaitExpired(c) ==
    /\ agg[c] = "wait"
    /\ \E s \in Spawned(c) : worker[<<c, s>>] # "exited"
    /\ Goto(c, "harvest")
    /\ UNCHANGED <<running, activeWorkers, idle, aggregatorThread, todo, slot, ctx, worker,
                   refs, snapshot, uiVars>>

\* Mutant: a worker that has delivered counts as done before its thread ends.
DoneEarly(c, s) == worker[<<c, s>>] \notin {"none", "working"}

\* The slot's thread has ended.  One that never began left an empty result.
Done(c, s) == worker[<<c, s>>] = "exited"

\* The snapshot of the slots that have a context, the late ones as failed.
Harvest(c) ==
    /\ agg[c] = "harvest"
    /\ snapshot' = [w \in Workers |->
           IF w[1] # c THEN snapshot[w]
           ELSE IF w[2] \in ctx[c] /\ Done(c, w[2]) THEN "result" ELSE "failed"]
    /\ Goto(c, "release")
    /\ UNCHANGED <<running, activeWorkers, idle, aggregatorThread, todo, slot, ctx, worker,
                   refs, uiVars>>

\* Mutant: only the contexts that were harvested are released.
ReleaseHarvested(c) ==
    /\ agg[c] = "release"
    /\ refs' = [w \in Workers |-> IF snapshot[w] = "result" /\ w[2] \in ctx[c] /\ w[1] = c
                                  THEN refs[w] - 1 ELSE refs[w]]
    /\ ctx' = [ctx EXCEPT ![c] = {}]
    /\ Goto(c, "clock")
    /\ UNCHANGED <<running, activeWorkers, idle, aggregatorThread, todo, slot, worker,
                   snapshot, uiVars>>

\* The aggregator's own references, once the results are published.
Release(c) ==
    /\ agg[c] = "release"
    /\ refs' = [w \in Workers |-> IF w[1] = c /\ w[2] \in ctx[c] THEN refs[w] - 1 ELSE refs[w]]
    /\ ctx' = [ctx EXCEPT ![c] = {}]
    /\ Goto(c, "clock")
    /\ UNCHANGED <<running, activeWorkers, idle, aggregatorThread, todo, slot, worker,
                   snapshot, uiVars>>

\* Clock_OnPollCycle, the audit line, the promoted pins: then g_running = 0.
EndCycle(c) ==
    /\ agg[c] = "clock"
    /\ running' = FALSE
    /\ Goto(c, "exiting")
    /\ UNCHANGED <<activeWorkers, idle, aggregatorThread, todo, slot, ctx, worker, refs,
                   snapshot, uiVars>>

ExitAggregator(c) ==
    /\ agg[c] = "exiting"
    /\ Goto(c, "exited")
    /\ UNCHANGED <<running, activeWorkers, idle, aggregatorThread, todo, slot, ctx, worker,
                   refs, snapshot, uiVars>>
-----------------------------------------------------------------------------
(***************************************************************************)
(* WorkerProc and NtsWorkerProc: fetch (or fail, or hang), WorkerFinished, *)
(* and only then the release of the context.                               *)
(***************************************************************************)
WorkerGoto(w, pc) == worker' = [worker EXCEPT ![w] = pc]

WorkerDelivers(w) ==
    /\ worker[w] = "working"
    /\ WorkerGoto(w, "finishing")
    /\ UNCHANGED <<running, activeWorkers, idle, aggregatorThread, aggVars, refs,
                   snapshot, uiVars>>

WorkerDecrement(w) ==
    /\ worker[w] = "finishing"
    /\ activeWorkers' = activeWorkers - 1
    /\ WorkerGoto(w, IF LastActive THEN "signal" ELSE "unref")
    /\ UNCHANGED <<running, idle, aggregatorThread, aggVars, refs, snapshot, uiVars>>

WorkerSignal(w) ==
    /\ worker[w] = "signal"
    /\ idle' = TRUE
    /\ WorkerGoto(w, "unref")
    /\ UNCHANGED <<running, activeWorkers, aggregatorThread, aggVars, refs, snapshot,
                   uiVars>>

WorkerExit(w) ==
    /\ worker[w] = "unref"
    /\ refs' = [refs EXCEPT ![w] = @ - 1]
    /\ WorkerGoto(w, "exited")
    /\ UNCHANGED <<running, activeWorkers, idle, aggregatorThread, aggVars, snapshot,
                   uiVars>>
-----------------------------------------------------------------------------
UiStep ==
    \/ ShutdownAggregatorStopped
    \/ ShutdownAggregatorTimeout
    \/ ShutdownIdle

AggregatorStep(c) ==
    \/ SpawnNext(c) \/ SpawnReset(c) \/ SpawnCreate(c) \/ SpawnFailed(c)
    \/ SpawnUndo(c) \/ SpawnUndoSignal(c) \/ SpawnedAll(c)
    \/ WaitAll(c) \/ WaitExpired(c) \/ Harvest(c) \/ Release(c)
    \/ EndCycle(c) \/ ExitAggregator(c)

WorkerStep(w) ==
    WorkerDelivers(w) \/ WorkerDecrement(w) \/ WorkerSignal(w) \/ WorkerExit(w)

Next ==
    \/ StartRefused \/ ShutdownRequest \/ UiStep
    \/ \E c \in Cycles : Start(c) \/ AggregatorStep(c)
    \/ \E w \in Workers : WorkerStep(w)

Spec == Init /\ [][Next]_vars

\* The threads of the program itself are scheduled; a worker may hang in the
\* network for ever, and nobody has to ask for a cycle.
Fairness ==
    /\ WF_vars(UiStep)
    /\ \A c \in Cycles : WF_vars(AggregatorStep(c))

FairSpec == Spec /\ Fairness
-----------------------------------------------------------------------------
(***************************************************************************)
(* Properties.                                                             *)
(***************************************************************************)

\* Cycles never overlap, even while the thread of the last one still exits:
\* g_running is held exactly by the one aggregator in its body, and that is
\* the thread Ntp_Shutdown would wait for.
OneCycle ==
    \A c \in Cycles : agg[c] \in Body =>
        /\ running
        /\ aggregatorThread = c
        /\ \A d \in Cycles \ {c} : agg[d] \notin Body

\* The context of a slot lives as long as the aggregator may read it or the
\* worker, detached or not, may write it, and not longer: every reference is
\* dropped once.
RefsCountHolders ==
    \A w \in Workers :
        refs[w] = (IF w[2] \in ctx[w[1]] THEN 1 ELSE 0)
                  + (IF worker[w] \notin {"none", "exited"}
                        \/ (agg[w[1]] \in {"reset", "create"} /\ slot[w[1]] = w[2])
                     THEN 1 ELSE 0)

\* A cycle judges only what a finished worker left: no slot is harvested while
\* its worker may still be writing, in whatever cycle that worker ends.
NoTornHarvest ==
    \A w \in Workers : snapshot[w] = "result" => worker[w] = "exited"

\* The idle event is never lost: with nobody counted and nobody about to signal
\* or reset it, it is set, and shutdown does not wait for workers long gone.
IdleNotLost ==
    /\ Counted = {}
    /\ \A w \in Workers : worker[w] # "signal"
    /\ \A c \in Cycles : agg[c] # "undoSignal"
    => idle

\* Once shutdown has seen the aggregator stop, no cycle runs and none starts.
QuietAfterShutdown ==
    ui = "down" /\ report.aggregator = "stopped" => \A c \in Cycles : agg[c] \notin Body

\* ntp.c: overdue workers are detached "so future syncs can run".  A cycle that
\* began ends, though every one of its workers hang.
CyclesEnd == running ~> ~running

\* Shutdown returns, whatever the aggregator and the workers do.
ShutdownReturns == shutdownRequested ~> (ui = "down")

=============================================================================
