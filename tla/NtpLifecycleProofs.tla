------------------------- MODULE NtpLifecycleProofs -------------------------
(***************************************************************************)
(* The safety of the polling engine's threads, for any number of slots and *)
(* of cycles: cycles do not overlap, contexts live exactly as long as they *)
(* have a holder, no slot is harvested while its worker may write, the     *)
(* idle event is not lost, and nothing runs after shutdown saw it stop.    *)
(***************************************************************************)
EXTENDS NtpLifecycle, CArithTheorems, FiniteSetTheorems, TLAPS

WorkerPC == {"none", "working", "finishing", "signal", "unref", "exited"}

Flags == running \in BOOLEAN /\ shutdownRequested \in BOOLEAN /\ idle \in BOOLEAN

Fields ==
    /\ activeWorkers \in Int
    /\ aggregatorThread \in Cycles \cup {0} /\ uiThread \in Cycles \cup {0}
    /\ agg \in [Cycles -> AggPC]
    /\ todo \in [Cycles -> SUBSET Slots] /\ ctx \in [Cycles -> SUBSET Slots]
    /\ slot \in [Cycles -> Int]
    /\ worker \in [Workers -> WorkerPC]
    /\ refs \in [Workers -> Int]
    /\ snapshot \in [Workers -> {"none", "result", "failed"}]
    /\ ui \in {"free", "waitAggregator", "waitIdle", "down"}
    /\ report \in [aggregator : {"none", "stopped", "timeout"},
                    workers : {"none", "stopped", "timeout"}]

LifecycleTypes == Flags /\ Fields

\* Where the aggregator has a slot in hand that is counted already.
Spawning == {"reset", "create", "undo"}

\* A slot is spawned once at most: until it is taken from what is left to do, its
\* worker has not begun and no context is held for it.
SpawnsInOrder ==
    \A c \in Cycles :
        /\ agg[c] = "none" => todo[c] = {} /\ ctx[c] = {}
        /\ agg[c] \in Spawning => /\ slot[c] \in Slots
                                  /\ slot[c] \notin todo[c]
                                  /\ slot[c] \in ctx[c]
                                  /\ worker[<<c, slot[c]>>] = "none"
        /\ \A s \in Slots : s \in todo[c] \/ agg[c] = "none" =>
              worker[<<c, s>>] = "none" /\ s \notin ctx[c]

\* g_activeWorkers counts what its name says.
CountIsExact == activeWorkers = Cardinality(Counted)

\* What the UI thread waits for is the only cycle left, and what it saw stop stays so.
ShutdownSeesLast ==
    /\ shutdownRequested <=> ui # "free"
    /\ ui = "waitAggregator" => uiThread \in Cycles
    /\ \A c \in Cycles : agg[c] \in Body =>
          /\ shutdownRequested => c = uiThread
          /\ report.aggregator # "stopped"
    /\ report.aggregator = "stopped" => shutdownRequested

\* The inductive invariant.
LifecycleInv ==
    /\ LifecycleTypes
    /\ OneCycle
    /\ SpawnsInOrder
    /\ RefsCountHolders
    /\ NoTornHarvest
    /\ CountIsExact
    /\ IdleNotLost
    /\ ShutdownSeesLast
-----------------------------------------------------------------------------
(***************************************************************************)
(* Slots, cycles and the workers that are pairs of them.                   *)
(***************************************************************************)
LEMMA WorkersArePairs ==
  /\ \A c \in Cycles, s \in Slots : /\ <<c, s>> \in Workers
                                    /\ <<c, s>>[1] = c /\ <<c, s>>[2] = s
  /\ \A w \in Workers : w[1] \in Cycles /\ w[2] \in Slots /\ w = <<w[1], w[2]>>
  BY DEF Workers

LEMMA WorkersAreFinite == IsFiniteSet(Workers)
<1>1. IsFiniteSet(Cycles)
  <2>1. 1 \in Int /\ MaxCycles \in Int
    BY LifecycleConstants
  <2> QED
    BY <2>1, FS_Interval DEF Cycles
<1> QED
  BY <1>1, LifecycleConstants, FS_Product DEF Workers

\* So the spawning of slots in order takes one that is left.
LEMMA NextSlot ==
  ASSUME NEW T \in SUBSET Slots, T # {}
  PROVE  (CHOOSE i \in T : \A j \in T : i <= j) \in T
<1>1. \E i \in T : \A j \in T : i <= j
  BY LifecycleConstants, LeastNumber
<1> QED
  BY <1>1

\* The aggregator takes slot s: either it is in hand and counted, or it is skipped.
Takes(c, s) ==
    /\ s \in Slots /\ s \in todo[c]
    /\ agg[c] = "next"
    /\ todo' = [todo EXCEPT ![c] = todo[c] \ {s}]
    /\ \/ /\ slot' = [slot EXCEPT ![c] = s]
          /\ ctx' = [ctx EXCEPT ![c] = ctx[c] \cup {s}]
          /\ refs' = [refs EXCEPT ![<<c, s>>] = 2]
          /\ activeWorkers' = activeWorkers + 1
          /\ agg' = [agg EXCEPT ![c] = "reset"]
       \/ UNCHANGED <<slot, ctx, refs, activeWorkers, agg>>
    /\ UNCHANGED <<running, idle, aggregatorThread, worker, snapshot, uiVars>>

LEMMA SpawnTakes ==
  ASSUME LifecycleTypes, NEW c \in Cycles, SpawnNext(c)
  PROVE  \E s \in Slots : Takes(c, s)
<1> DEFINE s == CHOOSE i \in todo[c] : \A j \in todo[c] : i <= j
<1>1. todo[c] \in SUBSET Slots
  BY DEF LifecycleTypes, Fields
<1>2. s \in todo[c]
  <2>1. todo[c] # {}
    BY DEF SpawnNext
  <2> HIDE DEF s
  <2> QED
    BY <1>1, <2>1, NextSlot DEF s
<1>3. Takes(c, s)
  BY <1>1, <1>2 DEF SpawnNext, Goto, Takes
<1> QED
  BY <1>1, <1>2, <1>3
-----------------------------------------------------------------------------
(***************************************************************************)
(* The invariant, part by part.                                            *)
(***************************************************************************)
LEMMA InitLifecycle == Init => LifecycleInv
<1> SUFFICES ASSUME Init PROVE LifecycleInv
  OBVIOUS
<1> USE DEF Init
<1>1. LifecycleTypes
  <2>1. agg \in [Cycles -> AggPC] /\ worker \in [Workers -> WorkerPC]
    BY DEF AggPC, WorkerPC
  <2>2. todo \in [Cycles -> SUBSET Slots] /\ ctx \in [Cycles -> SUBSET Slots]
    OBVIOUS
  <2>3. slot \in [Cycles -> Int]
    OBVIOUS
  <2>4. /\ refs \in [Workers -> Int]
        /\ snapshot \in [Workers -> {"none", "result", "failed"}]
    OBVIOUS
  <2>5. Flags
    BY DEF Flags
  <2>6. Fields
    BY <2>1, <2>2, <2>3, <2>4 DEF Fields
  <2> QED
    BY <2>5, <2>6 DEF LifecycleTypes
<1>2. OneCycle
  BY DEF OneCycle, Body
<1>3. SpawnsInOrder
  BY WorkersArePairs DEF SpawnsInOrder, Spawning
<1>4. RefsCountHolders
  BY WorkersArePairs DEF RefsCountHolders
<1>5. NoTornHarvest
  BY DEF NoTornHarvest
<1>6. CountIsExact
  <2>1. Counted = {}
    BY WorkersArePairs DEF Counted
  <2> QED
    BY <2>1, FS_EmptySet DEF CountIsExact
<1>7. IdleNotLost
  BY DEF IdleNotLost
<1>8. ShutdownSeesLast
  BY DEF ShutdownSeesLast, Body
<1> QED
  BY <1>1, <1>2, <1>3, <1>4, <1>5, <1>6, <1>7, <1>8 DEF LifecycleInv

LEMMA FlagsStep == Flags /\ [Next]_vars => Flags'
<1> SUFFICES ASSUME Flags, [Next]_vars PROVE Flags'
  OBVIOUS
<1> USE DEF Flags, uiVars
<1>1. CASE UNCHANGED vars
  BY <1>1 DEF vars
<1>2. CASE StartRefused \/ ShutdownRequest \/ UiStep
  BY <1>2 DEF StartRefused, ShutdownRequest, UiStep, ShutdownAggregatorStopped,
              ShutdownAggregatorTimeout, ShutdownIdle
<1>3. ASSUME NEW c \in Cycles, Start(c) \/ AggregatorStep(c) PROVE Flags'
  <2>1. CASE Start(c) \/ SpawnNext(c) \/ SpawnReset(c) \/ SpawnCreate(c) \/ SpawnFailed(c)
    BY <2>1 DEF Start, SpawnNext, SpawnReset, SpawnCreate, SpawnFailed
  <2>2. CASE SpawnUndo(c) \/ SpawnUndoSignal(c) \/ SpawnedAll(c) \/ WaitAll(c)
    BY <2>2 DEF SpawnUndo, SpawnUndoSignal, SpawnedAll, WaitAll
  <2>3. CASE WaitExpired(c) \/ Harvest(c) \/ Release(c) \/ EndCycle(c) \/ ExitAggregator(c)
    BY <2>3 DEF WaitExpired, Harvest, Release, EndCycle, ExitAggregator
  <2> QED
    BY <1>3, <2>1, <2>2, <2>3 DEF AggregatorStep
<1>4. ASSUME NEW w \in Workers, WorkerStep(w) PROVE Flags'
  BY <1>4 DEF WorkerStep, WorkerDelivers, WorkerDecrement, WorkerSignal, WorkerExit
<1> QED
  BY <1>1, <1>2, <1>3, <1>4 DEF Next

LEMMA FieldsStep == LifecycleTypes /\ [Next]_vars => Fields'
<1> SUFFICES ASSUME LifecycleTypes, [Next]_vars PROVE Fields'
  OBVIOUS
<1>0. Fields
  BY DEF LifecycleTypes
<1> USE <1>0 DEF Fields
<1>1. CASE UNCHANGED vars
  BY <1>1 DEF vars
<1>2. CASE StartRefused
  BY <1>2 DEF StartRefused, OpenThread, aggVars, uiVars
<1>3. CASE ShutdownRequest
  BY <1>3 DEF ShutdownRequest, aggVars
<1>4. CASE UiStep
  BY <1>4 DEF UiStep, ShutdownAggregatorStopped, ShutdownAggregatorTimeout, ShutdownIdle,
              aggVars
<1>5. ASSUME NEW c \in Cycles, Start(c) PROVE Fields'
  BY <1>5 DEF Start, uiVars, AggPC
<1>6. ASSUME NEW c \in Cycles, AggregatorStep(c) PROVE Fields'
  <2> USE DEF AggPC, Goto, uiVars
  <2>1. CASE SpawnNext(c)
    <3>1. PICK s \in Slots : Takes(c, s)
      BY <2>1, SpawnTakes
    <3>2. /\ todo' \in [Cycles -> SUBSET Slots] /\ ctx' \in [Cycles -> SUBSET Slots]
          /\ slot' \in [Cycles -> Int]
      BY <3>1, LifecycleConstants DEF Takes
    <3>3. agg' \in [Cycles -> AggPC] /\ refs' \in [Workers -> Int] /\ activeWorkers' \in Int
      BY <3>1 DEF Takes
    <3> QED
      BY <3>1, <3>2, <3>3 DEF Takes
  <2>2. CASE SpawnReset(c) \/ SpawnCreate(c) \/ SpawnFailed(c)
    BY <2>2 DEF SpawnReset, SpawnCreate, SpawnFailed, WorkerPC
  <2>3. CASE SpawnUndo(c) \/ SpawnUndoSignal(c) \/ SpawnedAll(c)
    BY <2>3 DEF SpawnUndo, SpawnUndoSignal, SpawnedAll
  <2>4. CASE WaitAll(c) \/ WaitExpired(c) \/ EndCycle(c) \/ ExitAggregator(c)
    BY <2>4 DEF WaitAll, WaitExpired, EndCycle, ExitAggregator
  <2>5. CASE Harvest(c)
    BY <2>5 DEF Harvest
  <2>6. CASE Release(c)
    BY <2>6 DEF Release
  <2> QED
    BY <1>6, <2>1, <2>2, <2>3, <2>4, <2>5, <2>6 DEF AggregatorStep
<1>7. ASSUME NEW w \in Workers, WorkerStep(w) PROVE Fields'
  BY <1>7 DEF WorkerStep, WorkerDelivers, WorkerDecrement, WorkerSignal, WorkerExit,
              WorkerGoto, LastActive, WorkerPC, aggVars, uiVars
<1> QED
  BY <1>1, <1>2, <1>3, <1>4, <1>5, <1>6, <1>7 DEF Next

LEMMA TypesStep == LifecycleTypes /\ [Next]_vars => LifecycleTypes'
  BY FlagsStep, FieldsStep DEF LifecycleTypes

\* An aggregator stays in its body until it releases g_running.
LEMMA StepsInBody ==
  ASSUME LifecycleTypes, NEW c \in Cycles, AggregatorStep(c)
  PROVE  /\ \/ agg[c] \in Body /\ agg'[c] \in Body /\ UNCHANGED running
            \/ agg[c] = "clock" /\ agg'[c] = "exiting"
            \/ agg[c] = "exiting" /\ agg'[c] = "exited" /\ UNCHANGED running
         /\ \A d \in Cycles : d # c => agg'[d] = agg[d]
         /\ UNCHANGED <<aggregatorThread, uiVars>>
<1>0. agg \in [Cycles -> AggPC]
  BY DEF LifecycleTypes, Fields
<1> USE <1>0 DEF AggPC, Body, Goto
<1>1. CASE SpawnNext(c)
  <2>1. PICK s \in Slots : Takes(c, s)
    BY <1>1, SpawnTakes
  <2> QED
    BY <2>1 DEF Takes
<1>2. CASE SpawnReset(c) \/ SpawnCreate(c) \/ SpawnFailed(c)
  BY <1>2 DEF SpawnReset, SpawnCreate, SpawnFailed
<1>3. CASE SpawnUndo(c) \/ SpawnUndoSignal(c)
  BY <1>3 DEF SpawnUndo, SpawnUndoSignal
<1>4. CASE SpawnedAll(c) \/ WaitAll(c) \/ WaitExpired(c)
  BY <1>4 DEF SpawnedAll, WaitAll, WaitExpired
<1>5. CASE Harvest(c) \/ Release(c)
  BY <1>5 DEF Harvest, Release
<1>6. CASE EndCycle(c) \/ ExitAggregator(c)
  BY <1>6 DEF EndCycle, ExitAggregator
<1> QED
  BY <1>1, <1>2, <1>3, <1>4, <1>5, <1>6 DEF AggregatorStep

LEMMA OneCycleStep == LifecycleTypes /\ OneCycle /\ [Next]_vars => OneCycle'
<1> SUFFICES ASSUME LifecycleTypes, OneCycle, [Next]_vars PROVE OneCycle'
  OBVIOUS
<1>0. /\ running \in BOOLEAN
      /\ agg \in [Cycles -> AggPC]
      /\ aggregatorThread \in Cycles \cup {0}
  BY DEF LifecycleTypes, Flags, Fields
<1>1. CASE UNCHANGED vars
  BY <1>1 DEF vars, OneCycle
<1>2. CASE StartRefused
  <2>1. \A c \in Cycles : agg[c] \in Body => OpenThread = c
    BY DEF OneCycle, OpenThread, Body
  <2> QED
    BY <1>2, <2>1 DEF StartRefused, OneCycle, aggVars
<1>3. CASE ShutdownRequest
  BY <1>3 DEF ShutdownRequest, OneCycle, aggVars
<1>4. CASE UiStep
  BY <1>4 DEF UiStep, ShutdownAggregatorStopped, ShutdownAggregatorTimeout, ShutdownIdle,
              OneCycle, Body, aggVars
<1>5. ASSUME NEW c \in Cycles, Start(c) PROVE OneCycle'
  <2>1. \A d \in Cycles : agg[d] \notin Body
    BY <1>5 DEF Start, MayStart, OneCycle
  <2>2. /\ running' /\ aggregatorThread' = c
        /\ \A d \in Cycles : d # c => agg'[d] = agg[d]
    BY <1>0, <1>5 DEF Start
  <2> QED
    BY <2>1, <2>2 DEF OneCycle
<1>6. ASSUME NEW c \in Cycles, AggregatorStep(c) PROVE OneCycle'
  <2>1. CASE agg[c] \in Body /\ agg'[c] \in Body /\ UNCHANGED running
    BY <1>6, <2>1, StepsInBody DEF OneCycle
  <2>2. CASE agg[c] \in {"clock", "exiting"} /\ agg'[c] \notin Body
    <3>1. \A d \in Cycles : agg'[d] \in Body => d # c /\ agg[d] \in Body
      BY <1>6, <2>2, StepsInBody
    <3>2. CASE agg[c] = "clock"
      BY <3>1, <3>2 DEF OneCycle, Body, AggPC
    <3>3. CASE agg[c] = "exiting"
      BY <1>6, <3>1, <3>3, StepsInBody DEF OneCycle
    <3> QED
      BY <2>2, <3>2, <3>3
  <2> QED
    BY <1>6, <2>1, <2>2, StepsInBody DEF Body
<1>7. ASSUME NEW w \in Workers, WorkerStep(w) PROVE OneCycle'
  BY <1>7 DEF WorkerStep, WorkerDelivers, WorkerDecrement, WorkerSignal, WorkerExit,
              OneCycle, aggVars
<1> QED
  BY <1>1, <1>2, <1>3, <1>4, <1>5, <1>6, <1>7 DEF Next

LEMMA ShutdownStep ==
  LifecycleTypes /\ OneCycle /\ ShutdownSeesLast /\ [Next]_vars => ShutdownSeesLast'
<1> SUFFICES ASSUME LifecycleTypes, OneCycle, ShutdownSeesLast, [Next]_vars
             PROVE  ShutdownSeesLast'
  OBVIOUS
<1>0. /\ shutdownRequested \in BOOLEAN
      /\ agg \in [Cycles -> AggPC]
      /\ aggregatorThread \in Cycles \cup {0}
      /\ report \in [aggregator : {"none", "stopped", "timeout"},
                      workers : {"none", "stopped", "timeout"}]
  BY DEF LifecycleTypes, Flags, Fields
<1>1. CASE UNCHANGED vars
  BY <1>1 DEF vars, ShutdownSeesLast
<1>2. CASE StartRefused
  BY <1>2 DEF StartRefused, ShutdownSeesLast, aggVars, uiVars
<1>3. CASE ShutdownRequest
  <2>1. /\ shutdownRequested' /\ ui' # "free"
        /\ uiThread' = aggregatorThread
        /\ ui' = "waitAggregator" => uiThread' \in Cycles
        /\ UNCHANGED <<agg, report>>
    BY <1>0, <1>3 DEF ShutdownRequest, aggVars
  <2> QED
    BY <2>1 DEF ShutdownSeesLast, OneCycle
<1>4. CASE ShutdownAggregatorStopped
  <2>1. /\ shutdownRequested /\ ui' # "free" /\ ui' # "waitAggregator"
        /\ UNCHANGED <<shutdownRequested, agg, uiThread>>
        /\ agg[uiThread] = "exited"
    BY <1>4 DEF ShutdownAggregatorStopped, ShutdownSeesLast, aggVars
  <2>2. \A c \in Cycles : agg'[c] \notin Body
    BY <2>1 DEF ShutdownSeesLast, Body
  <2> QED
    BY <2>1, <2>2 DEF ShutdownSeesLast
<1>5. CASE ShutdownAggregatorTimeout \/ ShutdownIdle
  <2>1. /\ shutdownRequested /\ ui' # "free" /\ ui' # "waitAggregator"
        /\ UNCHANGED <<shutdownRequested, agg, uiThread>>
        /\ report'.aggregator \in {report.aggregator, "timeout"}
    BY <1>0, <1>5 DEF ShutdownAggregatorTimeout, ShutdownIdle, ShutdownSeesLast, aggVars
  <2> QED
    BY <2>1 DEF ShutdownSeesLast
<1>6. ASSUME NEW c \in Cycles, Start(c) PROVE ShutdownSeesLast'
  <2>1. ~shutdownRequested /\ UNCHANGED uiVars
    BY <1>6 DEF Start, MayStart
  <2> QED
    BY <2>1 DEF ShutdownSeesLast, uiVars
<1>7. ASSUME NEW c \in Cycles, AggregatorStep(c) PROVE ShutdownSeesLast'
  <2>1. \A d \in Cycles : agg'[d] \in Body => agg[d] \in Body
    BY <1>7, StepsInBody DEF Body
  <2>2. UNCHANGED uiVars
    BY <1>7, StepsInBody
  <2> QED
    BY <2>1, <2>2 DEF ShutdownSeesLast, uiVars
<1>8. ASSUME NEW w \in Workers, WorkerStep(w) PROVE ShutdownSeesLast'
  <2>1. UNCHANGED <<aggVars, uiVars>>
    BY <1>8 DEF WorkerStep, WorkerDelivers, WorkerDecrement, WorkerSignal, WorkerExit
  <2> QED
    BY <2>1 DEF ShutdownSeesLast, aggVars, uiVars
<1> QED
  BY <1>1, <1>2, <1>3, <1>4, <1>5, <1>6, <1>7, <1>8 DEF Next, UiStep

\* The UI thread touches neither the aggregators' own variables nor the workers'.
LEMMA UiLeavesThreads ==
  ASSUME StartRefused \/ ShutdownRequest \/ UiStep
  PROVE  UNCHANGED <<agg, todo, slot, ctx, worker, refs, snapshot, activeWorkers, idle>>
  BY DEF StartRefused, ShutdownRequest, UiStep, ShutdownAggregatorStopped,
         ShutdownAggregatorTimeout, ShutdownIdle, aggVars

LEMMA SpawnsStep == LifecycleTypes /\ SpawnsInOrder /\ [Next]_vars => SpawnsInOrder'
<1> SUFFICES ASSUME LifecycleTypes, SpawnsInOrder, [Next]_vars PROVE SpawnsInOrder'
  OBVIOUS
<1>0. /\ agg \in [Cycles -> AggPC]
      /\ todo \in [Cycles -> SUBSET Slots] /\ ctx \in [Cycles -> SUBSET Slots]
      /\ slot \in [Cycles -> Int]
      /\ worker \in [Workers -> WorkerPC]
  BY DEF LifecycleTypes, Fields
<1> USE <1>0, WorkersArePairs DEF SpawnsInOrder, Spawning
<1>1. CASE UNCHANGED vars
  BY <1>1 DEF vars
<1>2. CASE StartRefused \/ ShutdownRequest \/ UiStep
  BY <1>2, UiLeavesThreads
<1>3. ASSUME NEW c \in Cycles, Start(c) PROVE SpawnsInOrder'
  BY <1>3 DEF Start
<1>4. ASSUME NEW c \in Cycles, SpawnNext(c) PROVE SpawnsInOrder'
  <2>1. PICK s \in Slots : Takes(c, s)
    BY <1>4, SpawnTakes
  <2>2. CASE UNCHANGED <<slot, ctx, refs, activeWorkers, agg>>
    BY <2>1, <2>2 DEF Takes
  <2>3. CASE /\ slot' = [slot EXCEPT ![c] = s]
             /\ ctx' = [ctx EXCEPT ![c] = ctx[c] \cup {s}]
             /\ agg' = [agg EXCEPT ![c] = "reset"]
    BY <2>1, <2>3 DEF Takes
  <2> QED
    BY <2>1, <2>2, <2>3 DEF Takes
<1>5. ASSUME NEW c \in Cycles, SpawnReset(c) \/ SpawnFailed(c) PROVE SpawnsInOrder'
  BY <1>5 DEF SpawnReset, SpawnFailed, Goto
<1>6. ASSUME NEW c \in Cycles, SpawnCreate(c) PROVE SpawnsInOrder'
  BY <1>6 DEF SpawnCreate, Goto
<1>7. ASSUME NEW c \in Cycles, SpawnUndo(c) \/ SpawnUndoSignal(c) PROVE SpawnsInOrder'
  BY <1>7 DEF SpawnUndo, SpawnUndoSignal, Goto
<1>8. ASSUME NEW c \in Cycles, SpawnedAll(c) \/ WaitAll(c) \/ WaitExpired(c)
      PROVE  SpawnsInOrder'
  BY <1>8 DEF SpawnedAll, WaitAll, WaitExpired, Goto
<1>9. ASSUME NEW c \in Cycles, Harvest(c) \/ EndCycle(c) \/ ExitAggregator(c)
      PROVE  SpawnsInOrder'
  BY <1>9 DEF Harvest, EndCycle, ExitAggregator, Goto
<1>10. ASSUME NEW c \in Cycles, Release(c) PROVE SpawnsInOrder'
  BY <1>10 DEF Release, Goto
<1>11. ASSUME NEW w \in Workers, WorkerStep(w) PROVE SpawnsInOrder'
  <2>1. /\ worker[w] # "none" /\ worker'[w] # "none"
        /\ \A v \in Workers : v # w => worker'[v] = worker[v]
        /\ UNCHANGED aggVars
    BY <1>11 DEF WorkerStep, WorkerDelivers, WorkerDecrement, WorkerSignal, WorkerExit,
                 WorkerGoto
  <2> QED
    BY <2>1 DEF aggVars
<1> QED
  BY <1>1, <1>2, <1>3, <1>4, <1>5, <1>6, <1>7, <1>8, <1>9, <1>10, <1>11
     DEF Next, AggregatorStep

LEMMA RefsStep ==
  LifecycleTypes /\ SpawnsInOrder /\ RefsCountHolders /\ [Next]_vars => RefsCountHolders'
<1> SUFFICES ASSUME LifecycleTypes, SpawnsInOrder, RefsCountHolders, [Next]_vars
             PROVE  RefsCountHolders'
  OBVIOUS
<1>0. /\ agg \in [Cycles -> AggPC]
      /\ ctx \in [Cycles -> SUBSET Slots]
      /\ slot \in [Cycles -> Int]
      /\ worker \in [Workers -> WorkerPC]
      /\ refs \in [Workers -> Int]
  BY DEF LifecycleTypes, Fields
<1> USE <1>0, WorkersArePairs DEF RefsCountHolders
<1>1. CASE UNCHANGED vars
  BY <1>1 DEF vars
<1>2. CASE StartRefused \/ ShutdownRequest \/ UiStep
  BY <1>2, UiLeavesThreads
<1>3. ASSUME NEW c \in Cycles, Start(c) PROVE RefsCountHolders'
  BY <1>3 DEF Start
<1>4. ASSUME NEW c \in Cycles, SpawnNext(c) PROVE RefsCountHolders'
  <2>1. PICK s \in Slots : Takes(c, s)
    BY <1>4, SpawnTakes
  <2>2. CASE UNCHANGED <<slot, ctx, refs, activeWorkers, agg>>
    BY <2>1, <2>2 DEF Takes
  <2>3. CASE /\ slot' = [slot EXCEPT ![c] = s]
             /\ ctx' = [ctx EXCEPT ![c] = ctx[c] \cup {s}]
             /\ refs' = [refs EXCEPT ![<<c, s>>] = 2]
             /\ agg' = [agg EXCEPT ![c] = "reset"]
    <3>1. worker[<<c, s>>] = "none"
      BY <2>1 DEF SpawnsInOrder, Takes
    <3> QED
      BY <2>1, <2>3, <3>1 DEF Takes
  <2> QED
    BY <2>1, <2>2, <2>3 DEF Takes
<1>5. ASSUME NEW c \in Cycles, SpawnReset(c) PROVE RefsCountHolders'
  BY <1>5 DEF SpawnReset, Goto
<1>6. ASSUME NEW c \in Cycles, SpawnFailed(c) PROVE RefsCountHolders'
  <2>1. slot[c] \in Slots /\ slot[c] \in ctx[c] /\ worker[<<c, slot[c]>>] = "none"
    BY <1>6 DEF SpawnFailed, SpawnsInOrder, Spawning
  <2> QED
    BY <1>6, <2>1 DEF SpawnFailed, Goto
<1>7. ASSUME NEW c \in Cycles, SpawnCreate(c) PROVE RefsCountHolders'
  <2>1. slot[c] \in Slots /\ slot[c] \in ctx[c] /\ worker[<<c, slot[c]>>] = "none"
    BY <1>7 DEF SpawnCreate, SpawnsInOrder, Spawning
  <2> QED
    BY <1>7, <2>1 DEF SpawnCreate, Goto
<1>8. ASSUME NEW c \in Cycles, SpawnUndo(c) \/ SpawnUndoSignal(c) PROVE RefsCountHolders'
  BY <1>8 DEF SpawnUndo, SpawnUndoSignal, Goto
<1>9. ASSUME NEW c \in Cycles, SpawnedAll(c) \/ WaitAll(c) \/ WaitExpired(c)
      PROVE  RefsCountHolders'
  BY <1>9 DEF SpawnedAll, WaitAll, WaitExpired, Goto
<1>10. ASSUME NEW c \in Cycles, Harvest(c) \/ EndCycle(c) \/ ExitAggregator(c)
       PROVE  RefsCountHolders'
  BY <1>10 DEF Harvest, EndCycle, ExitAggregator, Goto
<1>11. ASSUME NEW c \in Cycles, Release(c) PROVE RefsCountHolders'
  BY <1>11 DEF Release, Goto
<1>12. ASSUME NEW w \in Workers, WorkerStep(w) PROVE RefsCountHolders'
  <2>1. CASE WorkerDelivers(w) \/ WorkerDecrement(w) \/ WorkerSignal(w)
    BY <2>1 DEF WorkerDelivers, WorkerDecrement, WorkerSignal, WorkerGoto, aggVars
  <2>2. CASE WorkerExit(w)
    <3>1. agg[w[1]] \in {"reset", "create"} => slot[w[1]] # w[2]
      BY <2>2 DEF WorkerExit, SpawnsInOrder, Spawning
    <3> QED
      BY <2>2, <3>1 DEF WorkerExit, WorkerGoto, aggVars
  <2> QED
    BY <1>12, <2>1, <2>2 DEF WorkerStep
<1> QED
  BY <1>1, <1>2, <1>3, <1>4, <1>5, <1>6, <1>7, <1>8, <1>9, <1>10, <1>11, <1>12
     DEF Next, AggregatorStep

LEMMA HarvestStep ==
  LifecycleTypes /\ SpawnsInOrder /\ NoTornHarvest /\ [Next]_vars => NoTornHarvest'
<1> SUFFICES ASSUME LifecycleTypes, SpawnsInOrder, NoTornHarvest, [Next]_vars
             PROVE  NoTornHarvest'
  OBVIOUS
<1>0. /\ worker \in [Workers -> WorkerPC]
      /\ snapshot \in [Workers -> {"none", "result", "failed"}]
  BY DEF LifecycleTypes, Fields
<1> USE <1>0, WorkersArePairs DEF NoTornHarvest
<1>1. CASE UNCHANGED <<snapshot, worker>>
  BY <1>1
<1>2. ASSUME NEW c \in Cycles, SpawnCreate(c) PROVE NoTornHarvest'
  <2>1. slot[c] \in Slots /\ worker[<<c, slot[c]>>] = "none"
    BY <1>2 DEF SpawnCreate, SpawnsInOrder, Spawning
  <2> QED
    BY <1>2, <2>1 DEF SpawnCreate
<1>3. ASSUME NEW c \in Cycles, Harvest(c) PROVE NoTornHarvest'
  BY <1>3 DEF Harvest, Done
<1>4. ASSUME NEW w \in Workers, WorkerStep(w) PROVE NoTornHarvest'
  BY <1>4 DEF WorkerStep, WorkerDelivers, WorkerDecrement, WorkerSignal, WorkerExit,
              WorkerGoto
<1>5. CASE UNCHANGED vars \/ StartRefused \/ ShutdownRequest \/ UiStep
  BY <1>1, <1>5, UiLeavesThreads DEF vars
<1>6. ASSUME NEW c \in Cycles, Start(c) \/ AggregatorStep(c), ~SpawnCreate(c), ~Harvest(c)
      PROVE  UNCHANGED <<snapshot, worker>>
  BY <1>6 DEF Start, AggregatorStep, SpawnNext, SpawnReset, SpawnFailed, SpawnUndo,
              SpawnUndoSignal, SpawnedAll, WaitAll, WaitExpired, Release, EndCycle,
              ExitAggregator
<1> QED
  BY <1>1, <1>2, <1>3, <1>4, <1>5, <1>6 DEF Next
-----------------------------------------------------------------------------
(***************************************************************************)
(* The count of the workers and the idle event.                            *)
(***************************************************************************)

\* What a step does to the count, and to the worker it counts.
Joins(w) ==
    /\ w \in Workers /\ w \notin Counted /\ Counted' = Counted \cup {w}
    /\ activeWorkers' = activeWorkers + 1

Leaves(w) ==
    /\ w \in Counted /\ Counted' = Counted \ {w}
    /\ activeWorkers' = activeWorkers - 1

SameCount == Counted' = Counted /\ activeWorkers' = activeWorkers

LEMMA CountSteps ==
  ASSUME LifecycleTypes, SpawnsInOrder, Next
  PROVE  /\ SameCount \/ \E w \in Workers : Joins(w) \/ Leaves(w)
         /\ \A c \in Cycles : SpawnReset(c) => Counted' # {}
<1>0. /\ agg \in [Cycles -> AggPC]
      /\ slot \in [Cycles -> Int]
      /\ worker \in [Workers -> WorkerPC]
      /\ activeWorkers \in Int
  BY DEF LifecycleTypes, Fields
<1> USE <1>0, WorkersArePairs
<1>1. ASSUME StartRefused \/ ShutdownRequest \/ UiStep PROVE SameCount
  BY <1>1, UiLeavesThreads DEF Counted, SameCount
<1>2. ASSUME NEW c \in Cycles, Start(c) PROVE SameCount
  BY <1>2 DEF Start, Counted, SameCount
<1>3. ASSUME NEW c \in Cycles, SpawnNext(c)
      PROVE  SameCount \/ \E w \in Workers : Joins(w)
  <2>1. PICK s \in Slots : Takes(c, s)
    BY <1>3, SpawnTakes
  <2>2. CASE UNCHANGED <<slot, ctx, refs, activeWorkers, agg>>
    BY <2>1, <2>2 DEF Takes, Counted, SameCount
  <2>3. CASE /\ slot' = [slot EXCEPT ![c] = s]
             /\ agg' = [agg EXCEPT ![c] = "reset"]
             /\ activeWorkers' = activeWorkers + 1
    <3>1. worker[<<c, s>>] = "none" /\ agg[c] = "next" /\ UNCHANGED worker
      BY <2>1 DEF SpawnsInOrder, Takes
    <3>2. <<c, s>> \notin Counted
      BY <3>1 DEF Counted
    <3>3. Counted' = Counted \cup {<<c, s>>}
      BY <2>3, <3>1 DEF Counted
    <3> QED
      BY <2>3, <3>2, <3>3 DEF Joins
  <2> QED
    BY <2>1, <2>2, <2>3 DEF Takes
<1>4. ASSUME NEW c \in Cycles, SpawnReset(c) PROVE SameCount /\ Counted' # {}
  <2>1. slot[c] \in Slots
    BY <1>4 DEF SpawnReset, SpawnsInOrder, Spawning
  <2>2. SameCount
    BY <1>4 DEF SpawnReset, Goto, Counted, SameCount
  <2>3. <<c, slot[c]>> \in Counted
    BY <1>4, <2>1 DEF SpawnReset, Counted
  <2> QED
    BY <2>2, <2>3 DEF SameCount
<1>5. ASSUME NEW c \in Cycles, SpawnFailed(c) PROVE SameCount
  BY <1>5 DEF SpawnFailed, Goto, Counted, SameCount
<1>6. ASSUME NEW c \in Cycles, SpawnCreate(c) PROVE SameCount
  <2>1. slot[c] \in Slots
    BY <1>6 DEF SpawnCreate, SpawnsInOrder, Spawning
  <2> QED
    BY <1>6, <2>1 DEF SpawnCreate, Goto, Counted, SameCount
<1>7. ASSUME NEW c \in Cycles, SpawnUndo(c) PROVE \E w \in Workers : Leaves(w)
  <2>1. slot[c] \in Slots /\ worker[<<c, slot[c]>>] = "none"
    BY <1>7 DEF SpawnUndo, SpawnsInOrder, Spawning
  <2>2. <<c, slot[c]>> \in Counted
    BY <1>7, <2>1 DEF SpawnUndo, Counted
  <2>3. Counted' = Counted \ {<<c, slot[c]>>}
    BY <1>7, <2>1 DEF SpawnUndo, Goto, Counted
  <2> QED
    BY <1>7, <2>1, <2>2, <2>3 DEF SpawnUndo, Leaves
<1>8. ASSUME NEW c \in Cycles,
             \/ SpawnUndoSignal(c) \/ SpawnedAll(c) \/ WaitAll(c) \/ WaitExpired(c)
             \/ Harvest(c) \/ Release(c) \/ EndCycle(c) \/ ExitAggregator(c)
      PROVE  SameCount
  <2>1. /\ agg[c] \notin Spawning /\ agg'[c] \notin Spawning
        /\ \A d \in Cycles : d # c => agg'[d] = agg[d]
        /\ UNCHANGED <<slot, worker, activeWorkers>>
    BY <1>8 DEF SpawnUndoSignal, SpawnedAll, WaitAll, WaitExpired, Harvest, Release,
                EndCycle, ExitAggregator, Goto, Spawning
  <2> QED
    BY <2>1 DEF Counted, Spawning, SameCount
<1>9. ASSUME NEW w \in Workers, WorkerStep(w)
      PROVE  SameCount \/ Leaves(w)
  <2>1. agg[w[1]] \in Spawning /\ slot[w[1]] = w[2] => worker[w] = "none"
    BY DEF SpawnsInOrder
  <2>2. CASE WorkerDelivers(w) \/ WorkerSignal(w) \/ WorkerExit(w)
    BY <2>2 DEF WorkerDelivers, WorkerSignal, WorkerExit, WorkerGoto, aggVars, Counted,
                SameCount
  <2>3. CASE WorkerDecrement(w)
    <3>1. w \in Counted
      BY <2>3 DEF WorkerDecrement, Counted
    <3>2. Counted' = Counted \ {w}
      BY <2>1, <2>3 DEF WorkerDecrement, WorkerGoto, aggVars, Counted, Spawning
    <3> QED
      BY <2>3, <3>1, <3>2 DEF WorkerDecrement, Leaves
  <2> QED
    BY <1>9, <2>2, <2>3 DEF WorkerStep
<1>10. SameCount \/ \E w \in Workers : Joins(w) \/ Leaves(w)
  <2>1. CASE \E c \in Cycles : AggregatorStep(c)
    <3>1. PICK c \in Cycles : AggregatorStep(c)
      BY <2>1
    <3> QED
      BY <3>1, <1>3, <1>4, <1>5, <1>6, <1>7, <1>8 DEF AggregatorStep
  <2> QED
    BY <2>1, <1>1, <1>2, <1>9 DEF Next
<1> QED
  BY <1>4, <1>10

LEMMA CountedAreFinite == IsFiniteSet(Counted) /\ Cardinality(Counted) \in Nat
<1>1. Counted \subseteq Workers
  BY DEF Counted
<1> QED
  BY <1>1, WorkersAreFinite, FS_Subset, FS_CardinalityType

LEMMA CountStep ==
  LifecycleTypes /\ SpawnsInOrder /\ CountIsExact /\ [Next]_vars => CountIsExact'
<1> SUFFICES ASSUME LifecycleTypes, SpawnsInOrder, CountIsExact, [Next]_vars
             PROVE  CountIsExact'
  OBVIOUS
<1>1. CASE UNCHANGED vars
  BY <1>1 DEF vars, CountIsExact, Counted
<1>2. CASE SameCount
  BY <1>2 DEF SameCount, CountIsExact
<1>3. ASSUME NEW w \in Workers, Joins(w) PROVE CountIsExact'
  <2>1. Cardinality(Counted \cup {w}) = Cardinality(Counted) + 1
    BY <1>3, CountedAreFinite, FS_AddElement DEF Joins
  <2> QED
    BY <1>3, <2>1 DEF Joins, CountIsExact
<1>4. ASSUME NEW w \in Workers, Leaves(w) PROVE CountIsExact'
  <2>1. Cardinality(Counted \ {w}) = Cardinality(Counted) - 1
    BY <1>4, CountedAreFinite, FS_RemoveElement DEF Leaves
  <2> QED
    BY <1>4, <2>1 DEF Leaves, CountIsExact
<1> QED
  BY <1>1, <1>2, <1>3, <1>4, CountSteps

\* Somebody has brought the count to zero and is yet to set the event.
SignalDue ==
    \/ \E w \in Workers : worker[w] = "signal"
    \/ \E c \in Cycles : agg[c] = "undoSignal"

\* What the steps do that neither bring the count down nor touch the event.
KeepsIdle ==
    /\ activeWorkers' \in {activeWorkers, activeWorkers + 1}
    /\ idle' = idle
    /\ SignalDue => SignalDue'

LEMMA IdleSteps ==
  ASSUME LifecycleTypes, SpawnsInOrder, Next
  PROVE  \/ KeepsIdle
         \/ activeWorkers' = activeWorkers - 1 /\ (activeWorkers = 1 => SignalDue')
         \/ idle'
         \/ \E c \in Cycles : SpawnReset(c)
<1>0. /\ agg \in [Cycles -> AggPC]
      /\ worker \in [Workers -> WorkerPC]
  BY DEF LifecycleTypes, Fields
<1> USE <1>0, WorkersArePairs
<1>1. CASE StartRefused \/ ShutdownRequest \/ UiStep
  BY <1>1, UiLeavesThreads DEF SignalDue, KeepsIdle
<1>2. ASSUME NEW c \in Cycles, Start(c) PROVE KeepsIdle
  BY <1>2 DEF Start, SignalDue, KeepsIdle
<1>3. ASSUME NEW c \in Cycles, SpawnNext(c) PROVE KeepsIdle
  <2>1. PICK s \in Slots : Takes(c, s)
    BY <1>3, SpawnTakes
  <2> QED
    BY <2>1 DEF Takes, SignalDue, KeepsIdle
<1>4. ASSUME NEW c \in Cycles, SpawnUndo(c)
      PROVE  activeWorkers' = activeWorkers - 1 /\ (activeWorkers = 1 => SignalDue')
  BY <1>4 DEF SpawnUndo, Goto, LastActive, SignalDue
<1>5. ASSUME NEW c \in Cycles, SpawnUndoSignal(c) PROVE idle'
  BY <1>5 DEF SpawnUndoSignal
<1>6. ASSUME NEW c \in Cycles, SpawnCreate(c) PROVE KeepsIdle
  <2>1. slot[c] \in Slots /\ worker[<<c, slot[c]>>] = "none"
    BY <1>6 DEF SpawnCreate, SpawnsInOrder, Spawning
  <2> QED
    BY <1>6, <2>1 DEF SpawnCreate, Goto, SignalDue, KeepsIdle
<1>7. ASSUME NEW c \in Cycles,
             \/ SpawnFailed(c) \/ SpawnedAll(c) \/ WaitAll(c) \/ WaitExpired(c)
             \/ Harvest(c) \/ Release(c) \/ EndCycle(c) \/ ExitAggregator(c)
      PROVE  KeepsIdle
  <2>1. /\ agg[c] # "undoSignal"
        /\ \A d \in Cycles : d # c => agg'[d] = agg[d]
        /\ UNCHANGED <<worker, activeWorkers, idle>>
    BY <1>7 DEF SpawnFailed, SpawnedAll, WaitAll, WaitExpired, Harvest, Release, EndCycle,
                ExitAggregator, Goto
  <2> QED
    BY <2>1 DEF SignalDue, KeepsIdle
<1>8. ASSUME NEW w \in Workers, WorkerDelivers(w) \/ WorkerExit(w) PROVE KeepsIdle
  BY <1>8 DEF WorkerDelivers, WorkerExit, WorkerGoto, aggVars, SignalDue, KeepsIdle
<1>9. ASSUME NEW w \in Workers, WorkerDecrement(w)
      PROVE  activeWorkers' = activeWorkers - 1 /\ (activeWorkers = 1 => SignalDue')
  BY <1>9 DEF WorkerDecrement, WorkerGoto, LastActive, SignalDue
<1>10. ASSUME NEW w \in Workers, WorkerSignal(w) PROVE idle'
  BY <1>10 DEF WorkerSignal
<1>11. CASE \E c \in Cycles : AggregatorStep(c)
  <2>1. PICK c \in Cycles : AggregatorStep(c)
    BY <1>11
  <2> QED
    BY <2>1, <1>3, <1>4, <1>5, <1>6, <1>7 DEF AggregatorStep
<1>12. CASE \E w \in Workers : WorkerStep(w)
  BY <1>12, <1>8, <1>9, <1>10 DEF WorkerStep
<1> QED
  BY <1>1, <1>2, <1>11, <1>12 DEF Next

LEMMA IdleStep ==
  /\ LifecycleTypes /\ SpawnsInOrder /\ CountIsExact /\ CountIsExact' /\ IdleNotLost
  /\ [Next]_vars
  => IdleNotLost'
<1> SUFFICES ASSUME LifecycleTypes, SpawnsInOrder, CountIsExact, CountIsExact', IdleNotLost,
                    [Next]_vars
             PROVE  IdleNotLost'
  OBVIOUS
<1>1. CASE UNCHANGED vars
  BY <1>1 DEF vars, IdleNotLost, Counted
<1>2. CASE Next
  <2> SUFFICES ASSUME Counted' = {}, ~SignalDue' PROVE idle'
    BY DEF IdleNotLost, SignalDue
  <2>1. activeWorkers \in Int /\ activeWorkers' = 0
    BY FS_EmptySet DEF CountIsExact, LifecycleTypes, Fields
  <2>2. \A c \in Cycles : ~SpawnReset(c)
    BY <1>2, CountSteps
  <2>3. CASE KeepsIdle
    <3>1. activeWorkers = 0
      <4>1. activeWorkers \in Nat
        BY CountedAreFinite DEF CountIsExact
      <4> QED
        BY <2>1, <2>3, <4>1 DEF KeepsIdle
    <3>2. Counted = {}
      BY <3>1, CountedAreFinite, FS_EmptySet DEF CountIsExact
    <3> QED
      BY <2>3, <3>2 DEF KeepsIdle, IdleNotLost, SignalDue
  <2>4. CASE activeWorkers' = activeWorkers - 1 /\ (activeWorkers = 1 => SignalDue')
    BY <2>1, <2>4
  <2> QED
    BY <1>2, <2>2, <2>3, <2>4, IdleSteps
<1> QED
  BY <1>1, <1>2
-----------------------------------------------------------------------------
(***************************************************************************)
(* The theorems.                                                           *)
(***************************************************************************)
LEMMA LifecycleInvStep == LifecycleInv /\ [Next]_vars => LifecycleInv'
<1> SUFFICES ASSUME LifecycleInv, [Next]_vars PROVE LifecycleInv'
  OBVIOUS
<1>1. /\ LifecycleTypes /\ OneCycle /\ SpawnsInOrder /\ RefsCountHolders
      /\ NoTornHarvest /\ CountIsExact /\ IdleNotLost /\ ShutdownSeesLast
  BY DEF LifecycleInv
<1>2. LifecycleTypes' /\ OneCycle' /\ ShutdownSeesLast'
  BY <1>1, TypesStep, OneCycleStep, ShutdownStep
<1>3. SpawnsInOrder' /\ RefsCountHolders' /\ NoTornHarvest'
  BY <1>1, SpawnsStep, RefsStep, HarvestStep
<1>4. CountIsExact'
  BY <1>1, CountStep
<1>5. IdleNotLost'
  BY <1>1, <1>4, IdleStep
<1> QED
  BY <1>2, <1>3, <1>4, <1>5 DEF LifecycleInv

\* The threads of the engine stay in order, whatever the scheduler, the network and the
\* user do.
THEOREM LifecycleStaysInOrder == Spec => []LifecycleInv
  BY InitLifecycle, LifecycleInvStep, PTL DEF Spec

\* Cycles never overlap: g_running is held by the one aggregator in its body, and its
\* thread is the one Ntp_Shutdown would wait for.
THEOREM CyclesDoNotOverlap == Spec => []OneCycle
<1>1. LifecycleInv => OneCycle
  BY DEF LifecycleInv
<1> QED
  BY <1>1, LifecycleStaysInOrder, PTL

\* A worker's context is freed exactly when its last holder, the aggregator or the
\* worker, detached or not, has dropped it.
THEOREM ContextsLiveWithHolders == Spec => []RefsCountHolders
<1>1. LifecycleInv => RefsCountHolders
  BY DEF LifecycleInv
<1> QED
  BY <1>1, LifecycleStaysInOrder, PTL

\* No slot is harvested while its worker may still be writing.
THEOREM HarvestIsOfTheFinished == Spec => []NoTornHarvest
<1>1. LifecycleInv => NoTornHarvest
  BY DEF LifecycleInv
<1> QED
  BY <1>1, LifecycleStaysInOrder, PTL

\* With nobody counted and nobody about to signal it, the event that shutdown waits for
\* is set.
THEOREM IdleIsSignalled == Spec => []IdleNotLost
<1>1. LifecycleInv => IdleNotLost
  BY DEF LifecycleInv
<1> QED
  BY <1>1, LifecycleStaysInOrder, PTL

\* Once shutdown has seen the aggregator stop, no cycle runs and none starts.
THEOREM NothingRunsAfterShutdown == Spec => []QuietAfterShutdown
<1>1. LifecycleInv => QuietAfterShutdown
  BY DEF LifecycleInv, ShutdownSeesLast, QuietAfterShutdown
<1> QED
  BY <1>1, LifecycleStaysInOrder, PTL
=============================================================================
