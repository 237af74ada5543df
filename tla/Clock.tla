------------------------------- MODULE Clock -------------------------------
(***************************************************************************)
(* The disciplined clock (src/src/clock.c): an anchor (a UTC reading at a  *)
(* QPC value), a drift rate, and the trust flags a display is derived      *)
(* from.  The actors are the poll-cycle thread, which classifies a cycle   *)
(* under g_cs, drops the lock, lays the anchor under g_cs and publishes OK *)
(* under g_cs again; any reader, whose derivation may clear the continuity *)
(* flag; the power-event hooks; and the machine: time passes, the          *)
(* oscillator drifts, QPC pauses while the machine sleeps.                 *)
(***************************************************************************)
EXTENDS Qpc

CONSTANTS
    PPM,                      \* the scale of a rate: 1000000 in the code
    RATE_CLAMP_PPM,
    PER_CYCLE_RATE_CLAMP_PPM,
    RATE_CLAMP_FULL_INTERVAL_MS,
    MIN_RATE_INTERVAL_MS,     \* 30000: a shorter interval measures no rate
    KI_DEN,
    RATE_EVIDENCE_MAX_MS,
    FAULT_THRESHOLD_MS,       \* 200: the largest disagreement accepted
    FAULT_EVIDENCE_FLOOR_MS,
    LOCAL_FAULT_ESCAPE_N,
    ANCHOR_ERR_DEFAULT_MS,
    CYCLE_STALE_AFTER_MS,
    CONTINUITY_TRIP_MIN_MS,
    CONTINUITY_TRIP_DIV,      \* 100: the tolerance is 1 % of the tick age
    STALE_RATE_MS,            \* 30 days: older persisted rates are dropped
    GEN_MOD                   \* display generations are 1 .. GEN_MOD

CONSTANTS
    StepMs,          \* how far time moves in one step of the awake machine
    Horizon,         \* bound: wall time stops here
    Drifts,          \* QPC ticks gained per StepMs, one chosen for a behaviour
    Pauses,          \* lengths of a sleep during which QPC stands still
    MaxPauses,       \* bound on the sleeps of a behaviour
    PauseInFlight,   \* may the machine sleep while a cycle is under way?
    Samples,         \* gate-passing verdicts: [off, err], the sample's true
                     \* error and its measured uncertainty anchorErrMs
    ClusterErrs,     \* true errors of an unauthenticated core cluster
    MaxInFlightMs,   \* bound: time by QPC from capture to the end of a cycle
    Files,           \* contents discipline.dat may have at the first start
    MaxRestarts,     \* bound on the restarts of the process
    PowerHooks       \* are Clock_OnContinuityBroken / Clock_TripInop called?

NoFile == [rate |-> 0, lastSync |-> 0]     \* as LoadDiscipline leaves it

ASSUME ClockConstants ==
    /\ QpcFreq \in Nat \ {0} /\ PPM \in Nat \ {0} /\ KI_DEN \in Nat \ {0}
    /\ RATE_CLAMP_PPM \in Nat /\ PER_CYCLE_RATE_CLAMP_PPM \in Nat \ {0}
    /\ RATE_CLAMP_FULL_INTERVAL_MS \in Nat \ {0}
    /\ MIN_RATE_INTERVAL_MS \in Nat /\ RATE_EVIDENCE_MAX_MS \in Nat
    /\ FAULT_THRESHOLD_MS \in Nat /\ FAULT_EVIDENCE_FLOOR_MS \in Nat
    /\ LOCAL_FAULT_ESCAPE_N \in Nat \ {0}
    /\ ANCHOR_ERR_DEFAULT_MS \in Nat \ {0}
    /\ CYCLE_STALE_AFTER_MS \in Nat /\ CONTINUITY_TRIP_MIN_MS \in Nat
    /\ CONTINUITY_TRIP_DIV \in Nat \ {0} /\ STALE_RATE_MS \in Nat
    /\ GEN_MOD \in Nat \ {0}
    /\ StepMs \in Nat \ {0} /\ Horizon \in Nat /\ MaxInFlightMs \in Nat
    /\ Drifts \subseteq Int /\ Pauses \subseteq Nat /\ MaxPauses \in Nat
    /\ Samples \subseteq [off : Int, err : Nat]
    /\ ClusterErrs \subseteq Int
    /\ Files \subseteq [rate : Int, lastSync : Int]
    /\ MaxRestarts \in Nat
    /\ PauseInFlight \in BOOLEAN /\ PowerHooks \in BOOLEAN

\* What an oscillator that gains d ticks counts in a step.
TicksPerStep(d) == (StepMs * QpcFreq) \div 1000 + d

\* QueryPerformanceCounter pauses, and runs fast or slow, but never runs back
\* (clock.h calls it monotonic).
ASSUME QpcIsMonotonic == \A d \in Drifts : TicksPerStep(d) >= 0

\* The clamp of the rate (200) is a small part of the scale (1000000).
ASSUME ClampIsSmall == 2 * RATE_CLAMP_PPM <= PPM

VARIABLES
    \* the machine
    wall,            \* true UTC, and GetTickCount64 (it counts across sleep)
    qpc,             \* QueryPerformanceCounter
    drift,
    pauses,
    \* the clock, all of it guarded by g_cs
    anchor,          \* [qpc, utc, tick, err]: g_anchor*, g_lastSync*, g_anchorErrMs
    ratePpm,
    haveSample,
    haveRate,
    trust,
    qpcContinuityOk,
    hardInop,
    faultInflateMs,
    faults,          \* g_consecutiveLocalFaults
    streak,          \* [sign, mag]: g_faultStreakSign, g_faultStreakMag
    generation,
    loaded,          \* [rate, lastSync]: what LoadDiscipline read
    \* the poll-cycle thread
    cycle,           \* [pc, utc, qpc, err]: where it is, and its sample
    \* discipline.dat
    disk,
    restarts

machine == <<wall, qpc, drift, pauses>>
rateVars == <<ratePpm, haveRate, loaded>>
flags == <<qpcContinuityOk, hardInop>>
faultVars == <<faults, streak>>
display == <<trust, faultInflateMs, generation>>
persist == <<disk, restarts>>
vars == <<machine, anchor, rateVars, haveSample, flags, faultVars, display,
          cycle, persist>>

\* The trust ladder, ordered by confidence.
INOP == 0
REACQUIRING == 1
HOLDOVER == 2
OK == 3

CyclePC == {"idle", "gated", "failed", "clustered", "witness", "accepted", "synced"}

NoAnchor == [qpc |-> 0, utc |-> 0, tick |-> 0, err |-> 0]
NoStreak == [sign |-> 0, mag |-> 0]
NoSample(pc, q) == [pc |-> pc, utc |-> 0, qpc |-> q, err |-> 0]
-----------------------------------------------------------------------------
(***************************************************************************)
(* Reading the clock.                                                      *)
(***************************************************************************)
\* UTC at a QPC value, from the anchor at the current rate.
Project(q) ==
    LET ms == QpcTicksToMs(q - anchor.qpc)
    IN  anchor.utc + ms + TruncDiv(ms * ratePpm, PPM)

\* The age of the anchor on the two timescales.
QpcAge  == NonNeg(QpcTicksToMs(qpc - anchor.qpc))
TickAge == NonNeg(wall - anchor.tick)

Tolerance == Larger(CONTINUITY_TRIP_MIN_MS, TickAge \div CONTINUITY_TRIP_DIV)

\* Mutant: the gap loses its absolute value.
SignedSplit == QpcAge - TickAge > Tolerance

\* The two ages disagree by more than the tolerance: QPC lost time.
TimescaleSplit == Abs(TickAge - QpcAge) > Tolerance

\* The state a read taken now reports.
DisplayState ==
    IF ~haveSample \/ hardInop THEN INOP
    ELSE IF ~qpcContinuityOk \/ TimescaleSplit THEN REACQUIRING
    ELSE IF trust > HOLDOVER /\ wall - anchor.tick <= CYCLE_STALE_AFTER_MS THEN trust
    ELSE HOLDOVER

BaseMs == IF anchor.err > 0 THEN anchor.err ELSE ANCHOR_ERR_DEFAULT_MS

\* Mutant: the allowance for drift since the anchor is forgotten.
NoGrowth == 0

\* The worst drift since the anchor, by the larger of the two ages.
GrowthMs == (Larger(QpcAge, TickAge) * RATE_CLAMP_PPM) \div PPM

\* The error bound it reports: the anchor's own uncertainty and the worst
\* drift since, floored by any disagreement the network reported.
BoundMs ==
    IF faultInflateMs > 0
    THEN Larger(BaseMs + GrowthMs, faultInflateMs + BaseMs)
    ELSE BaseMs + GrowthMs

Running == DisplayState >= HOLDOVER

NextGeneration(g) == (g % GEN_MOD) + 1
-----------------------------------------------------------------------------
(***************************************************************************)
(* Start and restart of the process.                                       *)
(***************************************************************************)

\* LoadDiscipline: the rate is clamped, the time of the save kept.
Load(file) == [rate |-> Clamp(file.rate, RATE_CLAMP_PPM), lastSync |-> file.lastSync]

Init ==
    /\ wall = 0 /\ qpc = 0 /\ drift \in Drifts /\ pauses = 0
    /\ disk \in Files /\ restarts = 0
    /\ loaded = Load(disk)
    /\ anchor = NoAnchor /\ ratePpm = 0 /\ haveSample = FALSE /\ haveRate = FALSE
    /\ trust = INOP /\ qpcContinuityOk = TRUE /\ hardInop = FALSE
    /\ faultInflateMs = 0 /\ faults = 0 /\ streak = NoStreak
    /\ generation = NextGeneration(1)
    /\ cycle = NoSample("idle", -1)

\* Clock_Shutdown: persist the rate if there is one.  The process may live on
\* for a while: the write is atomic, and a kill before it leaves the old file.
Shutdown ==
    /\ haveRate
    /\ disk' = [rate |-> ratePpm, lastSync |-> anchor.utc]
    /\ UNCHANGED <<machine, anchor, rateVars, haveSample, flags, faultVars,
                   display, cycle, restarts>>

\* The process ends, at any point of a cycle, and Clock_Init runs again.
Restart ==
    /\ restarts < MaxRestarts
    /\ restarts' = restarts + 1
    /\ loaded' = Load(disk)
    /\ anchor' = NoAnchor /\ ratePpm' = 0 /\ haveSample' = FALSE /\ haveRate' = FALSE
    /\ trust' = INOP /\ qpcContinuityOk' = TRUE /\ hardInop' = FALSE
    /\ faultInflateMs' = 0 /\ faults' = 0 /\ streak' = NoStreak
    /\ generation' = NextGeneration(1)
    /\ cycle' = NoSample("idle", qpc)
    /\ UNCHANGED <<machine, disk>>
-----------------------------------------------------------------------------
(***************************************************************************)
(* The machine.  The UI reads the display five times a second, so a split  *)
(* of the timescales is latched (ReadDisplay) before time moves on.        *)
(***************************************************************************)
Advance ==
    /\ wall + StepMs <= Horizon
    /\ haveSample /\ ~hardInop /\ qpcContinuityOk => ~TimescaleSplit
    /\ wall' = wall + StepMs
    /\ qpc' = qpc + TicksPerStep(drift)
    /\ cycle.pc # "idle" => QpcTicksToMs(qpc' - cycle.qpc) <= MaxInFlightMs
    /\ UNCHANGED <<drift, pauses, anchor, rateVars, haveSample, flags,
                   faultVars, display, cycle, persist>>

\* A sleep during which QPC pauses; GetTickCount64 counts on.
Sleep(p) ==
    /\ wall + p <= Horizon
    /\ pauses < MaxPauses
    /\ cycle.pc = "idle" \/ PauseInFlight
    /\ haveSample /\ ~hardInop /\ qpcContinuityOk => ~TimescaleSplit
    /\ wall' = wall + p
    /\ pauses' = pauses + 1
    /\ UNCHANGED <<qpc, drift, anchor, rateVars, haveSample, flags, faultVars,
                   display, cycle, persist>>

\* DeriveDisplayLocked in any reader: the one write a read can make.
ReadDisplay ==
    /\ haveSample /\ ~hardInop /\ qpcContinuityOk
    /\ TimescaleSplit
    /\ qpcContinuityOk' = FALSE
    /\ UNCHANGED <<machine, anchor, rateVars, haveSample, hardInop, faultVars,
                   display, cycle, persist>>
-----------------------------------------------------------------------------
(***************************************************************************)
(* The poll cycle.  Its sample is captured at one instant; the cycle then  *)
(* waits for its other slots, so every later step may find the clock in a  *)
(* different state.  Cycles are serial (one aggregator).                   *)
(***************************************************************************)

\* At most one cycle for a value of QPC, except once time stands still.
MayStartCycle == cycle.pc = "idle" /\ (cycle.qpc # qpc \/ wall + StepMs > Horizon)

\* The gate passed: two authenticated anchors, true UTC within off.
CaptureGated(s) ==
    /\ MayStartCycle
    /\ cycle' = [pc |-> "gated", utc |-> wall + s.off, qpc |-> qpc, err |-> s.err]
    /\ UNCHANGED <<machine, anchor, rateVars, haveSample, flags, faultVars,
                   display, persist>>

\* The gate failed and the core sources do not cluster.
CaptureFailed ==
    /\ MayStartCycle
    /\ cycle' = NoSample("failed", qpc)
    /\ UNCHANGED <<machine, anchor, rateVars, haveSample, flags, faultVars,
                   display, persist>>

\* The gate failed, but the unauthenticated core sources cluster tightly.
CaptureClustered(e) ==
    /\ MayStartCycle
    /\ cycle' = [pc |-> "clustered", utc |-> wall + e, qpc |-> qpc, err |-> 0]
    /\ UNCHANGED <<machine, anchor, rateVars, haveSample, flags, faultVars,
                   display, persist>>

\* Mutant: no anchor is needed to fall back on one.
HeldAnchorUnchecked == qpcContinuityOk

\* An anchor is held, and the timescale it was laid on still runs.
HeldAnchor == haveSample /\ qpcContinuityOk

\* How far the sample in hand is from the running projection.
Residual == cycle.utc - Project(cycle.qpc)

ToHoldover ==
    IF trust = HOLDOVER
    THEN UNCHANGED <<trust, generation>>
    ELSE trust' = HOLDOVER /\ generation' = NextGeneration(generation)

Accepting ==
    /\ cycle' = [cycle EXCEPT !.pc = "accepted"]
    /\ faults' = 0
    /\ streak' = [streak EXCEPT !.sign = 0]
    /\ UNCHANGED display

\* Mutant: the bound is inflated under the tier last published.
FaultHoldUnpublished ==
    /\ faultInflateMs' = Abs(Residual)
    /\ UNCHANGED <<trust, generation>>
    /\ cycle' = [cycle EXCEPT !.pc = "idle"]

\* Publish holdover, the bound floored by the disagreement.
FaultHold ==
    /\ faultInflateMs' = Abs(Residual)
    /\ ToHoldover
    /\ cycle' = [cycle EXCEPT !.pc = "idle"]

\* The sample's own uncertainty covers the disagreement: no evidence.
Uncertain == Abs(Residual) <= Larger(cycle.err, FAULT_EVIDENCE_FLOOR_MS)

SignOf(n) == IF n < 0 THEN -1 ELSE 1

\* Mutant: a sign flip does not end the streak.
ConsistentUnsigned ==
    /\ Abs(Residual) * 2 >= streak.mag
    /\ Abs(Residual) <= streak.mag * 2

\* Mutant: a disagreement that jitters is not the same one.
ConsistentExactly == SignOf(Residual) = streak.sign /\ Abs(Residual) = streak.mag

\* Does the disagreement continue the streak (same sign, within a factor two
\* of the first)?
Consistent ==
    /\ SignOf(Residual) = streak.sign
    /\ Abs(Residual) * 2 >= streak.mag
    /\ Abs(Residual) <= streak.mag * 2

\* The length of the streak with this disagreement counted.
CountedFaults == IF Consistent THEN faults + 1 ELSE 1

NewStreak ==
    IF faults > 0 /\ Consistent
    THEN streak
    ELSE [sign |-> SignOf(Residual), mag |-> Abs(Residual)]

\* Mutant: one disagreement too many is tolerated.
EscapeLate(count) == count > LOCAL_FAULT_ESCAPE_N

EscapeDue(count) == count >= LOCAL_FAULT_ESCAPE_N

\* Clock_OnPollCycle with TRUST_OK, phase 1: classify under the lock.
ClassifyFirst ==          \* nothing to cross-check against
    /\ ~HeldAnchor
    /\ Accepting

ClassifyAgreeing ==
    /\ HeldAnchor
    /\ Abs(Residual) <= FAULT_THRESHOLD_MS
    /\ Accepting

ClassifyUncertain ==
    /\ HeldAnchor
    /\ Abs(Residual) > FAULT_THRESHOLD_MS
    /\ Uncertain
    /\ FaultHold
    /\ UNCHANGED faultVars

ClassifyFault ==          \* counted; the N-th snaps the clock to the consensus
    /\ HeldAnchor
    /\ Abs(Residual) > FAULT_THRESHOLD_MS
    /\ ~Uncertain
    /\ LET count == IF faults > 0 THEN CountedFaults ELSE 1
       IN  IF EscapeDue(count)
           THEN /\ cycle' = [cycle EXCEPT !.pc = "accepted"]
                /\ faults' = 0
                /\ streak' = [NewStreak EXCEPT !.sign = 0]
                /\ UNCHANGED display
           ELSE /\ faults' = count
                /\ streak' = NewStreak
                /\ FaultHold

ClassifyGated ==
    /\ cycle.pc = "gated"
    /\ ClassifyFirst \/ ClassifyAgreeing \/ ClassifyUncertain \/ ClassifyFault
    /\ UNCHANGED <<machine, anchor, rateVars, haveSample, flags, persist>>

\* Clock_OnPollCycle with TRUST_INOP: holdover on the held anchor, if any.
ClassifyFailed ==
    /\ cycle.pc \in {"failed", "clustered"}
    /\ IF HeldAnchor THEN ToHoldover ELSE UNCHANGED <<trust, generation>>
    /\ cycle' = [cycle EXCEPT !.pc = IF @ = "clustered" THEN "witness" ELSE "idle"]
    /\ UNCHANGED <<machine, anchor, rateVars, haveSample, flags, faultVars,
                   faultInflateMs, persist>>

\* Mutant: a cluster may narrow what a wider disagreement inflated.
WitnessReplaces == HeldAnchor /\ Abs(Residual) > FAULT_THRESHOLD_MS

WitnessWidens ==
    /\ HeldAnchor
    /\ Abs(Residual) > FAULT_THRESHOLD_MS
    /\ Abs(Residual) > faultInflateMs

\* Clock_OnCoreWitness: the cluster may widen the bound, nothing else.
CoreWitness ==
    /\ cycle.pc = "witness"
    /\ IF WitnessWidens
       THEN /\ faultInflateMs' = Abs(Residual)
            /\ IF trust > HOLDOVER THEN ToHoldover ELSE UNCHANGED <<trust, generation>>
       ELSE UNCHANGED display
    /\ cycle' = [cycle EXCEPT !.pc = "idle"]
    /\ UNCHANGED <<machine, anchor, rateVars, haveSample, flags, faultVars,
                   persist>>
-----------------------------------------------------------------------------
(***************************************************************************)
(* Clock_OnSyncedNtpUtc: lay the anchor.  The uncertainty is staged in     *)
(* g_pendingAnchorErrMs by the same thread just before; it is cycle.err.   *)
(***************************************************************************)

\* Mutant: the tick of the anchor is that of the call.
CallTick == wall

\* GetTickCount64 back-dated to the capture of the sample, by its QPC age.
CaptureTick == wall - NonNeg(QpcTicksToMs(qpc - cycle.qpc))

FirstRate ==
    IF loaded.lastSync > 0 /\ cycle.utc - loaded.lastSync > STALE_RATE_MS
    THEN 0
    ELSE loaded.rate

\* The integral step of the rate loop over an interval of elap ms.
RateClamp(elap) ==
    Smaller(PER_CYCLE_RATE_CLAMP_PPM,
            Larger(1, (PER_CYCLE_RATE_CLAMP_PPM * elap
                         + RATE_CLAMP_FULL_INTERVAL_MS \div 2)
                      \div RATE_CLAMP_FULL_INTERVAL_MS))

SteeredRate(elap) ==
    LET observed == TruncDiv(Residual * PPM, elap)
        delta    == Clamp(TruncDiv(observed, KI_DEN), RateClamp(elap))
    IN  Clamp(ratePpm + delta, RATE_CLAMP_PPM)

\* After a break the rate is held: the residual means nothing.
Reanchor ==
    /\ haveSample /\ ~HeldAnchor
    /\ UNCHANGED rateVars

FirstAnchor ==
    /\ ~haveSample
    /\ loaded' = [loaded EXCEPT !.rate = FirstRate]
    /\ ratePpm' = FirstRate
    /\ haveRate' = (FirstRate # 0)

Subsequent ==
    /\ HeldAnchor
    /\ LET elap == QpcTicksToMs(cycle.qpc - anchor.qpc)
       IN  IF elap > MIN_RATE_INTERVAL_MS /\ cycle.err <= RATE_EVIDENCE_MAX_MS
           THEN ratePpm' = SteeredRate(elap) /\ haveRate' = TRUE
           ELSE UNCHANGED <<ratePpm, haveRate>>
    /\ UNCHANGED loaded

LayAnchor ==
    /\ cycle.pc = "accepted"
    /\ Reanchor \/ FirstAnchor \/ Subsequent
    /\ haveSample' = TRUE
    /\ qpcContinuityOk' = TRUE
    /\ anchor' = [qpc  |-> cycle.qpc, utc |-> cycle.utc, tick |-> CaptureTick,
                  err  |-> IF cycle.err > 0 THEN cycle.err ELSE ANCHOR_ERR_DEFAULT_MS]
    /\ hardInop' = FALSE
    /\ faultInflateMs' = 0
    /\ generation' = NextGeneration(generation)
    /\ cycle' = [cycle EXCEPT !.pc = "synced"]
    /\ UNCHANGED <<machine, faultVars, trust, persist>>

\* The last lock section of Clock_OnPollCycle: publish OK.
PublishOk ==
    /\ cycle.pc = "synced"
    /\ trust' = OK
    /\ generation' = IF trust = OK THEN generation ELSE NextGeneration(generation)
    /\ cycle' = [cycle EXCEPT !.pc = "idle"]
    /\ UNCHANGED <<machine, anchor, rateVars, haveSample, flags, faultVars,
                   faultInflateMs, persist>>
-----------------------------------------------------------------------------
(***************************************************************************)
(* The power-event and fault hooks: exported by clock.h, called by nothing *)
(* in the program (PowerHooks = FALSE is the program as built).            *)
(***************************************************************************)
OnContinuityBroken ==
    /\ PowerHooks
    /\ faults' = 0
    /\ qpcContinuityOk' = FALSE
    /\ generation' = IF qpcContinuityOk THEN NextGeneration(generation) ELSE generation
    /\ UNCHANGED <<machine, anchor, rateVars, haveSample, hardInop, streak, trust,
                   faultInflateMs, cycle, persist>>

TripInop ==
    /\ PowerHooks
    /\ ~hardInop
    /\ hardInop' = TRUE
    /\ generation' = NextGeneration(generation)
    /\ UNCHANGED <<machine, anchor, rateVars, haveSample, qpcContinuityOk, faultVars,
                   trust, faultInflateMs, cycle, persist>>
-----------------------------------------------------------------------------
Capture ==
    \/ \E s \in Samples : CaptureGated(s)
    \/ CaptureFailed
    \/ \E e \in ClusterErrs : CaptureClustered(e)

FinishCycle ==
    ClassifyGated \/ ClassifyFailed \/ CoreWitness \/ LayAnchor \/ PublishOk

Next ==
    \/ Advance
    \/ \E p \in Pauses : Sleep(p)
    \/ ReadDisplay
    \/ Capture
    \/ FinishCycle
    \/ OnContinuityBroken
    \/ TripInop
    \/ Shutdown
    \/ Restart

Spec == Init /\ [][Next]_vars

\* What the scheduling of the threads justifies: a started cycle runs to its
\* end, readers keep reading, time passes; and, of the network, that gate-
\* passing cycles keep coming.
Fairness ==
    /\ WF_vars(FinishCycle)
    /\ WF_vars(ReadDisplay)
    /\ WF_vars(Advance)
    /\ SF_vars(\E s \in Samples : CaptureGated(s))

FairSpec == Spec /\ Fairness
-----------------------------------------------------------------------------
(***************************************************************************)
(* Properties.                                                             *)
(***************************************************************************)

\* Every variable has its type; the rate and the fault count keep within the
\* limits clock.c gives them at every step of the poll cycle.
TypeOK ==
    /\ wall \in Nat /\ qpc \in Int /\ drift \in Drifts /\ pauses \in 0..MaxPauses
    /\ anchor \in [qpc : Int, utc : Int, tick : Int, err : Nat]
    /\ ratePpm \in -RATE_CLAMP_PPM .. RATE_CLAMP_PPM
    /\ loaded \in [rate : -RATE_CLAMP_PPM .. RATE_CLAMP_PPM, lastSync : Int]
    /\ haveSample \in BOOLEAN /\ haveRate \in BOOLEAN
    /\ trust \in {INOP, HOLDOVER, OK}
    /\ qpcContinuityOk \in BOOLEAN /\ hardInop \in BOOLEAN
    /\ faultInflateMs \in Nat
    /\ faults \in 0 .. LOCAL_FAULT_ESCAPE_N - 1
    /\ streak \in [sign : {-1, 0, 1}, mag : Nat]
    /\ generation \in 1..GEN_MOD
    /\ cycle \in [pc : CyclePC, utc : Int, qpc : Int, err : Nat]
    /\ disk \in [rate : Int, lastSync : Int]
    /\ restarts \in 0..MaxRestarts

\* What the rate in use makes of the ticks of a step differs from the time that
\* passed by no more than the allowance the bound grows by.
RateDefensible ==
    LET ticks == 1000 * TicksPerStep(drift)
    IN  Abs(ticks * (PPM + ratePpm) - StepMs * QpcFreq * PPM) <= RATE_CLAMP_PPM * ticks

\* Rounding of ticks to milliseconds and truncation of the rate and of the
\* bound cost at most this much together.
RoundingMs == 2

\* What HonestBound asks of the samples: none is further off than it confesses,
\* or than the floor when its uncertainty was not measured.  Exchange and Concur
\* are about this.
ConfessedMs(err) == IF err > 0 THEN err ELSE ANCHOR_ERR_DEFAULT_MS

SamplesWithinError == \A s \in Samples : Abs(s.off) <= ConfessedMs(s.err)

\* And of the machine: a pause of QPC exceeds the tolerance, which grows with the
\* age of the anchor, by as much as the drift before may have hidden.
ToleranceAtMost ==
    Larger(CONTINUITY_TRIP_MIN_MS, (Horizon + MaxInFlightMs) \div CONTINUITY_TRIP_DIV)

PausesAreNoticed == \A p \in Pauses : p > 2 * ToleranceAtMost

\* What OkIsFresh asks of the oscillator: while a cycle is under way it gains or
\* loses less than two milliseconds.
CyclesKeepTime ==
    \A d \in Drifts :
        Abs(1000 * TicksPerStep(d) - StepMs * QpcFreq) * (MaxInFlightMs + 1)
          <= 2000 * TicksPerStep(d)

\* clock.h calls boundMs the honest worst-case display error bound: whenever a
\* running time is shown, true UTC lies within the bound of it, whatever cycles
\* were accepted, held or escaped before.
HonestBound ==
    Running /\ RateDefensible => Abs(Project(qpc) - wall) <= BoundMs + RoundingMs

\* An OK display rests on a sample captured, in true time, no longer ago than
\* the staleness window: the wait between capture and anchor does not hide.
OkIsFresh ==
    DisplayState = OK =>
        wall - anchor.utc <= CYCLE_STALE_AFTER_MS + anchor.err + RoundingMs

\* A published OK never coexists with a disagreement the network reported:
\* the inflated bound belongs to holdover, across all the lock sections.
OkNeverInflated == trust = OK => faultInflateMs = 0

\* The published tier is meaningful only with an anchor, and a cycle that has
\* laid its anchor but not yet published has one nothing has inflated.
PublishedTierHasAnchor ==
    /\ trust # INOP => haveSample
    /\ cycle.pc = "synced" => haveSample /\ faultInflateMs = 0

\* The samples of a calm network: none confesses more than the evidence floor,
\* none strays from true UTC by more than a quarter of the fault threshold.
CalmSamples ==
    {s \in Samples : s.err <= FAULT_EVIDENCE_FLOOR_MS /\ 4 * Abs(s.off) <= FAULT_THRESHOLD_MS}

Calm == <>[][\A s \in Samples \ CalmSamples : ~CaptureGated(s)]_vars

\* A wrong anchor is escaped.  Once the network is calm and gate-passing cycles
\* keep coming, the display is OK again and again, although the samples jitter:
\* neither a break, nor a wrong anchor, nor witnesses and failed cycles in between
\* lock it out, nor do calm samples restart the streak for ever.  (Against a wrong
\* anchor they disagree by more than the threshold, so jitter of a quarter of it
\* keeps them within the factor two.  Samples that jitter by more may restart the
\* streak in every cycle, and the clock stays in holdover.)
AlwaysRecovers == Calm => []<>(DisplayState = OK)

\* What a reader is shown, as TrustLadder.tla speaks of it: a bound goes with a
\* running time only, and a gate-passing cycle is acted upon until it has
\* published.
ShownBound == IF Running THEN BoundMs ELSE 0

ActingOn == cycle.pc \in {"gated", "accepted", "synced"}

Ladder == INSTANCE TrustLadder
    WITH tier <- DisplayState, bound <- ShownBound, cycling <- ActingOn

\* The trust ladder of clock.h, as TrustLadder.tla states it: only a step of a
\* gate-passing cycle climbs a tier or tightens the bound, and none of them
\* blanks a running display; reads, time, failed cycles, witnesses, sleeps,
\* hooks and restarts only weaken.
ClimbsOnlyOnEvidence == Ladder!Spec
=============================================================================
