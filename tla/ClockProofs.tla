---------------------------- MODULE ClockProofs ----------------------------
(***************************************************************************)
(* Theorems about Clock, for every value of its constants: type            *)
(* correctness, that a published tier and the inflation of the bound agree *)
(* across the three lock sections of a poll cycle, that the clock          *)
(* implements the trust ladder it promises its readers, that its bound is  *)
(* honest and an OK fresh, and that a step of the time rests on evidence.  *)
(***************************************************************************)
EXTENDS ClockEvidence, CArithTheorems

\* The inductive invariant.  OkNeverInflated alone is not inductive: PublishOk
\* needs to know that nothing inflated the bound since LayAnchor, which is the
\* second half of PublishedTierHasAnchor.
IInv == TypeOK /\ OkNeverInflated /\ PublishedTierHasAnchor

USE ClockConstants DEF CyclePC, INOP, REACQUIRING, HOLDOVER, OK
-----------------------------------------------------------------------------
(***************************************************************************)
(* What the operators of Clock return in a state of the right type.        *)
(***************************************************************************)

\* Ticks become an integral number of milliseconds.
LEMMA QpcTicksToMsInt == ASSUME NEW t \in Int PROVE QpcTicksToMs(t) \in Int
  BY RoundDivInt DEF QpcTicksToMs

\* A projection of the clock is an integral UTC.
LEMMA ProjectInt == ASSUME TypeOK, NEW q \in Int PROVE Project(q) \in Int
<1>1. QpcTicksToMs(q - anchor.qpc) \in Int
  BY QpcTicksToMsInt DEF TypeOK
<1>2. TruncDiv(QpcTicksToMs(q - anchor.qpc) * ratePpm, PPM) \in Int
  BY <1>1, TruncDivInt DEF TypeOK
<1> QED
  BY <1>1, <1>2 DEF Project, TypeOK

\* The disagreement of the sample in hand is an integer, its size a natural.
LEMMA ResidualInt == ASSUME TypeOK PROVE Residual \in Int /\ Abs(Residual) \in Nat
<1>1. Residual \in Int
  BY ProjectInt DEF Residual, TypeOK
<1> QED
  BY <1>1, AbsNat

\* A generation is followed by a generation.
LEMMA NextGenerationType ==
  ASSUME NEW g \in 1..GEN_MOD PROVE NextGeneration(g) \in 1..GEN_MOD
  BY DEF NextGeneration

\* Whatever discipline.dat holds, the rate loaded is within the clamp.
LEMMA LoadType ==
  ASSUME NEW file \in [rate : Int, lastSync : Int]
  PROVE  Load(file) \in [rate : -RATE_CLAMP_PPM .. RATE_CLAMP_PPM, lastSync : Int]
  BY ClampRange DEF Load

\* Whatever the residual, the steered rate is within the clamp.
LEMMA SteeredRateType ==
  ASSUME TypeOK, NEW elap \in Nat \ {0}
  PROVE  SteeredRate(elap) \in -RATE_CLAMP_PPM .. RATE_CLAMP_PPM
<1> DEFINE observed == TruncDiv(Residual * PPM, elap)
           steps == TruncDiv(observed, KI_DEN)
           limit == RateClamp(elap)
<1>1. observed \in Int
  BY ResidualInt, TruncDivInt
<1>2. steps \in Int
  BY <1>1, TruncDivInt
<1>3. limit \in Nat
  <2> DEFINE scaled == (PER_CYCLE_RATE_CLAMP_PPM * elap + RATE_CLAMP_FULL_INTERVAL_MS \div 2)
                         \div RATE_CLAMP_FULL_INTERVAL_MS
  <2>1. scaled \in Int
    OBVIOUS
  <2>2. Larger(1, scaled) \in Nat
    BY <2>1, LargerInt
  <2> QED
    BY <2>2, SmallerInt DEF RateClamp
<1>4. Clamp(steps, limit) \in Int
  BY <1>2, <1>3, ClampRange
<1>5. ratePpm + Clamp(steps, limit) \in Int
  BY <1>4 DEF TypeOK
<1>6. Clamp(ratePpm + Clamp(steps, limit), RATE_CLAMP_PPM) \in -RATE_CLAMP_PPM .. RATE_CLAMP_PPM
  BY <1>5, ClampRange
<1> QED
  BY <1>6 DEF SteeredRate

\* A new streak has a sign and a size.
LEMMA NewStreakType ==
  ASSUME TypeOK PROVE NewStreak \in [sign : {-1, 0, 1}, mag : Nat]
  BY ResidualInt DEF NewStreak, SignOf, TypeOK
-----------------------------------------------------------------------------
(***************************************************************************)
(* The inductive invariant.                                                *)
(***************************************************************************)

\* A process that starts, or starts again, satisfies the invariant.
LEMMA InitIInv == Init => IInv
<1> SUFFICES ASSUME Init PROVE IInv
  OBVIOUS
<1>1. loaded \in [rate : -RATE_CLAMP_PPM .. RATE_CLAMP_PPM, lastSync : Int]
  BY LoadType DEF Init
<1>2. NextGeneration(1) \in 1..GEN_MOD
  BY NextGenerationType
<1>3. /\ anchor \in [qpc : Int, utc : Int, tick : Int, err : Nat]
      /\ streak \in [sign : {-1, 0, 1}, mag : Nat]
      /\ cycle \in [pc : CyclePC, utc : Int, qpc : Int, err : Nat]
  BY DEF Init, NoAnchor, NoStreak, NoSample
<1>4. TypeOK
  <2>1. wall \in Nat /\ qpc \in Int /\ drift \in Drifts /\ pauses \in 0..MaxPauses
    BY DEF Init
  <2>2. ratePpm \in -RATE_CLAMP_PPM .. RATE_CLAMP_PPM
    BY DEF Init
  <2>3. haveSample \in BOOLEAN /\ haveRate \in BOOLEAN /\ qpcContinuityOk \in BOOLEAN /\ hardInop \in BOOLEAN
    BY DEF Init
  <2>4. faultInflateMs \in Nat /\ faults \in 0 .. LOCAL_FAULT_ESCAPE_N - 1 /\ trust \in {INOP, HOLDOVER, OK}
    BY DEF Init
  <2>5. disk \in [rate : Int, lastSync : Int] /\ restarts \in 0..MaxRestarts
    BY DEF Init
  <2>6. generation \in 1..GEN_MOD
    BY <1>2 DEF Init
  <2> QED
    BY <1>1, <1>3, <2>1, <2>2, <2>3, <2>4, <2>5, <2>6 DEF TypeOK
<1>5. OkNeverInflated /\ PublishedTierHasAnchor
  BY DEF Init, OkNeverInflated, PublishedTierHasAnchor, NoSample
<1> QED
  BY <1>4, <1>5 DEF IInv

\* Time, sleeps and reads leave the published tier, the bound and the cycle.
LEMMA MachineIInv ==
  ASSUME IInv, Advance \/ (\E p \in Pauses : Sleep(p)) \/ ReadDisplay
  PROVE  IInv'
<1> USE DEF IInv, TypeOK, OkNeverInflated, PublishedTierHasAnchor,
            rateVars, flags, faultVars, display, persist, machine
<1>1. CASE Advance
  BY <1>1 DEF Advance
<1>2. CASE \E p \in Pauses : Sleep(p)
  BY <1>2 DEF Sleep
<1>3. CASE ReadDisplay
  BY <1>3 DEF ReadDisplay
<1> QED
  BY <1>1, <1>2, <1>3

\* A cycle that starts brings a sample of the right type.
LEMMA CaptureIInv == ASSUME IInv, Capture PROVE IInv'
<1> USE DEF IInv, TypeOK, OkNeverInflated, PublishedTierHasAnchor,
            rateVars, flags, faultVars, display, persist, machine, NoSample
<1>1. CASE \E s \in Samples : CaptureGated(s)
  BY <1>1 DEF CaptureGated
<1>2. CASE CaptureFailed
  BY <1>2 DEF CaptureFailed
<1>3. CASE \E e \in ClusterErrs : CaptureClustered(e)
  BY <1>3 DEF CaptureClustered
<1> QED
  BY <1>1, <1>2, <1>3 DEF Capture

\* The verdict of a cycle, classified: OK and an inflated bound stay apart, and
\* nothing publishes a tier without an anchor.
LEMMA ClassifyGatedIInv == ASSUME IInv, ClassifyGated PROVE IInv'
<1> USE DEF IInv, TypeOK, OkNeverInflated, PublishedTierHasAnchor,
            flags, faultVars, display, persist, machine, rateVars
<1>1. CASE Accepting
  <2>1. streak' \in [sign : {-1, 0, 1}, mag : Nat] /\ faults' = 0
    BY <1>1 DEF Accepting
  <2>2. /\ cycle' \in [pc : CyclePC, utc : Int, qpc : Int, err : Nat]
        /\ cycle'.pc = "accepted"
    BY <1>1 DEF Accepting
  <2>3. UNCHANGED display
    BY <1>1 DEF Accepting
  <2> QED
    BY <2>1, <2>2, <2>3 DEF ClassifyGated
<1>2. ASSUME HeldAnchor, FaultHold,
             faults' \in 0 .. LOCAL_FAULT_ESCAPE_N - 1,
             streak' \in [sign : {-1, 0, 1}, mag : Nat]
      PROVE  IInv'
  <2>1. faultInflateMs' \in Nat
    BY <1>2, ResidualInt DEF FaultHold
  <2>2. trust' = HOLDOVER /\ generation' \in 1..GEN_MOD
    BY <1>2, NextGenerationType DEF FaultHold, ToHoldover
  <2>3. /\ cycle' \in [pc : CyclePC, utc : Int, qpc : Int, err : Nat]
        /\ cycle'.pc = "idle"
    BY <1>2 DEF FaultHold
  <2>4. haveSample
    BY <1>2 DEF HeldAnchor
  <2> QED
    BY <1>2, <2>1, <2>2, <2>3, <2>4 DEF ClassifyGated
<1>3. CASE ClassifyUncertain
  BY <1>2, <1>3 DEF ClassifyUncertain
<1>4. CASE ClassifyFault
  <2> DEFINE count == IF faults > 0 THEN CountedFaults ELSE 1
  <2>1. count \in 1 .. LOCAL_FAULT_ESCAPE_N
    BY DEF CountedFaults
  <2>2. CASE EscapeDue(count)
    <3>1. /\ faults' = 0 /\ UNCHANGED display
          /\ cycle' = [cycle EXCEPT !.pc = "accepted"]
          /\ streak' = [NewStreak EXCEPT !.sign = 0]
      BY <1>4, <2>2 DEF ClassifyFault
    <3>2. streak' \in [sign : {-1, 0, 1}, mag : Nat]
      BY <3>1, NewStreakType
    <3>3. /\ cycle' \in [pc : CyclePC, utc : Int, qpc : Int, err : Nat]
          /\ cycle'.pc = "accepted"
      BY <3>1
    <3> QED
      BY <3>1, <3>2, <3>3 DEF ClassifyGated
  <2>3. CASE ~EscapeDue(count)
    <3>1. faults' = count /\ streak' = NewStreak /\ FaultHold /\ HeldAnchor
      BY <1>4, <2>3 DEF ClassifyFault
    <3>2. faults' \in 0 .. LOCAL_FAULT_ESCAPE_N - 1
      BY <2>1, <2>3, <3>1 DEF EscapeDue
    <3>3. streak' \in [sign : {-1, 0, 1}, mag : Nat]
      BY <3>1, NewStreakType
    <3> QED
      BY <1>2, <3>1, <3>2, <3>3
  <2> QED
    BY <2>2, <2>3
<1> QED
  BY <1>1, <1>3, <1>4 DEF ClassifyGated, ClassifyFirst, ClassifyAgreeing

\* A failed cycle, and a witness, publish holdover at most.
LEMMA WithoutVerdictIInv == ASSUME IInv, ClassifyFailed \/ CoreWitness PROVE IInv'
<1> USE DEF IInv, TypeOK, OkNeverInflated, PublishedTierHasAnchor,
            flags, faultVars, display, persist, machine, rateVars
<1>1. CASE ClassifyFailed
  <2>1. /\ cycle' \in [pc : CyclePC, utc : Int, qpc : Int, err : Nat]
        /\ cycle'.pc \in {"idle", "witness"}
    BY <1>1 DEF ClassifyFailed
  <2>2. /\ trust' \in {trust, HOLDOVER} /\ generation' \in 1..GEN_MOD
        /\ trust' # trust => haveSample
    BY <1>1, NextGenerationType DEF ClassifyFailed, ToHoldover, HeldAnchor
  <2> QED
    BY <1>1, <2>1, <2>2 DEF ClassifyFailed
<1>2. CASE CoreWitness
  <2>1. /\ cycle' \in [pc : CyclePC, utc : Int, qpc : Int, err : Nat]
        /\ cycle'.pc = "idle"
    BY <1>2 DEF CoreWitness
  <2>2. CASE WitnessWidens
    <3>1. faultInflateMs' \in Nat
      BY <1>2, <2>2, ResidualInt DEF CoreWitness
    <3>2. trust' = (IF trust = OK THEN HOLDOVER ELSE trust) /\ generation' \in 1..GEN_MOD
      BY <1>2, <2>2, NextGenerationType DEF CoreWitness, ToHoldover
    <3> QED
      BY <1>2, <2>1, <3>1, <3>2 DEF CoreWitness
  <2>3. CASE ~WitnessWidens
    BY <1>2, <2>1, <2>3 DEF CoreWitness
  <2> QED
    BY <2>2, <2>3
<1> QED
  BY <1>1, <1>2

\* The anchor laid has a sample's type and drops the inflation, which nothing
\* brings back before OK is published.
LEMMA LayAnchorIInv == ASSUME IInv, LayAnchor PROVE IInv'
<1> USE DEF IInv, TypeOK, OkNeverInflated, PublishedTierHasAnchor,
            flags, faultVars, persist, machine, rateVars
<1>1. CaptureTick \in Int
  <2>1. QpcTicksToMs(qpc - cycle.qpc) \in Int
    BY QpcTicksToMsInt
  <2> QED
    BY <2>1, NonNegNat DEF CaptureTick
<1>2. anchor' \in [qpc : Int, utc : Int, tick : Int, err : Nat]
  BY <1>1 DEF LayAnchor
<1>3. /\ ratePpm' \in -RATE_CLAMP_PPM .. RATE_CLAMP_PPM
      /\ loaded' \in [rate : -RATE_CLAMP_PPM .. RATE_CLAMP_PPM, lastSync : Int]
      /\ haveRate' \in BOOLEAN
  <2>1. CASE Reanchor
    BY <2>1 DEF Reanchor
  <2>2. CASE FirstAnchor
    <3>1. FirstRate \in -RATE_CLAMP_PPM .. RATE_CLAMP_PPM
      BY DEF FirstRate
    <3> QED
      BY <2>2, <3>1 DEF FirstAnchor
  <2>3. CASE Subsequent
    <3> DEFINE elap == QpcTicksToMs(cycle.qpc - anchor.qpc)
    <3>1. elap \in Int
      BY QpcTicksToMsInt
    <3>2. CASE elap > MIN_RATE_INTERVAL_MS /\ cycle.err <= RATE_EVIDENCE_MAX_MS
      <4>1. ratePpm' = SteeredRate(elap) /\ haveRate' = TRUE /\ loaded' = loaded
        BY <2>3, <3>2 DEF Subsequent
      <4>2. elap \in Nat \ {0}
        BY <3>1, <3>2
      <4> QED
        BY <4>1, <4>2, SteeredRateType
    <3>3. CASE ~(elap > MIN_RATE_INTERVAL_MS /\ cycle.err <= RATE_EVIDENCE_MAX_MS)
      BY <2>3, <3>3 DEF Subsequent
    <3> QED
      BY <3>2, <3>3
  <2> QED
    BY <2>1, <2>2, <2>3 DEF LayAnchor
<1>4. /\ cycle' \in [pc : CyclePC, utc : Int, qpc : Int, err : Nat]
      /\ cycle'.pc = "synced"
  BY DEF LayAnchor
<1>5. generation' \in 1..GEN_MOD
  BY NextGenerationType DEF LayAnchor
<1> QED
  BY <1>2, <1>3, <1>4, <1>5 DEF LayAnchor

\* OK is published on an anchor nothing has inflated.
LEMMA PublishOkIInv == ASSUME IInv, PublishOk PROVE IInv'
<1> USE DEF IInv, TypeOK, OkNeverInflated, PublishedTierHasAnchor,
            flags, faultVars, persist, machine, rateVars
<1>1. generation' \in 1..GEN_MOD
  BY NextGenerationType DEF PublishOk
<1>2. /\ cycle' \in [pc : CyclePC, utc : Int, qpc : Int, err : Nat]
      /\ cycle'.pc = "idle"
  BY DEF PublishOk
<1>3. trust' = OK /\ haveSample /\ faultInflateMs = 0
  BY DEF PublishOk
<1> QED
  BY <1>1, <1>2, <1>3 DEF PublishOk

\* The hooks and the saved file touch neither the tier nor the bound.
LEMMA HooksIInv == ASSUME IInv, OnContinuityBroken \/ TripInop \/ Shutdown PROVE IInv'
<1> USE DEF IInv, TypeOK, OkNeverInflated, PublishedTierHasAnchor,
            flags, faultVars, display, persist, machine, rateVars
<1>1. CASE OnContinuityBroken
  <2>1. generation' \in 1..GEN_MOD
    BY <1>1, NextGenerationType DEF OnContinuityBroken
  <2>2. faults' = 0 /\ qpcContinuityOk' = FALSE
    BY <1>1 DEF OnContinuityBroken
  <2>3. UNCHANGED <<machine, anchor, rateVars, haveSample, hardInop, streak, trust,
                    faultInflateMs, cycle, persist>>
    BY <1>1 DEF OnContinuityBroken
  <2>4. faults' \in 0 .. LOCAL_FAULT_ESCAPE_N - 1
    BY <2>2
  <2>5. qpcContinuityOk' \in BOOLEAN
    BY <2>2
  <2>6. (OkNeverInflated /\ PublishedTierHasAnchor)'
    BY <2>3
  <2>7. TypeOK'
    BY <2>1, <2>3, <2>4, <2>5
  <2> QED
    BY <2>6, <2>7
<1>2. CASE TripInop
  BY <1>2, NextGenerationType DEF TripInop
<1>3. CASE Shutdown
  BY <1>3 DEF Shutdown
<1> QED
  BY <1>1, <1>2, <1>3

\* A process that starts again satisfies the invariant, at whatever point of a
\* cycle the one before it ended.
LEMMA RestartIInv == ASSUME IInv, Restart PROVE IInv'
<1>1. loaded' \in [rate : -RATE_CLAMP_PPM .. RATE_CLAMP_PPM, lastSync : Int]
  BY LoadType DEF Restart, IInv, TypeOK
<1>2. NextGeneration(1) \in 1..GEN_MOD
  BY NextGenerationType
<1>3. /\ anchor' \in [qpc : Int, utc : Int, tick : Int, err : Nat]
      /\ streak' \in [sign : {-1, 0, 1}, mag : Nat]
      /\ cycle' \in [pc : CyclePC, utc : Int, qpc : Int, err : Nat]
      /\ cycle'.pc = "idle"
  BY DEF Restart, IInv, TypeOK, NoAnchor, NoStreak, NoSample
<1>4. /\ ratePpm' \in -RATE_CLAMP_PPM .. RATE_CLAMP_PPM
      /\ faultInflateMs' \in Nat /\ faults' \in 0 .. LOCAL_FAULT_ESCAPE_N - 1
      /\ trust' = INOP /\ restarts' \in 0..MaxRestarts
      /\ generation' \in 1..GEN_MOD
  BY <1>2 DEF Restart, IInv, TypeOK
<1>5. /\ haveSample' \in BOOLEAN /\ haveRate' \in BOOLEAN
      /\ qpcContinuityOk' \in BOOLEAN /\ hardInop' \in BOOLEAN
  BY DEF Restart
<1>6. UNCHANGED <<wall, qpc, drift, pauses, disk>>
  BY DEF Restart, machine
<1>7. TypeOK'
  BY <1>1, <1>3, <1>4, <1>5, <1>6 DEF IInv, TypeOK
<1> QED
  BY <1>3, <1>4, <1>7 DEF IInv, OkNeverInflated, PublishedTierHasAnchor

\* Every step keeps the invariant.
LEMMA NextIInv == ASSUME IInv, [Next]_vars PROVE IInv'
<1>1. CASE Next
  BY <1>1, MachineIInv, CaptureIInv, ClassifyGatedIInv, WithoutVerdictIInv, LayAnchorIInv,
     PublishOkIInv, HooksIInv, RestartIInv DEF Next, FinishCycle
<1>2. CASE UNCHANGED vars
  BY <1>2 DEF vars, machine, rateVars, flags, faultVars, display, persist,
     IInv, TypeOK, OkNeverInflated, PublishedTierHasAnchor
<1> QED
  BY <1>1, <1>2

LEMMA SpecIInv == Spec => []IInv
  BY InitIInv, NextIInv, PTL DEF Spec
-----------------------------------------------------------------------------

\* Type correctness: whatever the network, the file, the sleeps and the hooks
\* do, the drift rate stays within its clamp and the count of disagreements
\* below the escape.
THEOREM TypeCorrect == Spec => []TypeOK
<1>1. IInv => TypeOK
  BY DEF IInv
<1> QED
  BY <1>1, SpecIInv, PTL

\* A published OK never coexists with a reported disagreement, although the
\* verdict, the anchor and the publication are three lock sections with readers,
\* hooks and restarts between them.
THEOREM OkIsNeverInflated == Spec => []OkNeverInflated
<1>1. IInv => OkNeverInflated
  BY DEF IInv
<1> QED
  BY <1>1, SpecIInv, PTL

\* A published tier always has an anchor to rest on.
THEOREM TierHasAnchor == Spec => []PublishedTierHasAnchor
<1>1. IInv => PublishedTierHasAnchor
  BY DEF IInv
<1> QED
  BY <1>1, SpecIInv, PTL
-----------------------------------------------------------------------------
(***************************************************************************)
(* The refinement of TrustLadder.  Whether a time is shown at all depends  *)
(* on the anchor and the flags, never on the tier last published; the      *)
(* bound widens with either age; and an anchor is laid with the two ages   *)
(* equal, so that laying it cannot split the timescales it is laid on.     *)
(***************************************************************************)

\* The ages are natural, and so is the bound.
LEMMA AgesNat == ASSUME TypeOK PROVE QpcAge \in Nat /\ TickAge \in Nat
<1>1. QpcTicksToMs(qpc - anchor.qpc) \in Int
  BY QpcTicksToMsInt DEF TypeOK
<1> QED
  BY <1>1, NonNegNat DEF QpcAge, TickAge, TypeOK

\* The bound is made of natural parts: the anchor's own uncertainty, and the
\* larger of the drift since and the disagreement reported.
LEMMA BoundNat ==
  ASSUME TypeOK
  PROVE  /\ BaseMs \in Nat /\ GrowthMs \in Nat /\ BoundMs \in Nat
         /\ BoundMs = BaseMs + Larger(GrowthMs, faultInflateMs)
<1>1. BaseMs \in Nat
  BY DEF BaseMs, TypeOK
<1>2. GrowthMs \in Nat
  <2> DEFINE age == Larger(QpcAge, TickAge)
  <2>1. age * RATE_CLAMP_PPM \in Nat
    BY AgesNat, LargerInt
  <2> HIDE DEF age
  <2>2. (age * RATE_CLAMP_PPM) \div PPM \in Nat
    BY <2>1, Quotient
  <2> QED
    BY <2>2 DEF GrowthMs, age
<1>3. BoundMs = BaseMs + Larger(GrowthMs, faultInflateMs)
  BY <1>1, <1>2 DEF BoundMs, Larger, TypeOK
<1>4. Larger(GrowthMs, faultInflateMs) \in Nat
  BY <1>2 DEF Larger, TypeOK
<1> QED
  BY <1>1, <1>2, <1>3, <1>4

\* A running time is shown exactly when an anchor is held, nothing was tripped
\* and the timescales agree.
TimeRuns == haveSample /\ ~hardInop /\ qpcContinuityOk /\ ~TimescaleSplit

LEMMA RunningIsOfTheFlags ==
  ASSUME TypeOK
  PROVE  /\ DisplayState \in 0..3 /\ (Running <=> TimeRuns)
         /\ TimeRuns => DisplayState \in {HOLDOVER, OK}
         /\ ~TimeRuns => DisplayState \in {INOP, REACQUIRING}
         /\ TimeRuns => DisplayState = (IF trust = OK /\ wall - anchor.tick <= CYCLE_STALE_AFTER_MS
                                        THEN OK ELSE HOLDOVER)
         /\ ~TimeRuns => DisplayState = (IF ~haveSample \/ hardInop THEN INOP ELSE REACQUIRING)
  BY DEF DisplayState, Running, TimeRuns, TypeOK

\* Time that passes without QPC running back widens both ages, and with them
\* the bound.
LEMMA AgesGrow ==
  ASSUME TypeOK, TypeOK', wall' >= wall, qpc' >= qpc, UNCHANGED <<anchor, faultInflateMs>>
  PROVE  BoundMs' >= BoundMs
<1>1. QpcAge' >= QpcAge
  <2> DEFINE before == (qpc - anchor.qpc) * 1000
             after == (qpc' - anchor.qpc) * 1000
  <2>1. before \in Int /\ after \in Int /\ before <= after
    BY DEF TypeOK
  <2> HIDE DEF before, after
  <2>2. RoundDiv(before, QpcFreq) <= RoundDiv(after, QpcFreq)
    BY <2>1, RoundDivMonotone
  <2>3. RoundDiv(before, QpcFreq) \in Int /\ RoundDiv(after, QpcFreq) \in Int
    BY <2>1, RoundDivInt
  <2>4. NonNeg(RoundDiv(before, QpcFreq)) <= NonNeg(RoundDiv(after, QpcFreq))
    BY <2>2, <2>3 DEF NonNeg
  <2>5. /\ QpcAge = NonNeg(RoundDiv(before, QpcFreq))
        /\ QpcAge' = NonNeg(RoundDiv(after, QpcFreq))
    BY DEF QpcAge, QpcTicksToMs, before, after
  <2> QED
    BY <2>4, <2>5
<1>2. TickAge' >= TickAge
  BY DEF TickAge, NonNeg, TypeOK
<1>3. GrowthMs' >= GrowthMs
  <2> DEFINE age == Larger(QpcAge, TickAge)
             older == Larger(QpcAge', TickAge')
  <2>1. QpcAge \in Nat /\ TickAge \in Nat /\ QpcAge' \in Nat /\ TickAge' \in Nat
    <3>1. (QpcAge \in Nat /\ TickAge \in Nat)'
      BY AgesNat, PTL
    <3> QED
      BY <3>1, AgesNat
  <2>2. age \in Nat /\ older \in Nat /\ age <= older
    BY <1>1, <1>2, <2>1 DEF Larger
  <2> HIDE DEF age, older
  <2>3. age * RATE_CLAMP_PPM \in Nat /\ older * RATE_CLAMP_PPM \in Nat
    BY <2>2
  <2>4. age * RATE_CLAMP_PPM <= older * RATE_CLAMP_PPM
    BY <2>2
  <2>5. (age * RATE_CLAMP_PPM) \div PPM <= (older * RATE_CLAMP_PPM) \div PPM
    BY <2>3, <2>4, QuotientMonotone
  <2> QED
    BY <2>5 DEF GrowthMs, age, older
<1>4. BaseMs' = BaseMs
  BY DEF BaseMs
<1>5. GrowthMs \in Nat /\ BaseMs \in Nat /\ GrowthMs' \in Nat
  <2>1. (GrowthMs \in Nat)'
    BY BoundNat, PTL
  <2> QED
    BY <2>1, BoundNat
<1>6. BoundMs' = BaseMs' + Larger(GrowthMs', faultInflateMs')
  <2>1. (BoundMs = BaseMs + Larger(GrowthMs, faultInflateMs))'
    BY BoundNat, PTL
  <2> QED
    BY <2>1
<1>7. Larger(GrowthMs', faultInflateMs) >= Larger(GrowthMs, faultInflateMs)
  BY <1>3, <1>5 DEF Larger, TypeOK
<1>8. /\ Larger(GrowthMs', faultInflateMs) \in Int
      /\ Larger(GrowthMs, faultInflateMs) \in Int
  BY <1>5 DEF Larger, TypeOK
<1> QED
  BY <1>4, <1>5, <1>6, <1>7, <1>8, BoundNat

\* What the display is derived from, and what the bound is.
Shows == <<wall, qpc, anchor, haveSample, flags>>

\* Nothing else moves the display or the bound.
LEMMA DisplayKept ==
  ASSUME UNCHANGED Shows
  PROVE  /\ TimeRuns' <=> TimeRuns
         /\ trust' = trust => DisplayState' = DisplayState
         /\ faultInflateMs' = faultInflateMs => BoundMs' = BoundMs
<1>1. UNCHANGED <<wall, qpc, anchor, haveSample, qpcContinuityOk, hardInop>>
  BY DEF Shows, flags
<1>2. QpcAge' = QpcAge /\ TickAge' = TickAge
  BY <1>1 DEF QpcAge, TickAge, QpcTicksToMs
<1>3. TimescaleSplit' <=> TimescaleSplit
  BY <1>2 DEF TimescaleSplit, Tolerance
<1>4. GrowthMs' = GrowthMs /\ BaseMs' = BaseMs
  BY <1>1, <1>2 DEF GrowthMs, BaseMs
<1>5. TimeRuns' <=> TimeRuns
  BY <1>1, <1>3 DEF TimeRuns
<1>6. trust' = trust => DisplayState' = DisplayState
  BY <1>1, <1>3 DEF DisplayState
<1>7. faultInflateMs' = faultInflateMs => BoundMs' = BoundMs
  BY <1>4 DEF BoundMs
<1> QED
  BY <1>5, <1>6, <1>7

\* A step that shows no time where none was, and no higher tier, no narrower
\* bound where one was, weakens.
LEMMA WeakenRule ==
  ASSUME TypeOK, TypeOK',
         TimeRuns' => TimeRuns /\ BoundMs' >= BoundMs /\ DisplayState' <= DisplayState,
         ~TimeRuns' /\ ~TimeRuns => DisplayState' <= DisplayState,
         ActingOn' \in {ActingOn, FALSE}
  PROVE  Ladder!Weaken
<1>1. /\ DisplayState \in 0..3 /\ (Running <=> TimeRuns)
      /\ TimeRuns => DisplayState \in {HOLDOVER, OK}
      /\ ~TimeRuns => DisplayState \in {INOP, REACQUIRING}
  BY RunningIsOfTheFlags
<1>2. (/\ DisplayState \in 0..3 /\ (Running <=> TimeRuns)
       /\ TimeRuns => DisplayState \in {HOLDOVER, OK}
       /\ ~TimeRuns => DisplayState \in {INOP, REACQUIRING})'
  BY RunningIsOfTheFlags, PTL
<1>3. DisplayState' \in 0..DisplayState
  BY <1>1, <1>2
<1>4. Ladder!Runs(DisplayState') <=> TimeRuns'
  BY <1>2 DEF Ladder!Runs
<1>5. IF Ladder!Runs(DisplayState') THEN ShownBound' >= ShownBound ELSE ShownBound' = 0
  <2>1. ShownBound' = (IF TimeRuns' THEN BoundMs' ELSE 0)
    BY <1>2 DEF ShownBound
  <2>2. TimeRuns => ShownBound = BoundMs
    BY <1>1 DEF ShownBound
  <2> QED
    BY <1>4, <2>1, <2>2
<1> QED
  BY <1>3, <1>5 DEF Ladder!Weaken

\* A step of a cycle that is acted upon corroborates, unless it blanks a
\* running display.
LEMMA CorroborateRule ==
  ASSUME TypeOK, TypeOK', ActingOn, TimeRuns => TimeRuns'
  PROVE  Ladder!Corroborate
<1>1. /\ DisplayState \in 0..3 /\ (Running <=> TimeRuns)
      /\ TimeRuns => DisplayState \in {HOLDOVER, OK}
      /\ ~TimeRuns => DisplayState \in {INOP, REACQUIRING}
  BY RunningIsOfTheFlags
<1>2. (/\ DisplayState \in 0..3 /\ (Running <=> TimeRuns) /\ BoundMs \in Nat
       /\ TimeRuns => DisplayState \in {HOLDOVER, OK}
       /\ ~TimeRuns => DisplayState \in {INOP, REACQUIRING})'
  BY RunningIsOfTheFlags, BoundNat, PTL
<1>3. Ladder!Runs(DisplayState) <=> TimeRuns
  BY <1>1 DEF Ladder!Runs
<1>4. Ladder!Runs(DisplayState') <=> TimeRuns'
  BY <1>2 DEF Ladder!Runs
<1>5. IF Ladder!Runs(DisplayState') THEN ShownBound' \in Nat ELSE ShownBound' = 0
  BY <1>2, <1>4 DEF ShownBound
<1>6. ActingOn' \in BOOLEAN
  BY DEF ActingOn
<1> QED
  BY <1>2, <1>3, <1>4, <1>5, <1>6 DEF Ladder!Corroborate, Ladder!Tiers
-----------------------------------------------------------------------------

\* Time, awake or asleep, only ages the anchor: the tier never climbs, and the
\* bound widens as long as a time is shown.
LEMMA TimeWeakens ==
  ASSUME IInv, IInv', Advance \/ (\E p \in Pauses : Sleep(p))
  PROVE  Ladder!Weaken
<1>1. /\ wall' >= wall /\ qpc' >= qpc
      /\ UNCHANGED <<anchor, faultInflateMs, haveSample, flags, trust, cycle>>
  <2>1. CASE Advance
    <3>1. TicksPerStep(drift) >= 0
      BY QpcIsMonotonic DEF IInv, TypeOK
    <3>2. TicksPerStep(drift) \in Int
      BY DEF IInv, TypeOK, TicksPerStep
    <3> QED
      BY <2>1, <3>1, <3>2 DEF Advance, IInv, TypeOK, display
  <2>2. CASE \E p \in Pauses : Sleep(p)
    BY <2>2 DEF Sleep, IInv, TypeOK, display
  <2> QED
    BY <2>1, <2>2
<1>2. haveSample /\ ~hardInop /\ qpcContinuityOk => ~TimescaleSplit
  BY DEF Advance, Sleep
<1>3. TimeRuns' => TimeRuns
  BY <1>1, <1>2 DEF TimeRuns, flags
<1>4. BoundMs' >= BoundMs
  BY <1>1, AgesGrow DEF IInv
<1>5. TimeRuns' => DisplayState' <= DisplayState
  <2>1. (TimeRuns => DisplayState = (IF trust = OK /\ wall - anchor.tick <= CYCLE_STALE_AFTER_MS
                                     THEN OK ELSE HOLDOVER))'
    BY RunningIsOfTheFlags, PTL DEF IInv
  <2>2. wall' - anchor.tick <= CYCLE_STALE_AFTER_MS => wall - anchor.tick <= CYCLE_STALE_AFTER_MS
    BY <1>1 DEF IInv, TypeOK
  <2>3. TimeRuns => DisplayState = (IF trust = OK /\ wall - anchor.tick <= CYCLE_STALE_AFTER_MS
                                    THEN OK ELSE HOLDOVER)
    BY RunningIsOfTheFlags DEF IInv
  <2> QED
    BY <1>1, <1>3, <2>1, <2>2, <2>3
<1>6. ~TimeRuns' /\ ~TimeRuns => DisplayState' = DisplayState
  <2>1. ~TimeRuns => DisplayState = (IF ~haveSample \/ hardInop THEN INOP ELSE REACQUIRING)
    BY RunningIsOfTheFlags DEF IInv
  <2>2. (~TimeRuns => DisplayState = (IF ~haveSample \/ hardInop THEN INOP ELSE REACQUIRING))'
    BY RunningIsOfTheFlags, PTL DEF IInv
  <2> QED
    BY <1>1, <2>1, <2>2 DEF flags
<1>7. DisplayState \in 0..3
  BY RunningIsOfTheFlags DEF IInv
<1>8. ActingOn' = ActingOn
  BY <1>1 DEF ActingOn
<1> QED
  BY <1>3, <1>4, <1>5, <1>6, <1>7, <1>8, WeakenRule DEF IInv

\* A read that notices the split latches what it already shows, and saving the
\* rate changes nothing shown.
LEMMA ReadsStutter == ASSUME IInv, IInv', ReadDisplay \/ Shutdown PROVE UNCHANGED Ladder!vars
<1>1. CASE ReadDisplay
  <2>1. DisplayState = REACQUIRING /\ ~Running
    BY <1>1 DEF ReadDisplay, DisplayState, Running
  <2>2. DisplayState' = REACQUIRING /\ ~Running'
    BY <1>1 DEF ReadDisplay, DisplayState, Running
  <2>3. ShownBound' = ShownBound
    BY <2>1, <2>2 DEF ShownBound
  <2>4. ActingOn' = ActingOn
    BY <1>1 DEF ReadDisplay, ActingOn
  <2> QED
    BY <2>1, <2>2, <2>3, <2>4 DEF Ladder!vars
<1>2. CASE Shutdown
  <2>1. UNCHANGED Shows /\ trust' = trust /\ faultInflateMs' = faultInflateMs /\ cycle' = cycle
    BY <1>2 DEF Shutdown, Shows, machine, display
  <2>2. DisplayState' = DisplayState /\ BoundMs' = BoundMs
    BY <2>1, DisplayKept
  <2> QED
    BY <2>1, <2>2 DEF Ladder!vars, ShownBound, ActingOn, Running
<1> QED
  BY <1>1, <1>2

\* A cycle that starts shows nothing new; only a gated one will be acted upon.
LEMMA CaptureBegins ==
  ASSUME IInv, IInv', Capture
  PROVE  Ladder!BeginCycle \/ UNCHANGED Ladder!vars
<1>1. UNCHANGED Shows /\ trust' = trust /\ faultInflateMs' = faultInflateMs
  BY DEF Capture, CaptureGated, CaptureFailed, CaptureClustered, Shows, machine, display
<1>2. UNCHANGED <<DisplayState, ShownBound>>
  <2>1. DisplayState' = DisplayState /\ BoundMs' = BoundMs
    BY <1>1, DisplayKept
  <2> QED
    BY <2>1 DEF ShownBound, Running
<1>3. ActingOn = FALSE
  BY DEF Capture, CaptureGated, CaptureFailed, CaptureClustered, MayStartCycle, ActingOn
<1>4. ActingOn' \in BOOLEAN
  BY DEF ActingOn
<1> QED
  BY <1>2, <1>3, <1>4 DEF Ladder!BeginCycle, Ladder!vars

\* A verdict accepted or held, and the publication of OK, blank nothing: they
\* leave alone everything a running time depends on.
LEMMA VerdictCorroborates ==
  ASSUME IInv, IInv', ClassifyGated \/ PublishOk
  PROVE  Ladder!Corroborate
<1>1. ActingOn /\ UNCHANGED Shows
  BY DEF ClassifyGated, PublishOk, ActingOn, Shows, machine
<1>2. TimeRuns => TimeRuns'
  BY <1>1, DisplayKept
<1> QED
  BY <1>1, <1>2, CorroborateRule DEF IInv

\* An anchor is laid with its two ages equal, whatever passed since the capture
\* of its sample: the timescales agree and a time is shown.
LEMMA AnchorCorroborates == ASSUME IInv, IInv', LayAnchor PROVE Ladder!Corroborate
<1> DEFINE age == NonNeg(QpcTicksToMs(qpc - cycle.qpc))
<1>1. age \in Nat
  <2>1. QpcTicksToMs(qpc - cycle.qpc) \in Int
    BY QpcTicksToMsInt DEF IInv, TypeOK
  <2> QED
    BY <2>1, NonNegNat
<1>2. /\ wall' = wall /\ qpc' = qpc
      /\ anchor'.qpc = cycle.qpc /\ anchor'.tick = wall - age
      /\ haveSample' = TRUE /\ qpcContinuityOk' = TRUE /\ hardInop' = FALSE
  BY DEF LayAnchor, machine, CaptureTick
<1>3. QpcAge' = age
  BY <1>2 DEF QpcAge, QpcTicksToMs
<1> HIDE DEF age
<1>4. TickAge' = age
  BY <1>1, <1>2 DEF TickAge, NonNeg, IInv, TypeOK
<1>5. Abs(TickAge' - QpcAge') = 0
  BY <1>1, <1>3, <1>4 DEF Abs
<1>6. Tolerance' >= 0
  <2>1. TickAge' \div CONTINUITY_TRIP_DIV \in Nat
    BY <1>1, <1>4, Quotient
  <2> QED
    BY <2>1 DEF Tolerance, Larger
<1>7. ~TimescaleSplit'
  <2>1. Tolerance' \in Int
    <3>1. TickAge' \div CONTINUITY_TRIP_DIV \in Nat
      BY <1>1, <1>4, Quotient
    <3> QED
      BY <3>1 DEF Tolerance, Larger
  <2> QED
    BY <1>5, <1>6, <2>1 DEF TimescaleSplit
<1>8. TimeRuns'
  BY <1>2, <1>7 DEF TimeRuns
<1>9. ActingOn
  BY DEF LayAnchor, ActingOn
<1> QED
  BY <1>8, <1>9, CorroborateRule DEF IInv

\* A failed cycle publishes holdover at most, and a witness only widens.
LEMMA WithoutVerdictWeakens ==
  ASSUME IInv, IInv', ClassifyFailed \/ CoreWitness
  PROVE  Ladder!Weaken
<1>1. UNCHANGED Shows
  BY DEF ClassifyFailed, CoreWitness, Shows, machine
<1>2. /\ trust' \in {trust, HOLDOVER}
      /\ ActingOn = FALSE /\ ActingOn' = FALSE
  <2>1. CASE ClassifyFailed
    BY <2>1 DEF ClassifyFailed, ToHoldover, ActingOn, IInv, TypeOK
  <2>2. CASE CoreWitness
    BY <2>2 DEF CoreWitness, ToHoldover, ActingOn, display, IInv, TypeOK
  <2> QED
    BY <2>1, <2>2
<1>3. TimeRuns' <=> TimeRuns
  BY <1>1, DisplayKept
<1>4. DisplayState' <= DisplayState
  <2>1. DisplayState \in 0..3
    BY RunningIsOfTheFlags DEF IInv
  <2>2. CASE trust' = trust
    BY <1>1, <2>1, <2>2, DisplayKept
  <2>3. CASE trust' = HOLDOVER /\ TimeRuns
    <3>1. (TimeRuns => DisplayState = (IF trust = OK /\ wall - anchor.tick <= CYCLE_STALE_AFTER_MS
                                       THEN OK ELSE HOLDOVER))'
      BY RunningIsOfTheFlags, PTL DEF IInv
    <3>2. DisplayState' = HOLDOVER
      BY <1>3, <2>3, <3>1
    <3>3. DisplayState \in {HOLDOVER, OK}
      BY <2>3, RunningIsOfTheFlags DEF IInv
    <3> QED
      BY <3>2, <3>3
  <2>4. CASE ~TimeRuns
    <3>1. ~TimeRuns => DisplayState = (IF ~haveSample \/ hardInop THEN INOP ELSE REACQUIRING)
      BY RunningIsOfTheFlags DEF IInv
    <3>2. (~TimeRuns => DisplayState = (IF ~haveSample \/ hardInop THEN INOP ELSE REACQUIRING))'
      BY RunningIsOfTheFlags, PTL DEF IInv
    <3> QED
      BY <1>1, <1>3, <2>1, <2>4, <3>1, <3>2 DEF Shows, flags
  <2> QED
    BY <1>2, <2>2, <2>3, <2>4
<1>5. BoundMs' >= BoundMs
  <2>1. BoundMs \in Nat /\ GrowthMs \in Nat /\ BaseMs \in Nat
        /\ BoundMs = BaseMs + Larger(GrowthMs, faultInflateMs)
    BY BoundNat DEF IInv
  <2>2. (BoundMs = BaseMs + Larger(GrowthMs, faultInflateMs))'
    BY BoundNat, PTL DEF IInv
  <2>3. GrowthMs' = GrowthMs /\ BaseMs' = BaseMs
    <3>1. wall' = wall /\ qpc' = qpc /\ anchor' = anchor
      BY <1>1 DEF Shows
    <3>2. QpcAge' = QpcAge /\ TickAge' = TickAge
      BY <3>1 DEF QpcAge, TickAge, QpcTicksToMs
    <3> QED
      BY <3>1, <3>2 DEF GrowthMs, BaseMs
  <2>4. faultInflateMs' \in Nat /\ faultInflateMs \in Nat /\ faultInflateMs' >= faultInflateMs
    <3>1. CASE ClassifyFailed
      BY <3>1 DEF ClassifyFailed, IInv, TypeOK
    <3>2. CASE CoreWitness
      BY <3>2, ResidualInt DEF CoreWitness, WitnessWidens, display, IInv, TypeOK
    <3> QED
      BY <3>1, <3>2
  <2>5. /\ Larger(GrowthMs, faultInflateMs') >= Larger(GrowthMs, faultInflateMs)
        /\ Larger(GrowthMs, faultInflateMs') \in Int /\ Larger(GrowthMs, faultInflateMs) \in Int
    BY <2>1, <2>4 DEF Larger
  <2>6. BoundMs' = BaseMs + Larger(GrowthMs, faultInflateMs')
    BY <2>2, <2>3
  <2> QED
    BY <2>1, <2>5, <2>6
<1> QED
  BY <1>2, <1>3, <1>4, <1>5, WeakenRule DEF IInv

\* The hooks take the display down, and a process that starts again shows none.
LEMMA BreakWeakens ==
  ASSUME IInv, IInv', OnContinuityBroken \/ TripInop \/ Restart
  PROVE  Ladder!Weaken
<1>1. ~TimeRuns'
  BY DEF OnContinuityBroken, TripInop, Restart, TimeRuns
<1>2. ActingOn' \in {ActingOn, FALSE}
  <2>1. CASE Restart
    <3>1. ActingOn' = FALSE
      BY <2>1 DEF Restart, NoSample, ActingOn
    <3> QED
      BY <3>1
  <2>2. CASE OnContinuityBroken \/ TripInop
    <3>1. ActingOn' = ActingOn
      BY <2>2 DEF OnContinuityBroken, TripInop, ActingOn
    <3> QED
      BY <3>1
  <2> QED
    BY <2>1, <2>2
<1>3. ~TimeRuns => DisplayState' <= DisplayState
  <2>1. ~TimeRuns => DisplayState = (IF ~haveSample \/ hardInop THEN INOP ELSE REACQUIRING)
    BY RunningIsOfTheFlags DEF IInv
  <2>2. (~TimeRuns => DisplayState = (IF ~haveSample \/ hardInop THEN INOP ELSE REACQUIRING))'
    BY RunningIsOfTheFlags, PTL DEF IInv
  <2>3. ~haveSample \/ hardInop => ~haveSample' \/ hardInop'
    BY DEF OnContinuityBroken, TripInop, Restart
  <2> QED
    BY <1>1, <2>1, <2>2, <2>3
<1> QED
  BY <1>1, <1>2, <1>3, WeakenRule DEF IInv

\* Every step of the clock is a step of the ladder, or none.
LEMMA StepClimbs == ASSUME IInv, IInv', [Next]_vars PROVE [Ladder!Next]_(Ladder!vars)
<1>1. CASE Next
  BY <1>1, TimeWeakens, ReadsStutter, CaptureBegins, VerdictCorroborates, AnchorCorroborates,
     WithoutVerdictWeakens, BreakWeakens DEF Next, FinishCycle, Ladder!Next
<1>2. CASE UNCHANGED vars
  <2>1. UNCHANGED Shows /\ trust' = trust /\ faultInflateMs' = faultInflateMs /\ cycle' = cycle
    BY <1>2 DEF vars, Shows, machine, display
  <2>2. DisplayState' = DisplayState /\ BoundMs' = BoundMs
    BY <2>1, DisplayKept
  <2> QED
    BY <2>1, <2>2 DEF Ladder!vars, ShownBound, ActingOn, Running
<1> QED
  BY <1>1, <1>2

\* The clock implements the trust ladder of clock.h: nothing but a step of a
\* gate-passing cycle climbs a tier or tightens the bound shown, and none of
\* those blanks a running display, whatever time, sleeps, failed cycles,
\* witnesses, hooks and restarts come between its three lock sections.
THEOREM ClockKeepsTheLadder == Spec => ClimbsOnlyOnEvidence
<1>1. Init => Ladder!Init
  BY DEF Init, Ladder!Init, DisplayState, ShownBound, Running, ActingOn, NoSample
<1>2. IInv /\ IInv' /\ [Next]_vars => [Ladder!Next]_(Ladder!vars)
  BY StepClimbs
<1> QED
  BY <1>1, <1>2, SpecIInv, PTL DEF Spec, Ladder!Spec, ClimbsOnlyOnEvidence
-----------------------------------------------------------------------------
(***************************************************************************)
(* The bound is honest.  First the arithmetic: the time that passed since  *)
(* a capture, the ticks it counted, the ticks rounded to milliseconds, the *)
(* rate's share of those truncated, and the growth of the bound truncated. *)
(***************************************************************************)

\* If a step of s ms counts m ticks, and x ticks are so many such steps as t is,
\* then what the rate makes of a step's ticks bounds what it makes of x.
LEMMA StepsScale ==
  ASSUME NEW s \in Nat \ {0}, NEW m \in Nat, NEW x \in Nat, NEW t \in Int, t * m = x * s,
         NEW a \in Nat \ {0}, NEW l \in Int, NEW k \in Nat,
         m * l - s * a <= k * m, -(k * m) <= m * l - s * a
  PROVE  t >= 0 /\ x * l - t * a <= k * x /\ -(k * x) <= x * l - t * a
<1>1. m > 0
  <2>1. s * a > 0
    OBVIOUS
  <2>2. m = 0 => m * l = 0 /\ k * m = 0
    OBVIOUS
  <2> QED
    BY <2>1, <2>2
<1>2. t >= 0
  <2>1. x * s >= 0
    OBVIOUS
  <2>2. t < 0 => t * m < 0
    BY <1>1
  <2> QED
    BY <2>1, <2>2
<1>3. t * (m * l - s * a) <= t * (k * m) /\ -(t * (k * m)) <= t * (m * l - s * a)
  <2> DEFINE gain == m * l - s * a
             most == k * m
  <2>1. gain \in Int /\ most \in Int /\ gain <= most /\ -most <= gain
    OBVIOUS
  <2> HIDE DEF gain, most
  <2>2. t * gain <= t * most /\ t * (-most) <= t * gain /\ t * (-most) = -(t * most)
    BY <1>2, <2>1
  <2> QED
    BY <2>2 DEF gain, most
<1>4. t * (m * l - s * a) = (x * l - t * a) * s /\ t * (k * m) = (k * x) * s
  <2>1. t * (m * l) = (x * s) * l /\ t * (k * m) = k * (x * s)
    <3>1. t * (m * l) = (t * m) * l /\ t * (k * m) = k * (t * m)
      OBVIOUS
    <3> QED
      BY <3>1
  <2>2. t * (m * l - s * a) = t * (m * l) - t * (s * a)
    OBVIOUS
  <2>3. (x * s) * l = (x * l) * s /\ t * (s * a) = (t * a) * s /\ k * (x * s) = (k * x) * s
    OBVIOUS
  <2>4. (x * l - t * a) * s = (x * l) * s - (t * a) * s
    OBVIOUS
  <2> QED
    BY <2>1, <2>2, <2>3, <2>4
<1>5. (x * l - t * a) * s < (k * x + 1) * s /\ (-(k * x) - 1) * s < (x * l - t * a) * s
  <2>1. (k * x + 1) * s = (k * x) * s + s /\ (-(k * x) - 1) * s = -((k * x) * s) - s
    OBVIOUS
  <2> QED
    BY <1>3, <1>4, <2>1
<1>6. x * l - t * a < k * x + 1 /\ -(k * x) - 1 < x * l - t * a
  <2> DEFINE off == x * l - t * a
             most == k * x
  <2>1. off \in Int /\ most \in Int
    OBVIOUS
  <2>2. off * s < (most + 1) * s /\ (-most - 1) * s < off * s
    BY <1>5
  <2> HIDE DEF off, most
  <2>3. off < most + 1 /\ -most - 1 < off
    BY <2>1, <2>2, Cancel
  <2> QED
    BY <2>3 DEF off, most
<1> QED
  BY <1>2, <1>6

\* Rounding the ticks to milliseconds costs at most one more, with the rate.
LEMMA RoundedScale ==
  ASSUME NEW n \in Int, NEW f \in Nat \ {0}, NEW p \in Nat \ {0}, NEW c \in Nat, 2 * c <= p,
         NEW r \in -c .. c, NEW t \in Int,
         NEW ms \in Int, 2 * (ms * f) <= 2 * n + f, 2 * n - f <= 2 * (ms * f),
         n * (p + r) - t * (f * p) <= c * n, -(c * n) <= n * (p + r) - t * (f * p)
  PROVE  ms * r - (t - ms) * p <= c * ms + p /\ -(c * ms + p) <= ms * r - (t - ms) * p
<1> DEFINE k == p + r
           u == ms * f
           v == t * p
<1>1. k \in Nat /\ k <= p + c /\ u \in Int /\ v \in Int /\ f + c * f \in Nat
  OBVIOUS
<1>2. t * (f * p) = v * f
  OBVIOUS
<1>3. 2 * (n * k) - f * k <= 2 * (u * k) /\ 2 * (u * k) <= 2 * (n * k) + f * k
  <2>1. u \in Int /\ 2 * u <= 2 * n + f /\ 2 * n - f <= 2 * u
    OBVIOUS
  <2> HIDE DEF k, u
  <2>2. (2 * n - f) * k <= (2 * u) * k /\ (2 * u) * k <= (2 * n + f) * k
    BY <1>1, <2>1
  <2>3. /\ (2 * n - f) * k = 2 * (n * k) - f * k
        /\ (2 * n + f) * k = 2 * (n * k) + f * k
        /\ (2 * u) * k = 2 * (u * k)
    BY <1>1
  <2> QED
    BY <2>2, <2>3
<1>4. 2 * (c * n) <= 2 * (c * u) + c * f
  <2>1. u \in Int /\ 2 * n - f <= 2 * u
    OBVIOUS
  <2> HIDE DEF k, u
  <2>2. c * (2 * n - f) <= c * (2 * u)
    BY <2>1
  <2>3. c * (2 * n - f) = 2 * (c * n) - c * f /\ c * (2 * u) = 2 * (c * u)
    BY <2>1
  <2>4. c * n \in Int /\ c * u \in Int /\ c * f \in Int
    BY <2>1
  <2> QED
    BY <2>2, <2>3, <2>4
<1>5. n * k - v * f <= c * n /\ -(c * n) <= n * k - v * f
  BY <1>2
<1>6. 2 * (u * k) - 2 * (v * f) <= 2 * (c * u) + c * f + f * k
      /\ -(2 * (c * u) + c * f + f * k) <= 2 * (u * k) - 2 * (v * f)
  <2>1. n * k \in Int /\ v * f \in Int /\ c * n \in Int /\ u * k \in Int /\ c * u \in Int
        /\ c * f \in Int /\ f * k \in Int
    OBVIOUS
  <2> HIDE DEF k, u, v
  <2> QED
    BY <1>3, <1>4, <1>5, <2>1
<1>7. c * f + f * k <= (2 * p) * f
  <2>1. c + k <= 2 * p
    OBVIOUS
  <2> HIDE DEF k
  <2>2. (c + k) * f <= (2 * p) * f /\ (c + k) * f = c * f + f * k
    BY <1>1, <2>1
  <2> QED
    BY <2>2
<1> DEFINE gain == ms * k - v
           most == c * ms + p
<1>8. gain \in Int /\ most \in Int
  BY <1>1
<1>9. u * k = (ms * k) * f /\ c * u = (c * ms) * f
  <2> HIDE DEF k
  <2> QED
    BY <1>1
<1>10. gain * f = u * k - v * f /\ most * f = c * u + p * f
  <2> HIDE DEF k, v
  <2>1. gain * f = (ms * k) * f - v * f /\ most * f = (c * ms) * f + p * f
    BY <1>1
  <2> QED
    BY <1>9, <2>1
<1>11. gain * f < (most + 1) * f /\ (-most - 1) * f < gain * f
  <2>1. (most + 1) * f = most * f + f /\ (-most - 1) * f = -(most * f) - f
    <3> HIDE DEF most
    <3> QED
      BY <1>8
  <2>2. 2 * (gain * f) <= 2 * (most * f) /\ -(2 * (most * f)) <= 2 * (gain * f)
    <3>1. (2 * p) * f = 2 * (p * f)
      OBVIOUS
    <3>2. gain * f \in Int /\ most * f \in Int /\ p * f \in Int /\ c * u \in Int /\ u * k \in Int
          /\ v * f \in Int /\ c * f \in Int /\ f * k \in Int
      BY <1>1, <1>8
    <3> HIDE DEF gain, most, k, u, v
    <3> QED
      BY <1>6, <1>7, <1>10, <3>1, <3>2
  <2>3. gain * f \in Int /\ most * f \in Int
    BY <1>8
  <2> HIDE DEF gain, most
  <2> QED
    BY <2>1, <2>2, <2>3
<1>12. gain <= most /\ -most <= gain
  <2> HIDE DEF gain, most
  <2>1. gain < most + 1 /\ -most - 1 < gain
    BY <1>8, <1>11, Cancel
  <2> QED
    BY <1>8, <2>1
<1>13. gain = ms * r - (t - ms) * p
  <2>1. ms * k = ms * p + ms * r /\ (t - ms) * p = t * p - ms * p
    OBVIOUS
  <2> QED
    BY <2>1
<1> QED
  BY <1>12, <1>13

\* A sum within a part and a half of an allowance is within two of its quotient.
LEMMA WithinQuotient ==
  ASSUME NEW p \in Nat \ {0}, NEW b \in Nat, NEW y \in Int, NEW d \in Int,
         y - d * p <= b + p, -(b + p) <= y - d * p
  PROVE  /\ TruncDiv(y, p) - d <= (b \div p) + 2
         /\ -((b \div p) + 2) <= TruncDiv(y, p) - d
<1> DEFINE q == TruncDiv(y, p)
           g == b \div p
<1>1. q \in Int /\ q * p < y + p /\ y < q * p + p
  BY TruncDivInt, TruncDivClose
<1>2. g \in Nat /\ b < g * p + p
  BY Quotient
<1> HIDE DEF q, g
<1>3. (q - d) * p < (g + 3) * p /\ (-g - 3) * p < (q - d) * p
  <2>1. /\ (q - d) * p = q * p - d * p
        /\ (g + 3) * p = g * p + 3 * p /\ (-g - 3) * p = -(g * p) - 3 * p
    BY <1>1, <1>2
  <2>2. q * p \in Int /\ d * p \in Int /\ g * p \in Int
    BY <1>1, <1>2
  <2> QED
    BY <1>1, <1>2, <2>1, <2>2
<1>4. q - d < g + 3 /\ -g - 3 < q - d
  BY <1>1, <1>2, <1>3, Cancel
<1> QED
  BY <1>1, <1>2, <1>4 DEF q, g

-----------------------------------------------------------------------------
(***************************************************************************)
(* What is known of a capture: true time was within its error of it, and   *)
(* time and ticks have advanced together since.  A sample in hand has this *)
(* because nothing sleeps while a cycle is under way; an anchor has it for *)
(* as long as a time is shown, because a sleep splits the timescales.      *)
(***************************************************************************)

\* d ms of time and n ticks are what the awake machine made of one interval.
Together(d, n) == n >= 0 /\ d * TicksPerStep(drift) = n * StepMs

\* True time was within e of u when QPC read q, and the machine has not slept since.
TrueSince(u, q, e) ==
    \E w \in Int : Abs(u - w) <= e /\ Together(wall - w, qpc - q)

InHand == cycle.pc \in {"gated", "accepted"}

\* The sample in hand is true and young; the anchor's tick is of its time.
CapturesHold ==
    /\ wall <= Horizon
    /\ InHand => /\ TrueSince(cycle.utc, cycle.qpc, ConfessedMs(cycle.err))
                 /\ QpcTicksToMs(qpc - cycle.qpc) <= MaxInFlightMs
    /\ haveSample => /\ anchor.err > 0
                     /\ anchor.tick <= wall /\ -MaxInFlightMs <= anchor.tick

\* The anchor under a running time is true.
AnchorHolds == TimeRuns => TrueSince(anchor.utc, anchor.qpc, anchor.err)

\* Its tick is not ahead of its UTC by more than its error and the rounding.
TickHolds == haveSample => anchor.tick - anchor.utc <= anchor.err + RoundingMs

\* A step of the awake machine advances both.
LEMMA AdvanceTogether ==
  ASSUME IInv, Advance, NEW w \in Int, NEW q \in Int, Together(wall - w, qpc - q)
  PROVE  Together(wall - w, qpc - q)' /\ TicksPerStep(drift) \in Nat
<1> DEFINE m == TicksPerStep(drift)
           d == wall - w
           n == qpc - q
<1>1. m \in Nat
  <2>1. TicksPerStep(drift) >= 0 /\ TicksPerStep(drift) \in Int
    BY QpcIsMonotonic DEF IInv, TypeOK, TicksPerStep
  <2> QED
    BY <2>1
<1>2. d \in Int /\ n \in Int /\ n >= 0 /\ d * m = n * StepMs
  BY DEF IInv, TypeOK, Together
<1>3. wall' - w = d + StepMs /\ qpc' - q = n + m
  <2>1. wall' = wall + StepMs /\ qpc' = qpc + m /\ wall \in Int /\ qpc \in Int
    BY DEF Advance, IInv, TypeOK
  <2> HIDE DEF m
  <2> QED
    BY <1>1, <2>1
<1>4. drift' = drift
  BY DEF Advance
<1> HIDE DEF m, d, n
<1>5. (d + StepMs) * m = (n + m) * StepMs /\ n + m >= 0
  <2>1. (d + StepMs) * m = d * m + StepMs * m /\ (n + m) * StepMs = n * StepMs + m * StepMs
    BY <1>1, <1>2
  <2> QED
    BY <1>1, <1>2, <2>1
<1>6. Together(d + StepMs, n + m)
  BY <1>5 DEF Together, m
<1> QED
  BY <1>1, <1>3, <1>4, <1>6 DEF Together, m

\* No ticks are no milliseconds.
LEMMA NoTicks == QpcTicksToMs(0) = 0
<1>1. (0 + QpcFreq \div 2) \div QpcFreq = 0
  OBVIOUS
<1> QED
  BY <1>1 DEF QpcTicksToMs, RoundDiv

\* What steps other than those of the machine, a capture and a new anchor leave
\* alone: they may drop a sample or an anchor, never bring or change one.
LEMMA OthersKeep ==
  ASSUME ReadDisplay \/ CaptureFailed \/ (\E e \in ClusterErrs : CaptureClustered(e))
           \/ ClassifyGated \/ ClassifyFailed \/ CoreWitness \/ PublishOk
           \/ OnContinuityBroken \/ TripInop \/ Shutdown \/ Restart \/ UNCHANGED vars,
         IInv
  PROVE  /\ UNCHANGED <<wall, qpc, drift>>
         /\ InHand' => InHand /\ cycle'.utc = cycle.utc /\ cycle'.qpc = cycle.qpc /\ cycle'.err = cycle.err
         /\ haveSample' => haveSample /\ anchor' = anchor
         /\ TimeRuns' => TimeRuns
<1> USE DEF machine, flags, display, InHand, IInv, TypeOK
<1>1. CASE ReadDisplay
  BY <1>1 DEF ReadDisplay, TimeRuns
<1>2. CASE UNCHANGED Shows /\ drift' = drift
  <2>1. TimeRuns' <=> TimeRuns
    BY <1>2, DisplayKept
  <2>2. /\ UNCHANGED <<wall, qpc, drift>>
        /\ haveSample' => haveSample /\ anchor' = anchor
    BY <1>2 DEF Shows
  <2>3. InHand' => InHand /\ cycle'.utc = cycle.utc /\ cycle'.qpc = cycle.qpc /\ cycle'.err = cycle.err
    <3>1. CASE CaptureFailed \/ (\E e \in ClusterErrs : CaptureClustered(e))
      BY <3>1 DEF CaptureFailed, CaptureClustered, NoSample
    <3>2. CASE ClassifyGated
      BY <3>2 DEF ClassifyGated, ClassifyFirst, ClassifyAgreeing, ClassifyUncertain, ClassifyFault,
         Accepting, FaultHold
    <3>3. CASE ClassifyFailed
      BY <3>3 DEF ClassifyFailed
    <3>4. CASE CoreWitness \/ PublishOk
      BY <3>4 DEF CoreWitness, PublishOk
    <3>5. CASE UNCHANGED cycle
      BY <3>5
    <3>6. CASE Restart
      BY <3>6 DEF Restart, NoSample
    <3> QED
      BY <3>1, <3>2, <3>3, <3>4, <3>5, <3>6 DEF ReadDisplay, OnContinuityBroken, TripInop, Shutdown, vars
  <2> QED
    BY <2>1, <2>2, <2>3
<1>3. CASE OnContinuityBroken \/ TripInop
  BY <1>3 DEF OnContinuityBroken, TripInop, TimeRuns
<1>4. CASE Restart
  BY <1>4 DEF Restart, TimeRuns, NoSample
<1>5. ASSUME CaptureFailed \/ (\E e \in ClusterErrs : CaptureClustered(e))
               \/ ClassifyGated \/ ClassifyFailed \/ CoreWitness \/ PublishOk
               \/ Shutdown \/ UNCHANGED vars
      PROVE  UNCHANGED Shows /\ drift' = drift
  BY <1>5 DEF CaptureFailed, CaptureClustered, ClassifyGated, ClassifyFailed, CoreWitness, PublishOk,
     Shutdown, vars, Shows
<1> QED
  BY <1>1, <1>2, <1>3, <1>4, <1>5

\* What others keep, they keep for the samples and the anchor too.
LEMMA KeptHolds ==
  ASSUME IInv, IInv', CapturesHold,
         UNCHANGED <<wall, qpc, drift>>,
         InHand' => InHand /\ cycle'.utc = cycle.utc /\ cycle'.qpc = cycle.qpc /\ cycle'.err = cycle.err,
         haveSample' => haveSample /\ anchor' = anchor
  PROVE  CapturesHold'
<1>1. wall' <= Horizon
  BY DEF CapturesHold
<1>2. InHand' => /\ TrueSince(cycle.utc, cycle.qpc, ConfessedMs(cycle.err))'
                 /\ QpcTicksToMs(qpc - cycle.qpc)' <= MaxInFlightMs
  BY DEF CapturesHold, TrueSince, Together, QpcTicksToMs, ConfessedMs
<1>3. haveSample' => /\ anchor'.err > 0
                     /\ anchor'.tick <= wall' /\ -MaxInFlightMs <= anchor'.tick
  BY DEF CapturesHold
<1> QED
  BY <1>1, <1>2, <1>3 DEF CapturesHold

\* Time that passes awake keeps a sample true, and its guard keeps it young.
LEMMA AdvanceHolds == ASSUME IInv, IInv', CapturesHold, Advance PROVE CapturesHold'
<1>1. wall' = wall + StepMs /\ wall' <= Horizon /\ UNCHANGED <<anchor, haveSample, cycle>>
  BY DEF Advance
<1>2. ASSUME InHand
      PROVE  /\ TrueSince(cycle.utc, cycle.qpc, ConfessedMs(cycle.err))'
             /\ QpcTicksToMs(qpc - cycle.qpc)' <= MaxInFlightMs
  <2>1. PICK w \in Int : /\ Abs(cycle.utc - w) <= ConfessedMs(cycle.err)
                         /\ Together(wall - w, qpc - cycle.qpc)
    BY <1>2 DEF CapturesHold, TrueSince
  <2> DEFINE q == cycle.qpc
  <2>2. q \in Int
    BY DEF IInv, TypeOK
  <2> HIDE DEF q
  <2>3. Together(wall - w, qpc - q)
    BY <2>1 DEF q
  <2>4. PICK k \in Int : k = q
    BY <2>2
  <2>5. Together(wall' - w, qpc' - k) /\ drift' = drift
    <3>1. Together(wall - w, qpc - k)
      BY <2>3, <2>4
    <3>2. Together(wall - w, qpc - k)'
      BY <3>1, AdvanceTogether
    <3> QED
      BY <3>2 DEF Advance, Together
  <2>6. (cycle.qpc)' = k /\ (cycle.utc)' = cycle.utc /\ ConfessedMs(cycle.err)' = ConfessedMs(cycle.err)
    BY <1>1, <2>4 DEF q
  <2>7. TrueSince(cycle.utc, cycle.qpc, ConfessedMs(cycle.err))'
    BY <2>1, <2>5, <2>6 DEF TrueSince, Together
  <2>8. QpcTicksToMs(qpc' - cycle.qpc) <= MaxInFlightMs
    BY <1>2 DEF Advance, InHand
  <2> QED
    BY <1>1, <2>7, <2>8 DEF QpcTicksToMs
<1>3. InHand' <=> InHand
  BY <1>1 DEF InHand
<1>4. haveSample' => /\ anchor'.err > 0
                     /\ anchor'.tick <= wall' /\ -MaxInFlightMs <= anchor'.tick
  BY <1>1 DEF CapturesHold, IInv, TypeOK
<1> QED
  BY <1>1, <1>2, <1>3, <1>4 DEF CapturesHold

\* A sample captured now is true now.
LEMMA CaptureHolds ==
  ASSUME IInv, IInv', CapturesHold, SamplesWithinError, NEW s \in Samples, CaptureGated(s)
  PROVE  CapturesHold'
<1>1. /\ UNCHANGED <<wall, qpc, drift, anchor, haveSample>>
      /\ cycle' = [pc |-> "gated", utc |-> wall + s.off, qpc |-> qpc, err |-> s.err]
  BY DEF CaptureGated, machine
<1>2. s.off \in Int /\ Abs(s.off) <= ConfessedMs(s.err) /\ wall \in Int /\ qpc \in Int
  BY DEF SamplesWithinError, IInv, TypeOK
<1>3. Abs(cycle'.utc - wall) <= ConfessedMs(cycle'.err)
  <2>1. (wall + s.off) - wall = s.off
    BY <1>2
  <2> QED
    BY <1>1, <1>2, <2>1
<1>4. Together(wall - wall, qpc - qpc)'
  <2>1. wall' - wall' = 0 /\ qpc' - qpc' = 0
    BY <1>1, <1>2
  <2>2. drift \in Int /\ TicksPerStep(drift) \in Int
    BY DEF IInv, TypeOK, TicksPerStep
  <2>3. 0 * TicksPerStep(drift) = 0 * StepMs
    BY <2>2
  <2> QED
    BY <1>1, <2>1, <2>3 DEF Together
<1>5. TrueSince(cycle.utc, cycle.qpc, ConfessedMs(cycle.err))'
  BY <1>1, <1>2, <1>3, <1>4 DEF TrueSince, Together
<1>6. QpcTicksToMs(qpc - cycle.qpc)' <= MaxInFlightMs
  <2>1. qpc' - cycle'.qpc = 0
    BY <1>1, <1>2
  <2>2. QpcTicksToMs(qpc' - cycle'.qpc) = 0
    BY <2>1, NoTicks
  <2> QED
    BY <2>2 DEF QpcTicksToMs
<1> QED
  BY <1>1, <1>5, <1>6 DEF CapturesHold

\* The anchor is laid at the time of its sample, up to the age of the sample.
LEMMA LayAnchorHolds == ASSUME IInv, IInv', CapturesHold, LayAnchor PROVE CapturesHold'
<1> DEFINE age == QpcTicksToMs(qpc - cycle.qpc)
<1>1. age \in Int /\ age <= MaxInFlightMs
  BY QpcTicksToMsInt DEF IInv, TypeOK, CapturesHold, InHand, LayAnchor
<1>2. /\ UNCHANGED <<wall, qpc, drift>> /\ cycle' = [cycle EXCEPT !.pc = "synced"]
      /\ anchor'.tick = wall - NonNeg(age) /\ anchor'.err = ConfessedMs(cycle.err)
  BY DEF LayAnchor, machine, CaptureTick, ConfessedMs
<1> HIDE DEF age
<1>3. anchor'.tick <= wall /\ -MaxInFlightMs <= anchor'.tick
  BY <1>1, <1>2 DEF NonNeg, IInv, TypeOK
<1>4. anchor'.err > 0
  BY <1>2 DEF ConfessedMs, IInv, TypeOK
<1>5. ~InHand'
  BY <1>2 DEF InHand, IInv, TypeOK
<1> QED
  BY <1>2, <1>3, <1>4, <1>5 DEF CapturesHold

\* No sleep comes between a capture and its anchor.
LEMMA SleepHolds ==
  ASSUME IInv, IInv', CapturesHold, ~PauseInFlight, NEW p \in Pauses, Sleep(p)
  PROVE  CapturesHold'
<1>1. /\ wall' = wall + p /\ wall' <= Horizon /\ p \in Nat
      /\ UNCHANGED <<anchor, haveSample, cycle>> /\ cycle.pc = "idle"
  BY DEF Sleep
<1>2. ~InHand'
  BY <1>1 DEF InHand
<1>3. haveSample' => /\ anchor'.err > 0
                     /\ anchor'.tick <= wall' /\ -MaxInFlightMs <= anchor'.tick
  BY <1>1 DEF CapturesHold, IInv, TypeOK
<1> QED
  BY <1>1, <1>2, <1>3 DEF CapturesHold

LEMMA StepHolds ==
  ASSUME SamplesWithinError, ~PauseInFlight, IInv, IInv', CapturesHold, [Next]_vars
  PROVE  CapturesHold'
<1>1. CASE Advance
  BY <1>1, AdvanceHolds
<1>2. CASE \E p \in Pauses : Sleep(p)
  BY <1>2, SleepHolds
<1>3. CASE \E s \in Samples : CaptureGated(s)
  BY <1>3, CaptureHolds
<1>4. CASE LayAnchor
  BY <1>4, LayAnchorHolds
<1>5. CASE ReadDisplay \/ CaptureFailed \/ (\E e \in ClusterErrs : CaptureClustered(e))
             \/ ClassifyGated \/ ClassifyFailed \/ CoreWitness \/ PublishOk
             \/ OnContinuityBroken \/ TripInop \/ Shutdown \/ Restart \/ UNCHANGED vars
  BY <1>5, OthersKeep, KeptHolds
<1> QED
  BY <1>1, <1>2, <1>3, <1>4, <1>5 DEF Next, Capture, FinishCycle
-----------------------------------------------------------------------------

\* The tolerance is an integer, and while the anchor's tick is of its time it is
\* no larger than the constants say.
LEMMA ToleranceBounded ==
  ASSUME TypeOK
  PROVE  /\ Tolerance \in Nat /\ ToleranceAtMost \in Nat
         /\ TickAge <= Horizon + MaxInFlightMs => Tolerance <= ToleranceAtMost
<1> DEFINE age == TickAge
           most == Horizon + MaxInFlightMs
<1>1. age \in Nat /\ most \in Nat
  BY AgesNat
<1> HIDE DEF age, most
<1>2. age \div CONTINUITY_TRIP_DIV \in Nat /\ most \div CONTINUITY_TRIP_DIV \in Nat
  BY <1>1, Quotient
<1>3. age <= most => age \div CONTINUITY_TRIP_DIV <= most \div CONTINUITY_TRIP_DIV
  BY <1>1, QuotientMonotone
<1>4. /\ Tolerance = Larger(CONTINUITY_TRIP_MIN_MS, age \div CONTINUITY_TRIP_DIV)
      /\ ToleranceAtMost = Larger(CONTINUITY_TRIP_MIN_MS, most \div CONTINUITY_TRIP_DIV)
  BY DEF Tolerance, ToleranceAtMost, age, most
<1>5. /\ Tolerance \in Nat /\ ToleranceAtMost \in Nat
      /\ age <= most => Tolerance <= ToleranceAtMost
  BY <1>2, <1>3, <1>4 DEF Larger
<1> QED
  BY <1>5 DEF age, most

\* A sleep that the tolerance cannot hide stops the display.
LEMMA SleepIsNoticed ==
  ASSUME PausesAreNoticed, IInv, IInv', CapturesHold, NEW p \in Pauses, Sleep(p)
  PROVE  ~TimeRuns'
<1>1. /\ wall' = wall + p /\ wall' <= Horizon /\ p \in Nat
      /\ UNCHANGED <<qpc, anchor, haveSample, hardInop, qpcContinuityOk>>
  BY DEF Sleep, flags
<1>2. SUFFICES ASSUME haveSample, ~hardInop, qpcContinuityOk
               PROVE  TimescaleSplit'
  BY <1>1 DEF TimeRuns
<1>3. ~TimescaleSplit
  BY <1>2 DEF Sleep
<1>4. QpcAge' = QpcAge
  BY <1>1 DEF QpcAge, QpcTicksToMs
<1>5. anchor.tick \in Int /\ anchor.tick <= wall /\ -MaxInFlightMs <= anchor.tick /\ wall \in Nat
  BY <1>2 DEF CapturesHold, IInv, TypeOK
<1>6. TickAge = wall - anchor.tick /\ TickAge' = TickAge + p
  BY <1>1, <1>5 DEF TickAge, NonNeg
<1>7. TickAge <= Horizon + MaxInFlightMs /\ TickAge' <= Horizon + MaxInFlightMs
  BY <1>1, <1>5, <1>6
<1>8. Tolerance \in Nat /\ Tolerance <= ToleranceAtMost /\ ToleranceAtMost \in Nat
  BY <1>7, ToleranceBounded DEF IInv
<1>9. Tolerance' \in Nat /\ Tolerance' <= ToleranceAtMost
  <2>1. (/\ Tolerance \in Nat
         /\ TickAge <= Horizon + MaxInFlightMs => Tolerance <= ToleranceAtMost)'
    BY ToleranceBounded, PTL DEF IInv
  <2> QED
    BY <1>7, <2>1
<1>10. Abs(TickAge - QpcAge) <= Tolerance
  <2>1. TickAge \in Nat /\ QpcAge \in Nat
    BY AgesNat DEF IInv
  <2> QED
    BY <1>3, <1>8, <2>1, AbsNat DEF TimescaleSplit
<1>11. p > 2 * ToleranceAtMost
  BY DEF PausesAreNoticed
<1> DEFINE tick == TickAge
           ticks == QpcAge
           tol == Tolerance
           later == Tolerance'
<1>12. tick \in Nat /\ ticks \in Nat /\ tol \in Nat /\ later \in Nat
  BY <1>8, <1>9, AgesNat DEF IInv
<1>13. Abs((tick + p) - ticks) > later
  <2>1. Abs(tick - ticks) <= tol /\ tol <= ToleranceAtMost /\ later <= ToleranceAtMost
    BY <1>8, <1>9, <1>10
  <2> HIDE DEF tick, ticks, tol, later
  <2> QED
    BY <1>1, <1>8, <1>11, <1>12, <2>1 DEF Abs
<1> QED
  BY <1>4, <1>6, <1>13 DEF TimescaleSplit

\* As long as a time is shown, its anchor is true: it was when laid, time awake
\* keeps it so, and a sleep stops the display.
LEMMA StepKeepsAnchor ==
  ASSUME PausesAreNoticed, IInv, IInv', CapturesHold, AnchorHolds, [Next]_vars
  PROVE  AnchorHolds'
<1> SUFFICES ASSUME TimeRuns'
             PROVE  TrueSince(anchor.utc, anchor.qpc, anchor.err)'
  BY DEF AnchorHolds
<1>1. CASE Advance
  <2>1. UNCHANGED <<anchor, haveSample, flags>> /\ drift' = drift
    BY <1>1 DEF Advance
  <2>2. TimeRuns
    BY <1>1, <2>1 DEF Advance, TimeRuns, flags
  <2>3. PICK w \in Int : Abs(anchor.utc - w) <= anchor.err /\ Together(wall - w, qpc - anchor.qpc)
    BY <2>2 DEF AnchorHolds, TrueSince
  <2>4. PICK k \in Int : k = anchor.qpc
    BY DEF IInv, TypeOK
  <2>5. Together(wall - w, qpc - k)'
    <3>1. Together(wall - w, qpc - k)
      BY <2>3, <2>4
    <3> QED
      BY <1>1, <3>1, AdvanceTogether
  <2> QED
    BY <2>1, <2>3, <2>4, <2>5 DEF TrueSince, Together
<1>2. CASE \E p \in Pauses : Sleep(p)
  BY <1>2, SleepIsNoticed
<1>3. CASE LayAnchor
  <2>1. TrueSince(cycle.utc, cycle.qpc, ConfessedMs(cycle.err))
    BY <1>3 DEF CapturesHold, InHand, LayAnchor
  <2>2. /\ UNCHANGED <<wall, qpc, drift>>
        /\ anchor'.utc = cycle.utc /\ anchor'.qpc = cycle.qpc /\ anchor'.err = ConfessedMs(cycle.err)
    BY <1>3 DEF LayAnchor, machine, ConfessedMs
  <2> QED
    BY <2>1, <2>2 DEF TrueSince, Together
<1>4. CASE \E s \in Samples : CaptureGated(s)
  <2>1. UNCHANGED Shows /\ drift' = drift
    BY <1>4 DEF CaptureGated, Shows, machine
  <2>2. TimeRuns
    BY <2>1, DisplayKept
  <2> QED
    BY <2>1, <2>2 DEF AnchorHolds, TrueSince, Together, Shows
<1>5. CASE ReadDisplay \/ CaptureFailed \/ (\E e \in ClusterErrs : CaptureClustered(e))
             \/ ClassifyGated \/ ClassifyFailed \/ CoreWitness \/ PublishOk
             \/ OnContinuityBroken \/ TripInop \/ Shutdown \/ Restart \/ UNCHANGED vars
  <2>1. /\ UNCHANGED <<wall, qpc, drift>> /\ TimeRuns
        /\ haveSample' => anchor' = anchor
    BY <1>5, OthersKeep
  <2>2. anchor' = anchor
    BY <2>1 DEF TimeRuns
  <2> QED
    BY <2>1, <2>2 DEF AnchorHolds, TrueSince, Together
<1> QED
  BY <1>1, <1>2, <1>3, <1>4, <1>5 DEF Next, Capture, FinishCycle

\* What the rate makes of the ticks since a capture is off by no more than the
\* growth the clock allows for those ticks, and two milliseconds.
LEMMA ProjectedTimeIsClose ==
  ASSUME IInv, RateDefensible, NEW t \in Int, NEW x \in Int, Together(t, x)
  PROVE  LET ms == QpcTicksToMs(x)
             off == TruncDiv(ms * ratePpm, PPM) - (t - ms)
             grown == (RATE_CLAMP_PPM * ms) \div PPM
         IN  ms \in Nat /\ off \in Int /\ off <= grown + 2 /\ -(grown + 2) <= off
<1> DEFINE n == x * 1000
           ms == QpcTicksToMs(x)
           m == 1000 * TicksPerStep(drift)
           a == QpcFreq * PPM
           l == PPM + ratePpm
<1>1. TicksPerStep(drift) \in Nat
  <2>1. TicksPerStep(drift) >= 0 /\ TicksPerStep(drift) \in Int
    BY QpcIsMonotonic DEF IInv, TypeOK, TicksPerStep
  <2> QED
    BY <2>1
<1>2. /\ n \in Nat /\ m \in Nat /\ a \in Nat \ {0} /\ l \in Int
      /\ ratePpm \in -RATE_CLAMP_PPM .. RATE_CLAMP_PPM
  BY <1>1 DEF Together, IInv, TypeOK
<1>3. ms \in Nat /\ 2 * (ms * QpcFreq) <= 2 * n + QpcFreq /\ 2 * n - QpcFreq <= 2 * (ms * QpcFreq)
  <2>1. ms = RoundDiv(n, QpcFreq)
    BY DEF QpcTicksToMs
  <2> HIDE DEF n
  <2>2. (n + QpcFreq \div 2) \div QpcFreq \in Nat
    <3>1. QpcFreq \div 2 \in Nat
      OBVIOUS
    <3>2. n + QpcFreq \div 2 \in Nat
      BY <1>2, <3>1
    <3> QED
      BY <3>2, Quotient
  <2>3. RoundDiv(n, QpcFreq) \in Nat
    BY <1>2, <2>2 DEF RoundDiv
  <2> QED
    BY <1>2, <2>1, <2>3, RoundDivClose
<1>4. t * m = n * StepMs
  <2>1. t * TicksPerStep(drift) = x * StepMs
    BY DEF Together
  <2>2. t * m = 1000 * (t * TicksPerStep(drift)) /\ n * StepMs = 1000 * (x * StepMs)
    BY <1>1
  <2> QED
    BY <2>1, <2>2
<1>5. m * l - StepMs * a <= RATE_CLAMP_PPM * m /\ -(RATE_CLAMP_PPM * m) <= m * l - StepMs * a
  <2>1. Abs(m * l - StepMs * QpcFreq * PPM) <= RATE_CLAMP_PPM * m
    BY DEF RateDefensible
  <2>2. StepMs * QpcFreq * PPM = StepMs * a
    OBVIOUS
  <2> DEFINE gain == m * l - StepMs * a
             most == RATE_CLAMP_PPM * m
  <2>3. gain \in Int /\ most \in Int /\ Abs(gain) <= most
    BY <1>2, <2>1, <2>2
  <2> HIDE DEF gain, most
  <2>4. gain <= most /\ -most <= gain
    BY <2>3 DEF Abs
  <2> QED
    BY <2>4 DEF gain, most
<1> HIDE DEF m, l, a, n, ms
<1>6. n * l - t * a <= RATE_CLAMP_PPM * n /\ -(RATE_CLAMP_PPM * n) <= n * l - t * a
  BY <1>2, <1>4, <1>5, StepsScale
<1>7. /\ n * (PPM + ratePpm) - t * (QpcFreq * PPM) <= RATE_CLAMP_PPM * n
      /\ -(RATE_CLAMP_PPM * n) <= n * (PPM + ratePpm) - t * (QpcFreq * PPM)
  BY <1>6 DEF l, a
<1>8. /\ ms * ratePpm - (t - ms) * PPM <= RATE_CLAMP_PPM * ms + PPM
      /\ -(RATE_CLAMP_PPM * ms + PPM) <= ms * ratePpm - (t - ms) * PPM
  <2>1. n \in Int /\ ms \in Int /\ 2 * RATE_CLAMP_PPM <= PPM
    BY <1>2, <1>3, ClampIsSmall
  <2> QED
    BY <1>2, <1>3, <1>7, <2>1, RoundedScale
<1> DEFINE b == RATE_CLAMP_PPM * ms
           y == ms * ratePpm
           d == t - ms
<1>9. b \in Nat /\ y \in Int /\ d \in Int /\ y - d * PPM <= b + PPM /\ -(b + PPM) <= y - d * PPM
  BY <1>2, <1>3, <1>8
<1>10. TruncDiv(y, PPM) \in Int
  BY <1>9, TruncDivInt
<1> HIDE DEF b, y, d
<1>11. TruncDiv(y, PPM) - d <= (b \div PPM) + 2 /\ -((b \div PPM) + 2) <= TruncDiv(y, PPM) - d
  BY <1>9, WithinQuotient
<1>12. TruncDiv(y, PPM) - d \in Int
  BY <1>9, <1>10
<1> QED
  BY <1>3, <1>11, <1>12 DEF b, y, d, ms

\* The error shown is the anchor's own, and that of the projection since.
LEMMA TrueAnchorIsHonest == ASSUME IInv, CapturesHold, AnchorHolds PROVE HonestBound
<1> SUFFICES ASSUME Running, RateDefensible
             PROVE  Abs(Project(qpc) - wall) <= BoundMs + RoundingMs
  BY DEF HonestBound
<1>1. TimeRuns /\ haveSample
  BY RunningIsOfTheFlags DEF IInv, TimeRuns
<1>2. PICK w \in Int : Abs(anchor.utc - w) <= anchor.err /\ Together(wall - w, qpc - anchor.qpc)
  BY <1>1 DEF AnchorHolds, TrueSince
<1>3. /\ anchor.err \in Nat /\ anchor.err > 0 /\ anchor.utc \in Int /\ anchor.qpc \in Int
      /\ wall \in Int /\ qpc \in Int /\ faultInflateMs \in Nat
  BY <1>1 DEF CapturesHold, IInv, TypeOK
<1> DEFINE x == qpc - anchor.qpc
           t == wall - w
           ms == QpcTicksToMs(x)
           steered == TruncDiv(ms * ratePpm, PPM)
           grown == (RATE_CLAMP_PPM * ms) \div PPM
<1>4. /\ ms \in Nat /\ steered \in Int
      /\ steered - (t - ms) <= grown + 2 /\ -(grown + 2) <= steered - (t - ms)
  <2>1. PICK j \in Int, k \in Int : j = x /\ k = t
    BY <1>3
  <2>2. Together(k, j)
    BY <1>2, <2>1
  <2>3. /\ QpcTicksToMs(j) \in Nat
        /\ TruncDiv(QpcTicksToMs(j) * ratePpm, PPM) - (k - QpcTicksToMs(j))
             <= ((RATE_CLAMP_PPM * QpcTicksToMs(j)) \div PPM) + 2
        /\ -(((RATE_CLAMP_PPM * QpcTicksToMs(j)) \div PPM) + 2)
             <= TruncDiv(QpcTicksToMs(j) * ratePpm, PPM) - (k - QpcTicksToMs(j))
    BY <2>1, <2>2, ProjectedTimeIsClose
  <2>4. ms \in Nat /\ ms * ratePpm \in Int
    BY <2>1, <2>3 DEF IInv, TypeOK
  <2>5. steered \in Int
    BY <2>4, TruncDivInt
  <2> QED
    BY <2>1, <2>3, <2>4, <2>5
<1>5. grown \in Nat /\ GrowthMs \in Nat /\ grown <= GrowthMs
  <2> DEFINE age == Larger(QpcAge, TickAge)
  <2>1. age \in Nat /\ ms <= age
    <3>1. QpcAge = ms
      BY <1>4 DEF QpcAge, NonNeg
    <3> QED
      BY <3>1, AgesNat, LargerInt DEF IInv
  <2>2. RATE_CLAMP_PPM * ms <= age * RATE_CLAMP_PPM
    <3>1. ms \in Nat
      BY <1>4
    <3> HIDE DEF age, ms
    <3> QED
      BY <2>1, <3>1
  <2>3. RATE_CLAMP_PPM * ms \in Nat /\ age * RATE_CLAMP_PPM \in Nat
    BY <1>4, <2>1
  <2> HIDE DEF age, ms
  <2>4. grown <= (age * RATE_CLAMP_PPM) \div PPM
    BY <2>2, <2>3, QuotientMonotone
  <2>5. grown \in Nat
    BY <2>3, Quotient
  <2> QED
    BY <2>4, <2>5, BoundNat DEF GrowthMs, age, IInv
<1>6. BoundMs \in Nat /\ BoundMs >= anchor.err + grown
  <2>1. BaseMs = anchor.err
    BY <1>3 DEF BaseMs
  <2>2. BoundMs = anchor.err + Larger(GrowthMs, faultInflateMs)
    BY <2>1, BoundNat DEF IInv
  <2>3. Larger(GrowthMs, faultInflateMs) >= GrowthMs /\ Larger(GrowthMs, faultInflateMs) \in Int
    BY <1>3, <1>5 DEF Larger
  <2>4. BoundMs \in Nat
    BY BoundNat DEF IInv
  <2> HIDE DEF grown
  <2> QED
    BY <1>3, <1>5, <2>2, <2>3, <2>4
<1>7. Project(qpc) = anchor.utc + ms + steered
  BY DEF Project
<1>8. anchor.utc - w <= anchor.err /\ -anchor.err <= anchor.utc - w
  BY <1>2, <1>3 DEF Abs
<1> DEFINE error == (anchor.utc - w) + (steered - (t - ms))
<1>9. Project(qpc) - wall = error /\ error \in Int
  <2>1. t = wall - w
    OBVIOUS
  <2> HIDE DEF ms, steered, t
  <2> QED
    BY <1>3, <1>4, <1>7, <2>1
<1>10. error <= BoundMs + 2 /\ -(BoundMs + 2) <= error
  <2>1. t \in Int
    BY <1>3
  <2> HIDE DEF ms, steered, t, grown
  <2> QED
    BY <1>3, <1>4, <1>5, <1>6, <1>8, <2>1
<1> HIDE DEF error
<1> QED
  BY <1>6, <1>9, <1>10 DEF Abs, RoundingMs

LEMMA StartHolds == Init => CapturesHold /\ AnchorHolds /\ TickHolds
  BY DEF Init, CapturesHold, AnchorHolds, TickHolds, InHand, NoSample, TimeRuns

LEMMA SpecHolds ==
  ASSUME SamplesWithinError, ~PauseInFlight
  PROVE  Spec => []CapturesHold
<1>1. IInv /\ IInv' /\ CapturesHold /\ [Next]_vars => CapturesHold'
  BY StepHolds
<1> QED
  BY <1>1, StartHolds, SpecIInv, PTL DEF Spec

\* The bound is honest: whenever a running time is shown, true UTC is within the
\* bound of it, however the machine slept, drifted, lost its process or was
\* steered since, and whatever other cycles reported.  It rests on samples that are
\* within the error they confess, on no sleep between a capture and its anchor,
\* and on sleeps that the tolerance cannot hide.
THEOREM BoundIsHonest ==
  ASSUME SamplesWithinError, ~PauseInFlight, PausesAreNoticed
  PROVE  Spec => []HonestBound
<1>1. IInv /\ IInv' /\ CapturesHold /\ AnchorHolds /\ [Next]_vars => AnchorHolds'
  BY StepKeepsAnchor
<1>2. IInv /\ CapturesHold /\ AnchorHolds => HonestBound
  BY TrueAnchorIsHonest
<1> QED
  BY <1>1, <1>2, StartHolds, SpecHolds, SpecIInv, PTL DEF Spec
-----------------------------------------------------------------------------
(***************************************************************************)
(* OK is fresh.  The tick of an anchor is back-dated by the age of its     *)
(* sample on the QPC timescale, so the wait does not hide in it.           *)
(***************************************************************************)

\* The age of a young sample, in rounded milliseconds of QPC, falls short of the
\* time that passed by two at most.
LEMMA YoungSample ==
  ASSUME NEW s \in Nat \ {0}, NEW f \in Nat \ {0}, NEW m \in Nat, NEW n \in Nat, NEW t \in Int,
         NEW ms \in Nat, NEW most \in Nat, ms <= most,
         t * m = n * s, 2 * n - f <= 2 * (ms * f), Abs(m - s * f) * (most + 1) <= 2 * m
  PROVE  t - ms <= 2
<1> DEFINE d == m - s * f
           size == Abs(d)
<1>1. d \in Int /\ size \in Nat /\ -size <= d /\ s * f = m - d /\ size * (most + 1) <= 2 * m
  BY AbsNat DEF Abs
<1>2. m > 0
  <2>1. s * f > 0
    OBVIOUS
  <2>2. m = 0 => d < 0 /\ size > 0
    BY <2>1 DEF Abs
  <2>3. size > 0 => size * (most + 1) > 0
    <3> HIDE DEF size
    <3> QED
      BY <1>1
  <2> QED
    BY <1>1, <2>2, <2>3
<1>3. 2 * (t * m) <= (2 * ms + 1) * (s * f)
  <2>1. (2 * n) * s <= (2 * (ms * f) + f) * s
    OBVIOUS
  <2>2. (2 * n) * s = 2 * (n * s) /\ (2 * (ms * f) + f) * s = (2 * ms + 1) * (s * f)
    OBVIOUS
  <2> QED
    BY <2>1, <2>2
<1> HIDE DEF d, size
<1>4. (2 * ms + 1) * (s * f) <= (2 * ms + 1) * m + 4 * m
  <2>1. (2 * ms + 1) * (s * f) = (2 * ms + 1) * m - (2 * ms + 1) * d
    BY <1>1
  <2>2. -((2 * ms + 1) * d) <= (2 * ms + 1) * size
    BY <1>1
  <2>3. (2 * ms + 1) * size <= (2 * (most + 1)) * size
    BY <1>1
  <2>4. (2 * (most + 1)) * size = 2 * (size * (most + 1))
    BY <1>1
  <2>5. /\ (2 * ms + 1) * size \in Int /\ (2 * ms + 1) * d \in Int /\ (2 * ms + 1) * m \in Int
        /\ size * (most + 1) \in Int
    BY <1>1
  <2> QED
    BY <1>1, <2>1, <2>2, <2>3, <2>4, <2>5
<1>5. (2 * t) * m < (2 * ms + 6) * m
  <2>1. (2 * t) * m = 2 * (t * m) /\ (2 * ms + 6) * m = (2 * ms + 1) * m + 5 * m
    OBVIOUS
  <2>2. t * m \in Int /\ (2 * ms + 1) * m \in Int /\ (2 * ms + 1) * (s * f) \in Int
    OBVIOUS
  <2> QED
    BY <1>2, <1>3, <1>4, <2>1, <2>2
<1>6. 2 * t < 2 * ms + 6
  BY <1>2, <1>5, Cancel
<1> QED
  BY <1>6

\* So the anchor's tick is not ahead of the time its sample stands for.
LEMMA TickOfCapture ==
  ASSUME CyclesKeepTime, IInv, CapturesHold, LayAnchor
  PROVE  anchor'.tick - anchor'.utc <= anchor'.err + RoundingMs
<1>1. PICK w \in Int : /\ Abs(cycle.utc - w) <= ConfessedMs(cycle.err)
                       /\ Together(wall - w, qpc - cycle.qpc)
  BY DEF LayAnchor, InHand, CapturesHold, TrueSince
<1>2. PICK t \in Int, x \in Int : t = wall - w /\ x = qpc - cycle.qpc
  BY DEF IInv, TypeOK
<1> DEFINE ms == QpcTicksToMs(x)
           n == x * 1000
           m == 1000 * TicksPerStep(drift)
<1>3. TicksPerStep(drift) \in Nat /\ drift \in Drifts
  <2>1. TicksPerStep(drift) >= 0 /\ TicksPerStep(drift) \in Int
    BY QpcIsMonotonic DEF IInv, TypeOK, TicksPerStep
  <2> QED
    BY <2>1 DEF IInv, TypeOK
<1>4. x \in Nat /\ t * TicksPerStep(drift) = x * StepMs
  BY <1>1, <1>2 DEF Together
<1>5. n \in Nat /\ m \in Nat /\ t * m = n * StepMs
  <2>1. t * m = 1000 * (t * TicksPerStep(drift)) /\ n * StepMs = 1000 * (x * StepMs)
    BY <1>3, <1>4
  <2> QED
    BY <1>3, <1>4, <2>1
<1>6. ms \in Nat /\ 2 * n - QpcFreq <= 2 * (ms * QpcFreq) /\ ms <= MaxInFlightMs
  <2>1. ms = RoundDiv(n, QpcFreq)
    BY DEF QpcTicksToMs
  <2>2. ms <= MaxInFlightMs
    BY <1>2 DEF LayAnchor, InHand, CapturesHold
  <2>3. QpcFreq \div 2 \in Nat
    OBVIOUS
  <2> HIDE DEF n, ms
  <2>4. (n + QpcFreq \div 2) \div QpcFreq \in Nat
    BY <1>5, <2>3, Quotient
  <2>5. RoundDiv(n, QpcFreq) \in Nat
    BY <1>5, <2>4 DEF RoundDiv
  <2> QED
    BY <1>5, <2>1, <2>2, <2>5, RoundDivClose
<1>7. Abs(m - StepMs * QpcFreq) * (MaxInFlightMs + 1) <= 2 * m
  BY <1>3 DEF CyclesKeepTime
<1> HIDE DEF m, n, ms
<1>8. t - ms <= 2
  BY <1>5, <1>6, <1>7, YoungSample
<1>9. anchor'.tick = wall - ms /\ anchor'.utc = cycle.utc /\ anchor'.err = ConfessedMs(cycle.err)
  <2>1. NonNeg(QpcTicksToMs(qpc - cycle.qpc)) = ms
    BY <1>2, <1>6 DEF ms, NonNeg
  <2> QED
    BY <2>1 DEF LayAnchor, CaptureTick, ConfessedMs
<1>10. cycle.utc \in Int /\ wall \in Int /\ ConfessedMs(cycle.err) \in Int
  BY DEF IInv, TypeOK, ConfessedMs
<1>11. w - cycle.utc <= ConfessedMs(cycle.err)
  BY <1>1, <1>10 DEF Abs
<1> QED
  BY <1>2, <1>6, <1>8, <1>9, <1>10, <1>11 DEF RoundingMs

\* No other step touches the anchor, but the restart that drops it.
LEMMA StepKeepsTick ==
  ASSUME CyclesKeepTime, IInv, IInv', CapturesHold, TickHolds, [Next]_vars
  PROVE  TickHolds'
<1>1. CASE LayAnchor
  BY <1>1, TickOfCapture DEF TickHolds
<1>2. CASE Advance \/ (\E p \in Pauses : Sleep(p)) \/ (\E s \in Samples : CaptureGated(s))
  BY <1>2 DEF Advance, Sleep, CaptureGated, TickHolds
<1>3. CASE ReadDisplay \/ CaptureFailed \/ (\E e \in ClusterErrs : CaptureClustered(e))
             \/ ClassifyGated \/ ClassifyFailed \/ CoreWitness \/ PublishOk
             \/ OnContinuityBroken \/ TripInop \/ Shutdown \/ Restart \/ UNCHANGED vars
  BY <1>3, OthersKeep DEF TickHolds
<1> QED
  BY <1>1, <1>2, <1>3 DEF Next, Capture, FinishCycle

\* OK is fresh: it rests on a sample captured, in true time, no longer ago than
\* the staleness window and the sample's own error, however long its cycle waited
\* before it laid the anchor.  It rests on truthful samples, no sleep in that wait,
\* and an oscillator that keeps the time of one cycle.
THEOREM OkRestsOnAFreshSample ==
  ASSUME SamplesWithinError, ~PauseInFlight, CyclesKeepTime
  PROVE  Spec => []OkIsFresh
<1>1. IInv /\ IInv' /\ CapturesHold /\ TickHolds /\ [Next]_vars => TickHolds'
  BY StepKeepsTick
<1>2. IInv /\ TickHolds => OkIsFresh
  <2> SUFFICES ASSUME IInv, TickHolds, DisplayState = OK
               PROVE  wall - anchor.utc <= CYCLE_STALE_AFTER_MS + anchor.err + RoundingMs
    BY DEF OkIsFresh
  <2>1. haveSample /\ wall - anchor.tick <= CYCLE_STALE_AFTER_MS
    BY DEF DisplayState
  <2> QED
    BY <2>1 DEF TickHolds, IInv, TypeOK, RoundingMs
<1> QED
  BY <1>1, <1>2, StartHolds, SpecHolds, SpecIInv, PTL DEF Spec
-----------------------------------------------------------------------------
(***************************************************************************)
(* Steps of the time need evidence.  The streak counters summarise the     *)
(* history: as many indictments as they count, from one on, tell one story *)
(* with it.                                                                *)
(***************************************************************************)
Disagreements == [diff : Int, err : Nat]

\* The history tells a story of at least n indictments that began as s says.
Tells(h, n, s) ==
    \E i \in 1 .. Len(h) :
        /\ OneStory(h, i) /\ Cardinality(Since(h, i)) >= n
        /\ s.sign = SignOf(h[i].diff) /\ s.mag = Abs(h[i].diff)

StreakHolds ==
    /\ history \in Seq(Disagreements)
    /\ faults > 0 => Tells(history, faults, streak)

LEMMA SinceIsFinite ==
  ASSUME NEW h \in Seq(Disagreements), NEW i \in 1 .. Len(h)
  PROVE  IsFiniteSet(Since(h, i)) /\ Cardinality(Since(h, i)) \in Nat
<1>1. Since(h, i) \in SUBSET (i .. Len(h)) /\ IsFiniteSet(i .. Len(h))
  BY FS_Interval DEF Since
<1>2. IsFiniteSet(Since(h, i))
  BY <1>1, FS_Subset
<1> QED
  BY <1>2, FS_CardinalityType

\* One more disagreement is one more indictment, or none.
LEMMA SinceAppended ==
  ASSUME NEW h \in Seq(Disagreements), NEW c \in Disagreements, NEW i \in 1 .. Len(h)
  PROVE  /\ Append(h, c) \in Seq(Disagreements) /\ Len(Append(h, c)) = Len(h) + 1
         /\ \A j \in 1 .. Len(h) : Append(h, c)[j] = h[j]
         /\ Append(h, c)[Len(h) + 1] = c
         /\ Since(Append(h, c), i) = IF Indicts(c) THEN Since(h, i) \cup {Len(h) + 1}
                                     ELSE Since(h, i)
<1> DEFINE g == Append(h, c)
           n == Len(h)
<1>1. /\ g \in Seq(Disagreements) /\ Len(g) = n + 1 /\ n \in Nat
      /\ \A j \in 1 .. n : g[j] = h[j]
      /\ g[n + 1] = c
  OBVIOUS
<1> HIDE DEF g
<1>2. i .. n + 1 = (i .. n) \cup {n + 1}
  OBVIOUS
<1>3. Since(g, i) = IF Indicts(c) THEN Since(h, i) \cup {n + 1} ELSE Since(h, i)
  <2>1. \A j \in i .. n : g[j] = h[j]
    BY <1>1
  <2>2. {j \in i .. n : Indicts(g[j])} = {j \in i .. n : Indicts(h[j])}
    BY <2>1
  <2>3. {j \in i .. n + 1 : Indicts(g[j])}
          = {j \in i .. n : Indicts(g[j])} \cup {j \in {n + 1} : Indicts(g[j])}
    BY <1>2
  <2>4. {j \in {n + 1} : Indicts(g[j])} = IF Indicts(c) THEN {n + 1} ELSE {}
    BY <1>1
  <2> QED
    BY <1>1, <2>2, <2>3, <2>4 DEF Since
<1> QED
  BY <1>1, <1>3 DEF g

\* A disagreement its own uncertainty explains changes no story.
LEMMA ExcusedKeeps ==
  ASSUME NEW h \in Seq(Disagreements), NEW c \in Disagreements, NEW n, NEW s,
         ~Indicts(c), Tells(h, n, s)
  PROVE  Tells(Append(h, c), n, s)
<1>1. PICK i \in 1 .. Len(h) :
        /\ OneStory(h, i) /\ Cardinality(Since(h, i)) >= n
        /\ s.sign = SignOf(h[i].diff) /\ s.mag = Abs(h[i].diff)
  BY DEF Tells
<1> DEFINE g == Append(h, c)
<1>2. /\ Len(g) = Len(h) + 1 /\ Since(g, i) = Since(h, i)
      /\ \A j \in 1 .. Len(h) : g[j] = h[j]
  BY SinceAppended
<1>3. Since(h, i) \subseteq 1 .. Len(h)
  BY DEF Since
<1> HIDE DEF g
<1>4. OneStory(g, i)
  BY <1>1, <1>2, <1>3 DEF OneStory
<1>5. i \in 1 .. Len(g) /\ g[i] = h[i]
  BY <1>2
<1> QED
  BY <1>1, <1>2, <1>4, <1>5 DEF Tells, g

\* One that is consistent with the first makes the story longer.
LEMMA ConsistentContinues ==
  ASSUME NEW h \in Seq(Disagreements), NEW c \in Disagreements, NEW n \in Nat, NEW s,
         Indicts(c), Tells(h, n, s),
         SignOf(c.diff) = s.sign, Abs(c.diff) * 2 >= s.mag, Abs(c.diff) <= s.mag * 2
  PROVE  Tells(Append(h, c), n + 1, s)
<1>1. PICK i \in 1 .. Len(h) :
        /\ OneStory(h, i) /\ Cardinality(Since(h, i)) >= n
        /\ s.sign = SignOf(h[i].diff) /\ s.mag = Abs(h[i].diff)
  BY DEF Tells
<1> DEFINE g == Append(h, c)
           m == Len(h) + 1
<1>2. /\ Len(g) = m /\ Since(g, i) = Since(h, i) \cup {m}
      /\ (\A j \in 1 .. Len(h) : g[j] = h[j]) /\ g[m] = c
  BY SinceAppended
<1>3. Since(h, i) \subseteq 1 .. Len(h) /\ i \in Since(h, i)
  BY <1>1 DEF Since, OneStory
<1>4. /\ IsFiniteSet(Since(h, i)) /\ Cardinality(Since(h, i)) \in Nat
      /\ m \notin Since(h, i)
  BY <1>3, SinceIsFinite
<1> HIDE DEF g, m
<1>5. Cardinality(Since(g, i)) >= n + 1
  <2>1. Cardinality(Since(g, i)) = Cardinality(Since(h, i)) + 1
    BY <1>2, <1>4, FS_AddElement
  <2> QED
    BY <1>1, <1>4, <2>1
<1>6. i \in 1 .. Len(g) /\ g[i] = h[i]
  BY <1>2 DEF m
<1>7. OneStory(g, i)
  <2> SUFFICES ASSUME NEW j \in Since(g, i)
               PROVE  /\ SignOf(g[j].diff) = SignOf(g[i].diff)
                      /\ Abs(g[j].diff) * 2 >= Abs(g[i].diff)
                      /\ Abs(g[j].diff) <= Abs(g[i].diff) * 2
    BY <1>2, <1>3 DEF OneStory
  <2>1. CASE j \in Since(h, i)
    BY <1>1, <1>2, <1>3, <1>6, <2>1 DEF OneStory
  <2>2. CASE j = m
    BY <1>1, <1>2, <1>6, <2>2
  <2> QED
    BY <1>2, <2>1, <2>2
<1> QED
  BY <1>1, <1>5, <1>6, <1>7 DEF Tells, g

\* Any indictment begins a story.
LEMMA IndictmentBegins ==
  ASSUME NEW h \in Seq(Disagreements), NEW c \in Disagreements, Indicts(c)
  PROVE  Tells(Append(h, c), 1, [sign |-> SignOf(c.diff), mag |-> Abs(c.diff)])
<1> DEFINE g == Append(h, c)
           m == Len(h) + 1
<1>1. Len(g) = m /\ g[m] = c /\ m \in 1 .. m /\ m .. m = {m}
  OBVIOUS
<1> HIDE DEF g, m
<1>2. Since(g, m) = {m}
  BY <1>1 DEF Since
<1>3. Cardinality(Since(g, m)) = 1
  BY <1>2, FS_Singleton
<1>4. Abs(c.diff) \in Nat
  BY AbsNat DEF Disagreements
<1>5. OneStory(g, m)
  BY <1>1, <1>2, <1>4 DEF OneStory
<1> QED
  BY <1>1, <1>3, <1>5 DEF Tells, g

\* What is counted against the anchor is a story that ends with this disagreement.
LEMMA CountedIsTold ==
  ASSUME TypeOK, StreakHolds, Abs(Residual) > FAULT_THRESHOLD_MS, ~Uncertain
  PROVE  Tells(WithThis, IF faults > 0 THEN CountedFaults ELSE 1, NewStreak)
<1> DEFINE c == [diff |-> Residual, err |-> cycle.err]
<1>1. c \in Disagreements /\ Abs(c.diff) \in Nat /\ history \in Seq(Disagreements)
  BY ResidualInt DEF TypeOK, Disagreements, StreakHolds
<1>2. Indicts(c)
  <2>1. Larger(cycle.err, FAULT_EVIDENCE_FLOOR_MS) \in Nat
    BY DEF TypeOK, Larger
  <2> QED
    BY <1>1, <2>1 DEF Uncertain, Indicts
<1>3. CASE faults > 0 /\ Consistent
  <2>1. faults \in Nat
    BY DEF TypeOK
  <2>2. Tells(Append(history, c), faults + 1, streak)
    BY <1>1, <1>2, <1>3, <2>1, ConsistentContinues DEF Consistent, StreakHolds
  <2> QED
    BY <1>3, <2>2 DEF WithThis, CountedFaults, NewStreak
<1>4. CASE ~(faults > 0 /\ Consistent)
  <2>1. Tells(Append(history, c), 1, [sign |-> SignOf(c.diff), mag |-> Abs(c.diff)])
    BY <1>1, <1>2, IndictmentBegins
  <2> QED
    BY <1>4, <2>1 DEF WithThis, CountedFaults, NewStreak
<1> QED
  BY <1>3, <1>4

\* A verdict counts, excuses, or ends the streak.
LEMMA VerdictKeepsStreak ==
  ASSUME TypeOK, StreakHolds, EvidenceNext, ClassifyGated
  PROVE  StreakHolds'
<1> DEFINE c == [diff |-> Residual, err |-> cycle.err]
<1>1. c \in Disagreements /\ history \in Seq(Disagreements) /\ faults \in Nat
  BY ResidualInt DEF TypeOK, Disagreements, StreakHolds
<1>2. history' = IF cycle'.pc = "accepted" THEN <<>> ELSE WithThis
  BY DEF EvidenceNext
<1>3. history' \in Seq(Disagreements)
  BY <1>1, <1>2 DEF WithThis
<1>4. CASE ClassifyFirst \/ ClassifyAgreeing
  BY <1>3, <1>4 DEF ClassifyFirst, ClassifyAgreeing, Accepting, StreakHolds
<1>5. CASE ClassifyUncertain
  <2>1. cycle'.pc # "accepted" /\ faults' = faults /\ streak' = streak
    BY <1>5 DEF ClassifyUncertain, FaultHold, faultVars, TypeOK
  <2>2. ~Indicts(c)
    <3>1. Larger(cycle.err, FAULT_EVIDENCE_FLOOR_MS) \in Nat /\ Abs(Residual) \in Nat
      BY ResidualInt DEF TypeOK, Larger
    <3> QED
      BY <1>5, <3>1 DEF ClassifyUncertain, Uncertain, Indicts
  <2>3. faults > 0 => Tells(WithThis, faults, streak)
    BY <1>1, <2>2, ExcusedKeeps DEF StreakHolds, WithThis
  <2> QED
    BY <1>2, <1>3, <2>1, <2>3 DEF StreakHolds
<1>6. CASE ClassifyFault
  <2> DEFINE count == IF faults > 0 THEN CountedFaults ELSE 1
  <2>1. Tells(WithThis, count, NewStreak)
    BY <1>6, CountedIsTold DEF ClassifyFault
  <2>2. \/ faults' = 0
        \/ faults' = count /\ streak' = NewStreak /\ cycle'.pc # "accepted"
    BY <1>6 DEF ClassifyFault, FaultHold, TypeOK
  <2> HIDE DEF count
  <2> QED
    BY <1>2, <1>3, <2>1, <2>2 DEF StreakHolds
<1> QED
  BY <1>4, <1>5, <1>6 DEF ClassifyGated

\* Nothing but a verdict touches the streak, unless it ends it.
LEMMA OthersKeepStreak ==
  ASSUME StreakHolds, EvidenceNext, ~ClassifyGated
  PROVE  StreakHolds'
<1>1. history' = IF restarts' = restarts THEN history ELSE <<>>
  BY DEF EvidenceNext
<1>2. \/ faults' = 0
      \/ faults' = faults /\ streak' = streak /\ restarts' = restarts
  BY DEF EvidenceNext, Next, Advance, Sleep, ReadDisplay, Capture, CaptureGated,
         CaptureFailed, CaptureClustered, FinishCycle, ClassifyFailed, CoreWitness, LayAnchor,
         PublishOk, OnContinuityBroken, TripInop, Shutdown, Restart, faultVars, persist
<1> QED
  BY <1>1, <1>2 DEF StreakHolds

LEMMA EvidenceAlways == EvidenceSpec => [](IInv /\ StreakHolds)
<1>1. EvidenceInit => IInv /\ StreakHolds
  BY InitIInv DEF EvidenceInit, StreakHolds, Init
<1>2. IInv /\ StreakHolds /\ [EvidenceNext]_evars => (IInv /\ StreakHolds)'
  <2> SUFFICES ASSUME IInv, StreakHolds, [EvidenceNext]_evars
               PROVE  IInv' /\ StreakHolds'
    OBVIOUS
  <2>1. IInv'
    BY NextIInv DEF EvidenceNext, evars
  <2>2. CASE EvidenceNext
    BY <2>1, <2>2, VerdictKeepsStreak, OthersKeepStreak DEF IInv
  <2>3. CASE UNCHANGED evars
    BY <2>1, <2>3 DEF evars, vars, faultVars, StreakHolds
  <2> QED
    BY <2>2, <2>3
<1> QED
  BY <1>1, <1>2, PTL DEF EvidenceSpec

\* clock.c, the escape from local faults: an intact anchor is given up only for a series
\* of LOCAL_FAULT_ESCAPE_N gate-passing cycles that indict it, of one sign and within a
\* factor two of the first, whatever excused cycles, failed ones, witnesses and readers
\* come between, and for any thresholds.
THEOREM StepsRestOnEvidence == EvidenceSpec => StepNeedsEvidence
<1> DEFINE A == ClassifyFault /\ cycle.pc = "gated" /\ cycle'.pc = "accepted"
                  => \E i \in 1..Len(WithThis) :
                        /\ OneStory(WithThis, i)
                        /\ Cardinality(Since(WithThis, i)) >= LOCAL_FAULT_ESCAPE_N
<1>1. IInv /\ StreakHolds => A
  <2> SUFFICES ASSUME TypeOK, StreakHolds, ClassifyFault, cycle'.pc = "accepted"
               PROVE  \E i \in 1..Len(WithThis) :
                        /\ OneStory(WithThis, i)
                        /\ Cardinality(Since(WithThis, i)) >= LOCAL_FAULT_ESCAPE_N
    BY DEF IInv
  <2> DEFINE count == IF faults > 0 THEN CountedFaults ELSE 1
  <2>1. count >= LOCAL_FAULT_ESCAPE_N
    BY DEF ClassifyFault, FaultHold, EscapeDue, TypeOK
  <2>2. Tells(WithThis, count, NewStreak)
    BY CountedIsTold DEF ClassifyFault
  <2>3. count \in Nat /\ WithThis \in Seq(Disagreements)
    BY ResidualInt DEF TypeOK, CountedFaults, StreakHolds, WithThis, Disagreements
  <2> HIDE DEF count
  <2>4. PICK i \in 1 .. Len(WithThis) :
          OneStory(WithThis, i) /\ Cardinality(Since(WithThis, i)) >= count
    BY <2>2 DEF Tells
  <2>5. Cardinality(Since(WithThis, i)) \in Nat
    BY <2>3, SinceIsFinite
  <2> QED
    BY <2>1, <2>3, <2>4, <2>5
<1>2. IInv /\ StreakHolds /\ [EvidenceNext]_evars => [A]_evars
  BY <1>1
<1> QED
  BY <1>2, EvidenceAlways, PTL DEF EvidenceSpec, StepNeedsEvidence
=============================================================================
