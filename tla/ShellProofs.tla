---------------------------- MODULE ShellProofs ----------------------------
(***************************************************************************)
(* Theorems about what the shell drives, for every value of the constants. *)
(*                                                                         *)
(* PollScheduler: an OK once published outlasts the slowest healthy        *)
(* polling, a sync the user asks for costs at most one more cycle, and a   *)
(* face without a running time never waits out a relaxed interval.         *)
(*                                                                         *)
(* EventLog: no entry of the ring is lost in silence, loading the history  *)
(* hides no event of the run, and the two files keep their ledger.         *)
(*                                                                         *)
(* TimeZone: the face shows the date that a calendar has, at the offset    *)
(* that the zone has in force.                                             *)
(***************************************************************************)
EXTENDS PollScheduler, EventLog, TimeZone, CArithTheorems, SequenceTheorems

-----------------------------------------------------------------------------
(***************************************************************************)
(* The inductive invariant.                                                *)
(***************************************************************************)

\* The face shows no running time, or will not at its next read.
Dark == face.stopped \/ ~face.running
Lost == ~HasTime \/ ceiling = 2

Flags ==
    /\ broken \in BOOLEAN /\ tight \in BOOLEAN
    /\ face.stopped \in BOOLEAN /\ face.running \in BOOLEAN
    /\ cured \in BOOLEAN

Numbers ==
    /\ world \in Worlds
    /\ timer \in 0..PollMax /\ good \in 0..MaxGood /\ bad \in 0..MaxBad
    /\ forcedAgo \in Int /\ forcedAgo <= PollMin
    /\ cycle \in [age : -1..CycleBudget, sample : -1..CycleBudget]
    /\ cycle.sample <= cycle.age
    /\ trust \in {INOP, HOLDOVER, OK} /\ anchorAge \in -1..MaxAge
    /\ ceiling \in 0..2

\* Without an anchor there is nothing to publish, and nothing to break.
NothingWithoutAnchor == trust # INOP \/ broken => anchorAge >= 0

\* How long before its anchor could be replaced the next cycle is due: the age
\* of the anchor when it begins, or when it did.
DueAge == IF InFlight THEN anchorAge - cycle.age ELSE anchorAge + timer

\* While cycles pass and QPC runs on, the clock never leaves OK for less.
HealthIsKept == Healthy => broken = FALSE /\ trust # HOLDOVER

\* While cycles pass, whoever polls: the next poll is never further off than a
\* relaxed interval from the beginning of a cycle that was just in flight.
RenewalIsBounded ==
    Healthy =>
        /\ InFlight => timer + cycle.age <= PollMax + CycleBudget
        /\ trust = OK => DueAge <= PollMax + CycleBudget

\* A poll that a cycle in flight makes the timer miss is one of an unhealthy
\* clock, for a healthy clock's interval is longer than a cycle; and the
\* interval after it is at most the base interval.
MissedAtMost == Larger(PollMax, PollBase + CycleBudget)

TimerIsOnTime ==
    Healthy /\ ~world.syncs =>
        /\ InFlight => timer + cycle.age <= MissedAtMost
        /\ InFlight /\ ~Unhealthy => timer + cycle.age >= PollBase
        /\ trust = OK => DueAge <= MissedAtMost

\* A forced poll is due now.
Forced == timer = 0 /\ forcedAgo = 0

\* The cycle in flight spends its budget before the timer runs out.
EndsBeforePoll == InFlight => timer + cycle.age >= PollBase

\* The rate limit of the forced polls holds back no more than PollMin: the last
\* forced poll is still due, or it has come, and found the clock lost - and then
\* the next one is near - or healthy again.
ForcedHoldsShort ==
    forcedAgo < PollMin =>
        \/ Forced
        \/ /\ timer + forcedAgo >= PollMin
           /\ \/ timer <= PollBase /\ good = 0
              \/ cured /\ EndsBeforePoll

\* A dark face is near a poll, and the poll after that one is not relaxed: the
\* count of converged polls starts anew, or the next poll but a forced one finds
\* the clock lost.
DarkIsNearPoll ==
    Dark =>
        \/ Forced
        \/ timer <= PollBase /\ good = 0
        \/ /\ timer <= PollBase \/ cured
           /\ EndsBeforePoll
           /\ timer > 0 \/ Lost

RecoveryIsNear ==
    ~world.steps /\ ~world.syncs => ForcedHoldsShort /\ DarkIsNearPoll

PaceInv ==
    /\ Flags /\ Numbers /\ NothingWithoutAnchor
    /\ HealthIsKept /\ RenewalIsBounded /\ TimerIsOnTime /\ RecoveryIsNear

\* The intervals, without what may happen in a behaviour.
LEMMA Intervals ==
  /\ PollMin \in Nat \ {0} /\ PollBase \in Nat /\ PollMax \in Nat
  /\ PollMin <= PollBase /\ PollBase <= PollMax
  /\ CycleBudget \in Nat /\ StaleAfter \in Nat
  BY SchedulerConstants

USE Intervals DEF INOP, REACQUIRING, HOLDOVER, OK, MaxBad, MaxGood
-----------------------------------------------------------------------------
(***************************************************************************)
(* What the operators of PollScheduler return.                             *)
(***************************************************************************)

\* The shifts that occur multiply by a positive number.
LEMMA ShiftedNat == ASSUME NEW n \in 0..8 PROVE Shifted(n) \in Nat \ {0}
  BY DEF Shifted

\* The interval of an unhealthy clock lies between the fast and the base one.
LEMMA BackoffRange == ASSUME NEW n \in 1..MaxBad PROVE Backoff(n) \in PollMin..PollBase
<1> DEFINE k == Smaller(n - 1, 4)
<1>1. k \in 0..8
  BY DEF Smaller
<1> HIDE DEF k
<1>2. Shifted(k) \in Nat \ {0}
  BY <1>1, ShiftedNat
<1>3. PollMin * Shifted(k) \in Nat /\ PollMin * Shifted(k) >= PollMin
  BY <1>2
<1> QED
  BY <1>3 DEF Backoff, Smaller, k

\* A relaxed interval lies between the base one and the ceiling.
LEMMA RelaxRange == ASSUME NEW n \in 3..MaxGood PROVE Relax(n) \in PollBase..PollMax
<1> DEFINE k == Smaller(n - 3, 8)
<1>1. k \in 0..8
  BY DEF Smaller
<1> HIDE DEF k
<1>2. Shifted(k) \in Nat \ {0}
  BY <1>1, ShiftedNat
<1>3. PollBase * Shifted(k) \in Nat /\ PollBase * Shifted(k) >= PollBase
  BY <1>2
<1> QED
  BY <1>3 DEF Relax, Smaller, k

\* A poll of an unhealthy clock starts the count anew and is followed soon; a
\* healthy clock's next poll is at least a base interval off, and no further
\* unless three polls in a row converged.
LEMMA NextPollRange ==
  ASSUME Numbers, NextPoll
  PROVE  /\ good' \in 0..MaxGood /\ bad' \in 0..MaxBad /\ timer' \in PollMin..PollMax
         /\ Unhealthy => good' = 0 /\ timer' <= PollBase
         /\ ~Unhealthy => timer' >= PollBase
         /\ good <= 1 => good' <= good + 1 /\ timer' <= PollBase
<1> USE DEF Numbers
<1>1. CASE Unhealthy
  <2>1. good' = 0 /\ bad' = Smaller(MaxBad, bad + 1) /\ timer' = Backoff(bad')
    BY <1>1 DEF NextPoll
  <2>2. bad' \in 1..MaxBad
    BY <2>1 DEF Smaller
  <2>3. timer' \in PollMin..PollBase
    BY <2>1, <2>2, BackoffRange
  <2> QED
    BY <1>1, <2>1, <2>2, <2>3
<1>2. CASE ~Unhealthy /\ ~tight
  BY <1>2 DEF NextPoll
<1>3. CASE ~Unhealthy /\ tight
  <2>1. /\ good' = Smaller(MaxGood, good + 1) /\ bad' = 0
        /\ timer' = IF good' < 3 THEN PollBase ELSE Relax(good')
    BY <1>3 DEF NextPoll
  <2>2. good' \in 1..MaxGood /\ good' <= good + 1
    BY <2>1 DEF Smaller
  <2>3. CASE good' < 3
    BY <1>3, <2>1, <2>2, <2>3
  <2>4. CASE good' >= 3
    <3>1. timer' = Relax(good') /\ good' \in 3..MaxGood
      BY <2>1, <2>2, <2>4
    <3>2. timer' \in PollBase..PollMax
      BY <3>1, RelaxRange
    <3> QED
      BY <1>3, <2>1, <2>2, <2>4, <3>2
  <2> QED
    BY <2>2, <2>3, <2>4
<1> QED
  BY <1>1, <1>2, <1>3

\* A cycle is in flight when it has an age.
LEMMA InFlightHasAge == ASSUME Numbers PROVE InFlight <=> cycle.age >= 0
  BY DEF Numbers, InFlight, NoCycle

\* The states of the display, and when a time is shown.
LEMMA ShowsTime ==
  ASSUME Numbers, NothingWithoutAnchor
  PROVE  /\ HasTime <=> anchorAge >= 0 /\ ~broken
         /\ DisplayState = OK <=> trust = OK /\ ~broken /\ anchorAge <= StaleAfter
         /\ Lost => Unhealthy
  BY DEF Numbers, NothingWithoutAnchor, HasTime, DisplayState, Lost, Unhealthy
-----------------------------------------------------------------------------
(***************************************************************************)
(* The steps, by what of the invariant they keep.                          *)
(***************************************************************************)

\* The program starts with nothing known and its first cycle in flight.
LEMMA InitPace == Init => PaceInv
<1> SUFFICES ASSUME Init PROVE PaceInv
  OBVIOUS
<1> USE DEF Init, NewCycle
<1>1. Flags /\ NothingWithoutAnchor
  BY DEF Flags, NothingWithoutAnchor
<1>2. Numbers
  BY DEF Numbers, MaxAge, Larger
<1>3. InFlight /\ HasTime = FALSE /\ Unhealthy
  BY DEF InFlight, NoCycle, HasTime, DisplayState, Unhealthy
<1>4. HealthIsKept /\ RenewalIsBounded
  BY <1>2 DEF HealthIsKept, RenewalIsBounded, Numbers
<1>5. TimerIsOnTime
  BY <1>2, <1>3 DEF TimerIsOnTime, Numbers, MissedAtMost, Larger
<1>6. RecoveryIsNear
  BY <1>3 DEF RecoveryIsNear, ForcedHoldsShort, DarkIsNearPoll, Dark
<1> QED
  BY <1>1, <1>2, <1>4, <1>5, <1>6 DEF PaceInv

\* The flags stay flags.
LEMMA FlagsKept == ASSUME Flags, [Next]_vars PROVE Flags'
<1> USE DEF Flags
<1>1. CASE Repoll \/ UserSync \/ Tick \/ StepClockBack \/ Capture \/ Grow
  BY <1>1 DEF Grow, Repoll, UserSync, Tick, StepClockBack, Capture, clock
<1>2. CASE Render
  <2>1. face' = NextFace /\ broken' = broken /\ tight' = tight /\ cured' = cured
    BY <1>2 DEF Render, clock
  <2>2. NextFace.stopped \in BOOLEAN /\ NextFace.running \in BOOLEAN
    BY DEF NextFace, HasTime
  <2> QED
    BY <2>1, <2>2
<1>3. CASE (\E c \in 0..1 : EndPass(c)) \/ (\E c \in 0..2 : EndHold(c)) \/ EndFail \/ Break
  BY <1>3 DEF EndPass, EndHold, EndFail, Break
<1>4. CASE UNCHANGED vars
  BY <1>4 DEF vars
<1> QED
  BY <1>1, <1>2, <1>3, <1>4 DEF Next

\* The numbers keep their ranges, and nothing is published without an anchor.
LEMMA NumbersKept ==
  ASSUME Numbers, NothingWithoutAnchor, [Next]_vars
  PROVE  Numbers' /\ NothingWithoutAnchor'
<1> USE DEF Numbers, NothingWithoutAnchor
<1>1. MaxAge \in Nat
  BY DEF MaxAge, Larger
<1>2. CASE Repoll
  <2>1. timer' \in 0..PollMax /\ good' \in 0..MaxGood /\ bad' \in 0..MaxBad
    BY <1>2, NextPollRange DEF Repoll
  <2>2. /\ cycle' \in [age : -1..CycleBudget, sample : -1..CycleBudget]
        /\ cycle'.sample <= cycle'.age
    BY <1>2 DEF Repoll, SyncNow, NewCycle
  <2> QED
    BY <1>2, <2>1, <2>2 DEF Repoll, clock
<1>3. CASE UserSync
  <2>1. /\ cycle' \in [age : -1..CycleBudget, sample : -1..CycleBudget]
        /\ cycle'.sample <= cycle'.age
    BY <1>3 DEF UserSync, NewCycle
  <2> QED
    BY <1>3, <2>1 DEF UserSync, clock, pace
<1>4. CASE Render
  BY <1>4 DEF Render, PollNow, clock, pace
<1>5. CASE Capture
  <2>1. /\ cycle' \in [age : -1..CycleBudget, sample : -1..CycleBudget]
        /\ cycle'.sample <= cycle'.age
    BY <1>5, InFlightHasAge DEF Capture
  <2> QED
    BY <1>5, <2>1 DEF Capture, clock, pace
<1>6. CASE (\E c \in 0..1 : EndPass(c)) \/ (\E c \in 0..2 : EndHold(c)) \/ EndFail
  <2>1. /\ cycle' \in [age : -1..CycleBudget, sample : -1..CycleBudget]
        /\ cycle'.sample <= cycle'.age
    BY <1>6 DEF EndPass, EndHold, EndFail, NoCycle
  <2>2. CycleBudget <= MaxAge
    BY DEF MaxAge, Larger
  <2>3. CASE \E c \in 0..1 : EndPass(c)
    BY <2>1, <2>2, <2>3, <1>1 DEF EndPass, pace
  <2>4. CASE \E c \in 0..2 : EndHold(c)
    BY <2>1, <2>4 DEF EndHold, pace
  <2>5. CASE EndFail
    BY <2>1, <2>5 DEF EndFail, pace
  <2> QED
    BY <1>6, <2>3, <2>4, <2>5
<1>7. CASE Break \/ Grow \/ StepClockBack
  BY <1>7 DEF Break, Grow, StepClockBack, clock, pace
<1>8. CASE Tick
  <2>1. /\ cycle' \in [age : -1..CycleBudget, sample : -1..CycleBudget]
        /\ cycle'.sample <= cycle'.age
    BY <1>8 DEF Tick, Older, Smaller
  <2>2. timer' \in 0..PollMax /\ forcedAgo' \in Int /\ forcedAgo' <= PollMin
    BY <1>8 DEF Tick, Smaller
  <2>3. anchorAge' \in -1..MaxAge /\ (anchorAge >= 0 => anchorAge' >= 0)
    BY <1>1, <1>8 DEF Tick, Older, Smaller
  <2> QED
    BY <1>8, <2>1, <2>2, <2>3 DEF Tick
<1>9. CASE UNCHANGED vars
  BY <1>9 DEF vars
<1> QED
  BY <1>2, <1>3, <1>4, <1>5, <1>6, <1>7, <1>8, <1>9 DEF Next

\* What may happen in a behaviour is settled at its start.
LEMMA WorldKept == ASSUME [Next]_vars PROVE world' = world
  BY DEF Next, vars, Repoll, UserSync, Render, Capture, EndPass, EndHold, EndFail, Break,
         Grow, StepClockBack, Tick

\* While cycles pass and QPC runs on, nothing but a pass touches the clock.
LEMMA HealthKept == ASSUME HealthIsKept, [Next]_vars PROVE HealthIsKept'
<1> SUFFICES ASSUME Healthy' PROVE (broken = FALSE /\ trust # HOLDOVER)'
  BY DEF HealthIsKept
<1>1. Healthy
  BY WorldKept DEF Healthy
<1>2. broken = FALSE /\ trust # HOLDOVER
  BY <1>1 DEF HealthIsKept
<1>3. CASE \E c \in 0..1 : EndPass(c)
  BY <1>3 DEF EndPass
<1>4. CASE UNCHANGED <<broken, trust>>
  BY <1>2, <1>4
<1>5. ~((\E c \in 0..2 : EndHold(c)) \/ EndFail \/ Break)
  BY <1>1 DEF EndHold, EndFail, Break, Healthy
<1>6. (\E c \in 0..1 : EndPass(c)) \/ UNCHANGED <<broken, trust>>
  BY <1>5 DEF Next, vars, Repoll, UserSync, Render, Capture, Grow, StepClockBack, Tick, clock
<1> QED
  BY <1>3, <1>4, <1>6

\* While cycles pass and QPC runs on, every step keeps the next poll within
\* reach of the anchor, whoever polls.
LEMMA RenewalKept ==
  ASSUME PaceInv, Numbers', [Next]_vars
  PROVE  RenewalIsBounded'
<1> SUFFICES ASSUME Healthy' PROVE RenewalIsBounded'
  BY DEF RenewalIsBounded
<1>1. Healthy
  BY WorldKept DEF Healthy
<1>2. InFlight <=> cycle.age >= 0
  BY InFlightHasAge DEF PaceInv
<1>3. InFlight' <=> cycle'.age >= 0
  <2>1. (InFlight <=> cycle.age >= 0)'
    BY InFlightHasAge, PTL
  <2> QED
    BY <2>1
<1> DEFINE Reach == PollMax + CycleBudget
           Near(tt, cc, aa, nn) ==
               /\ cc >= 0 => tt + cc <= Reach
               /\ aa = OK /\ cc >= 0 => nn - cc <= Reach
               /\ aa = OK /\ cc < 0 => nn + tt <= Reach
\* The numbers of the next state, by names of their own: arithmetic on primed
\* variables is beyond the provers.
<1> DEFINE t == timer'
           c == cycle'.age
           a == trust'
           n == anchorAge'
<1>4. /\ timer \in 0..PollMax /\ anchorAge \in Int /\ cycle.age \in -1..CycleBudget
      /\ cycle.sample \in Int /\ cycle.sample <= cycle.age
      /\ trust \in Int
      /\ t \in Int /\ n \in Int /\ c \in Int /\ a \in Int
  BY DEF PaceInv, Numbers, MaxAge, Larger
<1>5. Near(timer, cycle.age, trust, anchorAge)
  BY <1>1, <1>2, <1>4 DEF PaceInv, RenewalIsBounded, DueAge
<1>6. SUFFICES Near(t, c, a, n)
  <2>1. DueAge' = IF c >= 0 THEN n - c ELSE n + t
    BY <1>3 DEF DueAge
  <2>2. RenewalIsBounded' <=> /\ c >= 0 => t + c <= Reach
                              /\ a = OK => (IF c >= 0 THEN n - c ELSE n + t) <= Reach
    BY <1>3, <2>1 DEF RenewalIsBounded
  <2> HIDE DEF t, c, a, n
  <2> QED
    BY <1>4, <1>6, <2>2
<1>7. CASE Repoll
  <2>1. t \in 0..PollMax /\ timer = 0 /\ a = trust /\ n = anchorAge
    BY <1>7, NextPollRange DEF Repoll, clock, PaceInv
  <2>2. CASE cycle = NoCycle
    <3>1. cycle.age = -1 /\ c = 0
      BY <1>7, <2>2 DEF Repoll, SyncNow, NewCycle, NoCycle
    <3> HIDE DEF t, c, a, n
    <3> QED
      BY <1>4, <1>5, <2>1, <3>1
  <2>3. CASE cycle # NoCycle
    <3>1. c = cycle.age /\ cycle.age >= 0
      BY <1>2, <1>7, <2>3 DEF Repoll, SyncNow, InFlight
    <3> HIDE DEF t, c, a, n
    <3> QED
      BY <1>4, <1>5, <2>1, <3>1
  <2> QED
    BY <2>2, <2>3
<1>8. CASE UserSync
  <2>1. cycle.age = -1 /\ c = 0 /\ t = timer /\ a = trust /\ n = anchorAge
    BY <1>8 DEF UserSync, NewCycle, NoCycle, clock, pace
  <2> HIDE DEF t, c, a, n
  <2> QED
    BY <1>4, <1>5, <2>1
<1>9. CASE Render
  <2>1. t \in {timer, 0} /\ c = cycle.age /\ a = trust /\ n = anchorAge
    BY <1>9 DEF Render, PollNow, pace, clock
  <2> HIDE DEF t, c, a, n
  <2> QED
    BY <1>4, <1>5, <2>1
<1>10. CASE Capture
  <2>1. c = cycle.age /\ t = timer /\ a = trust /\ n = anchorAge
    BY <1>10 DEF Capture, clock, pace, PaceInv, Numbers
  <2> HIDE DEF t, c, a, n
  <2> QED
    BY <1>5, <2>1
<1>11. CASE \E k \in 0..1 : EndPass(k)
  <2>1. /\ c = -1 /\ n = cycle.sample /\ cycle.age >= 0
        /\ t = timer
    BY <1>2, <1>11 DEF EndPass, NoCycle, pace
  <2> HIDE DEF t, c, a, n
  <2> QED
    BY <1>4, <1>5, <2>1
<1>12. ~((\E k \in 0..2 : EndHold(k)) \/ EndFail \/ Break)
  BY <1>1 DEF EndHold, EndFail, Break, Healthy
<1>13. CASE Grow \/ StepClockBack
  <2>1. c = cycle.age /\ t = timer /\ a = trust /\ n = anchorAge
    BY <1>13 DEF Grow, StepClockBack, clock, pace
  <2> HIDE DEF t, c, a, n
  <2> QED
    BY <1>5, <2>1
<1>14. CASE Tick
  <2>1. /\ t = timer - 1 /\ n \in Int /\ n <= anchorAge + 1
        /\ a = trust
    BY <1>4, <1>14 DEF Tick, Older, Smaller, MaxAge, Larger
  <2>2. c = (IF cycle.age = -1 THEN -1 ELSE cycle.age + 1)
    BY <1>4, <1>14 DEF Tick, Older, Smaller
  <2> HIDE DEF t, c, a, n
  <2> QED
    BY <1>4, <1>5, <2>1, <2>2
<1>15. CASE UNCHANGED vars
  BY <1>5, <1>15 DEF vars
<1> QED
  BY <1>7, <1>8, <1>9, <1>10, <1>11, <1>12, <1>13, <1>14, <1>15 DEF Next

\* The edges on which the face is darkened are those of a clock that is lost.
LEMMA DarkenedWhenLost ==
  ASSUME Flags
  PROVE  /\ LostTime => Lost
         /\ NextFace.stopped \/ ~NextFace.running => Lost
<1>1. ~NextFace.running => ~HasTime
  BY DEF NextFace
<1>2. ~(HasTime /\ ceiling = 2) => ~NextFace.stopped
  <2> SUFFICES ASSUME ~(HasTime /\ ceiling = 2) PROVE NextFace.stopped = FALSE
    OBVIOUS
  <2> DEFINE dark == [hits |-> 0, stopped |-> 0 = 2, running |-> HasTime]
  <2>1. NextFace = dark
    BY DEF NextFace
  <2>2. dark.stopped = (0 = 2)
    BY Zenon
  <2>3. (0 = 2) = FALSE
    OBVIOUS
  <2> HIDE DEF dark
  <2> QED
    BY <2>1, <2>2, <2>3
<1> QED
  BY <1>1, <1>2 DEF LostTime, Lost

\* A clock nothing touches is as healthy, and as lost, as it was.
LEMMA ClockKept ==
  ASSUME UNCHANGED clock
  PROVE  (Unhealthy' <=> Unhealthy) /\ (Lost' <=> Lost) /\ (HasTime' <=> HasTime)
<1>1. DisplayState' = DisplayState
  BY DEF clock, DisplayState
<1>2. ceiling' = ceiling
  BY DEF clock
<1> QED
  BY <1>1, <1>2 DEF Unhealthy, Lost, HasTime

\* Nothing but the end of a cycle heals a clock, and time alone loses none.
LEMMA TickHealsNothing ==
  ASSUME Numbers, Numbers', NothingWithoutAnchor, NothingWithoutAnchor', Tick
  PROVE  (~Unhealthy' => ~Unhealthy) /\ (Lost' <=> Lost)
<1>1. UNCHANGED <<trust, broken, ceiling>>
  BY DEF Tick
<1>2. /\ anchorAge' \in Int /\ anchorAge <= anchorAge'
      /\ anchorAge >= 0 <=> anchorAge' >= 0
  BY DEF Tick, Older, Smaller, Numbers, MaxAge, Larger
<1>3. /\ HasTime <=> anchorAge >= 0 /\ ~broken
      /\ DisplayState = OK <=> trust = OK /\ ~broken /\ anchorAge <= StaleAfter
  BY ShowsTime
<1>4. (/\ HasTime <=> anchorAge >= 0 /\ ~broken
       /\ DisplayState = OK <=> trust = OK /\ ~broken /\ anchorAge <= StaleAfter)'
  BY ShowsTime, PTL
<1>5. anchorAge' <= StaleAfter => anchorAge <= StaleAfter
  BY <1>2 DEF Numbers
<1>6. DisplayState' = OK => DisplayState = OK
  BY <1>1, <1>3, <1>4, <1>5
<1>7. HasTime' <=> HasTime
  BY <1>1, <1>2, <1>3, <1>4
<1> QED
  BY <1>1, <1>6, <1>7 DEF Unhealthy, Lost

\* A bound that grows heals nothing either.
LEMMA GrowHealsNothing ==
  ASSUME Numbers, Grow
  PROVE  (~Unhealthy' => ~Unhealthy) /\ (Lost => Lost')
<1>1. UNCHANGED <<trust, broken, anchorAge>>
  BY DEF Grow
<1>2. DisplayState' = DisplayState /\ (HasTime' <=> HasTime)
  BY <1>1 DEF DisplayState, HasTime
<1>3. ceiling < 2 /\ ceiling' = ceiling + 1 /\ ceiling \in Int
  BY DEF Grow, Numbers
<1> QED
  BY <1>2, <1>3 DEF Unhealthy, Lost

\* While only the timer polls as well, every step keeps it on time.
LEMMA TimerKept ==
  ASSUME PaceInv, Numbers', NothingWithoutAnchor', [Next]_vars
  PROVE  TimerIsOnTime'
<1> SUFFICES ASSUME Healthy', ~world'.syncs PROVE TimerIsOnTime'
  BY DEF TimerIsOnTime
<1>1. Healthy /\ ~world.syncs
  BY WorldKept DEF Healthy
<1>2. InFlight <=> cycle.age >= 0
  BY InFlightHasAge DEF PaceInv
<1>3. InFlight' <=> cycle'.age >= 0
  <2>1. (InFlight <=> cycle.age >= 0)'
    BY InFlightHasAge, PTL
  <2> QED
    BY <2>1
<1> DEFINE Near(tt, cc, aa, nn) ==
               /\ cc >= 0 => tt + cc <= MissedAtMost
               /\ aa = OK /\ cc >= 0 => nn - cc <= MissedAtMost
               /\ aa = OK /\ cc < 0 => nn + tt <= MissedAtMost
           Late(tt, cc) == cc >= 0 => tt + cc >= PollBase
           t == timer'
           c == cycle'.age
           a == trust'
           n == anchorAge'
<1>4. /\ timer \in 0..PollMax /\ anchorAge \in Int /\ cycle.age \in -1..CycleBudget
      /\ cycle.sample \in Int /\ cycle.sample <= cycle.age
      /\ trust \in Int
      /\ t \in Int /\ n \in Int /\ c \in Int /\ a \in Int
  BY DEF PaceInv, Numbers, MaxAge, Larger
<1>5. /\ Near(timer, cycle.age, trust, anchorAge)
      /\ ~Unhealthy => Late(timer, cycle.age)
  BY <1>1, <1>2, <1>4 DEF PaceInv, TimerIsOnTime, DueAge
<1>6. /\ MissedAtMost \in Int /\ PollMax <= MissedAtMost
      /\ PollBase + CycleBudget <= MissedAtMost
  BY DEF MissedAtMost, Larger
<1>7. SUFFICES Near(t, c, a, n) /\ (~Unhealthy' => Late(t, c))
  <2>1. DueAge' = IF c >= 0 THEN n - c ELSE n + t
    BY <1>3 DEF DueAge
  <2>2. TimerIsOnTime' <=> /\ c >= 0 => t + c <= MissedAtMost
                           /\ c >= 0 /\ ~Unhealthy' => t + c >= PollBase
                           /\ a = OK => (IF c >= 0 THEN n - c ELSE n + t) <= MissedAtMost
    BY <1>3, <2>1 DEF TimerIsOnTime, MissedAtMost
  <2> HIDE DEF t, c, a, n
  <2> QED
    BY <1>4, <1>6, <1>7, <2>2
<1>8. CASE Repoll
  <2>1. /\ t \in 0..PollMax /\ timer = 0 /\ a = trust /\ n = anchorAge
        /\ Unhealthy => t <= PollBase
        /\ ~Unhealthy => t >= PollBase
    BY <1>8, NextPollRange DEF Repoll, clock, PaceInv
  <2>2. Unhealthy' <=> Unhealthy
    BY <1>8, ClockKept DEF Repoll
  <2>3. CASE cycle = NoCycle
    <3>1. cycle.age = -1 /\ c = 0
      BY <1>8, <2>3 DEF Repoll, SyncNow, NewCycle, NoCycle
    <3> HIDE DEF t, c, a, n
    <3> QED
      BY <1>4, <1>5, <1>6, <2>1, <2>2, <3>1
  <2>4. CASE cycle # NoCycle
    <3>1. c = cycle.age /\ cycle.age >= 0
      BY <1>2, <1>8, <2>4 DEF Repoll, SyncNow, InFlight
    <3>2. Unhealthy
      BY <1>4, <1>5, <2>1, <3>1, WindowClearsRenewal
    <3> HIDE DEF t, c, a, n
    <3> QED
      BY <1>4, <1>5, <1>6, <2>1, <2>2, <3>1, <3>2
  <2> QED
    BY <2>3, <2>4
<1>9. ~UserSync
  BY <1>1 DEF UserSync
<1>10. CASE Render
  <2>1. t \in {timer, 0} /\ c = cycle.age /\ a = trust /\ n = anchorAge
    BY <1>10 DEF Render, PollNow, pace, clock
  <2>2. (Unhealthy' <=> Unhealthy) /\ (~Unhealthy => t = timer)
    <3>1. ~LostTime => t = timer
      BY <1>10 DEF Render, pace
    <3>2. LostTime => Unhealthy
      BY DarkenedWhenLost, ShowsTime DEF PaceInv
    <3> QED
      BY <1>10, <3>1, <3>2, ClockKept DEF Render
  <2> HIDE DEF t, c, a, n
  <2>3. Near(t, c, a, n)
    BY <1>4, <1>5, <1>6, <2>1
  <2>4. ~Unhealthy' => Late(t, c)
    BY <1>5, <2>1, <2>2
  <2> QED
    BY <2>3, <2>4
<1>11. CASE Capture
  <2>1. c = cycle.age /\ t = timer /\ a = trust /\ n = anchorAge
    BY <1>11 DEF Capture, clock, pace, PaceInv, Numbers
  <2>2. Unhealthy' <=> Unhealthy
    BY <1>11, ClockKept DEF Capture
  <2> HIDE DEF t, c, a, n
  <2> QED
    BY <1>5, <2>1, <2>2
<1>12. CASE \E ceil \in 0..1 : EndPass(ceil)
  <2>1. c = -1 /\ n = cycle.sample /\ cycle.age >= 0 /\ t = timer
    BY <1>2, <1>12 DEF EndPass, NoCycle, pace
  <2> HIDE DEF t, c, a, n
  <2>2. Near(t, c, a, n)
    BY <1>4, <1>5, <1>6, <2>1
  <2>3. Late(t, c)
    BY <2>1
  <2> QED
    BY <2>2, <2>3
<1>13. ~((\E ceil \in 0..2 : EndHold(ceil)) \/ EndFail \/ Break)
  BY <1>1 DEF EndHold, EndFail, Break, Healthy
<1>14. CASE StepClockBack \/ UNCHANGED vars
  <2>1. c = cycle.age /\ t = timer /\ a = trust /\ n = anchorAge
    BY <1>14 DEF StepClockBack, clock, vars
  <2>2. Unhealthy' <=> Unhealthy
    BY <1>14, ClockKept DEF StepClockBack, clock, vars
  <2> HIDE DEF t, c, a, n
  <2> QED
    BY <1>5, <2>1, <2>2
<1>15. CASE Tick
  <2>1. t = timer - 1 /\ n \in Int /\ n <= anchorAge + 1 /\ a = trust
    BY <1>4, <1>15 DEF Tick, Older, Smaller, MaxAge, Larger
  <2>2. c = (IF cycle.age = -1 THEN -1 ELSE cycle.age + 1)
    BY <1>4, <1>15 DEF Tick, Older, Smaller
  <2>3. ~Unhealthy' => ~Unhealthy
    BY <1>15, TickHealsNothing DEF PaceInv
  <2> HIDE DEF t, c, a, n
  <2>4. Near(t, c, a, n)
    BY <1>4, <1>5, <1>6, <2>1, <2>2
  <2>5. Late(timer, cycle.age) => Late(t, c)
    BY <1>4, <2>1, <2>2
  <2> QED
    BY <1>5, <2>3, <2>4, <2>5
<1>16. CASE Grow
  <2>1. c = cycle.age /\ t = timer /\ a = trust /\ n = anchorAge
    BY <1>16 DEF Grow, pace
  <2>2. ~Unhealthy' => ~Unhealthy
    BY <1>16, GrowHealsNothing DEF PaceInv
  <2> HIDE DEF t, c, a, n
  <2> QED
    BY <1>5, <2>1, <2>2
<1> QED
  BY <1>8, <1>9, <1>10, <1>11, <1>12, <1>13, <1>14, <1>15, <1>16 DEF Next

\* Without the user's sync and a system clock stepped back, every step keeps a
\* face without a running time near its next poll.
LEMMA RecoveryKept ==
  ASSUME PaceInv, Numbers', NothingWithoutAnchor', [Next]_vars
  PROVE  RecoveryIsNear'
<1> SUFFICES ASSUME ~world'.steps, ~world'.syncs
             PROVE  ForcedHoldsShort' /\ DarkIsNearPoll'
  BY DEF RecoveryIsNear
<1>1. ~world.steps /\ ~world.syncs
  BY WorldKept
<1> DEFINE t == timer'
           f == forcedAgo'
           c == cycle'.age
           Due(tt, ff) == tt = 0 /\ ff = 0
           Over(tt, cc) == cc >= 0 => tt + cc >= PollBase
           Held(tt, ff, gg, cu, cc) ==
               ff < PollMin =>
                   \/ Due(tt, ff)
                   \/ /\ tt + ff >= PollMin
                      /\ (tt <= PollBase /\ gg = 0) \/ (cu /\ Over(tt, cc))
           Near(tt, ff, gg, cu, cc, lost) ==
               \/ Due(tt, ff)
               \/ tt <= PollBase /\ gg = 0
               \/ (tt <= PollBase \/ cu) /\ Over(tt, cc) /\ (tt > 0 \/ lost)
<1>2. InFlight <=> cycle.age >= 0
  BY InFlightHasAge DEF PaceInv
<1>3. InFlight' <=> c >= 0
  <2>1. (InFlight <=> cycle.age >= 0)'
    BY InFlightHasAge, PTL
  <2> QED
    BY <2>1
<1>4. /\ Held(timer, forcedAgo, good, cured, cycle.age)
      /\ Dark => Near(timer, forcedAgo, good, cured, cycle.age, Lost)
  BY <1>1, <1>2 DEF PaceInv, RecoveryIsNear, ForcedHoldsShort, DarkIsNearPoll, Forced,
                    EndsBeforePoll
<1>5. SUFFICES /\ Held(t, f, good', cured', c)
               /\ Dark' => Near(t, f, good', cured', c, Lost')
  BY <1>3 DEF ForcedHoldsShort, DarkIsNearPoll, Forced, EndsBeforePoll
<1>6. /\ timer \in 0..PollMax /\ forcedAgo \in Int /\ forcedAgo <= PollMin
      /\ good \in 0..MaxGood /\ t \in Int /\ f \in Int
      /\ cycle.age \in -1..CycleBudget /\ c \in -1..CycleBudget
  BY DEF PaceInv, Numbers
<1>7. /\ Lost => Unhealthy
      /\ NextFace.stopped \/ ~NextFace.running => Lost
      /\ LostTime => Lost
  BY ShowsTime, DarkenedWhenLost DEF PaceInv
<1>8. CASE Repoll
  <2>1. /\ t \in PollMin..PollMax
        /\ Unhealthy => good' = 0 /\ t <= PollBase
        /\ ~Unhealthy => t >= PollBase
        /\ good <= 1 => t <= PollBase
    BY <1>8, NextPollRange DEF Repoll, PaceInv
  <2>2. /\ timer = 0 /\ f = forcedAgo /\ Dark' = Dark
        /\ cured' <=> forcedAgo < PollMin /\ ~Unhealthy
    BY <1>8 DEF Repoll, Dark
  <2>3. ~Unhealthy => Over(t, c)
    BY <1>6, <2>1
  <2>4. forcedAgo < PollMin => forcedAgo = 0
    BY <1>4, <1>6, <2>2
  <2>5. Held(t, f, good', cured', c)
    <3> HIDE DEF t, f, c
    <3>1. CASE Unhealthy
      BY <1>6, <2>1, <2>2, <2>4, <3>1
    <3>2. CASE ~Unhealthy
      BY <1>6, <2>1, <2>2, <2>3, <2>4, <3>2
    <3> QED
      BY <3>1, <3>2
  <2>6. ASSUME Dark PROVE Near(t, f, good', cured', c, Lost')
    <3>1. CASE Unhealthy
      BY <2>1, <3>1
    <3>2. CASE ~Unhealthy
      <4>1. t > 0
        BY <2>1
      <4>2. t <= PollBase \/ cured'
        <5>1. CASE good = 0
          BY <2>1, <5>1
        <5>2. CASE good # 0
          <6>1. Due(timer, forcedAgo)
            BY <1>4, <1>7, <2>2, <2>6, <3>2, <5>2
          <6> QED
            BY <2>2, <3>2, <6>1
        <5> QED
          BY <5>1, <5>2
      <4> QED
        BY <2>3, <3>2, <4>1, <4>2
    <3> QED
      BY <3>1, <3>2
  <2> QED
    BY <2>2, <2>5, <2>6
<1>9. ~UserSync /\ ~StepClockBack
  BY <1>1 DEF UserSync, StepClockBack
<1>10. CASE Render
  <2>1. /\ face' = NextFace /\ good' = good /\ cured' = cured /\ c = cycle.age
        /\ Lost' <=> Lost
    BY <1>10, ClockKept DEF Render, PollNow, pace
  <2>2. Dark' => Lost'
    BY <1>7, <2>1 DEF Dark
  <2>3. CASE LostTime /\ ~(forcedAgo < PollMin)
    <3>1. t = 0 /\ f = 0
      BY <1>10, <2>3 DEF Render, PollNow
    <3> QED
      BY <3>1
  <2>4. CASE LostTime /\ forcedAgo < PollMin
    <3>1. t = timer /\ f = forcedAgo
      BY <1>10, <2>4 DEF Render, PollNow, pace
    <3>2. Near(timer, forcedAgo, good, cured, cycle.age, TRUE)
      BY <1>4, <2>4
    <3> QED
      BY <1>4, <1>7, <2>1, <2>4, <3>1, <3>2
  <2>5. CASE ~LostTime
    <3>1. t = timer /\ f = forcedAgo
      BY <1>10, <2>5 DEF Render, pace
    <3>2. Dark' => Dark
      BY <2>1, <2>5 DEF LostTime, Dark
    <3> QED
      BY <1>4, <2>1, <3>1, <3>2
  <2> QED
    BY <2>3, <2>4, <2>5
<1>11. CASE Capture \/ Break \/ Grow \/ UNCHANGED vars
  <2>1. /\ t = timer /\ f = forcedAgo /\ good' = good /\ cured' = cured /\ Dark' = Dark
        /\ c = cycle.age
    BY <1>11 DEF Capture, Break, Grow, pace, vars, Dark, PaceInv, Numbers
  <2>2. Lost => Lost'
    <3>1. CASE Capture \/ UNCHANGED vars
      BY <3>1, ClockKept DEF Capture, vars, clock
    <3>2. CASE Break
      <4>1. (HasTime <=> anchorAge >= 0 /\ ~broken)'
        BY ShowsTime, PTL
      <4> QED
        BY <3>2, <4>1 DEF Break, Lost
    <3>3. CASE Grow
      BY <3>3, GrowHealsNothing DEF PaceInv
    <3> QED
      BY <1>11, <3>1, <3>2, <3>3
  <2> QED
    BY <1>4, <2>1, <2>2
<1>12. CASE (\E k \in 0..1 : EndPass(k)) \/ (\E k \in 0..2 : EndHold(k)) \/ EndFail
  <2>1. /\ t = timer /\ f = forcedAgo /\ good' = good /\ cured' = cured /\ Dark' = Dark
        /\ c = -1 /\ InFlight
    BY <1>12 DEF EndPass, EndHold, EndFail, pace, NoCycle, Dark
  <2>2. Over(t, c)
    BY <2>1
  <2>3. Over(timer, cycle.age) => t > 0
    BY <1>2, <1>6, <2>1, WindowClearsRenewal
  <2> HIDE DEF t, f, c
  <2> QED
    BY <1>4, <2>1, <2>2, <2>3
<1>13. CASE Tick
  <2>1. /\ timer > 0 /\ t = timer - 1 /\ f = Smaller(PollMin, forcedAgo + 1)
        /\ good' = good /\ cured' = cured /\ Dark' = Dark /\ face = NextFace
        /\ c = (IF cycle.age = -1 THEN -1 ELSE cycle.age + 1)
    <3>1. c = (IF cycle.age = -1 THEN -1 ELSE cycle.age + 1)
      BY <1>6, <1>13 DEF Tick, Older, Smaller
    <3> QED
      BY <1>13, <3>1 DEF Tick, Dark
  <2>2. Lost' <=> Lost
    BY <1>13, TickHealsNothing DEF PaceInv
  <2>3. Dark => Lost
    BY <1>7, <2>1 DEF Dark
  <2>4. Over(timer, cycle.age) => Over(t, c)
    BY <1>6, <2>1
  <2>5. Held(t, f, good', cured', c)
    <3> SUFFICES ASSUME f < PollMin
                 PROVE  /\ t + f >= PollMin
                        /\ (t <= PollBase /\ good' = 0) \/ (cured' /\ Over(t, c))
      OBVIOUS
    <3>1. f = forcedAgo + 1 /\ forcedAgo < PollMin
      BY <1>6, <2>1 DEF Smaller
    <3>2. /\ timer + forcedAgo >= PollMin
          /\ (timer <= PollBase /\ good = 0) \/ (cured /\ Over(timer, cycle.age))
      BY <1>4, <2>1, <3>1
    <3>3. t + f >= PollMin /\ (timer <= PollBase => t <= PollBase)
      BY <1>6, <2>1, <3>1, <3>2
    <3> HIDE DEF t, f, c
    <3> QED
      BY <2>1, <2>4, <3>2, <3>3
  <2>6. ASSUME Dark PROVE Near(t, f, good', cured', c, Lost')
    <3>1. timer <= PollBase => t <= PollBase
      BY <1>6, <2>1
    <3> HIDE DEF t, f, c
    <3> QED
      BY <1>4, <2>1, <2>2, <2>3, <2>4, <2>6, <3>1
  <2> QED
    BY <2>1, <2>5, <2>6
<1> QED
  BY <1>8, <1>9, <1>10, <1>11, <1>12, <1>13 DEF Next

LEMMA SpecPace == Spec => []PaceInv
<1>1. PaceInv /\ [Next]_vars => PaceInv'
  <2> SUFFICES ASSUME PaceInv, [Next]_vars PROVE PaceInv'
    OBVIOUS
  <2>1. Flags' /\ Numbers' /\ NothingWithoutAnchor' /\ HealthIsKept'
    BY FlagsKept, NumbersKept, HealthKept DEF PaceInv
  <2>2. RenewalIsBounded' /\ TimerIsOnTime' /\ RecoveryIsNear'
    BY <2>1, RenewalKept, TimerKept, RecoveryKept
  <2> QED
    BY <2>1, <2>2 DEF PaceInv
<1> QED
  BY InitPace, <1>1, PTL DEF Spec
-----------------------------------------------------------------------------

\* While every cycle passes and only the timer polls, an OK once published
\* stays: the staleness window of clock.c outlasts the slowest renewal the
\* scheduler of lunar.tcl can make of it, whatever the intervals are, as long
\* as the window is derived from them as clock.c says.
THEOREM HealthyClockStaysOk == Spec => []HealthyNeverStale
<1>1. PaceInv => HealthyNeverStale
  <2> SUFFICES ASSUME PaceInv, Healthy, ~world.syncs, trust = OK PROVE DisplayState = OK
    BY DEF HealthyNeverStale
  <2>1. /\ InFlight <=> cycle.age >= 0
        /\ DisplayState = OK <=> trust = OK /\ ~broken /\ anchorAge <= StaleAfter
    BY InFlightHasAge, ShowsTime DEF PaceInv
  <2>2. DueAge <= MissedAtMost /\ broken = FALSE
    BY DEF PaceInv, TimerIsOnTime, HealthIsKept
  <2>3. /\ timer \in Nat /\ anchorAge \in Int /\ cycle.age \in Int /\ cycle.age <= CycleBudget
    BY DEF PaceInv, Numbers, MaxAge, Larger
  <2>4. MissedAtMost \in Int /\ MissedAtMost + CycleBudget <= StaleAfter
    BY WindowClearsRenewal DEF MissedAtMost, Larger
  <2>5. anchorAge <= MissedAtMost + CycleBudget
    BY <2>2, <2>3, <2>4 DEF DueAge
  <2>6. anchorAge <= StaleAfter
    BY <2>3, <2>4, <2>5
  <2> QED
    BY <2>1, <2>2, <2>6
<1> QED
  BY <1>1, SpecPace, PTL

\* The poll that falls into a sync the user asked for is ignored, and OK may
\* lapse; the anchor is replaced by the end of the cycle after that one.
THEOREM IgnoredPollCostsOneCycle == Spec => []FalseAlarmIsBrief
<1>1. PaceInv => FalseAlarmIsBrief
  <2> SUFFICES ASSUME PaceInv, Healthy, trust = OK
               PROVE  anchorAge <= PollMax + 2 * CycleBudget
    BY DEF FalseAlarmIsBrief
  <2>1. DueAge <= PollMax + CycleBudget
    BY DEF PaceInv, RenewalIsBounded
  <2>2. /\ timer \in Nat /\ anchorAge \in Int /\ cycle.age \in Int /\ cycle.age <= CycleBudget
    BY DEF PaceInv, Numbers, MaxAge, Larger
  <2> QED
    BY <2>1, <2>2 DEF DueAge
<1> QED
  BY <1>1, SpecPace, PTL

\* How far "recovery never waits out a relaxed interval" (lunar.tcl) is true: a
\* face without a running time is at most a base interval from a poll, although
\* the forced polls are limited, the count of converged ones is read at the next
\* poll, and the time may be lost in the middle of a cycle; unless the last
\* forced poll found the clock healthy again.
THEOREM DarkFaceIsPolledSoon == Spec => []RecoveryNotRelaxed
<1>1. PaceInv => RecoveryNotRelaxed
  BY DEF PaceInv, Numbers, RecoveryIsNear, DarkIsNearPoll, Forced, Dark, RecoveryNotRelaxed
<1> QED
  BY <1>1, SpecPace, PTL

-----------------------------------------------------------------------------
(***************************************************************************)
(* What Omit leaves of a sequence.                                         *)
(***************************************************************************)

\* What is left of the first n elements, for every n.
Keeps(f, s, gone) ==
    /\ f[0] = <<>>
    /\ \A n \in 1 .. Len(s) :
          f[n] = IF s[n] \in gone THEN f[n - 1] ELSE Append(f[n - 1], s[n])

\* A function that answers as Omit does is the one it is defined by.
LEMMA OmitIs ==
  ASSUME NEW S, NEW s \in Seq(S), NEW gone, NEW h \in [0 .. Len(s) -> Seq(S)],
         Keeps(h, s, gone)
  PROVE  Omit(s, gone) = h[Len(s)]
<1> DEFINE body(f, n) == IF n = 0 THEN <<>>
                         ELSE IF s[n] \in gone THEN f[n - 1] ELSE Append(f[n - 1], s[n])
           P(f) == f = [n \in 0 .. Len(s) |-> body(f, n)]
           F == CHOOSE f : P(f)
           T == {n \in Nat : n <= Len(s) => F[n] = h[n]}
<1>1. Len(s) \in Nat
  OBVIOUS
<1>2. Omit(s, gone) = F[Len(s)]
  BY DEF Omit
<1>3. P(F)
  <2>1. ASSUME NEW n \in 0 .. Len(s)
        PROVE  h[n] = body(h, n)
    <3>1. CASE n = 0
      BY <3>1 DEF Keeps
    <3>2. CASE n # 0
      <4>1. n \in 1 .. Len(s)
        BY <1>1, <3>2
      <4> QED
        BY <3>2, <4>1 DEF Keeps
    <3> QED
      BY <3>1, <3>2
  <2>2. h = [n \in 0 .. Len(s) |-> h[n]]
    OBVIOUS
  <2>3. P(h)
    <3> HIDE DEF body
    <3> QED
      BY <2>1, <2>2
  <2> HIDE DEF P
  <2> QED
    BY <2>3, Zenon
<1> HIDE DEF F
<1>4. 0 \in T
  BY <1>1, <1>3 DEF Keeps
<1>5. ASSUME NEW n \in T
      PROVE  n + 1 \in T
  <2> SUFFICES ASSUME n + 1 <= Len(s)
               PROVE  F[n + 1] = h[n + 1]
    OBVIOUS
  <2>1. n \in Nat /\ F[n] = h[n] /\ n + 1 \in 1 .. Len(s) /\ n + 1 \in 0 .. Len(s)
        /\ n + 1 # 0 /\ (n + 1) - 1 = n
    BY <1>1
  <2>2. F[n + 1] = body(F, n + 1)
    BY <1>3, <2>1
  <2>3. h[n + 1] = IF s[n + 1] \in gone THEN h[n] ELSE Append(h[n], s[n + 1])
    BY <2>1 DEF Keeps
  <2> QED
    BY <2>1, <2>2, <2>3
<1>6. T = Nat
  <2>1. T \in SUBSET Nat
    OBVIOUS
  <2> HIDE DEF T
  <2> QED
    BY <1>4, <1>5, <2>1, SetInduction
<1> QED
  BY <1>1, <1>2, <1>6

\* There is one.
LEMMA OmitExists ==
  ASSUME NEW S, NEW s \in Seq(S), NEW gone
  PROVE  \E f \in [0 .. Len(s) -> Seq(S)] : Keeps(f, s, gone)
<1> DEFINE upTo(m) == \E f \in [0 .. Len(s) -> Seq(S)] :
                        /\ f[0] = <<>>
                        /\ \A n \in 1 .. Len(s) : n <= m =>
                              f[n] = IF s[n] \in gone THEN f[n - 1] ELSE Append(f[n - 1], s[n])
           T == {m \in Nat : upTo(m)}
<1>1. Len(s) \in Nat /\ \A n \in 1 .. Len(s) : s[n] \in S
  OBVIOUS
<1>2. 0 \in T
  <2> DEFINE f == [n \in 0 .. Len(s) |-> <<>>]
  <2>1. f \in [0 .. Len(s) -> Seq(S)] /\ f[0] = <<>>
    BY <1>1
  <2>2. \A n \in 1 .. Len(s) : ~(n <= 0)
    BY <1>1
  <2> HIDE DEF f
  <2> QED
    BY <2>1, <2>2
<1>3. ASSUME NEW m \in T
      PROVE  m + 1 \in T
  <2>1. PICK f \in [0 .. Len(s) -> Seq(S)] :
                 /\ f[0] = <<>>
                 /\ \A n \in 1 .. Len(s) : n <= m =>
                       f[n] = IF s[n] \in gone THEN f[n - 1] ELSE Append(f[n - 1], s[n])
    BY <1>3
  <2> DEFINE next == IF s[m + 1] \in gone THEN f[m] ELSE Append(f[m], s[m + 1])
             g == [f EXCEPT ![m + 1] = next]
  <2>2. m \in Nat
    OBVIOUS
  <2>3. CASE m + 1 \notin 1 .. Len(s)
    <3>1. \A n \in 1 .. Len(s) : n <= m + 1 => n <= m
      BY <1>1, <2>2, <2>3
    <3> QED
      BY <2>1, <2>2, <3>1
  <2>4. CASE m + 1 \in 1 .. Len(s)
    <3>1. next \in Seq(S)
      <4>1. f[m] \in Seq(S) /\ s[m + 1] \in S
        BY ONLY <1>1, <2>2, <2>4, SMTT(30)
      <4> QED
        BY <4>1
    <3>2. g \in [0 .. Len(s) -> Seq(S)] /\ g[0] = <<>> /\ g[m + 1] = next
          /\ \A n \in 0 .. Len(s) : n # m + 1 => g[n] = f[n]
      <4> HIDE DEF next
      <4> QED
        BY <1>1, <2>1, <2>2, <2>4, <3>1
    <3> HIDE DEF g
    <3>3. ASSUME NEW n \in 1 .. Len(s), n <= m + 1
          PROVE  g[n] = IF s[n] \in gone THEN g[n - 1] ELSE Append(g[n - 1], s[n])
      <4>1. CASE n = m + 1
        <5>1. n - 1 = m /\ g[m] = f[m]
          BY <1>1, <2>2, <2>4, <3>2, <4>1
        <5> QED
          BY <3>2, <4>1, <5>1
      <4>2. CASE n # m + 1
        <5>1. n <= m /\ g[n] = f[n] /\ g[n - 1] = f[n - 1]
          BY <1>1, <2>2, <3>2, <3>3, <4>2
        <5> QED
          BY <2>1, <5>1
      <4> QED
        BY <4>1, <4>2
    <3>4. upTo(m + 1)
      BY <3>2, <3>3
    <3> QED
      BY <2>2, <3>4
  <2> QED
    BY <2>3, <2>4
<1>4. T = Nat
  <2>1. T \in SUBSET Nat
    OBVIOUS
  <2> HIDE DEF T
  <2> QED
    BY <1>2, <1>3, <2>1, SetInduction
<1>5. upTo(Len(s))
  BY <1>1, <1>4
<1> QED
  BY <1>1, <1>5 DEF Keeps

LEMMA OmitFunction ==
  ASSUME NEW S, NEW s \in Seq(S), NEW gone
  PROVE  \E f \in [0 .. Len(s) -> Seq(S)] : Keeps(f, s, gone) /\ Omit(s, gone) = f[Len(s)]
<1>1. PICK f \in [0 .. Len(s) -> Seq(S)] : Keeps(f, s, gone)
  BY OmitExists
<1>2. Omit(s, gone) = f[Len(s)]
  BY <1>1, OmitIs
<1> QED
  BY <1>1, <1>2

\* What is left are the elements that are not in gone.
LEMMA OmitElements ==
  ASSUME NEW S, NEW s \in Seq(S), NEW gone
  PROVE  Omit(s, gone) \in Seq(S) /\ ToSet(Omit(s, gone)) = ToSet(s) \ gone
<1>1. PICK f \in [0 .. Len(s) -> Seq(S)] : Keeps(f, s, gone) /\ Omit(s, gone) = f[Len(s)]
  BY OmitFunction
<1>2. Len(s) \in Nat /\ DOMAIN s = 1 .. Len(s)
  OBVIOUS
<1> DEFINE left(n) == {s[i] : i \in 1 .. n} \ gone
           T == {n \in Nat : n <= Len(s) => ToSet(f[n]) = left(n)}
<1>3. 0 \in T
  <2>1. f[0] = <<>> /\ left(0) = {}
    BY <1>1 DEF Keeps
  <2> QED
    BY <1>2, <2>1 DEF ToSet
<1>4. ASSUME NEW n \in T
      PROVE  n + 1 \in T
  <2> SUFFICES ASSUME n + 1 <= Len(s)
               PROVE  ToSet(f[n + 1]) = left(n + 1)
    OBVIOUS
  <2>1. /\ n \in Nat /\ n + 1 \in 1 .. Len(s) /\ n \in 0 .. Len(s) /\ (n + 1) - 1 = n
        /\ ToSet(f[n]) = left(n)
    BY <1>2
  <2>2. 1 .. n + 1 = (1 .. n) \union {n + 1}
    BY <2>1
  <2>3. {s[i] : i \in 1 .. n + 1} = {s[i] : i \in 1 .. n} \union {s[n + 1]}
    BY <2>2
  <2>4. f[n + 1] = IF s[n + 1] \in gone THEN f[n] ELSE Append(f[n], s[n + 1])
    BY <1>1, <2>1 DEF Keeps
  <2>5. CASE s[n + 1] \in gone
    BY <2>1, <2>3, <2>4, <2>5
  <2>6. CASE s[n + 1] \notin gone
    <3>1. f[n] \in Seq(S) /\ s[n + 1] \in S
      BY <2>1
    <3>2. ToSet(Append(f[n], s[n + 1])) = ToSet(f[n]) \union {s[n + 1]}
      <4> DEFINE g == f[n]
                 e == s[n + 1]
      <4>1. /\ DOMAIN Append(g, e) = (1 .. Len(g)) \union {Len(g) + 1}
            /\ \A i \in 1 .. Len(g) : Append(g, e)[i] = g[i]
            /\ Append(g, e)[Len(g) + 1] = e
            /\ DOMAIN g = 1 .. Len(g)
        <5> HIDE DEF g, e
        <5> QED
          BY <3>1 DEF g, e
      <4> HIDE DEF g, e
      <4>2. ToSet(Append(g, e)) = ToSet(g) \union {e}
        BY <4>1 DEF ToSet
      <4> QED
        BY <4>2 DEF g, e
    <3> QED
      BY <2>1, <2>3, <2>4, <2>6, <3>2
  <2> QED
    BY <2>5, <2>6
<1>5. T = Nat
  <2>1. T \in SUBSET Nat
    OBVIOUS
  <2> HIDE DEF T
  <2> QED
    BY <1>3, <1>4, <2>1, SetInduction
<1>6. ToSet(f[Len(s)]) = left(Len(s))
  BY ONLY <1>2, <1>5, SMTT(30)
<1>7. ToSet(s) = {s[i] : i \in 1 .. Len(s)}
  BY <1>2 DEF ToSet
<1> QED
  BY <1>1, <1>2, <1>6, <1>7

\* Where what is gone comes first, the rest is left.
LEMMA OmitPrefix ==
  ASSUME NEW S, NEW s \in Seq(S), NEW gone, NEW k \in 0 .. Len(s),
         \A i \in 1 .. Len(s) : s[i] \in gone <=> i <= k
  PROVE  Omit(s, gone) = SubSeq(s, k + 1, Len(s))
<1> DEFINE h == [n \in 0 .. Len(s) |-> SubSeq(s, k + 1, n)]
<1>1. Len(s) \in Nat /\ k \in Nat /\ \A i \in 1 .. Len(s) : s[i] \in S
  OBVIOUS
<1>2. h \in [0 .. Len(s) -> Seq(S)]
  <2>1. ASSUME NEW n \in 0 .. Len(s)
        PROVE  SubSeq(s, k + 1, n) \in Seq(S)
    <3>1. k + 1 \in Int /\ n \in Int /\ \A i \in k + 1 .. n : s[i] \in S
      BY <1>1
    <3> QED
      BY <3>1, SubSeqProperties
  <2> QED
    BY <2>1
<1>3. Keeps(h, s, gone)
  <2>1. h[0] = <<>>
    BY <1>1, SubSeqEmpty
  <2>2. ASSUME NEW n \in 1 .. Len(s)
        PROVE  h[n] = IF s[n] \in gone THEN h[n - 1] ELSE Append(h[n - 1], s[n])
    <3>1. /\ n \in Int /\ n - 1 \in Int /\ k + 1 \in Int /\ n \in 0 .. Len(s)
          /\ n - 1 \in 0 .. Len(s)
      BY <1>1
    <3>2. CASE n <= k
      <4>1. SubSeq(s, k + 1, n) = <<>> /\ SubSeq(s, k + 1, n - 1) = <<>>
        BY <3>1, <3>2, SubSeqEmpty
      <4> QED
        BY <3>1, <3>2, <4>1
    <3>3. CASE k < n
      <4>1. k + 1 \in 1 .. Len(s) /\ n \in k + 1 .. Len(s)
        BY <1>1, <3>1, <3>3
      <4>2. SubSeq(s, k + 1, n) = SubSeq(s, k + 1, n - 1) \o <<s[n]>>
        BY <4>1, SubSeqRecursiveSecond
      <4>3. h[n - 1] \in Seq(S) /\ s[n] \in S
        BY <1>1, <1>2, <3>1
      <4>4. h[n] = Append(h[n - 1], s[n])
        BY <3>1, <4>2, <4>3, AppendIsConcat
      <4>5. s[n] \notin gone
        BY <1>1, <3>1, <3>3
      <4> HIDE DEF h
      <4> QED
        BY <4>4, <4>5
    <3> QED
      BY <1>1, <3>1, <3>2, <3>3
  <2> HIDE DEF h
  <2> QED
    BY <2>1, <2>2 DEF Keeps
<1>4. Omit(s, gone) = h[Len(s)]
  <2> HIDE DEF h
  <2> QED
    BY <1>2, <1>3, OmitIs
<1> QED
  BY <1>1, <1>4

\* Two sequences in a row keep what each of them keeps.
LEMMA OmitConcat ==
  ASSUME NEW S, NEW s \in Seq(S), NEW t \in Seq(S), NEW gone
  PROVE  Omit(s \o t, gone) = Omit(s, gone) \o Omit(t, gone)
<1>1. PICK f \in [0 .. Len(s) -> Seq(S)] : Keeps(f, s, gone) /\ Omit(s, gone) = f[Len(s)]
  BY OmitFunction
<1>2. PICK g \in [0 .. Len(t) -> Seq(S)] : Keeps(g, t, gone) /\ Omit(t, gone) = g[Len(t)]
  BY OmitFunction
<1> DEFINE st == s \o t
           m == Len(s)
           h == [n \in 0 .. Len(st) |-> IF n <= m THEN f[n] ELSE f[m] \o g[n - m]]
<1>3. /\ m \in Nat /\ Len(t) \in Nat /\ st \in Seq(S) /\ Len(st) = m + Len(t)
      /\ \A n \in 1 .. m : st[n] = s[n]
      /\ \A n \in m + 1 .. Len(st) : st[n] = t[n - m] /\ n - m \in 1 .. Len(t)
  OBVIOUS
<1>4. ASSUME NEW n \in m .. Len(st)
      PROVE  h[n] = f[m] \o g[n - m]
  <2>1. CASE n = m
    <3>1. n - m = 0 /\ g[0] = <<>> /\ f[m] \in Seq(S) /\ h[n] = f[m]
      BY <1>2, <1>3, <2>1 DEF Keeps
    <3> QED
      BY <3>1, ConcatEmptySeq
  <2>2. CASE n # m
    BY <1>3, <2>2
  <2> QED
    BY <2>1, <2>2
<1>5. h \in [0 .. Len(st) -> Seq(S)]
  <2>1. ASSUME NEW n \in 0 .. Len(st)
        PROVE  (IF n <= m THEN f[n] ELSE f[m] \o g[n - m]) \in Seq(S)
    <3>1. CASE n <= m
      BY <1>3, <3>1
    <3>2. CASE ~(n <= m)
      <4>1. m \in 0 .. Len(s) /\ n - m \in 0 .. Len(t)
        <5> n \in Nat /\ n <= m + Len(t)
          BY <1>3
        <5> HIDE DEF m
        <5> QED
          BY <1>3, <3>2
      <4>2. f[m] \in Seq(S) /\ g[n - m] \in Seq(S)
        BY <4>1
      <4> QED
        BY <3>2, <4>2
    <3> QED
      BY <3>1, <3>2
  <2> QED
    BY <2>1
<1>6. Keeps(h, st, gone)
  <2>1. h[0] = <<>>
    BY <1>1, <1>3 DEF Keeps
  <2>2. ASSUME NEW n \in 1 .. Len(st)
        PROVE  h[n] = IF st[n] \in gone THEN h[n - 1] ELSE Append(h[n - 1], st[n])
    <3>1. n \in Nat /\ n - 1 \in 0 .. Len(st)
      BY <1>3
    <3>2. CASE n <= m
      <4>1. n \in 1 .. m /\ h[n] = f[n] /\ h[n - 1] = f[n - 1] /\ st[n] = s[n]
        BY <1>3, <3>1, <3>2
      <4>2. f[n] = IF s[n] \in gone THEN f[n - 1] ELSE Append(f[n - 1], s[n])
        BY <1>1, <4>1 DEF Keeps
      <4> HIDE DEF st, h
      <4> QED
        BY <4>1, <4>2
    <3>3. CASE m < n
      <4>1. /\ n \in m + 1 .. Len(st) /\ n \in m .. Len(st) /\ n - 1 \in m .. Len(st)
            /\ (n - 1) - m = (n - m) - 1
        BY <1>3, <3>1, <3>3
      <4>2. /\ h[n] = f[m] \o g[n - m] /\ h[n - 1] = f[m] \o g[(n - m) - 1]
            /\ st[n] = t[n - m] /\ n - m \in 1 .. Len(t)
        BY <1>3, <1>4, <4>1
      <4>3. /\ g[n - m] = IF t[n - m] \in gone THEN g[(n - m) - 1]
                           ELSE Append(g[(n - m) - 1], t[n - m])
            /\ g[(n - m) - 1] \in Seq(S) /\ f[m] \in Seq(S) /\ t[n - m] \in S
        <5> DEFINE j == n - m
        <5>1. j \in 1 .. Len(t) /\ j - 1 \in 0 .. Len(t) /\ m \in 0 .. Len(s)
          BY <1>3, <4>2
        <5> HIDE DEF j
        <5>2. g[j] = IF t[j] \in gone THEN g[j - 1] ELSE Append(g[j - 1], t[j])
          BY <1>2, <5>1 DEF Keeps
        <5>3. t[j] \in S
          BY <5>1, ElementOfSeq
        <5>4. g[j - 1] \in Seq(S) /\ f[m] \in Seq(S)
          BY <5>1
        <5> QED
          BY <5>2, <5>3, <5>4 DEF j
      <4> HIDE DEF st, h
      <4>4. CASE t[n - m] \in gone
        BY <4>2, <4>3, <4>4
      <4>5. CASE t[n - m] \notin gone
        <5> DEFINE a == f[m]
                   b == g[(n - m) - 1]
                   e == t[n - m]
        <5>1. a \in Seq(S) /\ b \in Seq(S) /\ e \in S
          BY <4>3
        <5> HIDE DEF a, b, e
        <5>2. a \o Append(b, e) = Append(a \o b, e)
          <6>1. a \o b \in Seq(S) /\ <<e>> \in Seq(S)
            BY <5>1
          <6>2. Append(b, e) = b \o <<e>> /\ Append(a \o b, e) = (a \o b) \o <<e>>
            BY <5>1, <6>1, AppendIsConcat
          <6> QED
            BY ONLY <5>1, <6>1, <6>2, ConcatAssociative, SMTT(30)
        <5> QED
          BY <4>2, <4>3, <4>5, <5>2 DEF a, b, e
      <4> QED
        BY <4>4, <4>5
    <3> QED
      BY <1>3, <3>1, <3>2, <3>3
  <2> HIDE DEF h, st
  <2> QED
    BY <2>1, <2>2 DEF Keeps
<1>7. Omit(st, gone) = h[Len(st)]
  <2>1. st \in Seq(S)
    BY <1>3
  <2> HIDE DEF h, st
  <2> QED
    BY ONLY <1>5, <1>6, <2>1, OmitIs
<1>8. h[Len(st)] = f[m] \o g[Len(t)]
  <2>1. Len(st) \in m .. Len(st) /\ Len(st) - m = Len(t)
    BY <1>3
  <2> HIDE DEF h, st
  <2> QED
    BY <1>4, <2>1
<1> QED
  BY <1>1, <1>2, <1>7, <1>8

-----------------------------------------------------------------------------
(***************************************************************************)
(* The ring holds the last entries, in a row.                              *)
(***************************************************************************)

\* The last n elements of a sequence.
LEMMA NewestIs ==
  ASSUME NEW S, NEW s \in Seq(S), NEW n \in Nat
  PROVE  /\ Newest(s, n) \in Seq(S)
         /\ Len(Newest(s, n)) = IF Len(s) > n THEN n ELSE Len(s)
         /\ \A i \in 1 .. Len(Newest(s, n)) :
               Newest(s, n)[i] = s[Len(s) - Len(Newest(s, n)) + i]
         /\ Len(s) <= n => Newest(s, n) = s
<1>1. Len(s) \in Nat /\ \A i \in 1 .. Len(s) : s[i] \in S
  OBVIOUS
<1>2. CASE Len(s) > n
  <2> DEFINE m == Len(s) - n + 1
             t == SubSeq(s, m, Len(s))
  <2>1. m \in Int /\ Len(s) \in Int /\ \A i \in m .. Len(s) : s[i] \in S
    BY <1>1, <1>2
  <2>2. /\ t \in Seq(S) /\ Len(t) = IF m <= Len(s) THEN Len(s) - m + 1 ELSE 0
        /\ \A i \in 1 .. Len(s) - m + 1 : t[i] = s[m + i - 1]
    <3> HIDE DEF m
    <3> QED
      BY <2>1, SubSeqProperties
  <2>3. Newest(s, n) = t
    BY <1>2 DEF Newest
  <2> HIDE DEF t
  <2>4. Len(t) = n
    BY <1>1, <1>2, <2>2
  <2>5. ASSUME NEW i \in 1 .. n
        PROVE  t[i] = s[Len(s) - n + i]
    <3>1. Len(s) - m + 1 = n /\ m + i - 1 = Len(s) - n + i
      BY <1>1
    <3> QED
      BY <2>2, <3>1
  <2> HIDE DEF m
  <2>6. ~(Len(s) <= n)
    BY <1>1, <1>2
  <2>7. \A i \in 1 .. Len(t) : t[i] = s[Len(s) - Len(t) + i]
    BY <2>4, <2>5
  <2> QED
    BY <1>2, <2>2, <2>3, <2>4, <2>6, <2>7
<1>3. CASE ~(Len(s) > n)
  BY <1>1, <1>3 DEF Newest
<1> QED
  BY <1>2, <1>3

Entries == [seq : Nat \ {0}, tick : Int]

\* Entries with consecutive numbers up to last.
InARow(s, last) == \A i \in 1 .. Len(s) : s[i].seq = last - Len(s) + i

RingInv ==
    /\ tick \in Int /\ stamp \in [Threads -> Int]
    /\ ring \in Seq(Entries) /\ nextSeq \in Nat \ {0}
    /\ InARow(ring, nextSeq - 1)

\* The end of a row is a row.
LEMMA EndOfRow ==
  ASSUME NEW s \in Seq(Entries), NEW t \in Seq(Entries), NEW last \in Int,
         InARow(s, last), Len(t) <= Len(s),
         \A i \in 1 .. Len(t) : t[i] = s[Len(s) - Len(t) + i]
  PROVE  InARow(t, last)
<1> SUFFICES ASSUME NEW i \in 1 .. Len(t)
             PROVE  t[i].seq = last - Len(t) + i
  BY DEF InARow
<1>1. Len(s) \in Nat /\ Len(t) \in Nat /\ i \in Nat
  OBVIOUS
<1>2. Len(s) - Len(t) + i \in 1 .. Len(s)
  BY <1>1
<1>3. s[Len(s) - Len(t) + i].seq = last - Len(s) + (Len(s) - Len(t) + i)
  BY <1>2 DEF InARow
<1>4. last - Len(s) + (Len(s) - Len(t) + i) = last - Len(t) + i
  BY <1>1
<1> QED
  BY <1>3, <1>4

\* What EvictOld keeps is the end of the ring.
LEMMA KeptIs ==
  ASSUME ring \in Seq(Entries), NEW now \in Int
  PROVE  /\ Kept(now) \in Seq(Entries) /\ Len(Kept(now)) <= Len(ring)
         /\ \A i \in 1 .. Len(Kept(now)) :
               Kept(now)[i] = ring[Len(ring) - Len(Kept(now)) + i]
<1> DEFINE live == {i \in DOMAIN ring :
                     ring[i].tick > now \/ now - ring[i].tick < LOGBUF_RETENTION_MS}
<1>1. Len(ring) \in Nat /\ DOMAIN ring = 1 .. Len(ring) /\ \A i \in 1 .. Len(ring) : ring[i] \in Entries
  OBVIOUS
<1>2. CASE live = {}
  <2>1. Kept(now) = <<>>
    BY <1>2 DEF Kept
  <2> QED
    BY <1>1, <2>1
<1>3. CASE live # {}
  <2> DEFINE m == CHOOSE i \in live : \A j \in live : i <= j
             t == SubSeq(ring, m, Len(ring))
  <2>1. live \subseteq Nat /\ live \subseteq 1 .. Len(ring)
    BY <1>1
  <2>2. \E i \in live : \A j \in live : i <= j
    <3> HIDE DEF live
    <3> QED
      BY <1>3, <2>1, LeastNumber
  <2>3. m \in live
    <3> HIDE DEF live
    <3> QED
      BY <2>2
  <2>4. Kept(now) = t
    BY <1>3 DEF Kept
  <2>5. m \in 1 .. Len(ring)
    BY <2>1, <2>3
  <2> HIDE DEF m, live
  <2>6. m \in Int /\ Len(ring) \in Int /\ \A i \in m .. Len(ring) : ring[i] \in Entries
    BY <1>1, <2>5
  <2>7. /\ t \in Seq(Entries) /\ Len(t) = IF m <= Len(ring) THEN Len(ring) - m + 1 ELSE 0
        /\ \A i \in 1 .. Len(ring) - m + 1 : t[i] = ring[m + i - 1]
    BY <2>6, SubSeqProperties
  <2> HIDE DEF t
  <2>8. Len(t) = Len(ring) - m + 1
    BY <2>5, <2>7
  <2>9. ASSUME NEW i \in 1 .. Len(t)
        PROVE  t[i] = ring[Len(ring) - Len(t) + i]
    <3>1. Len(ring) - Len(t) + i = m + i - 1
      BY <1>1, <2>5, <2>8
    <3> QED
      BY <2>7, <2>8, <3>1
  <2>10. Len(t) <= Len(ring)
    BY <1>1, <2>5, <2>8
  <2> QED
    BY <2>4, <2>7, <2>9, <2>10
<1> QED
  BY <1>2, <1>3

\* So are the entries that are collected, those after the cursor.
LEMMA FreshInARow ==
  ASSUME RingInv, seen \in Nat
  PROVE  /\ CollectSince(seen) \in Seq(Entries)
         /\ InARow(CollectSince(seen), nextSeq - 1)
         /\ CollectSince(seen) # <<>> => CollectSince(seen)[1].seq > seen
<1> DEFINE r == Kept(tick)
           gone == {e \in ToSet(ring) : e.seq <= seen}
           last == nextSeq - 1
           k0 == seen - last + Len(r)
           k == IF k0 < 0 THEN 0 ELSE IF k0 > Len(r) THEN Len(r) ELSE k0
           t == SubSeq(r, k + 1, Len(r))
<1>1. /\ ring \in Seq(Entries) /\ Len(ring) \in Nat /\ tick \in Int /\ last \in Int
      /\ nextSeq \in Nat /\ InARow(ring, last)
  BY DEF RingInv
<1>2. /\ r \in Seq(Entries) /\ Len(r) <= Len(ring)
      /\ \A i \in 1 .. Len(r) : r[i] = ring[Len(ring) - Len(r) + i]
  BY <1>1, KeptIs
<1> HIDE DEF r, last
<1>3. InARow(r, last)
  BY <1>1, <1>2, EndOfRow
<1>4. Len(r) \in Nat /\ k0 \in Int /\ k \in 0 .. Len(r)
  BY <1>1, <1>2
<1>5. ASSUME NEW i \in 1 .. Len(r)
      PROVE  r[i].seq = last - Len(r) + i /\ (r[i].seq <= seen <=> i <= k)
             /\ (r[i] \in gone <=> i <= k)
  <2>1. r[i].seq = last - Len(r) + i
    BY <1>3 DEF InARow
  <2>2. r[i].seq <= seen <=> i <= k
    BY <1>1, <1>4, <2>1
  <2>3. Len(ring) - Len(r) + i \in DOMAIN ring
    BY <1>1, <1>2, <1>4
  <2>4. r[i] \in ToSet(ring)
    BY <1>2, <2>3 DEF ToSet
  <2> QED
    BY <2>1, <2>2, <2>4
<1>6. CollectSince(seen) = t
  <2>1. CollectSince(seen) = Omit(r, gone)
    BY DEF CollectSince, r
  <2>2. \A i \in 1 .. Len(r) : r[i] \in gone <=> i <= k
    BY <1>5
  <2> HIDE DEF gone, k, k0
  <2> QED
    BY <1>2, <1>4, <2>1, <2>2, OmitPrefix
<1> HIDE DEF k, k0
<1>7. k + 1 \in Int /\ Len(r) \in Int /\ \A i \in k + 1 .. Len(r) : r[i] \in Entries
  BY <1>2, <1>4
<1>8. /\ t \in Seq(Entries) /\ Len(t) = IF k + 1 <= Len(r) THEN Len(r) - (k + 1) + 1 ELSE 0
      /\ \A i \in 1 .. Len(r) - (k + 1) + 1 : t[i] = r[(k + 1) + i - 1]
  BY <1>7, SubSeqProperties
<1> HIDE DEF t
<1>9. Len(t) = Len(r) - k
  BY <1>4, <1>8
<1>10. ASSUME NEW i \in 1 .. Len(t)
       PROVE  t[i] = r[Len(r) - Len(t) + i]
  <2>1. Len(r) - (k + 1) + 1 = Len(t) /\ (k + 1) + i - 1 = Len(r) - Len(t) + i
    BY <1>4, <1>9
  <2> QED
    BY <1>8, <2>1
<1>11. InARow(t, last)
  <2>1. Len(t) <= Len(r)
    BY <1>4, <1>9
  <2> QED
    BY <1>1, <1>2, <1>3, <1>8, <1>10, <2>1, EndOfRow
<1>12. t # <<>> => t[1].seq > seen
  <2> SUFFICES ASSUME t # <<>>
               PROVE  t[1].seq > seen
    OBVIOUS
  <2>1. 1 \in 1 .. Len(t)
    BY <1>8
  <2>2. t[1] = r[k + 1] /\ k + 1 \in 1 .. Len(r)
    <3>1. Len(r) - Len(t) + 1 = k + 1 /\ k + 1 \in 1 .. Len(r)
      BY <1>4, <1>9, <2>1
    <3> QED
      BY <1>10, <2>1, <3>1
  <2>3. r[k + 1].seq \in Nat /\ ~(r[k + 1].seq <= seen)
    <3>1. r[k + 1] \in Entries
      BY <1>2, <2>2
    <3> QED
      BY <1>4, <1>5, <2>2, <3>1 DEF Entries
  <2> QED
    BY <2>2, <2>3
<1> QED
  BY <1>6, <1>8, <1>11, <1>12 DEF last

-----------------------------------------------------------------------------
(***************************************************************************)
(* Nothing is lost in silence.                                             *)
(***************************************************************************)

\* The cursor is the last entry that was stored.
CursorInv ==
    /\ seen \in Nat /\ seen < nextSeq
    /\ stored \in Seq(Nat \ {0}) /\ told \in SUBSET Nat
    /\ stored = <<>> => seen = 0 /\ told = {}
    /\ stored # <<>> => seen = stored[Len(stored)]

SilenceInv == RingInv /\ CursorInv /\ NeverSilent

USE EventConstants

LEMMA InitSilence == LogInit => SilenceInv
<1> SUFFICES ASSUME LogInit
             PROVE  SilenceInv
  OBVIOUS
<1>1. RingInv
  BY DEF LogInit, RingInv, InARow
<1>2. CursorInv
  BY DEF LogInit, CursorInv
<1>3. NeverSilent
  <2>1. stored = <<>> /\ told = {} /\ Len(stored) = 0
    BY DEF LogInit
  <2> QED
    BY <2>1 DEF NeverSilent
<1> QED
  BY <1>1, <1>2, <1>3 DEF SilenceInv

\* Steps that leave the ring and the cursor alone.
ringVars == <<ring, nextSeq>>
cursorVars == <<seen, stored, told>>

LEMMA CursorStays ==
  ASSUME SilenceInv, RingInv', UNCHANGED cursorVars, nextSeq' >= nextSeq, nextSeq' \in Nat
  PROVE  SilenceInv'
<1>1. CursorInv'
  <2>1. seen \in Nat /\ seen < nextSeq /\ nextSeq \in Nat
    BY DEF SilenceInv, CursorInv, RingInv
  <2>2. seen < nextSeq'
    BY <2>1
  <2> QED
    BY <2>2 DEF SilenceInv, CursorInv, cursorVars
<1>2. NeverSilent'
  BY DEF SilenceInv, NeverSilent, cursorVars
<1> QED
  BY <1>1, <1>2 DEF SilenceInv

\* An entry is appended: to the end of the row.
LEMMA AppendKeepsRow ==
  ASSUME RingInv, NEW t \in Threads, LogAppend(t)
  PROVE  RingInv' /\ nextSeq' = nextSeq + 1
<1> DEFINE r == Kept(stamp[t])
           e == [seq |-> nextSeq, tick |-> stamp[t]]
           s == Append(r, e)
           n == Newest(s, LOGBUF_CAP)
<1>1. /\ ring \in Seq(Entries) /\ Len(ring) \in Nat /\ stamp[t] \in Int /\ tick \in Int
      /\ nextSeq \in Nat \ {0} /\ InARow(ring, nextSeq - 1) /\ stamp \in [Threads -> Int]
  BY DEF RingInv
<1>2. /\ ring' = n /\ nextSeq' = nextSeq + 1 /\ stamp' = [stamp EXCEPT ![t] = -1]
      /\ tick' = tick
  BY DEF LogAppend
<1>3. /\ r \in Seq(Entries) /\ Len(r) <= Len(ring)
      /\ \A i \in 1 .. Len(r) : r[i] = ring[Len(ring) - Len(r) + i]
  BY <1>1, KeptIs
<1> HIDE DEF r
<1>4. InARow(r, nextSeq - 1)
  <2>1. nextSeq - 1 \in Int
    BY <1>1
  <2> QED
    BY <1>1, <1>3, <2>1, EndOfRow
<1>5. e \in Entries /\ e.seq = nextSeq
  BY <1>1 DEF Entries
<1> HIDE DEF e
<1>6. /\ s \in Seq(Entries) /\ Len(s) = Len(r) + 1 /\ s[Len(r) + 1] = e
      /\ \A i \in 1 .. Len(r) : s[i] = r[i]
  BY <1>3, <1>5, AppendProperties
<1> HIDE DEF s
<1>7. InARow(s, nextSeq)
  <2> SUFFICES ASSUME NEW i \in 1 .. Len(s)
               PROVE  s[i].seq = nextSeq - Len(s) + i
    BY DEF InARow
  <2>1. Len(r) \in Nat /\ i \in Nat
    BY <1>3
  <2>2. CASE i = Len(r) + 1
    <3>1. s[i].seq = nextSeq
      BY <1>5, <1>6, <2>2
    <3> QED
      BY <1>1, <1>6, <2>1, <2>2, <3>1
  <2>3. CASE i # Len(r) + 1
    <3>1. i \in 1 .. Len(r)
      BY <1>6, <2>1, <2>3
    <3>2. s[i].seq = nextSeq - 1 - Len(r) + i
      BY <1>4, <1>6, <3>1 DEF InARow
    <3> QED
      BY <1>1, <1>6, <2>1, <3>2
  <2> QED
    BY <2>2, <2>3
<1>8. InARow(n, nextSeq)
  <2>1. /\ n \in Seq(Entries) /\ Len(n) <= Len(s)
        /\ \A i \in 1 .. Len(n) : n[i] = s[Len(s) - Len(n) + i]
    <3>1. LOGBUF_CAP \in Nat /\ Len(s) \in Nat
      BY <1>6
    <3>2. /\ n \in Seq(Entries)
          /\ Len(n) = IF Len(s) > LOGBUF_CAP THEN LOGBUF_CAP ELSE Len(s)
          /\ \A i \in 1 .. Len(n) : n[i] = s[Len(s) - Len(n) + i]
      BY <1>6, <3>1, NewestIs
    <3> HIDE DEF n
    <3>3. Len(n) <= Len(s)
      BY <3>1, <3>2
    <3> QED
      BY <3>2, <3>3
  <2> HIDE DEF n
  <2> QED
    BY <1>1, <1>6, <1>7, <2>1, EndOfRow
<1>9. n \in Seq(Entries)
  BY <1>6, NewestIs
<1> HIDE DEF n
<1>10. nextSeq' - 1 = nextSeq
  BY <1>1, <1>2
<1> QED
  BY <1>1, <1>2, <1>8, <1>9, <1>10 DEF RingInv

\* What is collected is what is stored next, and what is missing before it is told.
LEMMA DrainIsTold ==
  ASSUME SilenceInv, Drain
  PROVE  SilenceInv'
<1> DEFINE fresh == CollectSince(seen)
           n == Len(fresh)
           f == nextSeq - n
           more == [i \in DOMAIN fresh |-> fresh[i].seq]
           gap == fresh # <<>> /\ Missed(fresh) > 0
           lost == IF gap THEN seen + 1 .. f - 1 ELSE {}
<1>1. /\ ring \in Seq(Entries) /\ tick \in Int /\ stamp \in [Threads -> Int]
      /\ nextSeq \in Nat \ {0} /\ InARow(ring, nextSeq - 1) /\ RingInv
      /\ seen \in Nat /\ seen < nextSeq /\ stored \in Seq(Nat \ {0}) /\ told \in SUBSET Nat
      /\ stored = <<>> => seen = 0 /\ told = {}
      /\ stored # <<>> => seen = stored[Len(stored)]
  BY DEF SilenceInv, RingInv, CursorInv
<1>2. /\ ring' = Kept(tick) /\ UNCHANGED <<tick, stamp, nextSeq>>
      /\ fresh = <<>> => UNCHANGED cursorVars
      /\ fresh # <<>> => /\ seen' = Last(fresh).seq /\ stored' = stored \o more
                         /\ told' = IF gap THEN told \union
                                           (fresh[1].seq - Missed(fresh) .. fresh[1].seq - 1)
                                    ELSE told
  <2> HIDE DEF fresh
  <2> QED
    BY DEF Drain, cursorVars, memory, fresh
<1>3. RingInv'
  <2>1. /\ Kept(tick) \in Seq(Entries) /\ Len(Kept(tick)) <= Len(ring)
        /\ \A i \in 1 .. Len(Kept(tick)) :
              Kept(tick)[i] = ring[Len(ring) - Len(Kept(tick)) + i]
    BY <1>1, KeptIs
  <2>2. nextSeq - 1 \in Int
    BY <1>1
  <2>3. InARow(Kept(tick), nextSeq - 1)
    BY <1>1, <2>1, <2>2, EndOfRow
  <2> QED
    BY <1>1, <1>2, <2>1, <2>3 DEF RingInv
<1>4. CASE fresh = <<>>
  <2>1. nextSeq' >= nextSeq /\ nextSeq' \in Nat
    BY <1>1, <1>2
  <2> QED
    BY <1>2, <1>3, <1>4, <2>1, CursorStays
<1>5. CASE fresh # <<>>
  <2>1. /\ fresh \in Seq(Entries) /\ InARow(fresh, nextSeq - 1) /\ fresh[1].seq > seen
        /\ n \in Nat \ {0} /\ DOMAIN fresh = 1 .. n
    <3> HIDE DEF fresh
    <3>1. fresh \in Seq(Entries) /\ InARow(fresh, nextSeq - 1) /\ fresh[1].seq > seen
      BY <1>1, <1>5, FreshInARow DEF fresh
    <3> QED
      BY <1>5, <3>1, EmptySeq
  <2>a. /\ seen' = Last(fresh).seq /\ stored' = stored \o more
        /\ told' = IF gap THEN told \union (fresh[1].seq - Missed(fresh) .. fresh[1].seq - 1)
                   ELSE told
    BY <1>2, <1>5
  <2> HIDE DEF fresh
  <2>2. \A i \in 1 .. n : fresh[i] \in Entries /\ fresh[i].seq = f + i - 1
    <3>1. ASSUME NEW i \in 1 .. n
          PROVE  fresh[i] \in Entries /\ fresh[i].seq = f + i - 1
      <4>1. fresh[i].seq = nextSeq - 1 - n + i
        BY <2>1 DEF InARow
      <4>2. nextSeq - 1 - n + i = f + i - 1
        BY <1>1, <2>1
      <4> QED
        BY <2>1, <4>1, <4>2
    <3> QED
      BY <3>1
  <2>3. /\ more \in Seq(Nat \ {0}) /\ Len(more) = n
        /\ \A i \in 1 .. n : more[i] = f + i - 1
    <3>1. \A i \in 1 .. n : fresh[i].seq \in Nat \ {0}
      BY <2>2 DEF Entries
    <3>2. more \in [1 .. n -> Nat \ {0}]
      BY <2>1, <3>1
    <3> QED
      BY <2>1, <2>2, <3>2
  <2>4. f \in Nat \ {0} /\ f > seen /\ fresh[1].seq = f /\ f + n = nextSeq
    <3>1. 1 \in 1 .. n
      BY <2>1
    <3>2. fresh[1].seq = f + 1 - 1 /\ fresh[1].seq \in Nat \ {0}
      BY <2>2, <3>1 DEF Entries
    <3>3. f \in Int /\ f + 1 - 1 = f /\ f + n = nextSeq
      BY <1>1, <2>1
    <3> HIDE DEF f, n
    <3>4. fresh[1].seq = f
      BY <3>2, <3>3
    <3> QED
      BY <2>1, <3>2, <3>3, <3>4
  <2>5. seen' = nextSeq - 1
    <3> HIDE DEF f
    <3>1. n \in 1 .. n /\ f + n - 1 = nextSeq - 1
      <4> HIDE DEF n
      <4> QED
        BY <1>1, <2>1, <2>4
    <3>2. fresh[n].seq = nextSeq - 1
      BY <2>2, <3>1
    <3> QED
      BY <2>a, <3>2 DEF Last
  <2> HIDE DEF more, n, f
  <2>6. told' = told \union lost /\ (seen > 0 => lost = seen + 1 .. f - 1) /\ (seen = 0 => lost = {})
    <3>1. Missed(fresh) = IF seen > 0 THEN f - seen - 1 ELSE 0
      BY <2>4 DEF Missed
    <3>2. CASE seen > 0
      <4>1. f - (f - seen - 1) = seen + 1
        BY <1>1, <2>4
      <4>2. ~(f - seen - 1 > 0) => seen + 1 .. f - 1 = {}
        BY <1>1, <2>4
      <4>3. CASE f - seen - 1 > 0
        <5>1. gap
          BY <1>5, <3>1, <3>2, <4>3
        <5> QED
          BY <2>a, <2>4, <3>1, <3>2, <4>1, <5>1
      <4>4. CASE ~(f - seen - 1 > 0)
        <5>1. ~gap
          BY <3>1, <3>2, <4>4
        <5> QED
          BY <2>a, <3>2, <4>2, <4>4, <5>1
      <4> QED
        BY <4>3, <4>4
    <3>3. CASE seen = 0
      <4>1. ~gap
        BY <3>1, <3>3
      <4> QED
        BY <2>a, <3>3, <4>1
    <3> QED
      BY <1>1, <3>2, <3>3
  <2> HIDE DEF lost
  <2> DEFINE m == Len(stored)
             all == stored \o more
  <2>7. /\ all \in Seq(Nat \ {0}) /\ Len(all) = m + n /\ m \in Nat /\ n \in Nat \ {0}
        /\ \A i \in 1 .. m : all[i] = stored[i]
        /\ \A i \in 1 .. n : all[m + i] = f + i - 1
    <3>1. /\ all \in Seq(Nat \ {0}) /\ Len(all) = m + Len(more) /\ m \in Nat
          /\ \A i \in 1 .. m : all[i] = stored[i]
          /\ \A i \in 1 .. m + Len(more) : all[i] = IF i <= m THEN stored[i] ELSE more[i - m]
      <4>1. m \in Nat
        BY <1>1
      <4>2. /\ all \in Seq(Nat \ {0}) /\ Len(all) = m + Len(more)
            /\ \A i \in 1 .. m + Len(more) :
                  all[i] = IF i <= m THEN stored[i] ELSE more[i - m]
        <5>1. stored \in Seq(Nat \ {0}) /\ more \in Seq(Nat \ {0})
          BY <1>1, <2>3
        <5> QED
          BY ONLY <5>1, ConcatProperties, Zenon
      <4> HIDE DEF all, m
      <4>3. \A i \in 1 .. m : i \in 1 .. m + Len(more) /\ i <= m
        BY <2>1, <2>3, <4>1
      <4> QED
        BY <4>1, <4>2, <4>3
    <3> HIDE DEF all, m
    <3>2. \A i \in 1 .. n : all[m + i] = f + i - 1
      <4> SUFFICES ASSUME NEW i \in 1 .. n
                   PROVE  all[m + i] = f + i - 1
        OBVIOUS
      <4>1. m + i \in 1 .. m + Len(more) /\ ~(m + i <= m) /\ (m + i) - m = i
        BY <2>1, <2>3, <3>1
      <4>2. all[m + i] = more[i]
        BY <3>1, <4>1
      <4> QED
        BY <2>3, <4>2
    <3> QED
      BY <2>1, <2>3, <3>1, <3>2
  <2>8. DOMAIN all = 1 .. m + n /\ DOMAIN stored = 1 .. m
    BY <1>1, <2>7
  <2> HIDE DEF all, m
  <2>9. ToSet(all) = ToSet(stored) \union (f .. nextSeq - 1)
    <3>1. ASSUME NEW x \in ToSet(all)
          PROVE  x \in ToSet(stored) \union (f .. nextSeq - 1)
      <4>1. PICK i \in 1 .. m + n : x = all[i]
        BY <2>8 DEF ToSet
      <4>2. CASE i \in 1 .. m
        BY <2>7, <2>8, <4>1, <4>2 DEF ToSet
      <4>3. CASE i \notin 1 .. m
        <5>1. i - m \in 1 .. n /\ m + (i - m) = i
          BY <2>7, <4>3
        <5>2. x = f + (i - m) - 1
          BY <2>7, <4>1, <5>1
        <5>3. x \in f .. nextSeq - 1
          BY <2>4, <2>7, <5>1, <5>2
        <5> QED
          BY <5>3
      <4> QED
        BY <4>2, <4>3
    <3>2. ASSUME NEW x \in ToSet(stored)
          PROVE  x \in ToSet(all)
      <4>1. PICK i \in 1 .. m : x = stored[i]
        BY <2>8 DEF ToSet
      <4>2. i \in 1 .. m + n
        BY <2>7
      <4> QED
        BY <2>7, <2>8, <4>1, <4>2 DEF ToSet
    <3>3. ASSUME NEW x \in f .. nextSeq - 1
          PROVE  x \in ToSet(all)
      <4>1. x - f + 1 \in 1 .. n /\ f + (x - f + 1) - 1 = x /\ m + (x - f + 1) \in 1 .. m + n
        BY <1>1, <2>4, <2>7
      <4>2. all[m + (x - f + 1)] = x
        BY <2>7, <4>1
      <4> QED
        BY <2>8, <4>1, <4>2 DEF ToSet
    <3> QED
      BY <3>1, <3>2, <3>3
  <2>10. CursorInv'
    <3>1. stored' # <<>> /\ Len(stored') = m + n /\ stored' \in Seq(Nat \ {0})
      BY <2>a, <2>7 DEF all
    <3>2. stored'[m + n] = nextSeq - 1
      <4>1. n \in 1 .. n /\ f + n - 1 = nextSeq - 1
        BY <2>4, <2>7
      <4> QED
        BY <2>a, <2>7, <4>1 DEF all
    <3>3. nextSeq - 1 \in Nat /\ nextSeq - 1 < nextSeq
      BY <1>1
    <3>4. lost \in SUBSET Nat
      <4>1. seen + 1 .. f - 1 \in SUBSET Nat
        BY <1>1, <2>4
      <4>2. seen = 0 \/ seen > 0
        BY <1>1
      <4>3. lost = {} \/ lost = seen + 1 .. f - 1
        BY <2>6, <4>2
      <4> QED
        BY <4>1, <4>3
    <3> QED
      BY <1>1, <1>2, <2>5, <2>6, <3>1, <3>2, <3>3, <3>4 DEF CursorInv
  <2>11. NeverSilent'
    <3>1. /\ \A i \in 1 .. m - 1 : stored[i] < stored[i + 1]
          /\ told \cap ToSet(stored) = {}
          /\ stored # <<>> => stored[1] .. seen = ToSet(stored) \union told
      BY DEF SilenceInv, NeverSilent, m
    <3>2. stored = <<>> => m = 0
      BY DEF m
    <3>3. stored # <<>> => m \in Nat \ {0} /\ seen = stored[m] /\ seen \in Nat \ {0}
      BY <1>1, <2>8 DEF m
    <3>4. \A i \in 1 .. (m + n) - 1 : all[i] < all[i + 1]
      <4> SUFFICES ASSUME NEW i \in 1 .. (m + n) - 1
                   PROVE  all[i] < all[i + 1]
        OBVIOUS
      <4>1. i \in Nat
        OBVIOUS
      <4>2. CASE i < m
        <5>1. i \in 1 .. m - 1 /\ i \in 1 .. m /\ i + 1 \in 1 .. m
          BY <2>7, <4>1, <4>2
        <5> QED
          BY <2>7, <3>1, <5>1
      <4>3. CASE i = m
        <5>1. m \in 1 .. m /\ stored # <<>> /\ 1 \in 1 .. n
          BY <2>7, <3>2, <4>3
        <5>2. all[m] = seen /\ all[m + 1] = f + 1 - 1
          BY <2>7, <3>3, <5>1
        <5>3. seen < f + 1 - 1
          BY <1>1, <2>4
        <5> QED
          BY <4>3, <5>2, <5>3
      <4>4. CASE i > m
        <5> DEFINE j == i - m
        <5>1. j \in 1 .. n /\ j + 1 \in 1 .. n /\ m + j = i /\ m + (j + 1) = i + 1
          BY <2>7, <4>1, <4>4
        <5> HIDE DEF j
        <5>2. all[i] = f + j - 1 /\ all[i + 1] = f + (j + 1) - 1
          BY <2>7, <5>1
        <5>3. f + j - 1 < f + (j + 1) - 1
          BY <2>4, <5>1
        <5> QED
          BY <5>2, <5>3
      <4> QED
        BY <2>7, <4>1, <4>2, <4>3, <4>4
    <3>5. (told \union lost) \cap ToSet(all) = {}
      <4>1. CASE stored = <<>>
        <5>1. told = {} /\ lost = {}
          BY <1>1, <2>6, <4>1
        <5> QED
          BY <5>1
      <4>2. CASE stored # <<>>
        <5>1. lost = seen + 1 .. f - 1 /\ seen \in Nat /\ stored[1] \in Nat
          <6>1. 1 \in 1 .. m
            BY <2>7, <3>3, <4>2
          <6> QED
            BY <1>1, <2>6, <2>8, <3>3, <4>2, <6>1
        <5>2. \A x \in told \union ToSet(stored) : x \in Nat /\ x <= seen
          BY <3>1, <4>2, <5>1
        <5>3. \A x \in lost : x > seen /\ x < f /\ x \in Nat
          BY <2>4, <5>1
        <5>4. \A x \in f .. nextSeq - 1 : x >= f /\ x > seen /\ x \in Nat
          BY <1>1, <2>4
        <5>5. told \cap (f .. nextSeq - 1) = {}
          BY <1>1, <5>2, <5>4
        <5>6. lost \cap ToSet(stored) = {}
          BY <1>1, <5>2, <5>3
        <5>7. lost \cap (f .. nextSeq - 1) = {}
          BY <2>4, <5>3, <5>4
        <5> QED
          BY <2>9, <3>1, <5>5, <5>6, <5>7
      <4> QED
        BY <4>1, <4>2
    <3>6. all[1] .. nextSeq - 1 = ToSet(all) \union (told \union lost)
      <4>1. CASE stored = <<>>
        <5>1. told = {} /\ lost = {} /\ m = 0 /\ ToSet(stored) = {}
          BY <1>1, <2>6, <3>2, <4>1 DEF ToSet
        <5>2. all[1] = f
          <6>1. 1 \in 1 .. n /\ 0 + 1 = 1 /\ f + 1 - 1 = f
            BY <2>4, <2>7
          <6> QED
            BY <2>7, <5>1, <6>1
        <5> QED
          BY <2>9, <5>1, <5>2
      <4>2. CASE stored # <<>>
        <5>1. 1 \in 1 .. m /\ all[1] = stored[1] /\ stored[1] \in Nat
          BY <1>1, <2>7, <2>8, <3>3, <4>2
        <5>2. stored[1] <= seen
          <6>1. stored[1] \in ToSet(stored)
            BY <2>8, <5>1 DEF ToSet
          <6> QED
            BY <1>1, <3>1, <4>2, <5>1, <6>1
        <5>3. lost = seen + 1 .. f - 1
          BY <2>6, <3>3, <4>2
        <5>4. stored[1] .. nextSeq - 1 =
                (stored[1] .. seen) \union (seen + 1 .. f - 1) \union (f .. nextSeq - 1)
          <6> DEFINE a == stored[1]
                     c == nextSeq - 1
          <6>1. /\ a \in Int /\ seen \in Int /\ f \in Int /\ c \in Int
                /\ a <= seen /\ seen < f /\ f <= c
            BY <1>1, <2>4, <2>7, <5>1, <5>2
          <6> HIDE DEF a, c
          <6>2. a .. c = (a .. seen) \union (seen + 1 .. f - 1) \union (f .. c)
            BY <6>1
          <6> QED
            BY <6>2 DEF a, c
        <5> QED
          BY <2>9, <3>1, <4>2, <5>1, <5>3, <5>4
      <4> QED
        BY <4>1, <4>2
    <3>7. stored' = all /\ told' = told \union lost /\ seen' = nextSeq - 1
      BY <2>a, <2>5, <2>6 DEF all
    <3>8. ToSet(stored') = ToSet(all)
      BY <3>7 DEF ToSet
    <3> QED
      BY <2>7, <3>4, <3>5, <3>6, <3>7, <3>8 DEF NeverSilent
  <2> QED
    BY <1>3, <2>10, <2>11 DEF SilenceInv
<1> QED
  BY <1>4, <1>5

LEMMA RestartKeepsSilence == SilenceInv /\ Restart => SilenceInv'
<1> SUFFICES ASSUME SilenceInv, Restart
             PROVE  SilenceInv'
  OBVIOUS
<1>1. /\ ring' = <<>> /\ nextSeq' = 1 /\ stamp' = [t \in Threads |-> -1]
      /\ seen' = 0 /\ stored' = <<>> /\ told' = {} /\ tick' = tick /\ tick \in Int
  BY DEF Restart, SilenceInv, RingInv
<1>2. RingInv'
  BY <1>1 DEF RingInv, InARow
<1>3. CursorInv'
  BY <1>1 DEF CursorInv
<1>4. NeverSilent'
  <2>1. Len(stored') = 0
    BY <1>1
  <2> QED
    BY <1>1, <2>1 DEF NeverSilent
<1> QED
  BY <1>2, <1>3, <1>4 DEF SilenceInv

LEMMA StepKeepsSilence == SilenceInv /\ [LogNext]_logVars => SilenceInv'
<1> SUFFICES ASSUME SilenceInv, [LogNext]_logVars
             PROVE  SilenceInv'
  OBVIOUS
<1>1. /\ RingInv /\ tick \in Int /\ stamp \in [Threads -> Int] /\ nextSeq \in Nat
      /\ nextSeq >= nextSeq
  BY DEF SilenceInv, RingInv
<1>2. ASSUME UNCHANGED ringVars, UNCHANGED cursorVars, tick' \in Int, stamp' \in [Threads -> Int]
      PROVE  SilenceInv'
  <2>1. RingInv'
    BY <1>1, <1>2 DEF RingInv, InARow, ringVars
  <2>2. nextSeq' = nextSeq
    BY <1>2 DEF ringVars
  <2> QED
    BY <1>1, <1>2, <2>1, <2>2, CursorStays
<1>3. CASE LogTick
  <2>1. tick' = tick + 1 /\ UNCHANGED <<ringVars, cursorVars, stamp>>
    BY <1>3 DEF LogTick, memory, ringVars, cursorVars
  <2> QED
    BY <1>1, <1>2, <2>1
<1>4. ASSUME NEW t \in Threads, Stamp(t)
      PROVE  SilenceInv'
  <2>1. stamp' = [stamp EXCEPT ![t] = tick] /\ UNCHANGED <<ringVars, cursorVars, tick>>
    BY <1>4 DEF Stamp, memory, ringVars, cursorVars
  <2>2. stamp' \in [Threads -> Int]
    BY <1>1, <2>1
  <2> QED
    BY <1>1, <1>2, <2>1, <2>2
<1>5. ASSUME NEW t \in Threads, LogAppend(t)
      PROVE  SilenceInv'
  <2>1. UNCHANGED cursorVars
    BY <1>5 DEF LogAppend, memory, cursorVars
  <2>2. RingInv' /\ nextSeq' = nextSeq + 1
    BY <1>1, <1>5, AppendKeepsRow
  <2>3. nextSeq' >= nextSeq /\ nextSeq' \in Nat
    BY <1>1, <2>2
  <2> QED
    BY <2>1, <2>2, <2>3, CursorStays
<1>6. CASE (\E s \in {"info", "error"} : Ev(s)) \/ LoadHistory \/ Quit
           \/ RotateDelete \/ Rename \/ Write \/ UNCHANGED logVars
  <2>1. UNCHANGED <<ringVars, cursorVars, tick, stamp>>
    BY <1>6 DEF Ev, LoadHistory, Quit, RotateDelete, Rename, Write, logVars, engine, memory,
                ringVars, cursorVars
  <2> QED
    BY <1>1, <1>2, <2>1
<1> QED
  BY <1>3, <1>4, <1>5, <1>6, DrainIsTold, RestartKeepsSilence DEF LogNext

\* logbuf.c and events_drain: an entry of the ring is stored once and in order, and what
\* was evicted or overwritten before the drain came is counted in the event that reports
\* the gap, for any threads, capacity and retention, however late they take the lock.
THEOREM NoSilentLoss == LogSpec => []NeverSilent
<1>1. SilenceInv => NeverSilent
  BY DEF SilenceInv
<1> QED
  BY InitSilence, StepKeepsSilence, <1>1, PTL DEF LogSpec

-----------------------------------------------------------------------------
(***************************************************************************)
(* The files keep their history.                                           *)
(***************************************************************************)
Files == [lines : Seq(Nat), open : BOOLEAN]
Events == Nat \ {0}

\* The events of a batch are the last that were made.
BatchInv ==
    /\ made \in Nat /\ batch \in Seq(Events) /\ Len(batch) <= made
    /\ \A i \in 1 .. Len(batch) : batch[i] = made - Len(batch) + i
    /\ after \in {"idle", "drain"}
    /\ pc \in {"idle", "drain"} => batch = <<>>

\* What can be read was made before the batch, and reads in order.
HistoryInv ==
    /\ BatchInv
    /\ old \in Files /\ cur \in Files
    /\ Ledger!Ascending(Readable(old) \o Readable(cur))
    /\ \A e \in ToSet(Readable(old) \o Readable(cur)) : e <= made - Len(batch)
    /\ pc = "rename" => Readable(old) = <<>> /\ TooLarge

LEMMA ReadableIs ==
  ASSUME NEW f \in Files
  PROVE  Readable(f) \in Seq(Nat) /\ f.lines \in Seq(Nat)
<1>1. f.lines \in Seq(Nat)
  BY DEF Files
<1> QED
  BY <1>1, OmitElements DEF Readable

\* Of a line that is torn nothing can be read, of whole ones everything.
LEMMA OmitTorn == Omit(<<Torn>>, {Torn}) = <<>>
<1> DEFINE s == <<Torn>>
<1>1. s \in Seq(Nat) /\ Len(s) = 1 /\ s[1] = Torn /\ 1 \in 0 .. Len(s)
  BY DEF Torn
<1> HIDE DEF s
<1>2. \A i \in 1 .. Len(s) : s[i] \in {Torn} <=> i <= 1
  BY <1>1
<1>3. Omit(s, {Torn}) = SubSeq(s, 1 + 1, Len(s))
  BY <1>1, <1>2, OmitPrefix
<1>4. SubSeq(s, 1 + 1, 1) = <<>>
  BY SubSeqEmpty
<1> QED
  BY <1>1, <1>3, <1>4 DEF s

LEMMA OmitNothing ==
  ASSUME NEW s \in Seq(Events)
  PROVE  s \in Seq(Nat) /\ Omit(s, {Torn}) = s
<1>1. s \in Seq(Nat) /\ Len(s) \in Nat /\ 0 \in 0 .. Len(s)
      /\ \A i \in 1 .. Len(s) : s[i] \in Nat \ {0}
  BY DEF Events
<1>2. \A i \in 1 .. Len(s) : s[i] \in {Torn} <=> i <= 0
  BY <1>1 DEF Torn
<1>3. Omit(s, {Torn}) = SubSeq(s, 0 + 1, Len(s))
  BY <1>1, <1>2, OmitPrefix
<1>4. SubSeq(s, 1, Len(s)) = s /\ 0 + 1 = 1
  BY <1>1, SubSeqFull
<1> QED
  BY <1>1, <1>3, <1>4

\* What is read after what.
LEMMA OmitTornConcat ==
  \A s, t \in Seq(Nat) : Omit(s \o t, {Torn}) = Omit(s, {Torn}) \o Omit(t, {Torn})
<1> TAKE s, t \in Seq(Nat)
<1> QED
  BY OmitConcat

LEMMA PutAfterSeam ==
  ASSUME NEW f \in Files, NEW s \in Seq(Nat), NEW open \in BOOLEAN
  PROVE  /\ Put(Seam(f), s, open) \in Files
         /\ Readable(Put(Seam(f), s, open)) = Readable(f) \o Omit(s, {Torn})
<1>1. f.lines \in Seq(Nat)
  BY DEF Files
<1>2. Seam(f).open = FALSE /\ Seam(f).lines = f.lines
  BY DEF Seam, Files
<1>3. Put(Seam(f), s, open) = [lines |-> f.lines \o s, open |-> open]
  BY <1>2 DEF Put
<1>4. f.lines \o s \in Seq(Nat)
  BY <1>1
<1>5. Omit(f.lines \o s, {Torn}) = Omit(f.lines, {Torn}) \o Omit(s, {Torn})
  BY <1>1, OmitTornConcat
<1>6. Put(Seam(f), s, open) \in Files
  BY <1>3, <1>4 DEF Files
<1>7. Put(Seam(f), s, open).lines = f.lines \o s
  BY <1>3
<1>8. Readable(Put(Seam(f), s, open)) = Omit(f.lines \o s, {Torn})
  BY <1>7 DEF Readable
<1>9. Readable(f) = Omit(f.lines, {Torn})
  BY DEF Readable
<1> QED
  BY <1>5, <1>6, <1>8, <1>9

\* However a write ends, it adds the first events of the batch to what can be read.
Whole(k) == SubSeq(batch, 1, k)

LEMMA WholeIs ==
  ASSUME BatchInv, NEW k \in 0 .. Len(batch)
  PROVE  /\ Whole(k) \in Seq(Events) /\ Len(Whole(k)) = k
         /\ \A i \in 1 .. k : Whole(k)[i] = made - Len(batch) + i
<1>1. batch \in Seq(Events) /\ Len(batch) \in Nat /\ k \in Int /\ 1 \in Int
      /\ \A i \in 1 .. k : batch[i] \in Events
  BY DEF BatchInv
<1>2. /\ Whole(k) \in Seq(Events) /\ Len(Whole(k)) = IF 1 <= k THEN k - 1 + 1 ELSE 0
      /\ \A i \in 1 .. k - 1 + 1 : Whole(k)[i] = batch[1 + i - 1]
  BY <1>1, SubSeqProperties DEF Whole
<1>3. Len(Whole(k)) = k
  BY <1>1, <1>2
<1>4. ASSUME NEW i \in 1 .. k
      PROVE  Whole(k)[i] = made - Len(batch) + i
  <2>1. i \in 1 .. k - 1 + 1 /\ 1 + i - 1 = i /\ i \in 1 .. Len(batch)
    BY <1>1
  <2> QED
    BY <1>2, <2>1 DEF BatchInv
<1> QED
  BY <1>2, <1>3, <1>4

LEMMA WriteAdds ==
  ASSUME BatchInv, NEW f \in Files,
         NEW g \in {Put(Seam(f), batch, FALSE)} \union CutShort(f)
  PROVE  g \in Files /\ \E k \in 0 .. Len(batch) : Readable(g) = Readable(f) \o Whole(k)
<1>1. batch \in Seq(Events) /\ Len(batch) \in Nat
  BY DEF BatchInv
<1>2. ASSUME NEW k \in 0 .. Len(batch), NEW open \in BOOLEAN, g = Put(Seam(f), Whole(k), open)
      PROVE  g \in Files /\ Readable(g) = Readable(f) \o Whole(k)
  <2>1. Whole(k) \in Seq(Nat) /\ Omit(Whole(k), {Torn}) = Whole(k)
    BY WholeIs, OmitNothing
  <2> QED
    BY <1>2, <2>1, PutAfterSeam
<1>3. CASE g = Put(Seam(f), batch, FALSE)
  <2>1. Whole(Len(batch)) = batch /\ Len(batch) \in 0 .. Len(batch)
    BY <1>1, SubSeqFull DEF Whole
  <2> QED
    BY <1>2, <1>3, <2>1
<1>4. CASE g = f
  <2>1. Whole(0) = <<>> /\ 0 \in 0 .. Len(batch)
    BY <1>1, SubSeqEmpty DEF Whole
  <2>2. Readable(f) \o <<>> = Readable(f)
    BY ReadableIs, ConcatEmptySeq
  <2> QED
    BY <1>4, <2>1, <2>2
<1>5. ASSUME NEW k \in 0 .. Len(batch) - 1,
             g \in {Put(Seam(f), Whole(k), FALSE), Put(Seam(f), Append(Whole(k), Torn), TRUE),
                    Put(Seam(f), Append(Whole(k), batch[k + 1]), TRUE)}
      PROVE  g \in Files /\ \E j \in 0 .. Len(batch) : Readable(g) = Readable(f) \o Whole(j)
  <2>1. k \in 0 .. Len(batch) /\ k + 1 \in 0 .. Len(batch) /\ k + 1 \in 1 .. Len(batch)
    BY <1>1
  <2>2. /\ Whole(k) \in Seq(Nat) /\ Whole(k) \in Seq(Events)
        /\ Omit(Whole(k), {Torn}) = Whole(k)
    BY <2>1, WholeIs, OmitNothing
  <2>3. CASE g = Put(Seam(f), Whole(k), FALSE)
    BY <1>2, <2>1, <2>3
  <2>4. CASE g = Put(Seam(f), Append(Whole(k), Torn), TRUE)
    <3>1. Torn \in Nat /\ <<Torn>> \in Seq(Nat)
      BY DEF Torn
    <3>2. Append(Whole(k), Torn) = Whole(k) \o <<Torn>> /\ Append(Whole(k), Torn) \in Seq(Nat)
      BY <2>2, <3>1, AppendIsConcat, AppendProperties
    <3>3. Omit(Append(Whole(k), Torn), {Torn}) = Whole(k) \o <<>>
      BY <2>2, <3>1, <3>2, OmitTornConcat, OmitTorn
    <3>4. Whole(k) \o <<>> = Whole(k)
      BY <2>2, ConcatEmptySeq
    <3> QED
      BY ONLY <2>1, <2>4, <3>2, <3>3, <3>4, PutAfterSeam
  <2>5. CASE g = Put(Seam(f), Append(Whole(k), batch[k + 1]), TRUE)
    <3>1. batch[k + 1] \in Events
      BY <1>1, <2>1
    <3>2. 1 \in 1 .. Len(batch) /\ k + 1 \in 1 .. Len(batch) /\ (k + 1) - 1 = k
      BY <1>1, <2>1
    <3>3. Whole(k + 1) = Whole(k) \o <<batch[k + 1]>>
      BY <1>1, <3>2, SubSeqRecursiveSecond DEF Whole
    <3>4. Append(Whole(k), batch[k + 1]) = Whole(k + 1)
      BY <2>2, <3>1, <3>3, AppendIsConcat
    <3> QED
      BY <1>2, <2>1, <2>5, <3>4
  <2> QED
    BY <1>5, <2>3, <2>4, <2>5
<1>6. g = Put(Seam(f), batch, FALSE) \/ g = f \/
      \E k \in 0 .. Len(batch) - 1 :
        g \in {Put(Seam(f), Whole(k), FALSE), Put(Seam(f), Append(Whole(k), Torn), TRUE),
               Put(Seam(f), Append(Whole(k), batch[k + 1]), TRUE)}
  BY DEF CutShort, Whole
<1> QED
  BY <1>3, <1>4, <1>5, <1>6

\* Two sequences of numbers in a row, and three.
LEMMA NatConcat ==
  ASSUME NEW s \in Seq(Nat), NEW t \in Seq(Nat)
  PROVE  /\ s \o t \in Seq(Nat) /\ Len(s \o t) = Len(s) + Len(t)
         /\ Len(s) \in Nat /\ Len(t) \in Nat
         /\ \A i \in 1 .. Len(s) : (s \o t)[i] = s[i] /\ s[i] \in Nat
         /\ \A i \in 1 .. Len(t) : (s \o t)[Len(s) + i] = t[i] /\ t[i] \in Nat
  OBVIOUS

LEMMA NatConcatAssociative ==
  ASSUME NEW s \in Seq(Nat), NEW t \in Seq(Nat), NEW u \in Seq(Nat)
  PROVE  (s \o t) \o u = s \o (t \o u)
  BY ONLY ConcatAssociative, s \in Seq(Nat), t \in Seq(Nat), u \in Seq(Nat), SMTT(30)

\* A write, whole or cut short, is a step of the ledger.
LEMMA WriteStores ==
  ASSUME HistoryInv, UNCHANGED old, UNCHANGED made, batch' = <<>>,
         cur' \in {Put(Seam(cur), batch, FALSE)} \union CutShort(cur),
         after' \in {"idle", "drain"}, pc' # "rename"
  PROVE  HistoryInv' /\ Ledger!Store
<1> DEFINE o == Readable(old)
           c == Readable(cur)
           d == Readable(cur')
           m == made - Len(batch)
<1>1. /\ BatchInv /\ old \in Files /\ cur \in Files /\ made \in Nat /\ Len(batch) \in Nat
      /\ Ledger!Ascending(o \o c) /\ \A e \in ToSet(o \o c) : e <= m
  BY DEF HistoryInv, BatchInv
<1>2. o \in Seq(Nat) /\ c \in Seq(Nat) /\ m \in Int
  BY <1>1, ReadableIs
<1>3. PICK k \in 0 .. Len(batch) : d = c \o Whole(k) /\ cur' \in Files
  BY <1>1, WriteAdds
<1>4. /\ Whole(k) \in Seq(Nat) /\ Len(Whole(k)) = k /\ k \in Nat
      /\ \A i \in 1 .. k : Whole(k)[i] = m + i
  <2>1. /\ Whole(k) \in Seq(Events) /\ Len(Whole(k)) = k
        /\ \A i \in 1 .. k : Whole(k)[i] = made - Len(batch) + i
    BY <1>1, WholeIs
  <2>2. Whole(k) \in Seq(Nat)
    BY <2>1, OmitNothing
  <2> QED
    BY <1>1, <2>1, <2>2
<1> DEFINE x == o \o c
           w == Whole(k)
<1>5. /\ x \in Seq(Nat) /\ x \o w \in Seq(Nat) /\ o \o d = x \o w /\ d \in Seq(Nat)
  <2> HIDE DEF o, c, d, w
  <2>1. w \in Seq(Nat) /\ x \in Seq(Nat) /\ x \o w \in Seq(Nat) /\ c \o w \in Seq(Nat)
    BY <1>2, <1>4 DEF w
  <2>2. (o \o c) \o w = o \o (c \o w)
    BY ONLY <1>2, <2>1, NatConcatAssociative, SMTT(30)
  <2> QED
    BY <1>3, <2>1, <2>2 DEF w
<1>6. Ledger!IsPrefix(c, d)
  <2> HIDE DEF o, c, d, w
  <2>1. Len(c) <= Len(d) /\ \A i \in 1 .. Len(c) : c[i] = d[i]
    BY <1>2, <1>3, <1>4 DEF w
  <2>2. SubSeq(c, 1, Len(c)) = SubSeq(d, 1, Len(c))
    <3>1. Len(c) \in Nat /\ Len(d) \in Nat
      BY <1>2, <1>5
    <3>2. SubSeq(c, 1, Len(c)) = [i \in 1 .. Len(c) |-> c[i]]
      BY <1>2, <3>1
    <3>3. SubSeq(d, 1, Len(c)) = [i \in 1 .. Len(c) |-> d[i]]
      BY <1>5, <2>1, <3>1
    <3> QED
      BY <2>1, <3>2, <3>3
  <2> QED
    BY <2>1, <2>2 DEF Ledger!IsPrefix
<1> HIDE DEF x, w
<1> DEFINE n == Len(x)
           y == x \o w
<1>7. /\ n \in Nat /\ Len(y) = n + k /\ y \in Seq(Nat)
      /\ \A i \in 1 .. n : y[i] = x[i] /\ x[i] <= m /\ x[i] \in Nat
      /\ \A i \in 1 .. k : y[n + i] = m + i
  <2>1. w \in Seq(Nat) /\ Len(w) = k /\ \A i \in 1 .. k : w[i] = m + i
    BY <1>4 DEF w
  <2>2. n \in Nat /\ Len(y) = n + k /\ y \in Seq(Nat)
        /\ (\A i \in 1 .. n : y[i] = x[i] /\ x[i] \in Nat) /\ \A i \in 1 .. k : y[n + i] = w[i]
    <3>1. Len(w) = k /\ y \in Seq(Nat) /\ x \in Seq(Nat)
      BY <1>5, <2>1
    <3>2. /\ y \in Seq(Nat) /\ Len(y) = Len(x) + Len(w) /\ Len(x) \in Nat
          /\ \A i \in 1 .. Len(x) : y[i] = x[i] /\ x[i] \in Nat
          /\ \A i \in 1 .. Len(w) : y[Len(x) + i] = w[i] /\ w[i] \in Nat
      BY <2>1, <3>1, NatConcat
    <3> HIDE DEF y
    <3> QED
      BY <3>1, <3>2
  <2>3. \A i \in 1 .. n : x[i] \in ToSet(x)
    BY <1>5 DEF ToSet
  <2>4. \A i \in 1 .. n : x[i] <= m
    BY <1>1, <2>3 DEF x
  <2> QED
    BY <2>1, <2>2, <2>4
<1> HIDE DEF n, y
<1>8. Ledger!Ascending(y)
  <2> SUFFICES ASSUME NEW i \in 1 .. Len(y) - 1
               PROVE  y[i] < y[i + 1]
    BY DEF Ledger!Ascending
  <2>1. i \in Nat /\ Len(y) = n + k
    BY <1>7
  <2>2. CASE i < n
    <3>1. i \in 1 .. n - 1 /\ i \in 1 .. n /\ i + 1 \in 1 .. n
      BY <1>7, <2>1, <2>2
    <3>2. x[i] < x[i + 1]
      BY <1>1, <3>1 DEF Ledger!Ascending, x, n
    <3> QED
      BY <1>7, <3>1, <3>2
  <2>3. CASE i = n
    <3>1. n \in 1 .. n /\ 1 \in 1 .. k
      BY <1>4, <1>7, <2>1, <2>3
    <3>2. y[n] <= m /\ y[n] \in Nat /\ y[n + 1] = m + 1
      BY <1>7, <3>1
    <3> QED
      BY <1>2, <2>3, <3>2
  <2>4. CASE i > n
    <3> DEFINE j == i - n
    <3>1. j \in 1 .. k /\ j + 1 \in 1 .. k /\ n + j = i /\ n + (j + 1) = i + 1
      BY <1>4, <1>7, <2>1, <2>4
    <3> HIDE DEF j
    <3>2. y[i] = m + j /\ y[i + 1] = m + (j + 1)
      BY <1>7, <3>1
    <3>3. m + j < m + (j + 1)
      BY <1>2, <3>1
    <3> QED
      BY <3>2, <3>3
  <2> QED
    BY <1>7, <2>1, <2>2, <2>3, <2>4
<1>9. \A e \in ToSet(y) : e <= made
  <2> SUFFICES ASSUME NEW i \in 1 .. n + k
               PROVE  y[i] <= made
    BY <1>7 DEF ToSet
  <2>1. i \in Nat /\ k <= Len(batch)
    BY <1>1, <1>7
  <2>2. CASE i <= n
    <3>1. i \in 1 .. n
      BY <1>7, <2>1, <2>2
    <3>2. y[i] <= m /\ y[i] \in Nat
      BY <1>7, <3>1
    <3> QED
      BY <1>1, <3>2
  <2>3. CASE ~(i <= n)
    <3>1. i - n \in 1 .. k /\ n + (i - n) = i
      BY <1>4, <1>7, <2>1, <2>3
    <3>2. y[i] = m + (i - n)
      BY <1>7, <3>1
    <3> QED
      BY <1>1, <1>4, <2>1, <3>1, <3>2
  <2> QED
    BY <2>2, <2>3
<1>10. y = o \o d
  BY <1>5 DEF y
<1>11. Readable(old)' = o /\ Readable(cur)' = d
  BY DEF Readable
<1> HIDE DEF o, c, d, m
<1>12. BatchInv'
  <2>1. /\ made' \in Nat /\ batch' \in Seq(Events) /\ Len(batch') = 0
        /\ after' \in {"idle", "drain"} /\ batch' = <<>>
    BY <1>1
  <2> QED
    BY <2>1 DEF BatchInv
<1>13. HistoryInv'
  <2>1. Ledger!Ascending((Readable(old) \o Readable(cur))')
    BY <1>8, <1>10, <1>11
  <2>2. \A e \in ToSet((Readable(old) \o Readable(cur))') : e <= (made - Len(batch))'
    <3>1. (made - Len(batch))' = made
      BY <1>1
    <3> QED
      BY <1>9, <1>10, <1>11, <3>1
  <2>3. Ledger!Ascending(Readable(old) \o Readable(cur))'
    BY <2>1 DEF Ledger!Ascending
  <2>4. (\A e \in ToSet(Readable(old) \o Readable(cur)) : e <= made - Len(batch))'
    BY <2>2 DEF ToSet
  <2> QED
    BY <1>1, <1>3, <1>12, <2>3, <2>4 DEF HistoryInv
<1>14. Ledger!Store
  <2>1. Readable(old)' = Readable(old)
    BY <1>11 DEF o
  <2>2. Ledger!IsPrefix(Readable(cur), Readable(cur)')
    BY <1>6, <1>11 DEF c
  <2>3. Ledger!Ascending(Readable(old) \o Readable(cur)')
    BY <1>8, <1>10, <1>11 DEF o
  <2> QED
    BY <2>1, <2>2, <2>3 DEF Ledger!Store
<1> QED
  BY <1>13, <1>14

\* As long as the files are left alone, only the batch matters.
LEMMA FilesStay ==
  ASSUME HistoryInv, UNCHANGED files, BatchInv', made' - Len(batch') >= made - Len(batch),
         pc' = "rename" => pc = "rename"
  PROVE  HistoryInv'
<1>1. /\ old \in Files /\ cur \in Files /\ made \in Nat /\ Len(batch) \in Nat
      /\ Ledger!Ascending(Readable(old) \o Readable(cur))
      /\ \A e \in ToSet(Readable(old) \o Readable(cur)) : e <= made - Len(batch)
      /\ pc = "rename" => Readable(old) = <<>> /\ TooLarge
  BY DEF HistoryInv, BatchInv
<1>2. /\ Readable(old)' = Readable(old) /\ Readable(cur)' = Readable(cur)
      /\ old' = old /\ cur' = cur /\ TooLarge' = TooLarge
  BY DEF files, Readable, TooLarge
<1>3. made' - Len(batch') \in Int
  BY DEF BatchInv
<1> DEFINE x == Readable(old) \o Readable(cur)
           m == made - Len(batch)
           n == made' - Len(batch')
<1>4. x \in Seq(Nat)
  BY <1>1, ReadableIs, NatConcat
<1>5. \A e \in ToSet(x) : e \in Nat
  BY <1>4 DEF ToSet
<1>6. \A e \in ToSet(x) : e <= m
  BY <1>1
<1>7. m \in Int /\ n \in Int /\ n >= m
  BY <1>1, <1>3
<1>8. x' = x
  BY <1>2
<1> HIDE DEF x
<1>9. \A e \in ToSet(x) : e <= n
  <2> HIDE DEF m, n
  <2> QED
    BY <1>5, <1>6, <1>7
<1>10. Ledger!Ascending(x)'
  <2>1. Ledger!Ascending(x)
    BY <1>1 DEF x
  <2> QED
    BY <1>8, <2>1 DEF Ledger!Ascending
<1>11. (\A e \in ToSet(x) : e <= made - Len(batch))'
  BY <1>8, <1>9 DEF ToSet
<1> QED
  BY <1>1, <1>2, <1>10, <1>11 DEF HistoryInv, x

\* New events make a batch.
LEMMA TakeIs ==
  ASSUME BatchInv, batch = <<>>, NEW n \in Nat, Take(n), after' \in {"idle", "drain"}
  PROVE  BatchInv' /\ made' - Len(batch') = made - Len(batch) /\ pc' = "rotate"
<1>1. made \in Nat /\ Len(batch) = 0
  BY DEF BatchInv
<1>2. made' = made + n /\ batch' = [i \in 1 .. n |-> made + i] /\ pc' = "rotate"
  BY DEF Take
<1>3. batch' \in Seq(Events) /\ Len(batch') = n /\ \A i \in 1 .. n : batch'[i] = made + i
  <2>1. \A i \in 1 .. n : made + i \in Events
    BY <1>1 DEF Events
  <2>2. batch' \in [1 .. n -> Events]
    BY <1>2, <2>1
  <2> QED
    BY <1>2, <2>2
<1>4. made' - n = made /\ made' \in Nat /\ n <= made'
  BY <1>1, <1>2
<1> DEFINE m1 == made'
           b1 == batch'
<1>5. /\ m1 \in Nat /\ b1 \in Seq(Events) /\ Len(b1) <= m1
      /\ \A i \in 1 .. Len(b1) : b1[i] = m1 - Len(b1) + i
  BY <1>3, <1>4
<1>6. BatchInv'
  BY <1>2, <1>5 DEF BatchInv
<1> QED
  BY <1>1, <1>2, <1>3, <1>4, <1>6

LEMMA DrainTakes ==
  ASSUME SilenceInv, Drain
  PROVE  UNCHANGED <<memory, batch>> \/ \E n \in Nat : Take(n) /\ UNCHANGED born
<1> DEFINE fresh == CollectSince(seen)
           gap == fresh # <<>> /\ Missed(fresh) > 0
<1>1. fresh \in Seq(Entries)
  BY FreshInARow DEF SilenceInv, CursorInv
<1>2. Len(fresh) + (IF gap THEN 1 ELSE 0) \in Nat
  <2> HIDE DEF fresh
  <2> QED
    BY <1>1
<1> HIDE DEF fresh
<1>3. CASE fresh = <<>>
  BY <1>3 DEF Drain, fresh
<1>4. CASE fresh # <<>>
  <2>1. Take(Len(fresh) + (IF gap THEN 1 ELSE 0)) /\ UNCHANGED born
    BY <1>4 DEF Drain, fresh
  <2> QED
    BY <1>2, <2>1
<1> QED
  BY <1>3, <1>4

LEMMA RotationRetires ==
  ASSUME HistoryInv, RotateDelete
  PROVE  HistoryInv' /\ (Ledger!Retire \/ UNCHANGED <<Readable(old), Readable(cur)>>)
<1>1. /\ pc = "rotate" /\ UNCHANGED <<made, batch, after, cur>>
      /\ BatchInv /\ HistoryInv /\ pc' \in {"rename", "write"}
  BY DEF RotateDelete, memory, HistoryInv
<1>2. BatchInv'
  BY <1>1 DEF BatchInv
<1>3. CASE TooLarge /\ old' = Empty /\ pc' = "rename"
  <2> DEFINE o == Readable(old)
             c == Readable(cur)
  <2>1. /\ old \in Files /\ cur \in Files /\ o \in Seq(Nat) /\ c \in Seq(Nat)
        /\ Ledger!Ascending(o \o c) /\ \A e \in ToSet(o \o c) : e <= made - Len(batch)
    BY ReadableIs DEF HistoryInv
  <2>2. Empty \in Files /\ Readable(Empty) = <<>>
    <3>1. <<>> \in Seq(Events)
      OBVIOUS
    <3>2. Omit(<<>>, {Torn}) = <<>>
      BY <3>1, OmitNothing
    <3> QED
      BY <3>2 DEF Empty, Files, Readable
  <2>3. Readable(old)' = <<>> /\ Readable(cur)' = c
    BY <1>1, <1>3, <2>2 DEF Readable
  <2>4. TooLarge'
    BY <1>1, <1>3 DEF TooLarge, Readable
  <2>5. Ledger!Retire
    BY <1>3, <2>3 DEF Ledger!Retire, TooLarge
  <2> HIDE DEF o, c
  <2>6. <<>> \o c = c
    BY <2>1, ConcatEmptySeq
  <2>7. /\ Len(o) \in Nat /\ Len(c) \in Nat /\ Len(o \o c) = Len(o) + Len(c)
        /\ o \o c \in Seq(Nat) /\ \A i \in 1 .. Len(c) : (o \o c)[Len(o) + i] = c[i]
    BY <2>1, NatConcat
  <2>8. Ledger!Ascending(c)
    <3> SUFFICES ASSUME NEW i \in 1 .. Len(c) - 1
                 PROVE  c[i] < c[i + 1]
      BY DEF Ledger!Ascending
    <3>1. /\ i \in 1 .. Len(c) /\ i + 1 \in 1 .. Len(c) /\ Len(o) + i \in 1 .. Len(o \o c) - 1
          /\ (Len(o) + i) + 1 = Len(o) + (i + 1)
      BY <2>7
    <3>2. (o \o c)[Len(o) + i] < (o \o c)[(Len(o) + i) + 1]
      BY <2>1, <3>1 DEF Ledger!Ascending
    <3> QED
      BY <2>7, <3>1, <3>2
  <2>9. \A e \in ToSet(c) : e <= made - Len(batch)
    <3> SUFFICES ASSUME NEW i \in 1 .. Len(c)
                 PROVE  c[i] <= made - Len(batch)
      BY <2>1 DEF ToSet
    <3>1. Len(o) + i \in 1 .. Len(o \o c)
      BY <2>7
    <3> DEFINE z == o \o c
    <3>2. z \in Seq(Nat) /\ z[Len(o) + i] = c[i] /\ Len(o) + i \in 1 .. Len(z)
      BY <2>7, <3>1
    <3>3. DOMAIN z = 1 .. Len(z)
      BY <3>2
    <3>4. c[i] \in ToSet(z)
      <4> HIDE DEF z
      <4> QED
        BY <3>2, <3>3 DEF ToSet
    <3> QED
      BY <2>1, <3>4
  <2>10. (Readable(old) \o Readable(cur))' = c
    BY <2>3, <2>6
  <2>11. Ledger!Ascending(Readable(old) \o Readable(cur))'
    <3>1. Ledger!Ascending((Readable(old) \o Readable(cur))')
      BY <2>8, <2>10
    <3> QED
      BY <3>1 DEF Ledger!Ascending
  <2>12. (\A e \in ToSet(Readable(old) \o Readable(cur)) : e <= made - Len(batch))'
    <3>1. \A e \in ToSet((Readable(old) \o Readable(cur))') : e <= made' - Len(batch')
      BY <1>1, <2>9, <2>10
    <3> QED
      BY <3>1
  <2>13. HistoryInv'
    BY <1>1, <1>2, <1>3, <2>1, <2>2, <2>3, <2>4, <2>11, <2>12 DEF HistoryInv
  <2> QED
    BY <2>5, <2>13
<1>4. CASE pc' = "write" /\ UNCHANGED old
  <2>1. UNCHANGED files /\ made' - Len(batch') = made - Len(batch)
    BY <1>1, <1>4 DEF files
  <2>2. made - Len(batch) \in Int
    BY <1>1 DEF BatchInv
  <2>3. made' - Len(batch') >= made - Len(batch)
    BY <2>1, <2>2
  <2>4. HistoryInv'
    BY <1>1, <1>2, <1>4, <2>1, <2>3, FilesStay
  <2> QED
    BY <2>1, <2>4 DEF files, Readable
<1> QED
  BY <1>3, <1>4 DEF RotateDelete

LEMMA RenameRotates ==
  ASSUME HistoryInv, Rename
  PROVE  HistoryInv' /\ (Ledger!Rotate \/ UNCHANGED <<Readable(old), Readable(cur)>>)
<1>1. /\ pc = "rename" /\ pc' = "write" /\ UNCHANGED <<made, batch, after>>
      /\ BatchInv /\ Readable(old) = <<>> /\ TooLarge
  BY DEF Rename, memory, HistoryInv
<1>2. BatchInv'
  BY <1>1 DEF BatchInv
<1>3. CASE old' = cur /\ cur' = Empty
  <2> DEFINE c == Readable(cur)
  <2>1. /\ cur \in Files /\ c \in Seq(Nat)
        /\ Ledger!Ascending(<<>> \o c) /\ \A e \in ToSet(<<>> \o c) : e <= made - Len(batch)
    BY <1>1, ReadableIs DEF HistoryInv
  <2>2. Empty \in Files /\ Readable(Empty) = <<>>
    <3>1. <<>> \in Seq(Events)
      OBVIOUS
    <3>2. Omit(<<>>, {Torn}) = <<>>
      BY <3>1, OmitNothing
    <3> QED
      BY <3>2 DEF Empty, Files, Readable
  <2>3. Readable(old)' = c /\ Readable(cur)' = <<>>
    BY <1>3, <2>2 DEF Readable
  <2>4. Ledger!Rotate
    BY <1>1, <2>3 DEF Ledger!Rotate, TooLarge
  <2> HIDE DEF c
  <2>5. <<>> \o c = c /\ c \o <<>> = c
    BY <2>1, ConcatEmptySeq
  <2>6. (Readable(old) \o Readable(cur))' = c
    BY <2>3, <2>5
  <2>7. Ledger!Ascending(Readable(old) \o Readable(cur))'
    <3>1. Ledger!Ascending((Readable(old) \o Readable(cur))')
      BY <2>1, <2>5, <2>6
    <3> QED
      BY <3>1 DEF Ledger!Ascending
  <2>8. (\A e \in ToSet(Readable(old) \o Readable(cur)) : e <= made - Len(batch))'
    <3>1. \A e \in ToSet((Readable(old) \o Readable(cur))') : e <= made' - Len(batch')
      BY <1>1, <2>1, <2>5, <2>6
    <3> QED
      BY <3>1
  <2>9. HistoryInv'
    BY <1>1, <1>2, <1>3, <2>1, <2>2, <2>7, <2>8 DEF HistoryInv
  <2> QED
    BY <2>4, <2>9
<1>4. CASE UNCHANGED files
  <2>1. made' - Len(batch') = made - Len(batch)
    BY <1>1
  <2>2. made - Len(batch) \in Int
    BY <1>1 DEF BatchInv
  <2>3. made' - Len(batch') >= made - Len(batch)
    BY <2>1, <2>2
  <2>4. HistoryInv'
    BY <1>1, <1>2, <1>4, <2>3, FilesStay
  <2> QED
    BY <1>4, <2>4 DEF files, Readable
<1> QED
  BY <1>3, <1>4 DEF Rename

Stored == <<Readable(old), Readable(cur)>>
LedgerStep == Ledger!Store \/ Ledger!Retire \/ Ledger!Rotate \/ UNCHANGED Stored

LEMMA InitHistory == LogInit => HistoryInv /\ Ledger!Init
<1> SUFFICES ASSUME LogInit
             PROVE  HistoryInv /\ Ledger!Init
  OBVIOUS
<1>1. /\ old = Empty /\ cur = Empty /\ made = 0 /\ batch = <<>> /\ pc = "idle" /\ after = "idle"
  BY DEF LogInit
<1>2. Empty \in Files /\ Readable(Empty) = <<>>
  <2>1. <<>> \in Seq(Events)
    OBVIOUS
  <2>2. Omit(<<>>, {Torn}) = <<>>
    BY <2>1, OmitNothing
  <2> QED
    BY <2>2 DEF Empty, Files, Readable
<1>3. <<>> \o <<>> = <<>> /\ ToSet(<<>>) = {} /\ Len(<<>>) = 0
  BY DEF ToSet
<1>4. Ledger!Ascending(<<>>)
  BY <1>3 DEF Ledger!Ascending
<1>5. BatchInv
  BY <1>1, <1>3 DEF BatchInv
<1> QED
  BY <1>1, <1>2, <1>3, <1>4, <1>5 DEF HistoryInv, Ledger!Init

LEMMA StepKeepsHistory == SilenceInv /\ HistoryInv /\ [LogNext]_logVars => HistoryInv' /\ LedgerStep
<1> SUFFICES ASSUME SilenceInv, HistoryInv, [LogNext]_logVars
             PROVE  HistoryInv' /\ LedgerStep
  OBVIOUS
<1>1. /\ BatchInv /\ made \in Nat /\ Len(batch) \in Nat /\ made - Len(batch) \in Int
      /\ pc \in {"idle", "drain"} => batch = <<>>
  BY DEF HistoryInv, BatchInv
<1>2. ASSUME UNCHANGED files
      PROVE  UNCHANGED Stored
  BY <1>2 DEF files, Stored, Readable
<1>3. ASSUME UNCHANGED <<files, made, batch, after>>, pc' \in {"idle", "drain"} => batch = <<>>,
             pc' = "rename" => pc = "rename"
      PROVE  HistoryInv' /\ LedgerStep
  <2>1. BatchInv'
    BY <1>1, <1>3 DEF BatchInv
  <2>2. made' - Len(batch') >= made - Len(batch)
    <3>1. made' - Len(batch') = made - Len(batch)
      BY <1>3
    <3> QED
      BY <1>1, <3>1
  <2> QED
    BY <1>2, <1>3, <2>1, <2>2, FilesStay DEF LedgerStep
<1>4. ASSUME NEW n \in Nat, Take(n), batch = <<>>, after' \in {"idle", "drain"}, UNCHANGED files
      PROVE  HistoryInv' /\ LedgerStep
  <2>1. BatchInv' /\ made' - Len(batch') = made - Len(batch) /\ pc' = "rotate"
    BY <1>1, <1>4, TakeIs
  <2>2. made' - Len(batch') >= made - Len(batch)
    BY <1>1, <2>1
  <2> QED
    BY <1>2, <1>4, <2>1, <2>2, FilesStay DEF LedgerStep
<1>5. CASE LogTick \/ (\E t \in Threads : Stamp(t) \/ LogAppend(t)) \/ UNCHANGED logVars
  <2>1. UNCHANGED <<files, made, batch, after, pc>>
    BY <1>5 DEF LogTick, Stamp, LogAppend, memory, shell, logVars
  <2> QED
    BY <1>1, <1>3, <2>1
<1>6. CASE \E s \in {"info", "error"} : Ev(s)
  <2>1. pc = "idle" /\ Take(1) /\ after' \in {"idle", "drain"} /\ UNCHANGED files
    BY <1>6 DEF Ev
  <2> QED
    BY <1>1, <1>4, <2>1
<1>7. CASE Drain
  <2>1. pc \in {"idle", "drain"} /\ after' = "idle" /\ UNCHANGED files /\ batch = <<>>
    BY <1>1, <1>7 DEF Drain
  <2>2. CASE \E n \in Nat : Take(n)
    BY <1>4, <2>1, <2>2
  <2>3. CASE UNCHANGED <<memory, batch>> /\ ~(\E n \in Nat : Take(n))
    <3>1. UNCHANGED <<made, batch>>
      BY <2>3 DEF memory
    <3>2. BatchInv'
      BY <1>1, <2>1, <3>1 DEF BatchInv
    <3>3. made' - Len(batch') >= made - Len(batch)
      <4>1. made' - Len(batch') = made - Len(batch)
        BY <3>1
      <4> QED
        BY <1>1, <4>1
    <3>4. pc' # "rename"
      BY <1>7, <2>3, FreshInARow DEF Drain
    <3> QED
      BY <1>2, <2>1, <3>2, <3>3, <3>4, FilesStay DEF LedgerStep
  <2> QED
    BY <1>7, <2>2, <2>3, DrainTakes
<1>8. CASE LoadHistory \/ Quit
  <2>1. UNCHANGED <<files, made, batch, after>> /\ pc = "idle" /\ pc' \in {"idle", "drain"}
    BY <1>8 DEF LoadHistory, Quit, memory
  <2> QED
    BY <1>1, <1>3, <2>1
<1>9. CASE RotateDelete
  BY <1>9, RotationRetires DEF LedgerStep, Stored
<1>10. CASE Rename
  BY <1>10, RenameRotates DEF LedgerStep, Stored
<1>11. CASE Write
  <2>1. /\ cur' \in {Put(Seam(cur), batch, FALSE)} \union CutShort(cur)
        /\ batch' = <<>> /\ after' = "idle" /\ UNCHANGED <<made, old>> /\ pc' = after
    BY <1>11 DEF Write, memory
  <2>2. pc' # "rename"
    BY <1>1, <2>1 DEF BatchInv
  <2> QED
    BY <2>1, <2>2, WriteStores DEF LedgerStep
<1>12. CASE Restart
  <2>1. /\ cur' \in CutShort(cur) /\ batch' = <<>> /\ after' = "idle" /\ pc' = "idle"
        /\ UNCHANGED <<made, old>>
    BY <1>12 DEF Restart, CutShort
  <2> QED
    BY <2>1, WriteStores DEF LedgerStep
<1> QED
  BY <1>5, <1>6, <1>7, <1>8, <1>9, <1>10, <1>11, <1>12 DEF LogNext

\* events_persist and events_read_file: the two files keep the ledger (EventLedger).
\* Whatever write is cut short, rotation fails half-way or crash comes between two file
\* operations, what could be read of the current file stays readable and in order, and
\* the older generation is given up only while the current file is over its limit, for
\* any limit.
THEOREM FilesKeepHistory == LogSpec => KeepsHistory
<1>1. LedgerStep => [Ledger!Store \/ Ledger!Retire \/ Ledger!Rotate]_<<Readable(old), Readable(cur)>>
  BY DEF LedgerStep, Stored
<1> QED
  BY InitSilence, StepKeepsSilence, InitHistory, StepKeepsHistory, <1>1, PTL
  DEF LogSpec, KeepsHistory, Ledger!Spec

-----------------------------------------------------------------------------
(***************************************************************************)
(* Loading the history loses no event of this run.                         *)
(***************************************************************************)

\* Until the history is loaded the store holds the last events made, in a row.
ShownInv ==
    /\ made \in Nat /\ born \in Nat \ {0}
    /\ shown \in Seq(Nat) /\ Len(shown) <= EventsMemMax
    /\ home = "booting" => /\ Len(shown) <= made
                           /\ \A i \in 1 .. Len(shown) : shown[i] = made - Len(shown) + i
    /\ LoadLosesNothing

LEMMA NatToSet ==
  ASSUME NEW s \in Seq(Nat), NEW t \in Seq(Nat)
  PROVE  ToSet(s \o t) = ToSet(s) \union ToSet(t)
<1> DEFINE st == s \o t
           m == Len(s)
           n == Len(t)
<1>1. /\ st \in Seq(Nat) /\ Len(st) = m + n /\ m \in Nat /\ n \in Nat
      /\ \A i \in 1 .. m : st[i] = s[i]
      /\ \A i \in 1 .. n : st[m + i] = t[i]
  BY NatConcat
<1>2. DOMAIN st = 1 .. m + n /\ DOMAIN s = 1 .. m /\ DOMAIN t = 1 .. n
  BY <1>1
<1> HIDE DEF st, m, n
<1>3. ASSUME NEW x \in ToSet(st)
      PROVE  x \in ToSet(s) \union ToSet(t)
  <2>1. PICK i \in 1 .. m + n : x = st[i]
    BY <1>2 DEF ToSet
  <2>2. CASE i <= m
    <3>1. i \in 1 .. m
      BY <1>1, <2>2
    <3> QED
      BY <1>1, <1>2, <2>1, <3>1 DEF ToSet
  <2>3. CASE ~(i <= m)
    <3>1. i - m \in 1 .. n /\ m + (i - m) = i
      BY <1>1, <2>3
    <3>2. x = t[i - m]
      BY <1>1, <2>1, <3>1
    <3> QED
      BY <1>2, <3>1, <3>2 DEF ToSet
  <2> QED
    BY <2>2, <2>3
<1>4. ASSUME NEW x \in ToSet(s)
      PROVE  x \in ToSet(st)
  <2>1. PICK i \in 1 .. m : x = s[i]
    BY <1>2 DEF ToSet
  <2>2. i \in 1 .. m + n
    BY <1>1
  <2> QED
    BY <1>1, <1>2, <2>1, <2>2 DEF ToSet
<1>5. ASSUME NEW x \in ToSet(t)
      PROVE  x \in ToSet(st)
  <2>1. PICK i \in 1 .. n : x = t[i]
    BY <1>2 DEF ToSet
  <2>2. m + i \in 1 .. m + n
    BY <1>1
  <2> QED
    BY <1>1, <1>2, <2>1, <2>2 DEF ToSet
<1>6. ToSet(st) = ToSet(s) \union ToSet(t)
  BY <1>3, <1>4, <1>5
<1> QED
  BY <1>6 DEF st

\* A sequence cannot list more numbers than it is long.
LEMMA TooFewPlaces ==
  ASSUME NEW s \in Seq(Nat), NEW a \in Nat, NEW n \in Nat, a + 1 .. a + n \subseteq ToSet(s)
  PROVE  n <= Len(s)
<1> SUFFICES ASSUME Len(s) < n
             PROVE  FALSE
  OBVIOUS
<1> DEFINE S == a + 1 .. a + n
           T == 1 .. Len(s)
           f == [x \in S |-> CHOOSE i \in T : s[i] = x]
<1>1. Len(s) \in Nat /\ DOMAIN s = T /\ a + 1 \in Int /\ a + n \in Int
  OBVIOUS
<1>2. IsFiniteSet(S) /\ Cardinality(S) = n
  <2> DEFINE p == a + 1
             q == a + n
  <2>1. p \in Int /\ q \in Int /\ (IF p > q THEN 0 ELSE q - p + 1) = n /\ S = p .. q
    OBVIOUS
  <2> HIDE DEF p, q, S
  <2>2. IsFiniteSet(p .. q) /\ Cardinality(p .. q) = IF p > q THEN 0 ELSE q - p + 1
    BY <2>1, FS_Interval
  <2> QED
    BY <2>1, <2>2
<1>3. IsFiniteSet(T) /\ Cardinality(T) = Len(s)
  <2>1. 1 \in Int /\ Len(s) \in Int
    BY <1>1
  <2>2. IsFiniteSet(T) /\ Cardinality(T) = IF 1 > Len(s) THEN 0 ELSE Len(s) - 1 + 1
    BY <2>1, FS_Interval
  <2>3. (IF 1 > Len(s) THEN 0 ELSE Len(s) - 1 + 1) = Len(s)
    BY <1>1
  <2> QED
    BY <2>2, <2>3
<1>4. ASSUME NEW x \in S
      PROVE  f[x] \in T /\ s[f[x]] = x
  <2>1. \E i \in T : s[i] = x
    BY <1>1 DEF ToSet
  <2> QED
    BY <2>1
<1>5. f \in [S -> T]
  BY <1>4
<1>6. Cardinality(T) < Cardinality(S)
  BY <1>2, <1>3
<1> HIDE DEF f, S, T
<1>7. \E x, y \in S : x # y /\ f[x] = f[y]
  BY <1>2, <1>3, <1>5, <1>6, FS_PigeonHole
<1> QED
  BY <1>4, <1>7

LEMMA TakeShows ==
  ASSUME BatchInv, ShownInv, NEW n \in Nat, Take(n), UNCHANGED <<born, home>>
  PROVE  ShownInv'
<1> DEFINE more == [i \in 1 .. n |-> made + i]
           all == shown \o more
           new == Newest(all, EventsMemMax)
           m == Len(shown)
<1>1. /\ made \in Nat /\ born \in Nat \ {0} /\ shown \in Seq(Nat) /\ m \in Nat
      /\ EventsMemMax \in Nat \ {0} /\ m <= EventsMemMax
      /\ home = "booting" => m <= made /\ \A i \in 1 .. m : shown[i] = made - m + i
      /\ m < EventsMemMax => born .. made \subseteq ToSet(shown)
  BY DEF ShownInv, LoadLosesNothing
<1>2. shown' = new /\ made' = made + n /\ born' = born /\ home' = home
  BY DEF Take
<1>3. more \in Seq(Nat) /\ Len(more) = n /\ DOMAIN more = 1 .. n /\ \A i \in 1 .. n : more[i] = made + i
  <2>1. more \in [1 .. n -> Nat]
    BY <1>1
  <2> QED
    BY <2>1
<1> HIDE DEF more
<1>4. /\ all \in Seq(Nat) /\ Len(all) = m + n
      /\ \A i \in 1 .. m : all[i] = shown[i]
      /\ \A i \in 1 .. n : all[m + i] = made + i
  <2>1. /\ all \in Seq(Nat) /\ Len(all) = m + Len(more)
        /\ \A i \in 1 .. m : all[i] = shown[i]
        /\ \A i \in 1 .. Len(more) : all[m + i] = more[i]
    BY <1>1, <1>3, NatConcat
  <2> HIDE DEF all, m
  <2> QED
    BY <1>3, <2>1
<1>5. ToSet(all) = ToSet(shown) \union ToSet(more)
  BY <1>1, <1>3, NatToSet
<1> HIDE DEF all
<1>6. /\ new \in Seq(Nat) /\ Len(new) = IF m + n > EventsMemMax THEN EventsMemMax ELSE m + n
      /\ \A i \in 1 .. Len(new) : new[i] = all[(m + n) - Len(new) + i]
      /\ m + n <= EventsMemMax => new = all
  <2>1. EventsMemMax \in Nat
    OBVIOUS
  <2>2. /\ new \in Seq(Nat) /\ Len(new) = IF Len(all) > EventsMemMax THEN EventsMemMax ELSE Len(all)
        /\ \A i \in 1 .. Len(new) : new[i] = all[Len(all) - Len(new) + i]
        /\ Len(all) <= EventsMemMax => new = all
    BY ONLY <1>4, <2>1, NewestIs
  <2> HIDE DEF new
  <2> QED
    BY <1>4, <2>2
<1> HIDE DEF new, m
<1>7. Len(new) \in Nat /\ Len(new) <= EventsMemMax /\ Len(new) <= m + n
  BY <1>1, <1>6
<1>8. ASSUME home = "booting", NEW i \in 1 .. Len(new)
      PROVE  new[i] = (made + n) - Len(new) + i
  <2> DEFINE j == (m + n) - Len(new) + i
  <2>1. j \in 1 .. m + n /\ i \in Nat
    BY <1>1, <1>7
  <2>2. new[i] = all[j]
    BY <1>6
  <2>3. all[j] = made - m + j
    <3> HIDE DEF j
    <3>1. CASE j <= m
      <4>1. j \in 1 .. m
        BY <1>1, <2>1, <3>1
      <4> QED
        BY <1>1, <1>4, <1>8, <4>1
    <3>2. CASE ~(j <= m)
      <4>1. j - m \in 1 .. n /\ m + (j - m) = j
        BY <1>1, <2>1, <3>2
      <4>2. all[j] = made + (j - m)
        BY <1>4, <4>1
      <4> QED
        BY <1>1, <2>1, <4>2
    <3> QED
      BY <3>1, <3>2
  <2>4. made - m + j = (made + n) - Len(new) + i
    BY <1>1, <1>7, <2>1
  <2> QED
    BY <2>2, <2>3, <2>4
<1>9. ASSUME Len(new) < EventsMemMax
      PROVE  born .. made + n \subseteq ToSet(new)
  <2>1. m + n <= EventsMemMax /\ m < EventsMemMax
    BY <1>1, <1>6, <1>9
  <2>2. born .. made \subseteq ToSet(shown) /\ new = all
    BY <1>1, <1>6, <2>1
  <2>3. ASSUME NEW x \in born .. made + n
        PROVE  x \in ToSet(shown) \union ToSet(more)
    <3>1. CASE x <= made
      BY <1>1, <2>2, <3>1
    <3>2. CASE ~(x <= made)
      <4>1. x - made \in 1 .. n /\ made + (x - made) = x
        BY <1>1, <3>2
      <4> QED
        BY <1>3, <4>1 DEF ToSet
    <3> QED
      BY <3>1, <3>2
  <2> QED
    BY <1>5, <2>2, <2>3
<1>10. LoadLosesNothing'
  BY <1>2, <1>9 DEF LoadLosesNothing, ToSet
<1>11. made + n \in Nat /\ (home = "booting" => Len(new) <= made + n)
  BY <1>1, <1>7
<1> QED
  BY <1>1, <1>2, <1>6, <1>7, <1>8, <1>10, <1>11 DEF ShownInv

LEMMA LoadShows ==
  ASSUME HistoryInv, ShownInv, LoadHistory
  PROVE  ShownInv'
<1> DEFINE now == Readable(cur)
           before == IF Len(now) < EventsMemMax THEN Readable(old) ELSE <<>>
           missing == Omit(shown, ToSet(now))
           all == before \o now \o missing
           new == Newest(all, EventsMemMax)
           m == Len(shown)
<1>1. /\ made \in Nat /\ born \in Nat \ {0} /\ shown \in Seq(Nat) /\ m \in Nat
      /\ EventsMemMax \in Nat \ {0} /\ m <= EventsMemMax
      /\ home = "booting" /\ m <= made /\ \A i \in 1 .. m : shown[i] = made - m + i
      /\ m < EventsMemMax => born .. made \subseteq ToSet(shown)
  BY DEF ShownInv, LoadLosesNothing, LoadHistory
<1>2. shown' = new /\ made' = made /\ born' = born /\ home' = "running"
  BY DEF LoadHistory, Merged
<1>3. now \in Seq(Nat) /\ before \in Seq(Nat)
  <2>1. now \in Seq(Nat) /\ Readable(old) \in Seq(Nat) /\ <<>> \in Seq(Nat)
    BY ReadableIs DEF HistoryInv
  <2> QED
    BY <2>1
<1>4. missing \in Seq(Nat) /\ ToSet(missing) = ToSet(shown) \ ToSet(now)
  BY <1>1, OmitElements
<1> HIDE DEF now, before, missing
<1>5. all \in Seq(Nat) /\ ToSet(shown) \subseteq ToSet(all)
  <2>1. before \o now \in Seq(Nat) /\ ToSet(before \o now) = ToSet(before) \union ToSet(now)
    BY <1>3, NatConcat, NatToSet
  <2>2. all \in Seq(Nat) /\ ToSet(all) = ToSet(before \o now) \union ToSet(missing)
    BY <1>4, <2>1, NatConcat, NatToSet
  <2> QED
    BY <1>4, <2>1, <2>2
<1> HIDE DEF all
<1>6. /\ new \in Seq(Nat) /\ Len(new) = IF Len(all) > EventsMemMax THEN EventsMemMax ELSE Len(all)
      /\ Len(all) <= EventsMemMax => new = all
  <2>1. EventsMemMax \in Nat
    OBVIOUS
  <2> QED
    BY <1>5, <2>1, NewestIs
<1> HIDE DEF new, m
<1>7. Len(all) \in Nat /\ Len(new) \in Nat /\ Len(new) <= EventsMemMax
  BY <1>5, <1>6
<1>8. ASSUME Len(new) < EventsMemMax
      PROVE  born .. made \subseteq ToSet(new)
  <2>1. Len(all) < EventsMemMax /\ new = all
    BY <1>6, <1>7, <1>8
  <2>2. m < EventsMemMax
    <3> SUFFICES ASSUME m = EventsMemMax
                 PROVE  FALSE
      BY <1>1
    <3> DEFINE a == made - m
    <3>1. a \in Nat /\ a + m = made
      BY <1>1
    <3>2. ASSUME NEW x \in a + 1 .. a + m
          PROVE  x \in ToSet(shown)
      <4>1. x - a \in 1 .. m /\ made - m + (x - a) = x
        BY <1>1, <3>1
      <4>2. shown[x - a] = x /\ DOMAIN shown = 1 .. m
        BY <1>1, <4>1 DEF m
      <4> QED
        BY <4>1, <4>2 DEF ToSet
    <3> HIDE DEF a
    <3>3. a + 1 .. a + m \subseteq ToSet(all)
      BY <1>5, <3>2
    <3>4. m <= Len(all)
      BY <1>1, <1>5, <3>1, <3>3, TooFewPlaces
    <3> QED
      BY <1>1, <1>7, <2>1, <3>4
  <2> QED
    BY <1>1, <1>5, <2>1, <2>2
<1>9. LoadLosesNothing'
  BY <1>2, <1>8 DEF LoadLosesNothing, ToSet
<1> QED
  BY <1>1, <1>2, <1>6, <1>7, <1>9 DEF ShownInv

LEMMA InitShown == LogInit => ShownInv
<1> SUFFICES ASSUME LogInit
             PROVE  ShownInv
  OBVIOUS
<1>1. made = 0 /\ born = 1 /\ shown = <<>> /\ Len(shown) = 0 /\ 1 .. 0 = {}
  BY DEF LogInit
<1> QED
  BY <1>1 DEF ShownInv, LoadLosesNothing

LEMMA StepKeepsShown ==
    SilenceInv /\ HistoryInv /\ ShownInv /\ [LogNext]_logVars => ShownInv'
<1> SUFFICES ASSUME SilenceInv, HistoryInv, ShownInv, [LogNext]_logVars
             PROVE  ShownInv'
  OBVIOUS
<1>1. ASSUME UNCHANGED <<made, born, shown>>, home' = home \/ home' # "booting"
      PROVE  ShownInv'
  <2>1. LoadLosesNothing'
    BY <1>1 DEF ShownInv, LoadLosesNothing, ToSet
  <2> QED
    BY <1>1, <2>1 DEF ShownInv
<1>2. BatchInv
  BY DEF HistoryInv
<1>3. CASE LogTick \/ (\E t \in Threads : Stamp(t) \/ LogAppend(t)) \/ UNCHANGED logVars
           \/ Quit \/ RotateDelete \/ Rename \/ Write
  <2>1. UNCHANGED <<made, born, shown>> /\ (home' = home \/ home' # "booting")
    BY <1>3 DEF LogTick, Stamp, LogAppend, Quit, RotateDelete, Rename, Write, memory, shell, logVars
  <2> QED
    BY <1>1, <2>1
<1>4. CASE \E s \in {"info", "error"} : Ev(s)
  <2>1. Take(1) /\ UNCHANGED <<born, home>>
    BY <1>4 DEF Ev
  <2> QED
    BY <1>2, <2>1, TakeShows
<1>5. CASE Drain
  <2>1. home' = home
    BY <1>5 DEF Drain
  <2>2. CASE \E n \in Nat : Take(n) /\ UNCHANGED born
    BY <1>2, <2>1, <2>2, TakeShows
  <2>3. CASE UNCHANGED <<memory, batch>>
    BY <1>1, <2>1, <2>3 DEF memory
  <2> QED
    BY <1>5, <2>2, <2>3, DrainTakes
<1>6. CASE Restart
  <2>1. /\ made' = made /\ born' = made + 1 /\ shown' = <<>> /\ home' = "booting"
        /\ made \in Nat
    BY <1>6 DEF Restart, ShownInv
  <2>2. Len(shown') = 0 /\ made + 1 .. made = {}
    BY <2>1
  <2>3. LoadLosesNothing'
    BY <2>1, <2>2 DEF LoadLosesNothing
  <2> QED
    BY <2>1, <2>2, <2>3 DEF ShownInv
<1> QED
  BY <1>3, <1>4, <1>5, <1>6, LoadShows DEF LogNext

\* events_load: the history that is loaded behind the events of this run pushes none of
\* them out while there is room, whether or not they ever reached the file, for any size
\* of the store and whatever the files hold.
THEOREM HistoryHidesNothing == LogSpec => []LoadLosesNothing
<1>1. ShownInv => LoadLosesNothing
  BY DEF ShownInv
<1> QED
  BY InitSilence, StepKeepsSilence, InitHistory, StepKeepsHistory, InitShown, StepKeepsShown,
     <1>1, PTL DEF LogSpec

HIDE Intervals DEF INOP, REACQUIRING, HOLDOVER, OK, MaxBad, MaxGood

-----------------------------------------------------------------------------
(***************************************************************************)
(* TimeZone: the calendar of tzif.c.  A date is found by its place in its  *)
(* era of 400 years and in its year from March; the reference counts days. *)
(***************************************************************************)
\* The day of a minute is C's way to round down.
LEMMA DayOfIs ==
  ASSUME NEW n \in Int
  PROVE  DayOf(n) = n \div DAY /\ n - DayOf(n) * DAY = n % DAY
  BY DEF DayOf, TruncDiv, TruncMod, DAY

\* Its weekday is that of a Thursday, 1970-01-01, so many days on.
LEMMA WeekdayOfIs ==
  ASSUME NEW n \in Int
  PROVE  WeekdayOf(n) = (n + 4) % 7
  BY DEF WeekdayOf, TruncDiv, TruncMod

\* The day of era era that is its doe-th, and the day of an era that is the doy-th of its
\* yoe-th year from March.
DayOfEra(era, doe) == era * 146097 + doe
EraDay(yoe, doy) == 365 * yoe + yoe \div 4 - yoe \div 100 + doy

\* breakdown() finds the era of such a day, before 2000 as well,
LEMMA EraOfIs ==
  ASSUME NEW era \in Int, NEW doe \in Int, 0 <= doe, doe <= 146096,
         NEW n, n = DayOfEra(era, doe)
  PROVE  EraOf(n) = era
  BY DEF EraOf, TruncDiv, DayOfEra

\* and the month of a day of a year that begins in March;
LEMMA MonthIs ==
  ASSUME NEW mp \in 0 .. 11, NEW d \in 1 .. 31,
         mp \in {1, 3, 6, 8} => d <= 30, mp = 11 => d <= 29
  PROVE  (5 * ((153 * mp + 2) \div 5 + d - 1) + 2) \div 153 = mp
<1>1. mp \in {0, 1, 2, 3, 4, 5, 6, 7, 8, 9, 10, 11}
  OBVIOUS
<1> QED
  BY <1>1

\* Whether the year from March that is the yoe-th of its era ends in a leap day.
EndsInLeapDay(yoe) == (yoe % 4 = 3 /\ yoe % 100 # 99) \/ yoe = 399

\* Year yoe of an era has a day doy.
HasDay(yoe, doy) ==
    yoe \in 0 .. 399 /\ doy \in 0 .. 365 /\ (doy = 365 => EndsInLeapDay(yoe))

\* Its year is found, and it is a day of the era.
FindsYear(yoe, doy) ==
    /\ EraDay(yoe, doy) \in Int /\ 0 <= EraDay(yoe, doy) /\ EraDay(yoe, doy) <= 146096
    /\ YearOfEra(EraDay(yoe, doy)) = yoe

\* the corrections for leap days come out, on the first and last day of each year too.
LEMMA YearOfEraIs ==
  ASSUME NEW yoe, NEW doy, HasDay(yoe, doy)
  PROVE  FindsYear(yoe, doy)
<1> DEFINE doe == EraDay(yoe, doy)
           c == yoe \div 100
           q == (yoe % 100) \div 4
           r == yoe % 4
           e == IF 24 * c + q + 365 * r + doy >= 1460 THEN 1 ELSE 0
           l == IF yoe = 399 /\ doy = 365 THEN 1 ELSE 0
<1>0. yoe \in 0 .. 399 /\ doy \in 0 .. 365 /\ (doy = 365 => EndsInLeapDay(yoe))
  BY DEF HasDay
<1>1. c \in 0 .. 3 /\ q \in 0 .. 24 /\ r \in 0 .. 3 /\ yoe = 100 * c + 4 * q + r
  BY <1>0
<1>2. yoe \div 4 = 25 * c + q
  BY <1>1
<1>3. doy = 365 => r = 3 /\ (c = 3 \/ q # 24)
  BY <1>0, <1>1 DEF EndsInLeapDay
<1>4. l = 1 <=> (c = 3 /\ q = 24 /\ r = 3 /\ doy = 365)
  BY <1>0, <1>1
<1>5. doe = 36524 * c + 1461 * q + 365 * r + doy /\ doe \in Int
  BY <1>0, <1>1, <1>2 DEF EraDay
<1>6. l \in {0, 1} /\ e \in {0, 1} /\ (e = 1 <=> 24 * c + q + 365 * r + doy >= 1460)
  BY <1>0, <1>1
<1> HIDE DEF c, q, r, e, l, doe
<1>7. doe \in Int /\ 0 <= doe /\ doe <= 146096
  <2>1. /\ 0 <= 36524 * c /\ 36524 * c <= 109572 /\ 0 <= 1461 * q /\ 1461 * q <= 35064
        /\ 0 <= 365 * r /\ 365 * r <= 1095
    BY <1>0, <1>1
  <2> QED
    BY ONLY <1>0, <1>1, <1>5, <2>1
<1>8. doe \div 36524 = c + l
  BY <1>0, <1>1, <1>3, <1>4, <1>5, <1>6
<1>9. doe \div 146096 = l
  BY <1>0, <1>1, <1>3, <1>4, <1>5, <1>6
<1>10. doe \div 1460 = 25 * c + q + e
  BY <1>0, <1>1, <1>3, <1>5, <1>6
<1>11. doe - doe \div 1460 + doe \div 36524 - doe \div 146096 = 365 * yoe + (doy - e)
  BY <1>0, <1>1, <1>5, <1>6, <1>8, <1>9, <1>10
<1>12. doy - e \in 0 .. 364
  BY <1>0, <1>1, <1>3, <1>6
<1>13. YearOfEra(doe) = (365 * yoe + (doy - e)) \div 365
  BY <1>11 DEF YearOfEra
<1>14. (365 * yoe + (doy - e)) \div 365 = yoe
  <2> DEFINE x == doy - e
  <2>1. x \in 0 .. 364
    BY <1>12
  <2> HIDE DEF x
  <2>2. (365 * yoe + x) \div 365 = yoe
    BY <1>0, <2>1
  <2> QED
    BY <2>2 DEF x
<1>15. YearOfEra(doe) = yoe
  BY ONLY <1>13, <1>14, Zenon
<1> QED
  BY <1>7, <1>15 DEF doe, FindsYear

\* The leap day of a year, as a number.
LeapDay(y) == IF IsLeap(y) THEN 1 ELSE 0

\* The days of year y before its month m.
kStarts == <<0, 31, 59, 90, 120, 151, 181, 212, 243, 273, 304, 334>>
MonthStart(y, m) == kStarts[m] + (IF m > 2 THEN LeapDay(y) ELSE 0)

\* The loop of breakdown() and rule_local_sec() adds them up,
LEMMA DaysBeforeMonthIs ==
  ASSUME NEW y \in Int, NEW m \in 1 .. 12
  PROVE  DaysBeforeMonth(y, m) = MonthStart(y, m)
<1> DEFINE body(f) == [i \in 1 .. 12 |->
                         IF i = 1 THEN 0
                         ELSE f[i - 1] + kMdays[i - 1] + (IF i = 3 /\ IsLeap(y) THEN 1 ELSE 0)]
           days == CHOOSE f : f = body(f)
           g == [i \in 1 .. 12 |-> MonthStart(y, i)]
<1>1. g = body(g)
  <2>1. ASSUME NEW i \in 2 .. 12
        PROVE  MonthStart(y, i) = MonthStart(y, i - 1) + kMdays[i - 1]
                                    + (IF i = 3 /\ IsLeap(y) THEN 1 ELSE 0)
    <3>1. i \in {2, 3, 4, 5, 6, 7, 8, 9, 10, 11, 12}
      OBVIOUS
    <3> QED
      BY <3>1 DEF MonthStart, kStarts, kMdays, LeapDay
  <2>2. MonthStart(y, 1) = 0
    BY DEF MonthStart, kStarts
  <2>3. ASSUME NEW i \in 1 .. 12
        PROVE  g[i] = body(g)[i]
    <3>1. CASE i = 1
      BY <2>2, <3>1
    <3>2. CASE i # 1
      <4>1. i \in 2 .. 12 /\ i - 1 \in 1 .. 12
        BY <3>2
      <4> HIDE DEF MonthStart
      <4> QED
        BY <2>1, <3>2, <4>1
    <3> QED
      BY <3>1, <3>2
  <2> HIDE DEF MonthStart
  <2> QED
    BY <2>3
<1>2. days = body(days)
  <2> HIDE DEF g
  <2> QED
    BY <1>1
<1>3. \A i \in 1 .. 12 : days[i] = MonthStart(y, i)
  <2> HIDE DEF days
  <2>1. /\ days[1] = 0
        /\ \A i \in 2 .. 12 : days[i] = days[i - 1] + kMdays[i - 1]
                                          + (IF i = 3 /\ IsLeap(y) THEN 1 ELSE 0)
    BY <1>2
  <2>2. \A i \in 1 .. 2 : days[i] = MonthStart(y, i)
    BY <2>1 DEF MonthStart, kStarts, kMdays
  <2>3. days[3] = 59 + LeapDay(y)
    BY <2>1 DEF kMdays, LeapDay
  <2>4. /\ days[4] = days[3] + 31 /\ days[5] = days[4] + 30 /\ days[6] = days[5] + 31
        /\ days[7] = days[6] + 30 /\ days[8] = days[7] + 31 /\ days[9] = days[8] + 31
        /\ days[10] = days[9] + 30 /\ days[11] = days[10] + 31 /\ days[12] = days[11] + 30
    BY <2>1, <2>3 DEF kMdays, LeapDay
  <2>5. ASSUME NEW i \in 3 .. 12 PROVE days[i] = MonthStart(y, i)
    <3>1. i \in {3, 4, 5, 6, 7, 8, 9, 10, 11, 12}
      OBVIOUS
    <3> QED
      BY <2>3, <2>4, <3>1 DEF MonthStart, kStarts, LeapDay
  <2> QED
    BY <2>2, <2>5
<1>4. DaysBeforeMonth(y, m) = days[m]
  BY DEF DaysBeforeMonth
<1> QED
  BY <1>3, <1>4

\* and so does the reference, with the months as long as they are.
LEMMA DayInYearIs ==
  ASSUME NEW y \in Int, NEW m \in 1 .. 12, NEW d \in Int
  PROVE  DayInYear(y, m, d) = MonthStart(y, m) + d - 1
<1> DEFINE body(f) == [i \in 1 .. 12 |->
                         IF i = 1 THEN 0 ELSE f[i - 1] + MonthLength(y, i - 1)]
           before == CHOOSE f : f = body(f)
           g == [i \in 1 .. 12 |-> MonthStart(y, i)]
<1>1. g = body(g)
  <2>1. ASSUME NEW i \in 2 .. 12
        PROVE  MonthStart(y, i) = MonthStart(y, i - 1) + MonthLength(y, i - 1)
    <3>1. i \in {2, 3, 4, 5, 6, 7, 8, 9, 10, 11, 12}
      OBVIOUS
    <3> QED
      BY <3>1 DEF MonthStart, kStarts, kMdays, LeapDay, MonthLength
  <2>2. MonthStart(y, 1) = 0
    BY DEF MonthStart, kStarts
  <2>3. ASSUME NEW i \in 1 .. 12
        PROVE  g[i] = body(g)[i]
    <3>1. CASE i = 1
      BY <2>2, <3>1
    <3>2. CASE i # 1
      <4>1. i \in 2 .. 12 /\ i - 1 \in 1 .. 12
        BY <3>2
      <4> HIDE DEF MonthStart
      <4> QED
        BY <2>1, <3>2, <4>1
    <3> QED
      BY <3>1, <3>2
  <2> HIDE DEF MonthStart
  <2> QED
    BY <2>3
<1>2. before = body(before)
  <2> HIDE DEF g
  <2> QED
    BY <1>1
<1>3. \A i \in 1 .. 12 : before[i] = MonthStart(y, i)
  <2> HIDE DEF before
  <2>1. /\ before[1] = 0
        /\ \A i \in 2 .. 12 : before[i] = before[i - 1] + MonthLength(y, i - 1)
    BY <1>2
  <2>2. \A i \in 1 .. 2 : before[i] = MonthStart(y, i)
    BY <2>1 DEF MonthStart, kStarts, kMdays, MonthLength
  <2>3. before[3] = 59 + LeapDay(y)
    BY <2>1 DEF kMdays, LeapDay, MonthLength
  <2>4. /\ before[4] = before[3] + 31 /\ before[5] = before[4] + 30 /\ before[6] = before[5] + 31
        /\ before[7] = before[6] + 30 /\ before[8] = before[7] + 31 /\ before[9] = before[8] + 31
        /\ before[10] = before[9] + 30 /\ before[11] = before[10] + 31
        /\ before[12] = before[11] + 30
    BY <2>1, <2>3 DEF kMdays, LeapDay, MonthLength
  <2>5. ASSUME NEW i \in 3 .. 12 PROVE before[i] = MonthStart(y, i)
    <3>1. i \in {3, 4, 5, 6, 7, 8, 9, 10, 11, 12}
      OBVIOUS
    <3> QED
      BY <2>3, <2>4, <3>1 DEF MonthStart, kStarts, LeapDay
  <2> QED
    BY <2>2, <2>5
<1>4. DayInYear(y, m, d) = before[m] + d - 1
  BY DEF DayInYear
<1> QED
  BY <1>3, <1>4

\* The leap days up to year k, and the day that year y begins on.
LeapsTo(k) == k \div 4 - k \div 100 + k \div 400
January(y) == 365 * (y - 1970) + LeapsTo(y - 1) - 477

\* days_before_year() gives that day.
LEMMA DaysBeforeYearIs ==
  ASSUME NEW y \in Int
  PROVE  DaysBeforeYear(y) = January(y)
  BY DEF DaysBeforeYear, January, LeapsTo

\* A year with a leap day has one day more.
LEMMA OneLeapDay ==
  ASSUME NEW y \in Int
  PROVE  LeapsTo(y) = LeapsTo(y - 1) + LeapDay(y)
<1> DEFINE r == y % 400
           q == y \div 400
<1>1. y = 400 * q + r /\ q \in Int /\ r \in 0 .. 399
  OBVIOUS
<1>2. /\ y \div 400 = q /\ y \div 100 = 4 * q + r \div 100 /\ y \div 4 = 100 * q + r \div 4
      /\ y % 4 = r % 4 /\ y % 100 = r % 100
  BY <1>1
<1>3. /\ (y - 1) \div 4 = 100 * q + (r - 1) \div 4
      /\ (y - 1) \div 100 = 4 * q + (r - 1) \div 100
      /\ (y - 1) \div 400 = q + (r - 1) \div 400
  BY <1>1
<1> HIDE DEF q
<1>4. /\ r \div 4 - (r - 1) \div 4 = IF r % 4 = 0 THEN 1 ELSE 0
      /\ r \div 100 - (r - 1) \div 100 = IF r % 100 = 0 THEN 1 ELSE 0
      /\ (r - 1) \div 400 = IF r = 0 THEN -1 ELSE 0
  <2> HIDE DEF r
  <2> QED
    BY <1>1
<1>5. LeapDay(y) = IF (r % 4 = 0 /\ r % 100 # 0) \/ r = 0 THEN 1 ELSE 0
  BY <1>2 DEF LeapDay, IsLeap
<1>6. r % 100 = 0 => r % 4 = 0
  <2> HIDE DEF r
  <2> QED
    BY <1>1
<1>7. LeapsTo(y) - LeapsTo(y - 1)
        = (r \div 4 - (r - 1) \div 4) - (r \div 100 - (r - 1) \div 100) - (r - 1) \div 400
  <2> HIDE DEF r
  <2> QED
    BY <1>1, <1>2, <1>3 DEF LeapsTo
<1>8. LeapsTo(y) \in Int /\ LeapsTo(y - 1) \in Int /\ LeapDay(y) \in {0, 1}
  BY DEF LeapsTo, LeapDay
<1> HIDE DEF r
<1>9. (r \div 4 - (r - 1) \div 4) - (r \div 100 - (r - 1) \div 100) - (r - 1) \div 400
        = LeapDay(y)
  <2>1. r = 0 => r % 4 = 0 /\ r % 100 = 0
    BY <1>1
  <2> QED
    BY <1>1, <1>4, <1>5, <1>6, <2>1
<1> QED
  BY <1>7, <1>8, <1>9

\* All of these are numbers.
LEMMA JanuaryInt ==
  ASSUME NEW y \in Int
  PROVE  January(y) \in Int /\ LeapsTo(y) \in Int /\ LeapDay(y) \in {0, 1}
  BY DEF January, LeapsTo, LeapDay

\* The years follow one another.
LEMMA NextJanuary ==
  ASSUME NEW y \in Int
  PROVE  January(y + 1) = January(y) + 365 + LeapDay(y)
<1>1. LeapsTo(y) = LeapsTo(y - 1) + LeapDay(y)
  BY OneLeapDay
<1>2. y + 1 - 1 = y /\ LeapsTo(y) \in Int /\ LeapsTo(y - 1) \in Int /\ LeapDay(y) \in Int
  BY JanuaryInt
<1>3. January(y + 1) = 365 * (y + 1 - 1970) + LeapsTo(y) - 477
  BY <1>2 DEF January
<1>4. January(y) = 365 * (y - 1970) + LeapsTo(y - 1) - 477
  BY DEF January
<1> QED
  BY <1>1, <1>2, <1>3, <1>4

\* Where a month begins, counted from March.
LEMMA MonthStartIs ==
  ASSUME NEW y \in Int, NEW m \in 1 .. 12
  PROVE  /\ m > 2 => MonthStart(y, m) = (153 * (m - 3) + 2) \div 5 + 59 + LeapDay(y)
         /\ m <= 2 => MonthStart(y, m) = (153 * (m + 9) + 2) \div 5 - 306
<1>1. m \in {1, 2, 3, 4, 5, 6, 7, 8, 9, 10, 11, 12} /\ LeapDay(y) \in Int
  BY JanuaryInt
<1> QED
  BY <1>1 DEF MonthStart, kStarts

\* Dates, whether or not the calendar has them.
DateSet == [year : Int, month : 1 .. 12, mday : 1 .. 31, wday : 0 .. 6, yday : Nat]

\* a is the date of day n, counted from 1970-01-01.
IsDateOf(a, n) ==
    /\ a \in DateSet
    /\ a.mday <= MonthLength(a.year, a.month)
    /\ a.yday = MonthStart(a.year, a.month) + a.mday - 1
    /\ January(a.year) + a.yday = n
    /\ a.wday = (n + 4) % 7

\* A date by its place in its era of 400 years, and in its year from March.
MarchYear(y, m) == IF m > 2 THEN y - 2000 ELSE y - 2001
FromMarch(m) == IF m > 2 THEN m - 3 ELSE m + 9
MarchDay(m, d) == (153 * FromMarch(m) + 2) \div 5 + d - 1

\* The number of a day.
DayOn(y, m, d) == January(y) + MonthStart(y, m) + d - 1

\* The number of a day, by the place of its date in an era: what the code computes
\* backwards.
LEMMA DayInEra ==
  ASSUME NEW y \in Int, NEW m \in 1 .. 12, NEW d \in 1 .. 31
  PROVE  DayOn(y, m, d) - 11017
           = DayOfEra(MarchYear(y, m) \div 400, EraDay(MarchYear(y, m) % 400, MarchDay(m, d)))
<1> DEFINE yy == MarchYear(y, m)
           era == yy \div 400
           yoe == yy % 400
           part == (153 * FromMarch(m) + 2) \div 5
<1>1. yy \in Int /\ era \in Int /\ yoe \in 0 .. 399 /\ yy = 400 * era + yoe
  BY DEF MarchYear
<1>2. LeapsTo(yy + 2000) = 97 * era + 485 + yoe \div 4 - yoe \div 100
  <2> HIDE DEF yy, era, yoe
  <2>1. PICK k \in Int : k = yy + 2000
    BY <1>1
  <2>2. k = 400 * era + yoe + 2000
    BY <1>1, <2>1
  <2>3. /\ k \div 4 = 100 * era + 500 + yoe \div 4
        /\ k \div 100 = 4 * era + 20 + yoe \div 100
        /\ k \div 400 = era + 5
    BY <1>1, <2>2
  <2>4. LeapsTo(k) = 97 * era + 485 + yoe \div 4 - yoe \div 100
    BY <1>1, <2>3 DEF LeapsTo
  <2> QED
    BY <2>1, <2>4
<1>3. LeapsTo(y - 1) \in Int /\ LeapDay(y) \in Int
  <2>1. LeapDay(y) \in {0, 1}
    BY JanuaryInt
  <2>2. LeapsTo(y - 1) \in Int
    BY DEF LeapsTo
  <2> QED
    BY <2>1, <2>2
<1>4. part \in Int
  <2>1. FromMarch(m) \in Int
    BY DEF FromMarch
  <2> QED
    BY <2>1
<1>5. yoe \div 4 \in Int /\ yoe \div 100 \in Int
  <2> HIDE DEF yoe
  <2> QED
    BY <1>1
<1>6. January(y) = 365 * (y - 1970) + LeapsTo(y - 1) - 477
  BY DEF January
<1>7. EraDay(yoe, MarchDay(m, d)) = 365 * yoe + yoe \div 4 - yoe \div 100 + (part + d - 1)
  BY DEF EraDay, MarchDay
<1>8. DayOn(y, m, d) - 11017 = DayOfEra(era, EraDay(yoe, MarchDay(m, d)))
  <2>1. CASE m > 2
    <3>1. yy = y - 2000 /\ MonthStart(y, m) = part + 59 + LeapDay(y)
      BY <2>1, MonthStartIs DEF MarchYear, FromMarch
    <3>2. LeapsTo(yy + 2000) = LeapsTo(y - 1) + LeapDay(y)
      <4>1. yy + 2000 = y
        BY <3>1
      <4> QED
        BY <4>1, OneLeapDay
    <3> HIDE DEF yy, era, yoe, part
    <3> QED
      BY <1>1, <1>2, <1>3, <1>4, <1>5, <1>6, <1>7, <3>1, <3>2 DEF DayOn, DayOfEra
  <2>2. CASE m <= 2
    <3>1. yy = y - 2001 /\ MonthStart(y, m) = part - 306
      BY <2>2, MonthStartIs DEF MarchYear, FromMarch
    <3>2. LeapsTo(yy + 2000) = LeapsTo(y - 1)
      <4>1. yy + 2000 = y - 1
        BY <3>1
      <4> QED
        BY <4>1
    <3> HIDE DEF yy, era, yoe, part
    <3>3. January(y) = 365 * (yy + 31) + (97 * era + 485 + yoe \div 4 - yoe \div 100) - 477
      BY <1>1, <1>2, <1>6, <3>1, <3>2
    <3> QED
      BY <1>1, <1>4, <1>5, <1>7, <3>1, <3>3 DEF DayOn, DayOfEra
  <2> QED
    BY <2>1, <2>2
<1> QED
  BY <1>8

\* The last day of a year from March is its 366th in a leap year only.
InMarchYear(y, m, d) ==
    /\ MarchDay(m, d) \in 0 .. 365
    /\ MarchDay(m, d) = 365 => EndsInLeapDay(MarchYear(y, m) % 400)
    /\ (5 * MarchDay(m, d) + 2) \div 153 = FromMarch(m)

\* It is so of every date.
LEMMA MarchDayIs ==
  ASSUME NEW y \in Int, NEW m \in 1 .. 12, NEW d \in 1 .. 31, d <= MonthLength(y, m)
  PROVE  InMarchYear(y, m, d)
<1> DEFINE mp == FromMarch(m)
<1>1. mp \in 0 .. 11 /\ (mp = 11 <=> m = 2) /\ (mp \in {1, 3, 6, 8} <=> m \in {4, 6, 9, 11})
  BY DEF FromMarch
<1>2. (m = 2 => d <= 29) /\ (m \in {4, 6, 9, 11} => d <= 30) /\ (m = 2 /\ d = 29 => IsLeap(y))
  BY DEF MonthLength, kMdays
<1> HIDE DEF mp
<1>3. (5 * ((153 * mp + 2) \div 5 + d - 1) + 2) \div 153 = mp
  BY <1>1, <1>2, MonthIs
<1>4. mp \in {0, 1, 2, 3, 4, 5, 6, 7, 8, 9, 10, 11}
  BY <1>1
<1>5. /\ (153 * mp + 2) \div 5 + d - 1 \in 0 .. 365
      /\ (153 * mp + 2) \div 5 + d - 1 = 365 => m = 2 /\ d = 29
  BY <1>1, <1>2, <1>4
<1>6. IsLeap(y) /\ m = 2 => EndsInLeapDay(MarchYear(y, m) % 400)
  <2>1. SUFFICES ASSUME IsLeap(y), m = 2
                 PROVE  EndsInLeapDay((y - 2001) % 400)
    BY DEF MarchYear
  <2> DEFINE k == (y - 2001) % 400
  <2>2. k \in 0 .. 399 /\ y % 4 = (k + 1) % 4 /\ y % 100 = (k + 1) % 100
        /\ (y % 400 = 0 => k = 399)
    OBVIOUS
  <2>3. (y % 4 = 0 /\ y % 100 # 0) \/ y % 400 = 0
    BY <2>1 DEF IsLeap
  <2> HIDE DEF k
  <2>4. (k % 4 = 3 /\ k % 100 # 99) \/ k = 399
    BY <2>2, <2>3
  <2> QED
    BY <2>4 DEF EndsInLeapDay, k
<1>7. MarchDay(m, d) = (153 * mp + 2) \div 5 + d - 1 /\ mp = FromMarch(m)
  BY DEF MarchDay, mp
<1>8. MarchDay(m, d) \in 0 .. 365
  BY ONLY <1>5, <1>7
<1>9. MarchDay(m, d) = 365 => m = 2 /\ d = 29
  BY ONLY <1>5, <1>7
<1>10. (5 * MarchDay(m, d) + 2) \div 153 = FromMarch(m)
  BY ONLY <1>3, <1>7, Zenon
<1> QED
  BY <1>2, <1>6, <1>8, <1>9, <1>10 DEF InMarchYear

\* What breakdown() makes of a day of an era: the year and the month it is in.
FindsDate(y, m, d, n) ==
    Civil(n - 11017, EraOf(n - 11017)) = [year |-> y, month |-> m, mday |-> d]

\* It is the date that has the number of the day.
LEMMA CivilIs ==
  ASSUME NEW y \in Int, NEW m \in 1 .. 12, NEW d \in 1 .. 31, d <= MonthLength(y, m)
  PROVE  FindsDate(y, m, d, DayOn(y, m, d))
<1> DEFINE n == DayOn(y, m, d) - 11017
           yy == MarchYear(y, m)
           era == yy \div 400
           yoe == yy % 400
           mp == FromMarch(m)
           doy == MarchDay(m, d)
           doe == EraDay(yoe, doy)
<1>1. era \in Int /\ yoe \in 0 .. 399 /\ yy = 400 * era + yoe
  BY DEF MarchYear
<1>2. n = DayOfEra(era, doe)
  BY DayInEra
<1>3. /\ doy \in 0 .. 365 /\ (doy = 365 => EndsInLeapDay(yoe))
      /\ (5 * doy + 2) \div 153 = mp
  <2>1. InMarchYear(y, m, d)
    BY MarchDayIs
  <2> QED
    BY ONLY <2>1 DEF InMarchYear
<1>4. /\ mp \in 0 .. 11 /\ (mp < 10 => m = mp + 3 /\ yy = y - 2000)
      /\ (mp >= 10 => m = mp - 9 /\ yy = y - 2001)
      /\ doy - (153 * mp + 2) \div 5 + 1 = d
  <2>1. /\ mp \in 0 .. 11 /\ (mp < 10 => m = mp + 3 /\ yy = y - 2000)
        /\ (mp >= 10 => m = mp - 9 /\ yy = y - 2001)
    BY DEF FromMarch, MarchYear
  <2>2. doy - (153 * mp + 2) \div 5 + 1 = d
    <3>1. doy = (153 * mp + 2) \div 5 + d - 1
      BY DEF MarchDay
    <3> HIDE DEF doy, mp
    <3>2. (153 * mp + 2) \div 5 \in Int
      BY <2>1
    <3> QED
      BY <3>1, <3>2
  <2> HIDE DEF mp, yy, doy
  <2> QED
    BY <2>1, <2>2
<1>5. doe = EraDay(yoe, doy)
  OBVIOUS
<1> HIDE DEF n, yy, era, yoe, mp, doy, doe
<1>6. doe \in Int /\ 0 <= doe /\ doe <= 146096 /\ YearOfEra(doe) = yoe
  <2>1. HasDay(yoe, doy)
    BY <1>1, <1>3 DEF HasDay
  <2>2. FindsYear(yoe, doy)
    BY <2>1, YearOfEraIs
  <2> QED
    BY <2>2 DEF FindsYear, doe
<1>7. EraOf(n) = era
  BY <1>1, <1>2, <1>6, EraOfIs
<1>8. n - era * 146097 = doe
  BY <1>1, <1>2, <1>6 DEF DayOfEra
<1>9. DayOfYear(doe, yoe) = doy
  <2>1. yoe \div 4 \in Int /\ yoe \div 100 \in Int /\ doy \in Int
    BY <1>1, <1>3
  <2> QED
    BY <1>1, <1>5, <2>1 DEF DayOfYear, EraDay
<1>10. Civil(n, EraOf(n)) = DateFromMarch(yoe + era * 400 + 2000, doy, mp)
  BY <1>3, <1>6, <1>7, <1>8, <1>9 DEF Civil, DateInEra, DateInYear
<1>11. /\ mp < 10 => yoe + era * 400 + 2000 = y
       /\ mp >= 10 => yoe + era * 400 + 2000 + 1 = y
  BY <1>1, <1>4
<1>12. DateFromMarch(yoe + era * 400 + 2000, doy, mp) = [year |-> y, month |-> m, mday |-> d]
  BY <1>4, <1>11 DEF DateFromMarch
<1> QED
  BY <1>10, <1>12 DEF FindsDate, n

\* breakdown() gives a minute the date that its day has, and its time of day.
LEMMA BreakdownIs ==
  ASSUME NEW local \in Int, NEW a, IsDateOf(a, local \div DAY)
  PROVE  LET b == Breakdown(local)
         IN  /\ \A k \in DOMAIN a : b[k] = a[k]
             /\ b.hour * 60 + b.minute = local % DAY
<1> DEFINE n == local \div DAY
           b == Breakdown(local)
           mod == local % DAY
<1>1. DayOf(local) = n /\ local - n * DAY = mod
  BY DayOfIs
<1>2. n \in Int /\ mod \in 0 .. 1439
  BY DEF DAY
<1>3. /\ a.year \in Int /\ a.month \in 1 .. 12 /\ a.mday \in 1 .. 31
      /\ a.mday <= MonthLength(a.year, a.month) /\ a.yday \in Nat
      /\ a = [year |-> a.year, month |-> a.month, mday |-> a.mday, wday |-> a.wday,
              yday |-> a.yday]
  BY DEF IsDateOf, DateSet
<1>4. /\ a.yday = MonthStart(a.year, a.month) + a.mday - 1
      /\ January(a.year) + a.yday = n /\ a.wday = (n + 4) % 7
  BY DEF IsDateOf
<1> HIDE DEF n, mod
<1>5. Civil(n - 11017, EraOf(n - 11017))
        = [year |-> a.year, month |-> a.month, mday |-> a.mday]
  <2>1. n = DayOn(a.year, a.month, a.mday)
    <3>1. January(a.year) \in Int /\ MonthStart(a.year, a.month) \in Int
      BY <1>3, JanuaryInt DEF MonthStart, kStarts
    <3> QED
      BY <1>2, <1>3, <1>4, <3>1 DEF DayOn
  <2>2. FindsDate(a.year, a.month, a.mday, DayOn(a.year, a.month, a.mday))
    BY <1>3, CivilIs
  <2> QED
    BY <2>1, <2>2 DEF FindsDate
<1>6. WeekdayOf(n) = a.wday
  BY <1>2, <1>4, WeekdayOfIs
<1>7. DaysBeforeMonth(a.year, a.month) + a.mday - 1 = a.yday
  BY <1>3, <1>4, DaysBeforeMonthIs
<1>8. b = [year |-> a.year, month |-> a.month, mday |-> a.mday, wday |-> a.wday,
           yday |-> a.yday, hour |-> mod \div 60, minute |-> mod % 60]
  BY <1>1, <1>5, <1>6, <1>7 DEF Breakdown, OnDay
<1> HIDE DEF b
<1>9. \A k \in DOMAIN a : b[k] = a[k]
  BY <1>3, <1>8
<1>10. b.hour * 60 + b.minute = mod
  BY <1>2, <1>8
<1> QED
  BY <1>9, <1>10 DEF b, mod

\* The fields of a date, as numbers.
LEMMA DateFields ==
  ASSUME NEW a, NEW n, IsDateOf(a, n)
  PROVE  /\ a.year \in Int /\ a.month \in 1 .. 12 /\ a.mday \in 1 .. 31 /\ a.wday \in 0 .. 6
         /\ a.yday \in Nat /\ n \in Int
         /\ MonthStart(a.year, a.month) \in Int /\ January(a.year) \in Int
         /\ LeapDay(a.year) \in {0, 1}
         /\ MonthLength(a.year, a.month) \in 28 .. 31
<1>1. /\ a.year \in Int /\ a.month \in 1 .. 12 /\ a.mday \in 1 .. 31 /\ a.wday \in 0 .. 6
      /\ a.yday \in Nat
  BY DEF IsDateOf, DateSet
<1>2. January(a.year) \in Int /\ LeapDay(a.year) \in {0, 1}
  BY <1>1, JanuaryInt
<1>3. MonthStart(a.year, a.month) \in Int
  BY <1>1, <1>2 DEF MonthStart, kStarts
<1>4. MonthLength(a.year, a.month) \in 28 .. 31
  <2>1. a.month \in {1, 2, 3, 4, 5, 6, 7, 8, 9, 10, 11, 12}
    BY <1>1
  <2> QED
    BY <2>1 DEF MonthLength, kMdays
<1>5. n \in Int
  BY <1>1, <1>2 DEF IsDateOf
<1> QED
  BY <1>1, <1>2, <1>3, <1>4, <1>5

\* The months follow one another.
LEMMA MonthsInARow ==
  ASSUME NEW y \in Int, NEW m \in 1 .. 12
  PROVE  /\ m # 12 => MonthStart(y, m + 1) = MonthStart(y, m) + MonthLength(y, m)
         /\ m = 12 => MonthStart(y, m) + MonthLength(y, m) = 365 + LeapDay(y)
         /\ MonthStart(y, 1) = 0
<1>1. m \in {1, 2, 3, 4, 5, 6, 7, 8, 9, 10, 11, 12} /\ LeapDay(y) \in {0, 1}
  BY JanuaryInt
<1> QED
  BY <1>1 DEF MonthStart, kStarts, MonthLength, kMdays, LeapDay

\* The next date is the date of the next day,
LEMMA NextDateIs ==
  ASSUME NEW a, NEW n, IsDateOf(a, n)
  PROVE  IsDateOf(NextDate(a), n + 1)
<1> DEFINE y == a.year
           m == a.month
           b == NextDate(a)
           len == MonthLength(y, m)
<1>1. /\ y \in Int /\ m \in 1 .. 12 /\ a.mday \in 1 .. 31 /\ a.wday \in 0 .. 6
      /\ a.yday \in Nat /\ n \in Int /\ MonthStart(y, m) \in Int /\ January(y) \in Int
      /\ LeapDay(y) \in {0, 1} /\ len \in 28 .. 31
  BY DateFields
<1>2. /\ a.mday <= len /\ a.yday = MonthStart(y, m) + a.mday - 1 /\ January(y) + a.yday = n
      /\ a.wday = (n + 4) % 7
  BY DEF IsDateOf
<1>3. (a.wday + 1) % 7 = (n + 1 + 4) % 7 /\ (a.wday + 1) % 7 \in 0 .. 6
  BY <1>1, <1>2
<1>4. CASE a.mday # len
  <2>1. b = [year |-> y, month |-> m, mday |-> a.mday + 1, wday |-> (a.wday + 1) % 7,
             yday |-> a.yday + 1]
    BY <1>4 DEF NextDate
  <2>2. /\ a.mday + 1 \in 1 .. 31 /\ a.mday + 1 <= len /\ a.yday + 1 \in Nat
        /\ a.yday + 1 = MonthStart(y, m) + (a.mday + 1) - 1 /\ January(y) + (a.yday + 1) = n + 1
    BY <1>1, <1>2, <1>4
  <2> HIDE DEF b, y, m, len
  <2>3. /\ b.year = y /\ b.month = m /\ b.mday = a.mday + 1 /\ b.wday = (a.wday + 1) % 7
        /\ b.yday = a.yday + 1 /\ b \in DateSet
    BY <1>1, <1>3, <2>1, <2>2 DEF DateSet
  <2>4. IsDateOf(b, n + 1)
    BY <1>3, <2>2, <2>3 DEF IsDateOf, len
  <2> QED
    BY <2>4 DEF b
<1>5. CASE a.mday = len /\ m # 12
  <2>1. b = [year |-> y, month |-> m + 1, mday |-> 1, wday |-> (a.wday + 1) % 7,
             yday |-> a.yday + 1]
    BY <1>5 DEF NextDate
  <2>2. MonthStart(y, m + 1) = MonthStart(y, m) + len
    BY <1>1, <1>5, MonthsInARow
  <2>3. m + 1 \in 1 .. 12 /\ m + 1 \in Int
    BY <1>1, <1>5
  <2>4. MonthLength(y, m + 1) \in 28 .. 31
    <3>1. m + 1 \in {1, 2, 3, 4, 5, 6, 7, 8, 9, 10, 11, 12}
      BY <2>3
    <3> QED
      BY <3>1 DEF MonthLength, kMdays
  <2> HIDE DEF b, y, m, len
  <2>5. /\ 1 <= MonthLength(y, m + 1) /\ a.yday + 1 \in Nat
        /\ a.yday + 1 = MonthStart(y, m + 1) + 1 - 1 /\ January(y) + (a.yday + 1) = n + 1
    BY <1>1, <1>2, <1>5, <2>2, <2>4
  <2>6. /\ b.year = y /\ b.month = m + 1 /\ b.mday = 1 /\ b.wday = (a.wday + 1) % 7
        /\ b.yday = a.yday + 1 /\ b \in DateSet
    BY <1>1, <1>3, <2>1, <2>3, <2>5 DEF DateSet
  <2>7. IsDateOf(b, n + 1)
    BY <1>3, <2>5, <2>6 DEF IsDateOf
  <2> QED
    BY <2>7 DEF b
<1>6. CASE a.mday = len /\ m = 12
  <2>1. b = [year |-> y + 1, month |-> 1, mday |-> 1, wday |-> (a.wday + 1) % 7,
             yday |-> 0]
    BY <1>6 DEF NextDate
  <2>2. MonthStart(y, m) + len = 365 + LeapDay(y) /\ MonthStart(y + 1, 1) = 0
    BY <1>1, <1>6, MonthsInARow
  <2>3. January(y + 1) = January(y) + 365 + LeapDay(y)
    BY <1>1, NextJanuary
  <2>4. MonthLength(y + 1, 1) = 31
    BY DEF MonthLength, kMdays
  <2> HIDE DEF b, y, m, len
  <2>5. January(y + 1) + 0 = n + 1
    BY <1>1, <1>2, <1>6, <2>2, <2>3
  <2>6. /\ b.year = y + 1 /\ b.month = 1 /\ b.mday = 1 /\ b.wday = (a.wday + 1) % 7
        /\ b.yday = 0 /\ b \in DateSet
    BY <1>1, <1>3, <2>1 DEF DateSet
  <2>7. IsDateOf(b, n + 1)
    BY <1>3, <2>2, <2>4, <2>5, <2>6 DEF IsDateOf
  <2> QED
    BY <2>7 DEF b
<1> QED
  BY <1>4, <1>5, <1>6

\* and the date before it that of the day before.
LEMMA PreviousDateIs ==
  ASSUME NEW a, NEW n, IsDateOf(a, n)
  PROVE  IsDateOf(PreviousDate(a), n - 1)
<1> DEFINE y == a.year
           m == a.month
           b == PreviousDate(a)
<1>1. /\ y \in Int /\ m \in 1 .. 12 /\ a.mday \in 1 .. 31 /\ a.wday \in 0 .. 6
      /\ a.yday \in Nat /\ n \in Int /\ MonthStart(y, m) \in Int /\ January(y) \in Int
      /\ LeapDay(y) \in {0, 1} /\ MonthLength(y, m) \in 28 .. 31
  BY DateFields
<1>2. /\ a.mday <= MonthLength(y, m) /\ a.yday = MonthStart(y, m) + a.mday - 1
      /\ January(y) + a.yday = n /\ a.wday = (n + 4) % 7
  BY DEF IsDateOf
<1>3. (a.wday + 6) % 7 = (n - 1 + 4) % 7 /\ (a.wday + 6) % 7 \in 0 .. 6
  BY <1>1, <1>2
<1>4. m # 1 => MonthStart(y, m) > 0
  <2>1. m \in {1, 2, 3, 4, 5, 6, 7, 8, 9, 10, 11, 12}
    BY <1>1
  <2> QED
    BY <1>1, <2>1 DEF MonthStart, kStarts
<1>5. CASE a.mday # 1
  <2>1. a.yday # 0 /\ a.yday - 1 \in Nat
    <3>1. m = 1 => MonthStart(y, m) = 0
      BY <1>1, MonthsInARow
    <3> HIDE DEF y, m
    <3> QED
      BY <1>1, <1>2, <1>4, <1>5, <3>1
  <2>2. b = [year |-> y, month |-> m, mday |-> a.mday - 1, wday |-> (a.wday + 6) % 7,
             yday |-> a.yday - 1]
    BY <1>5, <2>1 DEF PreviousDate
  <2> HIDE DEF b, y, m
  <2>3. /\ a.mday - 1 \in 1 .. 31 /\ a.mday - 1 <= MonthLength(y, m)
        /\ a.yday - 1 = MonthStart(y, m) + (a.mday - 1) - 1
        /\ January(y) + (a.yday - 1) = n - 1
    BY <1>1, <1>2, <1>5
  <2>4. /\ b.year = y /\ b.month = m /\ b.mday = a.mday - 1 /\ b.wday = (a.wday + 6) % 7
        /\ b.yday = a.yday - 1 /\ b \in DateSet
    BY <1>1, <1>3, <2>1, <2>2, <2>3 DEF DateSet
  <2>5. IsDateOf(b, n - 1)
    BY <1>3, <2>3, <2>4 DEF IsDateOf
  <2> QED
    BY <2>5 DEF b
<1>6. CASE a.mday = 1 /\ m # 1
  <2> DEFINE k == m - 1
             len == MonthLength(y, k)
  <2>1. k \in 1 .. 12 /\ k # 12 /\ k + 1 = m
    BY <1>1, <1>6
  <2>2. MonthStart(y, m) = MonthStart(y, k) + len /\ MonthStart(y, k) \in Int /\ len \in 28 .. 31
    <3> HIDE DEF k, y
    <3>1. k \in {1, 2, 3, 4, 5, 6, 7, 8, 9, 10, 11, 12}
      BY <2>1
    <3>2. len \in 28 .. 31
      BY <3>1 DEF MonthLength, kMdays
    <3>3. MonthStart(y, k) \in Int
      BY <1>1, <3>1 DEF MonthStart, kStarts
    <3>4. MonthStart(y, k + 1) = MonthStart(y, k) + MonthLength(y, k)
      BY <1>1, <2>1, MonthsInARow
    <3> QED
      BY <2>1, <3>2, <3>3, <3>4
  <2>3. a.yday # 0 /\ a.yday - 1 \in Nat
    BY <1>1, <1>2, <1>4, <1>6
  <2>4. b = [year |-> y, month |-> k, mday |-> len, wday |-> (a.wday + 6) % 7,
             yday |-> a.yday - 1]
    BY <1>6, <2>3 DEF PreviousDate
  <2> HIDE DEF b, y, m, k, len
  <2>5. /\ len \in 1 .. 31 /\ a.yday - 1 = MonthStart(y, k) + len - 1
        /\ January(y) + (a.yday - 1) = n - 1
    BY <1>1, <1>2, <1>6, <2>2
  <2>6. /\ b.year = y /\ b.month = k /\ b.mday = len /\ b.wday = (a.wday + 6) % 7
        /\ b.yday = a.yday - 1 /\ b \in DateSet
    BY <1>1, <1>3, <2>1, <2>3, <2>4, <2>5 DEF DateSet
  <2>7. len <= MonthLength(y, k)
    BY <2>2 DEF len
  <2>8. IsDateOf(b, n - 1)
    BY <1>3, <2>5, <2>6, <2>7 DEF IsDateOf
  <2> QED
    BY <2>8 DEF b
<1>7. CASE a.mday = 1 /\ m = 1
  <2> DEFINE x == y - 1
             last == IF IsLeap(x) THEN 365 ELSE 364
  <2>1. x \in Int /\ x + 1 = y
    BY <1>1
  <2>2. a.yday = 0
    <3>1. MonthStart(y, 1) = 0
      BY <1>1, MonthsInARow
    <3> QED
      BY <1>2, <1>7, <3>1
  <2>3. b = [year |-> x, month |-> 12, mday |-> 31, wday |-> (a.wday + 6) % 7, yday |-> last]
    BY <1>7, <2>2 DEF PreviousDate, MonthLength, kMdays
  <2>4. MonthLength(x, 12) = 31
    BY DEF MonthLength, kMdays
  <2>5. MonthStart(x, 12) + 31 = 365 + LeapDay(x) /\ LeapDay(x) \in {0, 1}
        /\ last = 364 + LeapDay(x)
    <3> HIDE DEF x
    <3>1. MonthStart(x, 12) + MonthLength(x, 12) = 365 + LeapDay(x)
      BY <2>1, MonthsInARow
    <3> QED
      BY <2>1, <2>4, <3>1, JanuaryInt DEF LeapDay
  <2>6. January(x + 1) = January(x) + 365 + LeapDay(x) /\ January(x) \in Int
        /\ MonthStart(x, 12) \in Int
    <3> HIDE DEF x
    <3>1. January(x + 1) = January(x) + 365 + LeapDay(x) /\ January(x) \in Int
      BY <2>1, NextJanuary, JanuaryInt
    <3> QED
      BY <2>5, <3>1 DEF MonthStart, kStarts
  <2>7. January(y) = January(x) + 365 + LeapDay(x)
    <3> HIDE DEF x, y
    <3> QED
      BY <2>1, <2>6
  <2> HIDE DEF b, y, m, x, last
  <2>8. /\ last \in Nat /\ last = MonthStart(x, 12) + 31 - 1 /\ January(x) + last = n - 1
    BY <1>1, <1>2, <2>2, <2>5, <2>6, <2>7
  <2>9. /\ b.year = x /\ b.month = 12 /\ b.mday = 31 /\ b.wday = (a.wday + 6) % 7
        /\ b.yday = last /\ b \in DateSet
    BY <1>1, <1>3, <2>1, <2>3, <2>8 DEF DateSet
  <2>10. IsDateOf(b, n - 1)
    BY <1>3, <2>4, <2>8, <2>9 DEF IsDateOf
  <2> QED
    BY <2>10 DEF b
<1> QED
  BY <1>5, <1>6, <1>7

-----------------------------------------------------------------------------
(***************************************************************************)
(* TimeZone: the calendar of the reference, the two searches, and the      *)
(* invariant.                                                              *)
(***************************************************************************)

\* The leap years of an interval, counted out.
LeapYears(lo, hi) == Cardinality({k \in lo .. hi : IsLeap(k)})

\* There are as many as the formula gives.
LEMMA LeapYearsIs ==
  ASSUME NEW lo \in Int, NEW hi \in Int, lo - 1 <= hi
  PROVE  LeapYears(lo, hi) = LeapsTo(hi) - LeapsTo(lo - 1)
<1> DEFINE leaps(i) == {k \in lo .. lo + i - 1 : IsLeap(k)}
           holds(i) == /\ IsFiniteSet(leaps(i))
                       /\ Cardinality(leaps(i)) = LeapsTo(lo + i - 1) - LeapsTo(lo - 1)
           S == {i \in Nat : holds(i)}
<1>1. 0 \in S
  <2>1. leaps(0) = {}
    OBVIOUS
  <2>2. LeapsTo(lo + 0 - 1) = LeapsTo(lo - 1) /\ LeapsTo(lo - 1) \in Int
    BY JanuaryInt
  <2> HIDE DEF leaps
  <2>3. IsFiniteSet(leaps(0)) /\ Cardinality(leaps(0)) = 0
    BY <2>1, FS_EmptySet
  <2> QED
    BY <2>2, <2>3
<1>2. ASSUME NEW i \in S
      PROVE  i + 1 \in S
  <2> DEFINE y == lo + i
             size == Cardinality(leaps(i))
  <2>1. i \in Nat /\ y \in Int /\ IsFiniteSet(leaps(i))
        /\ size = LeapsTo(y - 1) - LeapsTo(lo - 1)
    BY <1>2
  <2>2. y \notin leaps(i)
    OBVIOUS
  <2>3. LeapsTo(y) = LeapsTo(y - 1) + LeapDay(y) /\ LeapsTo(y) \in Int /\ LeapsTo(y - 1) \in Int
        /\ LeapsTo(lo - 1) \in Int
    BY <2>1, OneLeapDay, JanuaryInt
  <2>4. size \in Int
    BY <2>1, <2>3
  <2>5. lo + (i + 1) - 1 = y
    BY <2>1
  <2>6. CASE IsLeap(y)
    <3>1. leaps(i + 1) = leaps(i) \cup {y}
      BY <2>1, <2>6
    <3>2. IsFiniteSet(leaps(i) \cup {y}) /\ Cardinality(leaps(i) \cup {y}) = size + 1
      <4> HIDE DEF leaps
      <4> QED
        BY <2>1, <2>2, FS_AddElement DEF size
    <3>3. LeapDay(y) = 1
      BY <2>6 DEF LeapDay
    <3>4. IsFiniteSet(leaps(i + 1)) /\ Cardinality(leaps(i + 1)) = size + 1
      <4> HIDE DEF leaps, size
      <4> QED
        BY <3>1, <3>2
    <3>5. size + 1 = LeapsTo(y) - LeapsTo(lo - 1)
      <4> HIDE DEF leaps, size, y
      <4> QED
        BY <2>1, <2>3, <2>4, <3>3
    <3>6. holds(i + 1)
      <4> HIDE DEF leaps, size, y
      <4> QED
        BY <2>5, <3>4, <3>5
    <3> HIDE DEF holds
    <3> QED
      BY <2>1, <3>6
  <2>7. CASE ~IsLeap(y)
    <3>1. leaps(i + 1) = leaps(i)
      BY <2>1, <2>7
    <3>2. LeapDay(y) = 0
      BY <2>7 DEF LeapDay
    <3>3. size = LeapsTo(y) - LeapsTo(lo - 1)
      <4> HIDE DEF leaps, size, y
      <4> QED
        BY <2>1, <2>3, <2>4, <3>2
    <3>4. holds(i + 1)
      <4> HIDE DEF leaps, y
      <4> QED
        BY <2>1, <2>5, <3>1, <3>3
    <3> HIDE DEF holds
    <3> QED
      BY <2>1, <3>4
  <2> QED
    BY <2>6, <2>7
<1>3. S = Nat
  <2>1. S \in SUBSET Nat
    OBVIOUS
  <2> HIDE DEF S
  <2> QED
    BY <1>1, <1>2, <2>1, SetInduction
<1>4. PICK n \in Nat : n = hi - lo + 1
  OBVIOUS
<1>5. n \in S
  BY <1>3
<1>6. lo + n - 1 = hi
  BY <1>4
<1> QED
  BY <1>5, <1>6 DEF LeapYears

\* So the reference begins a year on the day the formula does,
LEMMA NewYearIs ==
  ASSUME NEW y \in 1960 .. LastYear + 3
  PROVE  NewYear[y] = January(y)
<1>1. y \in Int /\ LastYear \in Int
  BY DatesExist
<1>2. LeapsTo(1969) = 477 /\ LeapsTo(y - 1) \in Int
  BY <1>1, JanuaryInt DEF LeapsTo
<1>3. CASE y >= 1970
  <2> DEFINE count == Cardinality({k \in 1970 .. y - 1 : IsLeap(k)})
  <2>1. NewYear[y] = 365 * (y - 1970) + count
    BY <1>1, <1>3 DEF NewYear
  <2>2. 1970 \in Int /\ y - 1 \in Int /\ 1970 - 1 <= y - 1
    BY <1>1, <1>3
  <2>3. LeapYears(1970, y - 1) = LeapsTo(y - 1) - LeapsTo(1970 - 1)
    BY <2>2, LeapYearsIs
  <2>4. 1970 - 1 = 1969
    OBVIOUS
  <2>5. count = LeapsTo(y - 1) - LeapsTo(1969)
    BY <2>3, <2>4 DEF LeapYears
  <2> HIDE DEF count
  <2> QED
    BY <1>1, <1>2, <2>1, <2>5 DEF January
<1>4. CASE y < 1970
  <2> DEFINE count == Cardinality({k \in y .. 1969 : IsLeap(k)})
  <2>1. NewYear[y] = 365 * (y - 1970) - count
    BY <1>1, <1>4 DEF NewYear
  <2>2. 1969 \in Int /\ y - 1 <= 1969
    BY <1>1, <1>4
  <2>5. count = LeapsTo(1969) - LeapsTo(y - 1)
    BY <1>1, <2>2, LeapYearsIs DEF LeapYears
  <2> HIDE DEF count
  <2> QED
    BY <1>1, <1>2, <2>1, <2>5 DEF January
<1> QED
  BY <1>1, <1>3, <1>4

\* and its date of a day is the date of that day.
LEMMA FirstDateIs ==
  ASSUME NEW y \in 1960 .. LastYear + 3, NEW m \in 1 .. 12, NEW d \in 1 .. MonthLength(y, m)
  PROVE  DayNumber(y, m, d) \in Int /\ IsDateOf(DateOf(y, m, d), DayNumber(y, m, d))
<1> DEFINE n == DayNumber(y, m, d)
           a == DateOf(y, m, d)
<1>1. y \in Int
  BY DatesExist
<1>2. MonthLength(y, m) \in 28 .. 31
  BY DEF MonthLength, kMdays
<1>3. January(y) \in Int /\ LeapDay(y) \in {0, 1}
  BY <1>1, JanuaryInt
<1>4. MonthStart(y, m) \in Nat /\ d \in 1 .. 31 /\ d <= MonthLength(y, m)
  BY <1>2, <1>3 DEF MonthStart, kStarts
<1>5. DayInYear(y, m, d) = MonthStart(y, m) + d - 1
  BY <1>1, <1>4, DayInYearIs
<1>6. n = January(y) + (MonthStart(y, m) + d - 1)
  BY <1>5, NewYearIs DEF DayNumber
<1>7. n \in Int
  BY <1>3, <1>4, <1>6
<1>8. a = [year |-> y, month |-> m, mday |-> d, yday |-> MonthStart(y, m) + d - 1,
           wday |-> (n + 4) % 7]
  BY <1>5 DEF DateOf
<1> HIDE DEF n, a
<1>9. MonthStart(y, m) + d - 1 \in Nat
  BY <1>4
<1>10. (n + 4) % 7 \in 0 .. 6
  BY <1>7
<1>11. a \in DateSet
  BY <1>1, <1>4, <1>8, <1>9, <1>10 DEF DateSet
<1>12. a.year = y /\ a.month = m /\ a.mday = d /\ a.yday = MonthStart(y, m) + d - 1
       /\ a.wday = (n + 4) % 7
  BY <1>8
<1>13. IsDateOf(a, n)
  BY <1>4, <1>6, <1>11, <1>12 DEF IsDateOf
<1> QED
  BY <1>7, <1>13 DEF a, n

\* Tz_FindByName(): the part searched gets shorter, and has the name if the index does.
LEMMA FindsEntry ==
  ASSUME NEW name
  PROVE  /\ FindByName(name) \in {TZ_ID_INVALID} \cup DOMAIN Index
         /\ FindByName(name) # TZ_ID_INVALID => Index[FindByName(name)] = name
         /\ name \in Names => FindByName(name) # TZ_ID_INVALID
<1> DEFINE n == Cardinality(DOMAIN Index)
           D == (1 .. n) \X (0 .. n - 1)
           body(g) == [s \in D |->
             LET lo  == s[1]
                 hi  == s[2]
                 mid == (lo + hi) \div 2
             IN  IF lo > hi THEN TZ_ID_INVALID
                 ELSE IF name = Index[mid] THEN mid
                      ELSE IF name < Index[mid] THEN g[<<lo, mid - 1>>]
                                                ELSE g[<<mid + 1, hi>>]]
           search == CHOOSE g : g = body(g)
           mid(s) == (s[1] + s[2]) \div 2
           stop == [s \in D |-> s[1] > s[2] \/ name = Index[mid(s)]]
           val == [s \in D |-> IF s[1] > s[2] THEN TZ_ID_INVALID ELSE mid(s)]
           next == [s \in D |-> IF name < Index[mid(s)] THEN <<s[1], mid(s) - 1>>
                                                        ELSE <<mid(s) + 1, s[2]>>]
           size == [s \in D |-> IF s[1] > s[2] THEN 0 ELSE s[2] - s[1] + 1]
           entries == {i \in DOMAIN Index : Index[i] = name}
           ids == {TZ_ID_INVALID} \cup entries
           J == {s \in D : \E i \in s[1] .. s[2] : Index[i] = name}
<1>1. n \in Nat /\ DOMAIN Index = 0 .. n - 1 /\ 0 \in DOMAIN Index /\ Index[0] = UTC
  <2>1. n \in Nat
    BY TimeZoneAssumption, FS_CardinalityType
  <2> QED
    BY <2>1, TimeZoneAssumption
<1> HIDE DEF n
<1>2. ASSUME NEW s \in D
      PROVE  /\ s[1] \in 1 .. n /\ s[2] \in 0 .. n - 1
             /\ s[1] <= s[2] => mid(s) \in s[1] .. s[2]
  BY <1>1
<1>3. ASSUME NEW s \in D, ~stop[s]
      PROVE  /\ next[s] \in D /\ size[next[s]] < size[s]
             /\ s \in J => next[s] \in J
  <2> DEFINE lo == s[1]
             hi == s[2]
             m == mid(s)
  <2>1. lo \in 1 .. n /\ hi \in 0 .. n - 1 /\ lo <= hi /\ m \in lo .. hi
    <3>1. ~(s[1] > s[2])
      <4> HIDE DEF D, J, mid
      <4> QED
        BY <1>3, Zenon
    <3> HIDE DEF stop, mid
    <3> QED
      BY <1>2, <3>1
  <2>2. next[s] = IF name < Index[m] THEN <<lo, m - 1>> ELSE <<m + 1, hi>>
    <3> HIDE DEF D, mid
    <3> QED
      OBVIOUS
  <2>3. size[s] = hi - lo + 1
    BY <2>1
  <2>4. name # Index[m]
    <3> HIDE DEF D, J, mid
    <3> QED
      BY <1>3, Zenon
  <2>5. s \in J => \E i \in lo .. hi : Index[i] = name
    OBVIOUS
  <2> HIDE DEF lo, hi, m, next, mid, stop
  <2>6. <<lo, m - 1>> \in D /\ <<m + 1, hi>> \in D
    BY <1>1, <2>1
  <2>7. size[<<lo, m - 1>>] < hi - lo + 1
    BY <2>1, <2>6
  <2>8. size[<<m + 1, hi>>] < hi - lo + 1
    BY <2>1, <2>6
  <2>9. ASSUME s \in J
        PROVE  next[s] \in J
    <3>1. PICK i \in lo .. hi : Index[i] = name
      BY <2>5, <2>9
    <3>2. i \in DOMAIN Index /\ m \in DOMAIN Index
      BY <1>1, <2>1
    <3>3. Index[i] \in Nat /\ Index[m] \in Nat
      BY <3>2, TimeZoneAssumption DEF Names
    <3>4. (i < m => name < Index[m]) /\ (i > m => name > Index[m])
      <4>1. (i < m => Index[i] < Index[m]) /\ (m < i => Index[m] < Index[i])
        BY <3>2, TimeZoneAssumption
      <4> QED
        BY <2>1, <3>1, <3>3, <4>1
    <3>5. CASE name < Index[m]
      <4>1. i \in lo .. m - 1
        BY <2>1, <3>1, <3>3, <3>4, <3>5
      <4>2. <<lo, m - 1>> \in J
        BY <2>6, <3>1, <4>1
      <4> QED
        BY <2>2, <3>5, <4>2
    <3>6. CASE ~(name < Index[m])
      <4>1. i \in m + 1 .. hi
        BY <2>1, <2>4, <3>1, <3>3, <3>4, <3>6
      <4>2. <<m + 1, hi>> \in J
        BY <2>6, <3>1, <4>1
      <4> QED
        BY <2>2, <3>6, <4>2
    <3> QED
      BY <3>5, <3>6
  <2> HIDE DEF D, J, size
  <2> QED
    BY <2>2, <2>3, <2>6, <2>7, <2>8, <2>9
<1>4. \A s \in D : size[s] \in Nat
  BY <1>2
<1>5. Ends(D, stop, next, size)
  <2> HIDE DEF D, J, stop, next, size
  <2> QED
    BY <1>3, <1>4 DEF Ends
<1>6. ASSUME NEW g
      PROVE  body(g) = [s \in D |-> IF stop[s] THEN val[s] ELSE g[next[s]]]
  <2>1. ASSUME NEW s \in D
        PROVE  body(g)[s] = IF stop[s] THEN val[s] ELSE g[next[s]]
    OBVIOUS
  <2> QED
    BY <2>1
<1>7. \E g : g = body(g)
  <2>1. PICK g : Loops(g, D, stop, val, next)
    <3> HIDE DEF D, stop, val, next, size
    <3> QED
      BY <1>5, LoopExists
  <2> HIDE DEF D, stop, val, next, size, body
  <2> QED
    BY <1>6, <2>1 DEF Loops
<1>8. \A s \in D : search[s] = IF stop[s] THEN val[s] ELSE search[next[s]]
  <2>1. search = body(search)
    <3> HIDE DEF body
    <3> QED
      BY <1>7
  <2> HIDE DEF D, stop, val, next, size, body, search
  <2> QED
    BY <1>6, <2>1
<1>9. ASSUME NEW s \in D, stop[s]
      PROVE  val[s] \in ids /\ (s \in J => val[s] \in entries)
  <2>1. s[1] > s[2] \/ name = Index[mid(s)]
    <3> HIDE DEF D, J, mid
    <3> QED
      BY <1>9, Zenon
  <2>2. val[s] = IF s[1] > s[2] THEN TZ_ID_INVALID ELSE mid(s)
    OBVIOUS
  <2>3. s \in J => s[1] <= s[2]
    BY <1>2
  <2> HIDE DEF stop, val
  <2> QED
    BY <1>1, <1>2, <2>1, <2>2, <2>3
<1>10. \A s \in D : search[s] \in ids
  <2>1. Turns(search, D, stop, val, next)
    <3> HIDE DEF D, stop, val, next, search
    <3> QED
      BY <1>8 DEF Turns
  <2> HIDE DEF D, J, stop, val, next, size, search, ids, entries, body, mid
  <2> QED
    BY ONLY <1>5, <1>9, <2>1, LoopStopsIn
<1>11. \A s \in J : search[s] \in entries
  <2>1. \A s \in J : s \in D
    OBVIOUS
  <2> HIDE DEF D, J, stop, val, next, size, search, ids, entries, body, mid
  <2>2. Turns(search, J, stop, val, next)
    BY <1>8, <2>1 DEF Turns
  <2>3. Ends(J, stop, next, size)
    BY <1>3, <1>4, <2>1 DEF Ends
  <2> QED
    BY ONLY <1>9, <2>1, <2>2, <2>3, LoopStopsIn
<1>12. FindByName(name) = IF name = UTC THEN 0 ELSE search[<<1, n - 1>>]
  BY DEF FindByName, n
<1>13. <<1, n - 1>> \in D
  BY <1>1
<1>14. name \in Names /\ name # UTC => <<1, n - 1>> \in J
  <2> SUFFICES ASSUME name \in Names, name # UTC
               PROVE  <<1, n - 1>> \in J
    OBVIOUS
  <2>1. PICK i \in DOMAIN Index : Index[i] = name
    BY DEF Names
  <2>2. i \in 1 .. n - 1
    BY <1>1, <2>1
  <2> QED
    BY <1>13, <2>1, <2>2
<1>15. TZ_ID_INVALID \notin DOMAIN Index
  BY <1>1 DEF TZ_ID_INVALID
<1> HIDE DEF search, D, J
<1> QED
  BY <1>1, <1>10, <1>11, <1>12, <1>13, <1>14, <1>15

\* The transitions of a table, in order.
InTime(table) ==
    /\ \A i \in DOMAIN table : table[i].at \in Int
    /\ \A i, j \in DOMAIN table : i < j => table[i].at < table[j].at

\* The search of a table ends at one of its transitions, or at none: at the last one past.
LEMMA FindsTransition ==
  ASSUME NEW table, Len(table) \in Nat, DOMAIN table = 1 .. Len(table), NEW u
  PROVE  /\ Found(table, u) \in 0 .. Len(table)
         /\ InTime(table) /\ u \in Int =>
              \A i \in DOMAIN table : table[i].at <= u <=> i <= Found(table, u)
<1> DEFINE n == Len(table)
           D == (1 .. n + 1) \X (0 .. n) \X (0 .. n)
           body(g) == [s \in D |->
             LET lo  == s[1]
                 hi  == s[2]
                 mid == (lo + hi) \div 2
             IN  IF lo > hi THEN s[3]
                 ELSE IF table[mid].at <= u THEN g[<<mid + 1, hi, mid>>]
                      ELSE g[<<lo, mid - 1, s[3]>>]]
           search == CHOOSE g : g = body(g)
           mid(s) == (s[1] + s[2]) \div 2
           stop == [s \in D |-> s[1] > s[2]]
           val == [s \in D |-> s[3]]
           next == [s \in D |-> IF table[mid(s)].at <= u THEN <<mid(s) + 1, s[2], mid(s)>>
                                                         ELSE <<s[1], mid(s) - 1, s[3]>>]
           size == [s \in D |-> IF s[1] > s[2] THEN 0 ELSE s[2] - s[1] + 1]
           around(s) == /\ s[3] = s[1] - 1 /\ s[1] <= s[2] + 1
                        /\ \A i \in 1 .. n : i < s[1] => table[i].at <= u
                        /\ \A i \in 1 .. n : i > s[2] => ~(table[i].at <= u)
           J == {s \in D : around(s)}
           W == 0 .. n
           last == {k \in W : \A i \in 1 .. n : table[i].at <= u <=> i <= k}
<1>1. n \in Nat /\ DOMAIN table = 1 .. n
  OBVIOUS
<1> HIDE DEF n
<1>2. ASSUME NEW s \in D
      PROVE  /\ s[1] \in 1 .. n + 1 /\ s[2] \in 0 .. n /\ s[3] \in 0 .. n
             /\ s[1] <= s[2] => mid(s) \in s[1] .. s[2]
  BY <1>1
<1>3. ASSUME NEW s \in D, ~stop[s]
      PROVE  /\ next[s] \in D /\ size[next[s]] < size[s]
             /\ InTime(table) /\ u \in Int /\ s \in J => next[s] \in J
  <2> DEFINE lo == s[1]
             hi == s[2]
             m == mid(s)
             pos == s[3]
  <2>1. lo \in 1 .. n + 1 /\ hi \in 0 .. n /\ pos \in 0 .. n /\ lo <= hi /\ m \in lo .. hi
    <3>1. ~(s[1] > s[2])
      <4> HIDE DEF D, J, mid
      <4> QED
        BY <1>3, Zenon
    <3> HIDE DEF stop, mid
    <3> QED
      BY <1>2, <3>1
  <2>2. next[s] = IF table[m].at <= u THEN <<m + 1, hi, m>> ELSE <<lo, m - 1, pos>>
    <3> HIDE DEF D, mid
    <3> QED
      OBVIOUS
  <2>3. size[s] = hi - lo + 1
    BY <2>1
  <2>4. s \in J => /\ pos = lo - 1 /\ lo <= hi + 1
                   /\ \A i \in 1 .. n : i < lo => table[i].at <= u
                   /\ \A i \in 1 .. n : i > hi => ~(table[i].at <= u)
    OBVIOUS
  <2> HIDE DEF lo, hi, m, pos, next, mid, stop
  <2>5. <<m + 1, hi, m>> \in D /\ <<lo, m - 1, pos>> \in D
    BY <1>1, <2>1
  <2> HIDE DEF D
  <2>6. size[<<m + 1, hi, m>>] < hi - lo + 1
    BY <2>1, <2>5
  <2>7. size[<<lo, m - 1, pos>>] < hi - lo + 1
    BY <2>1, <2>5
  <2>8. ASSUME InTime(table), u \in Int, s \in J
        PROVE  next[s] \in J
    <3>1. /\ \A i \in 1 .. n : table[i].at \in Int
          /\ \A i, j \in 1 .. n : i < j => table[i].at < table[j].at
      BY <1>1, <2>8 DEF InTime
    <3>2. m \in 1 .. n
      BY <1>1, <2>1
    <3>3. CASE table[m].at <= u
      <4>1. \A i \in 1 .. n : i < m + 1 => table[i].at <= u
        BY <2>8, <3>1, <3>2, <3>3
      <4>2. around(<<m + 1, hi, m>>)
        BY <2>1, <2>4, <2>8, <4>1
      <4> QED
        BY <2>2, <2>5, <3>3, <4>2
    <3>4. CASE ~(table[m].at <= u)
      <4>1. \A i \in 1 .. n : i > m - 1 => ~(table[i].at <= u)
        BY <2>8, <3>1, <3>2, <3>4
      <4>2. around(<<lo, m - 1, pos>>)
        BY <2>1, <2>4, <2>8, <4>1
      <4> QED
        BY <2>2, <2>5, <3>4, <4>2
    <3> QED
      BY <3>3, <3>4
  <2> HIDE DEF size, J
  <2> QED
    BY <2>2, <2>3, <2>5, <2>6, <2>7, <2>8
<1>4. \A s \in D : size[s] \in Nat
  BY <1>2
<1>5. Ends(D, stop, next, size)
  <2> HIDE DEF D, J, stop, next, size
  <2> QED
    BY <1>3, <1>4 DEF Ends
<1>6. ASSUME NEW g
      PROVE  body(g) = [s \in D |-> IF stop[s] THEN val[s] ELSE g[next[s]]]
  <2>1. ASSUME NEW s \in D
        PROVE  body(g)[s] = IF stop[s] THEN val[s] ELSE g[next[s]]
    OBVIOUS
  <2> QED
    BY <2>1
<1>7. \E g : g = body(g)
  <2>1. PICK g : Loops(g, D, stop, val, next)
    <3> HIDE DEF D, stop, val, next, size
    <3> QED
      BY <1>5, LoopExists
  <2> HIDE DEF D, stop, val, next, size, body
  <2> QED
    BY <1>6, <2>1 DEF Loops
<1>8. \A s \in D : search[s] = IF stop[s] THEN val[s] ELSE search[next[s]]
  <2>1. search = body(search)
    <3> HIDE DEF body
    <3> QED
      BY <1>7
  <2> HIDE DEF D, stop, val, next, size, body, search
  <2> QED
    BY <1>6, <2>1
<1>9. ASSUME NEW s \in D, stop[s]
      PROVE  val[s] \in W /\ (s \in J => val[s] \in last)
  <2>1. s[1] > s[2]
    <3> HIDE DEF D, J, mid
    <3> QED
      BY <1>9, Zenon
  <2>2. val[s] = s[3] /\ s[3] \in 0 .. n
    BY <1>2
  <2>3. s \in J => s[3] \in last
    <3> SUFFICES ASSUME s \in J
                 PROVE  s[3] \in last
      OBVIOUS
    <3>1. /\ s[3] = s[1] - 1 /\ s[1] <= s[2] + 1
          /\ \A i \in 1 .. n : i < s[1] => table[i].at <= u
          /\ \A i \in 1 .. n : i > s[2] => ~(table[i].at <= u)
      OBVIOUS
    <3>2. s[1] \in Int /\ s[2] \in Int /\ s[3] \in Int
      BY <1>2
    <3>3. \A i \in 1 .. n : table[i].at <= u <=> i <= s[3]
      <4> HIDE DEF J, D, stop, val, next, size, mid
      <4> QED
        BY <2>1, <3>1, <3>2
    <3> HIDE DEF J, D, stop, val, next, size, mid
    <3> QED
      BY <2>2, <3>3
  <2> HIDE DEF stop, val, J, last
  <2> QED
    BY <2>2, <2>3
<1>10. \A s \in D : search[s] \in W
  <2>1. Turns(search, D, stop, val, next)
    <3> HIDE DEF D, stop, val, next, search
    <3> QED
      BY <1>8 DEF Turns
  <2> HIDE DEF D, J, stop, val, next, size, search, body, mid, W, last, around
  <2> QED
    BY ONLY <1>5, <1>9, <2>1, LoopStopsIn
<1>11. ASSUME InTime(table), u \in Int
       PROVE  \A s \in J : search[s] \in last
  <2>1. \A s \in J : s \in D
    OBVIOUS
  <2> HIDE DEF D, J, stop, val, next, size, search, body, mid, W, last, around
  <2>2. Turns(search, J, stop, val, next)
    BY <1>8, <2>1 DEF Turns
  <2>3. Ends(J, stop, next, size)
    BY <1>3, <1>4, <1>11, <2>1 DEF Ends
  <2> QED
    BY ONLY <1>9, <2>1, <2>2, <2>3, LoopStopsIn
<1>12. Found(table, u) = search[<<1, n, 0>>]
  BY DEF Found, n
<1>13. <<1, n, 0>> \in D /\ <<1, n, 0>> \in J
  <2>1. <<1, n, 0>> \in D
    BY <1>1
  <2>2. around(<<1, n, 0>>)
    BY <1>1
  <2> QED
    BY <2>1, <2>2
<1> HIDE DEF search, D, J
<1>14. search[<<1, n, 0>>] \in 0 .. n
  BY <1>10, <1>13
<1>15. InTime(table) /\ u \in Int =>
         \A i \in DOMAIN table : table[i].at <= u <=> i <= search[<<1, n, 0>>]
  BY <1>1, <1>11, <1>13
<1> QED
  BY <1>12, <1>14, <1>15 DEF n

\* So what a zone's table says, or after it its footer, is an offset within a day.
LEMMA OffsetIsWithinADay ==
  ASSUME NEW z \in Names, NEW u \in Int
  PROVE  TypeAt(Blob[z], u).off \in WithinADay
<1> DEFINE Types == [at : Int, off : WithinADay, isdst : BOOLEAN]
           table == Blob[z].table
           p == ParsePosix(Blob[z].footer)
<1>1. /\ table \in Seq(Types)
      /\ p.std \in WithinADay
      /\ p.hasDst => p.dst \in WithinADay
  BY OffsetsWithinADay
<1>2. Len(table) > 0
  BY TimeZoneAssumption
<1> HIDE DEF p
<1>3. PosixResolve(p, u).off \in WithinADay
  <2> DEFINE past == {c \in Candidates(p, u) : c.at <= u}
  <2> HIDE DEF past
  <2>1. OffsetAfter(p, past).off \in WithinADay
    BY <1>1 DEF OffsetAfter
  <2> QED
    BY <2>1 DEF PosixResolve, past
<1>4. TableType(table, u).off \in WithinADay
  <2> HIDE DEF table
  <2> DEFINE i == Larger(Found(table, u), 1)
  <2>1. Len(table) \in Nat
    BY <1>1
  <2>2. Found(table, u) \in 0 .. Len(table)
    BY <2>1, FindsTransition
  <2>3. i \in 1 .. Len(table)
    BY <1>2, <2>1, <2>2 DEF Larger
  <2>4. table[i] \in Types
    <3> HIDE DEF i, Types
    <3> QED
      BY <1>1, <2>3
  <2>5. table[i].off \in WithinADay
    BY <2>4
  <2> QED
    BY <2>5 DEF TableType
<1> QED
  BY <1>3, <1>4 DEF TypeAt, p

\* The almanac has the date of the instant shown, and the wall clock is that instant's,
\* carried less than a day away.
CalendarInv ==
    /\ utc \in Int /\ IsDateOf(almanac, utc \div DAY)
    /\ cache.id \in {TZ_ID_INVALID} \cup DOMAIN Index
    /\ wall # Nothing => wall.off \in WithinADay /\ wall.at = Breakdown(utc + wall.off)

\* It holds when the program starts, on any of the first dates,
LEMMA InitCalendar == ZoneInit => CalendarInv
<1> SUFFICES ASSUME ZoneInit
             PROVE  CalendarInv
  OBVIOUS
<1>1. PICK d \in FirstDates : /\ utc = DayNumber(d[1], d[2], d[3]) * DAY
                              /\ almanac = DateOf(d[1], d[2], d[3])
  BY DEF ZoneInit
<1> DEFINE n == DayNumber(d[1], d[2], d[3])
<1>2. n \in Int /\ IsDateOf(almanac, n)
  BY <1>1, DatesExist, FirstDateIs
<1>3. utc \in Int /\ utc \div DAY = n
  <2> HIDE DEF n
  <2> QED
    BY <1>1, <1>2 DEF n, DAY
<1>4. cache.id \in {TZ_ID_INVALID} \cup DOMAIN Index
  <2>1. PICK z \in Wanted : cache = IF FindByName(z) = TZ_ID_INVALID THEN NoCache
                                    ELSE [name |-> z, id |-> FindByName(z)]
    BY DEF ZoneInit
  <2>2. FindByName(z) \in {TZ_ID_INVALID} \cup DOMAIN Index
    BY FindsEntry
  <2> QED
    BY <2>1, <2>2 DEF NoCache
<1>5. wall = Nothing
  BY DEF ZoneInit
<1> HIDE DEF n
<1> QED
  BY <1>2, <1>3, <1>4, <1>5 DEF CalendarInv

\* when the face is painted, on the same day or on the next,
LEMMA PaintKeepsCalendar ==
  ASSUME CalendarInv, NEW u \in utc + 1 .. utc + DAY, Paint(u)
  PROVE  CalendarInv'
<1> DEFINE id == Resolve(tz)
           n == utc \div DAY
<1>1. utc \in Int /\ u \in Int /\ n \in Int /\ IsDateOf(almanac, n) /\ utc' = u
  BY DEF CalendarInv, Paint, DAY
<1>2. IsDateOf(almanac', u \div DAY)
  <2>1. IsDateOf(NextDate(almanac), n + 1)
    BY <1>1, NextDateIs
  <2>2. u \div DAY \in {n, n + 1} /\ almanac' = IF u \div DAY = n THEN almanac ELSE NextDate(almanac)
    BY DEF Paint
  <2> HIDE DEF n
  <2> QED
    BY <1>1, <2>1, <2>2
<1>3. id \in {TZ_ID_INVALID} \cup DOMAIN Index
  <2>1. FindByName(tz) \in {TZ_ID_INVALID} \cup DOMAIN Index
    BY FindsEntry
  <2> QED
    BY <2>1 DEF Resolve, CalendarInv
<1>4. cache'.id \in {TZ_ID_INVALID} \cup DOMAIN Index
  <2>1. cache' = Remembered(tz, id)
    BY DEF Paint
  <2> HIDE DEF id
  <2> QED
    BY <1>3, <2>1 DEF Remembered, CalendarInv
<1>5. ASSUME wall' # Nothing
      PROVE  wall'.off \in WithinADay /\ wall'.at = Breakdown(u + wall'.off)
  <2> DEFINE t == TypeAt(Blob[Index[id]], u)
  <2>1. id # TZ_ID_INVALID /\ wall' = LocalFromUtc(id, u)
    BY <1>5 DEF Paint
  <2>2. Index[id] \in Names
    BY <1>3, <2>1 DEF Names
  <2>3. t.off \in WithinADay
    BY <1>1, <2>2, OffsetIsWithinADay
  <2>4. wall' = WithDate(t, u)
    BY <2>1 DEF LocalFromUtc, TzifResolve
  <2> HIDE DEF t
  <2> QED
    BY <2>3, <2>4 DEF WithDate
<1> QED
  BY <1>1, <1>2, <1>4, <1>5 DEF CalendarInv

\* and after every step.
LEMMA StepKeepsCalendar == CalendarInv /\ [ZoneNext]_zoneVars => CalendarInv'
<1> SUFFICES ASSUME CalendarInv, [ZoneNext]_zoneVars
             PROVE  CalendarInv'
  OBVIOUS
<1>1. ASSUME NEW u \in utc + 1 .. utc + DAY, Paint(u)
      PROVE  CalendarInv'
  BY <1>1, PaintKeepsCalendar
<1>2. CASE (\E z \in Names : ChooseZone(z)) \/ UNCHANGED zoneVars
  <2>1. UNCHANGED <<cache, utc, wall, almanac>>
    BY <1>2 DEF ChooseZone, zoneVars
  <2> QED
    BY <2>1 DEF CalendarInv
<1> QED
  BY <1>1, <1>2 DEF ZoneNext

\* The day of the wall clock is the one that the calendar gives.
LEMMA CalendarIsKept == CalendarInv => FaceKeepsCalendar
<1> SUFFICES ASSUME CalendarInv, wall # Nothing
             PROVE  FaceKeepsCalendar
  BY DEF FaceKeepsCalendar
<1> DEFINE n == utc \div DAY
           off == wall.off
           mod == (utc % DAY) + off
           local == utc + off
           today == CASE mod < 0    -> PreviousDate(almanac)
                      [] mod >= DAY -> NextDate(almanac)
                      [] OTHER      -> almanac
<1>1. /\ utc \in Int /\ n \in Int /\ IsDateOf(almanac, n)
      /\ off \in WithinADay /\ wall.at = Breakdown(local)
  BY DEF CalendarInv, DAY
<1>2. local \in Int /\ mod \in Int /\ off \in Int
  <2> HIDE DEF off, n
  <2>1. off \in Int
    BY <1>1 DEF WithinADay, DAY
  <2>2. utc % DAY \in Int
    BY <1>1 DEF DAY
  <2> QED
    BY <1>1, <2>1, <2>2
<1>3. /\ local % DAY = mod % DAY
      /\ local \div DAY = IF mod < 0 THEN n - 1 ELSE IF mod >= DAY THEN n + 1 ELSE n
  <2> HIDE DEF off
  <2> QED
    BY <1>1, <1>2 DEF WithinADay, DAY
<1>4. IsDateOf(PreviousDate(almanac), n - 1) /\ IsDateOf(NextDate(almanac), n + 1)
  BY <1>1, PreviousDateIs, NextDateIs
<1>5. IsDateOf(today, local \div DAY)
  <2> HIDE DEF off, mod, local, n
  <2>1. CASE mod < 0
    <3>1. today = PreviousDate(almanac) /\ local \div DAY = n - 1
      BY <1>2, <1>3, <2>1 DEF DAY
    <3> QED
      BY <1>4, <3>1
  <2>2. CASE mod >= DAY
    <3>1. today = NextDate(almanac) /\ local \div DAY = n + 1
      BY <1>2, <1>3, <2>2 DEF DAY
    <3> QED
      BY <1>4, <3>1
  <2>3. CASE ~(mod < 0) /\ ~(mod >= DAY)
    <3>1. today = almanac /\ local \div DAY = n
      BY <1>2, <1>3, <2>3
    <3> QED
      BY <1>1, <3>1
  <2> QED
    BY <2>1, <2>2, <2>3
<1> HIDE DEF today, local
<1>6. LET b == Breakdown(local)
      IN  /\ \A k \in DOMAIN today : b[k] = today[k]
          /\ b.hour * 60 + b.minute = local % DAY
  BY <1>2, <1>5, BreakdownIs
<1> QED
  BY <1>1, <1>3, <1>6 DEF FaceKeepsCalendar, today

\* tzif_resolve, breakdown: whichever zone is chosen, the face shows the date and the time of
\* day that a calendar counted out day by day has at the zone's offset, for any table and
\* footer with offsets within a day, and with no bound on how long the program runs.
THEOREM FaceShowsTheDate == ZoneSpec => []FaceKeepsCalendar
  BY InitCalendar, StepKeepsCalendar, CalendarIsKept, PTL DEF ZoneSpec

-----------------------------------------------------------------------------
(***************************************************************************)
(* The day and the minute a rule Mm.w.d strikes at: rule_local_sec() and the*)
(* reference agree.                                                        *)
(***************************************************************************)

\* The days of a month of len days, the first of which is day first, that are a weekday d.
DaysOn(first, d, len) == {e \in 1 .. len : (first + e + 3) % 7 = d}

\* How many days after the first the first of them comes.
FirstOn(first, d) == (d - ((first + 4) % 7) + 7) % 7

\* It comes within the first week.
LEMMA FirstOnIs ==
  ASSUME NEW first \in Int, NEW d \in 0 .. 6
  PROVE  FirstOn(first, d) \in 0 .. 6
  BY DEF FirstOn

\* The others come a week later each.
LEMMA DaysOnAre ==
  ASSUME NEW first \in Int, NEW d \in 0 .. 6, NEW len \in 28 .. 31,
         NEW o, o = FirstOn(first, d)
  PROVE  DaysOn(first, d, len)
           = {o + 1, o + 8, o + 15, o + 22} \cup (IF o + 29 <= len THEN {o + 29} ELSE {})
<1> DEFINE S == {o + 1, o + 8, o + 15, o + 22} \cup (IF o + 29 <= len THEN {o + 29} ELSE {})
<1>1. o \in 0 .. 6
  BY FirstOnIs
<1>2. ASSUME NEW e \in 1 .. len
      PROVE  (first + e + 3) % 7 = d <=> e \in {o + 1, o + 8, o + 15, o + 22, o + 29}
  BY <1>1 DEF FirstOn
<1>3. S \subseteq 1 .. len
  BY <1>1
<1>4. ASSUME NEW e \in 1 .. len
      PROVE  e \in S <=> e \in {o + 1, o + 8, o + 15, o + 22, o + 29}
  BY <1>1
<1>5. DaysOn(first, d, len) = S
  <2> HIDE DEF S
  <2> QED
    BY <1>2, <1>3, <1>4 DEF DaysOn
<1> QED
  BY <1>5

\* Of five numbers in order and a set of the first four or of all, how many are up to which.
InOrder(a, b, c, d, e) ==
    /\ a \in Int /\ b \in Int /\ c \in Int /\ d \in Int /\ e \in Int
    /\ a < b /\ b < c /\ c < d /\ d < e

FirstFour(S, a, b, c, d, e) ==
    /\ S \in SUBSET Int /\ a \in S /\ b \in S /\ c \in S /\ d \in S
    /\ \A k \in S : k = a \/ k = b \/ k = c \/ k = d \/ k = e

Rank(S, x) == Cardinality({k \in S : k <= x})

\* They are the first, the second and so on.
LEMMA Ranks ==
  ASSUME NEW a, NEW b, NEW c, NEW d, NEW e, NEW S,
         InOrder(a, b, c, d, e), FirstFour(S, a, b, c, d, e)
  PROVE  /\ Rank(S, a) = 1 /\ Rank(S, b) = 2 /\ Rank(S, c) = 3 /\ Rank(S, d) = 4
         /\ e \in S => Rank(S, e) = 5
<1> DEFINE below(x) == {k \in S : k <= x}
<1>1. /\ a \in Int /\ b \in Int /\ c \in Int /\ d \in Int /\ e \in Int
      /\ a < b /\ b < c /\ c < d /\ d < e
      /\ S \in SUBSET Int /\ a \in S /\ b \in S /\ c \in S /\ d \in S
      /\ \A k \in S : k = a \/ k = b \/ k = c \/ k = d \/ k = e
  BY DEF InOrder, FirstFour
<1>2. ASSUME NEW k \in S
      PROVE  /\ (k <= a) <=> k = a
             /\ (k <= b) <=> (k <= a \/ k = b)
             /\ (k <= c) <=> (k <= b \/ k = c)
             /\ (k <= d) <=> (k <= c \/ k = d)
             /\ (k <= e) <=> (k <= d \/ k = e)
  <2>1. k \in Int /\ (k = a \/ k = b \/ k = c \/ k = d \/ k = e)
    BY <1>1
  <2> QED
    BY <1>1, <2>1
<1>3. IsFiniteSet(below(a)) /\ Cardinality(below(a)) = 1
  <2>1. below(a) = {a}
    BY <1>1, <1>2
  <2> HIDE DEF below
  <2> QED
    BY ONLY <2>1, FS_Singleton
<1>4. IsFiniteSet(below(b)) /\ Cardinality(below(b)) = 2
  <2>1. b \notin below(a) /\ b \in S
    BY <1>1
  <2>2. below(b) = below(a) \cup {b}
    BY ONLY <1>2, <2>1, Zenon
  <2> HIDE DEF below
  <2> QED
    BY <1>3, <2>1, <2>2, FS_AddElement
<1>5. IsFiniteSet(below(c)) /\ Cardinality(below(c)) = 3
  <2>1. c \notin below(b) /\ c \in S
    BY <1>1
  <2>2. below(c) = below(b) \cup {c}
    BY ONLY <1>2, <2>1, Zenon
  <2> HIDE DEF below
  <2> QED
    BY <1>4, <2>1, <2>2, FS_AddElement
<1>6. IsFiniteSet(below(d)) /\ Cardinality(below(d)) = 4
  <2>1. d \notin below(c) /\ d \in S
    BY <1>1
  <2>2. below(d) = below(c) \cup {d}
    BY ONLY <1>2, <2>1, Zenon
  <2> HIDE DEF below
  <2> QED
    BY <1>5, <2>1, <2>2, FS_AddElement
<1>7. ASSUME e \in S
      PROVE  Cardinality(below(e)) = 5
  <2>1. e \notin below(d) /\ e \in S
    BY <1>1, <1>7
  <2>2. below(e) = below(d) \cup {e}
    BY ONLY <1>2, <2>1, Zenon
  <2> HIDE DEF below
  <2> QED
    BY <1>6, <2>1, <2>2, FS_AddElement
<1> QED
  BY <1>3, <1>4, <1>5, <1>6, <1>7 DEF Rank

\* The w-th of these days, or the last for w = 5, when the first is day o + 1.
WeekdayInMonth(o, w, len) == IF w = 5 /\ o + 29 > len THEN o + 22 ELSE o + 1 + 7 * (w - 1)

\* The reference picks that day.
LEMMA RuleDayIs ==
  ASSUME NEW y \in 1960 .. LastYear + 3, NEW r \in RuleText,
         NEW o, o = FirstOn(DayNumber(y, r.m, 1), r.d)
  PROVE  RuleDay(r, y) = WeekdayInMonth(o, r.w, MonthLength(y, r.m))
<1> DEFINE first == DayNumber(y, r.m, 1)
           len == MonthLength(y, r.m)
           days == {e \in 1 .. len : (first + e + 3) % 7 = r.d}
           rest == IF o + 29 <= len THEN {o + 29} ELSE {}
           nth == WeekdayInMonth(o, r.w, len)
<1>1. r.m \in 1 .. 12 /\ r.w \in 1 .. 5 /\ r.d \in 0 .. 6
  BY DEF RuleText
<1>2. len \in 28 .. 31 /\ 1 \in 1 .. len
  BY <1>1 DEF MonthLength, kMdays
<1>3. first \in Int
  BY <1>1, <1>2, FirstDateIs
<1>4. o \in 0 .. 6
  BY <1>1, <1>3, FirstOnIs
<1>5. days = {o + 1, o + 8, o + 15, o + 22} \cup rest
  <2>1. o = FirstOn(first, r.d)
    OBVIOUS
  <2> HIDE DEF first, len
  <2>2. DaysOn(first, r.d, len) = {o + 1, o + 8, o + 15, o + 22} \cup rest
    BY <1>1, <1>2, <1>3, <2>1, DaysOnAre
  <2> HIDE DEF rest
  <2> QED
    BY <2>2 DEF DaysOn
<1>6. RuleDay(r, y) = IF r.w = 5 THEN Max(days) ELSE CHOOSE e \in days : Rank(days, e) = r.w
  BY DEF RuleDay, Rank
<1> HIDE DEF first, len, days
<1>7. CASE r.w = 5
  <2>1. nth \in days /\ \A e \in days : nth >= e
    <3>1. nth = IF o + 29 <= len THEN o + 29 ELSE o + 22
      BY <1>2, <1>4, <1>7 DEF WeekdayInMonth
    <3> HIDE DEF nth
    <3> QED
      BY <1>2, <1>4, <1>5, <3>1
  <2>2. days \subseteq Int
    BY <1>2, <1>4, <1>5
  <2>3. Max(days) = nth
    <3> HIDE DEF nth
    <3>1. ASSUME NEW e \in days, \A k \in days : e >= k
          PROVE  e = nth
      BY <2>1, <2>2, <3>1
    <3> QED
      BY <2>1, <3>1 DEF Max
  <2> QED
    BY <1>6, <1>7, <2>3 DEF len
<1>8. CASE r.w # 5
  <2> DEFINE a == o + 1
             b == o + 8
             c == o + 15
             d == o + 22
             e5 == o + 29
  <2>1. a \in Int /\ b \in Int /\ c \in Int /\ d \in Int /\ e5 \in Int
        /\ a < b /\ b < c /\ c < d /\ d < e5
    BY <1>4
  <2>2. rest \subseteq {e5} /\ days = {a, b, c, d} \cup rest
    BY <1>5
  <2> HIDE DEF a, b, c, d, e5, rest
  <2>3. InOrder(a, b, c, d, e5) /\ FirstFour(days, a, b, c, d, e5)
    BY <2>1, <2>2 DEF InOrder, FirstFour
  <2>4. /\ Rank(days, a) = 1 /\ Rank(days, b) = 2 /\ Rank(days, c) = 3 /\ Rank(days, d) = 4
        /\ e5 \in days => Rank(days, e5) = 5
    BY <2>3, Ranks
  <2>5. nth = IF r.w = 1 THEN a ELSE IF r.w = 2 THEN b ELSE IF r.w = 3 THEN c ELSE d
    BY <1>1, <1>4, <1>8 DEF WeekdayInMonth, a, b, c, d
  <2>6. nth \in days /\ Rank(days, nth) = r.w
    <3> HIDE DEF nth
    <3> QED
      BY <1>1, <1>8, <2>2, <2>4, <2>5
  <2>7. ASSUME NEW e \in days, Rank(days, e) = r.w
        PROVE  e = nth
    <3>1. e \in {a, b, c, d, e5}
      BY <2>2
    <3> HIDE DEF nth
    <3> QED
      BY <1>1, <1>8, <2>4, <2>5, <2>7, <3>1
  <2>8. (CHOOSE e \in days : Rank(days, e) = r.w) = nth
    <3> HIDE DEF nth
    <3> QED
      BY <2>6, <2>7
  <2> QED
    BY <1>6, <1>8, <2>8 DEF len
<1> QED
  BY <1>7, <1>8

\* The day that month m of year y begins on.
MonthBegins(y, m) == January(y) + MonthStart(y, m)

\* It is a number, whatever the year.
LEMMA MonthBeginsInt ==
  ASSUME NEW y \in Int, NEW m \in 1 .. 12
  PROVE  MonthBegins(y, m) \in Int /\ MonthStart(y, m) \in Nat /\ MonthLength(y, m) \in 28 .. 31
<1>1. January(y) \in Int /\ LeapDay(y) \in {0, 1}
  BY JanuaryInt
<1>2. MonthStart(y, m) \in Nat
  BY <1>1 DEF MonthStart, kStarts
<1>3. MonthLength(y, m) \in 28 .. 31
  BY DEF MonthLength, kMdays
<1> QED
  BY <1>1, <1>2, <1>3 DEF MonthBegins

\* The reference counts the days of its almanac from there.
LEMMA DayNumberIs ==
  ASSUME NEW y \in Int, y \in 1960 .. LastYear + 3, NEW m \in 1 .. 12, NEW d \in Int
  PROVE  DayNumber(y, m, d) = MonthBegins(y, m) + d - 1
<1>1. DayInYear(y, m, d) = MonthStart(y, m) + d - 1
  BY DayInYearIs
<1>2. NewYear[y] = January(y)
  BY NewYearIs
<1>3. MonthStart(y, m) \in Nat
  BY ONLY MonthBeginsInt, y \in Int, m \in 1 .. 12
<1>4. January(y) \in Int
  BY JanuaryInt
<1> QED
  BY <1>1, <1>2, <1>3, <1>4 DEF DayNumber, MonthBegins

\* The time of a rule, in minutes.
RuleTime(r) == IF r.time = <<>> THEN 120 ELSE ParsePosixOffset(r.time)

\* When it strikes, on the wall clock.
StrikeDay(r, y) ==
    LET first == MonthBegins(y, r.m)
    IN  first + WeekdayInMonth(FirstOn(first, r.d), r.w, MonthLength(y, r.m)) - 1

\* rule_local_sec() computes that of a rule as written.
LEMMA RuleLocalIs ==
  ASSUME NEW y \in Int, NEW r \in RuleText
  PROVE  RuleLocal(ParseRule(r), y) = StrikeDay(r, y) * DAY + RuleTime(r)
<1> DEFINE p == ParseRule(r)
           first == MonthBegins(y, r.m)
           len == MonthLength(y, r.m)
           o == FirstOn(first, r.d)
           occur == ((r.d - WeekdayOf(first) + 7) % 7) + (r.w - 1) * 7
           dayNum == IF occur >= len THEN occur - 7 ELSE occur
<1>1. r.m \in 1 .. 12 /\ r.w \in 1 .. 5 /\ r.d \in 0 .. 6
  BY DEF RuleText
<1>2. p.m = r.m /\ p.w = r.w /\ p.d = r.d /\ p.time = RuleTime(r)
  BY <1>1 DEF ParseRule, RuleTime
<1>3. first \in Int /\ len \in 28 .. 31
  BY <1>1, MonthBeginsInt
<1>4. DaysBeforeYear(y) + DaysBeforeMonth(y, p.m) = first
  BY <1>1, <1>2, DaysBeforeYearIs, DaysBeforeMonthIs DEF MonthBegins
<1>5. kMdays[p.m] + (IF p.m = 2 /\ IsLeap(y) THEN 1 ELSE 0) = len
  BY <1>1, <1>2 DEF MonthLength, kMdays
<1>6. RuleLocal(p, y) = (first + dayNum) * DAY + RuleTime(r)
  <2> HIDE DEF p, first, len
  <2> QED
    BY <1>2, <1>4, <1>5 DEF RuleLocal
<1>7. o \in 0 .. 6 /\ occur = o + (r.w - 1) * 7
  <2> HIDE DEF first
  <2> QED
    BY <1>1, <1>3, WeekdayOfIs, FirstOnIs DEF FirstOn
<1>8. dayNum = WeekdayInMonth(o, r.w, len) - 1
  <2> HIDE DEF o, occur, len
  <2> QED
    BY <1>1, <1>3, <1>7 DEF WeekdayInMonth
<1>9. first + dayNum = StrikeDay(r, y)
  <2>1. StrikeDay(r, y) = first + WeekdayInMonth(o, r.w, len) - 1
    BY DEF StrikeDay
  <2>2. WeekdayInMonth(o, r.w, len) \in Int
    <3> HIDE DEF o, len
    <3> QED
      BY <1>1, <1>3, <1>7 DEF WeekdayInMonth
  <2> HIDE DEF o, len, first, dayNum
  <2> QED
    BY <1>3, <1>8, <2>1, <2>2
<1> QED
  BY <1>6, <1>9

\* Where a rule strikes: within its month, or hours off it.
LEMMA StrikeDayIs ==
  ASSUME NEW y \in Int, NEW r \in RuleText
  PROVE  /\ StrikeDay(r, y) \in Int
         /\ MonthBegins(y, r.m) <= StrikeDay(r, y)
         /\ StrikeDay(r, y) < MonthBegins(y, r.m) + MonthLength(y, r.m)
<1> DEFINE first == MonthBegins(y, r.m)
           len == MonthLength(y, r.m)
           o == FirstOn(first, r.d)
<1>1. r.m \in 1 .. 12 /\ r.w \in 1 .. 5 /\ r.d \in 0 .. 6
  BY DEF RuleText
<1>2. first \in Int /\ len \in 28 .. 31
  BY <1>1, MonthBeginsInt
<1>3. o \in 0 .. 6
  BY <1>1, <1>2, FirstOnIs
<1>4. StrikeDay(r, y) = first + WeekdayInMonth(o, r.w, len) - 1
  BY DEF StrikeDay
<1> HIDE DEF first, len, o
<1>5. WeekdayInMonth(o, r.w, len) \in 1 .. len
  BY <1>1, <1>2, <1>3 DEF WeekdayInMonth
<1> QED
  BY <1>2, <1>4, <1>5 DEF first, len

\* An hour of a rule that the clamp leaves alone is the hour written.
LEMMA TimeIs ==
  ASSUME NEW t \in OffsetText(167), t[2] <= 24
  PROVE  /\ ParsePosixOffset(t) = Written(t)
         /\ Written(t) \in Int /\ -1500 < Written(t) /\ Written(t) < 1500
<1>1. t[1] \in {-1, 1} /\ t[2] \in 0 .. 24 /\ t[3] \in 0 .. 59
  BY DEF OffsetText
<1>2. Smaller(t[2], 24) = t[2] /\ Smaller(t[3], 59) = t[3]
  BY <1>1 DEF Smaller
<1>3. ParsePosixOffset(t) = Written(t)
  BY <1>2 DEF ParsePosixOffset, Written
<1>4. t[2] * 60 + t[3] \in 0 .. 1499
  BY ONLY <1>1, SMTT(30)
<1>5. Written(t) \in Int /\ -1500 < Written(t) /\ Written(t) < 1500
  <2>1. CASE t[1] = 1
    BY ONLY <1>4, <2>1, SMTT(30) DEF Written
  <2>2. CASE t[1] = -1
    <3> DEFINE x == t[2] * 60 + t[3]
    <3>1. x \in 0 .. 1499
      BY ONLY <1>4, SMTT(30)
    <3>2. Written(t) = t[1] * x
      BY DEF Written
    <3> HIDE DEF x
    <3>3. Written(t) = -x
      BY ONLY <2>2, <3>1, <3>2
    <3> QED
      BY ONLY <3>1, <3>3
  <2> QED
    BY <1>1, <2>1, <2>2
<1> QED
  BY <1>3, <1>5

\* A rule whose hour the clamp leaves alone strikes when the reference says.
LEMMA RuleStrikesIs ==
  ASSUME NEW y \in Int, y \in 1960 .. LastYear + 3, NEW r \in RuleText,
         r.time = <<>> \/ r.time[2] <= 24, NEW off
  PROVE  RuleStrikes(r, y, off) = StrikeDay(r, y) * DAY + RuleTime(r) - off
<1> DEFINE first == MonthBegins(y, r.m)
           len == MonthLength(y, r.m)
           o == FirstOn(first, r.d)
           e == WeekdayInMonth(o, r.w, len)
<1>1. r.m \in 1 .. 12 /\ r.w \in 1 .. 5 /\ r.d \in 0 .. 6 /\ r.time \in {<<>>} \cup OffsetText(167)
  BY DEF RuleText
<1>2. first \in Int /\ len \in 28 .. 31
  BY ONLY <1>1, y \in Int, MonthBeginsInt
<1>3. DayNumber(y, r.m, 1) = first
  <2>1. PICK m \in 1 .. 12 : m = r.m
    BY <1>1
  <2>2. DayNumber(y, m, 1) = MonthBegins(y, m) + 1 - 1
    BY ONLY DayNumberIs, y \in Int, y \in 1960 .. LastYear + 3, m \in 1 .. 12, 1 \in Int
  <2>3. DayNumber(y, r.m, 1) = first + 1 - 1
    BY <2>1, <2>2
  <2> HIDE DEF first
  <2> QED
    BY <1>2, <2>3
<1>4. RuleDay(r, y) = e
  <2>1. o = FirstOn(DayNumber(y, r.m, 1), r.d)
    BY <1>3
  <2> QED
    BY <2>1, RuleDayIs
<1>5. e \in Int
  <2>1. o \in 0 .. 6
    <3> HIDE DEF first
    <3> QED
      BY <1>1, <1>2, FirstOnIs
  <2> HIDE DEF o, len
  <2> QED
    BY <1>1, <1>2, <2>1 DEF WeekdayInMonth
<1>6. DayNumber(y, r.m, e) = first + e - 1
  <2>1. PICK d \in Int : d = e
    BY <1>5
  <2>2. PICK m \in 1 .. 12 : m = r.m
    BY <1>1
  <2>3. DayNumber(y, m, d) = MonthBegins(y, m) + d - 1
    BY ONLY DayNumberIs, y \in Int, y \in 1960 .. LastYear + 3, m \in 1 .. 12, d \in Int
  <2> HIDE DEF e
  <2> QED
    BY <2>1, <2>2, <2>3
<1>7. StrikeDay(r, y) = first + e - 1
  BY DEF StrikeDay
<1>8. (IF r.time = <<>> THEN 120 ELSE Written(r.time)) = RuleTime(r)
  BY <1>1, TimeIs DEF RuleTime
<1> HIDE DEF first, e
<1> QED
  BY <1>4, <1>6, <1>7, <1>8 DEF RuleStrikes

\* The months from February to November are well within the year.
LEMMA MonthsWithin ==
  ASSUME NEW y \in Int, NEW m \in 2 .. 11
  PROVE  /\ MonthStart(y, m) >= 31 /\ MonthStart(y, m) + MonthLength(y, m) <= 335
         /\ MonthStart(y, m) \in Int /\ MonthLength(y, m) \in Int
<1>1. LeapDay(y) \in {0, 1}
  BY JanuaryInt
<1> QED
  BY <1>1 DEF MonthStart, kStarts, MonthLength, kMdays, LeapDay

\* Months that are not next to one another have four weeks between them.
LEMMA MonthsApart ==
  ASSUME NEW y \in Int, NEW m \in 1 .. 12, NEW k \in 1 .. 12, m + 2 <= k
  PROVE  MonthStart(y, m) + MonthLength(y, m) + 28 <= MonthStart(y, k)
<1>1. LeapDay(y) \in {0, 1}
  BY JanuaryInt
<1>2. m \in 1 .. 10 /\ k \in 3 .. 12 /\ kStarts[m + 2] <= kStarts[k]
  BY DEF kStarts
<1>3. /\ kStarts[m] \in Int /\ kStarts[k] \in Int /\ kStarts[m + 2] \in Int
      /\ kStarts[m] + kMdays[m] + 28 <= kStarts[m + 2]
      /\ m = 1 => kStarts[m + 2] = 59
      /\ m = 2 => kStarts[m + 2] = 90
  BY <1>2 DEF kStarts, kMdays
<1>4. kMdays[m] \in Int /\ kMdays[2] = 28 /\ kStarts[1] = 0 /\ kStarts[2] = 31
  BY DEF kMdays, kStarts
<1>5. MonthStart(y, k) = kStarts[k] + LeapDay(y)
  BY <1>2 DEF MonthStart
<1>6. CASE m = 2
  BY <1>1, <1>2, <1>3, <1>4, <1>5, <1>6 DEF MonthStart, MonthLength, LeapDay
<1>7. CASE m # 2
  <2>1. MonthLength(y, m) = kMdays[m]
    BY <1>7 DEF MonthLength
  <2>2. MonthStart(y, m) <= kStarts[m] + LeapDay(y) /\ MonthStart(y, m) \in Int
    BY <1>1, <1>3 DEF MonthStart
  <2> QED
    BY <1>1, <1>2, <1>3, <1>4, <1>5, <2>1, <2>2
<1> QED
  BY <1>6, <1>7

\* So is the time of a rule.
LEMMA RuleTimeIs ==
  ASSUME NEW r \in RuleText, r.time = <<>> \/ r.time[2] <= 24
  PROVE  RuleTime(r) \in Int /\ -1500 < RuleTime(r) /\ RuleTime(r) < 1500
<1>1. r.time \in {<<>>} \cup OffsetText(167)
  BY DEF RuleText
<1>2. CASE r.time = <<>>
  BY <1>2 DEF RuleTime
<1>3. CASE r.time # <<>>
  <2>1. r.time \in OffsetText(167) /\ r.time[2] <= 24
    BY <1>1, <1>3
  <2> QED
    BY <1>3, <2>1, TimeIs DEF RuleTime
<1> QED
  BY <1>2, <1>3

\* A rule of a footer, as the assumption has them, and the minute it strikes at.
KeepsTime(r) == r \in RuleText /\ r.m \in 2 .. 11 /\ (r.time = <<>> \/ r.time[2] <= 24)
Strikes(r, y, off) == StrikeDay(r, y) * DAY + RuleTime(r) - off

\* It strikes within the year, not near its ends.
LEMMA StrikesInYear ==
  ASSUME NEW y \in Int, NEW r, KeepsTime(r), NEW off \in WithinADay
  PROVE  /\ Strikes(r, y, off) \in Int
         /\ January(y) * DAY < Strikes(r, y, off)
         /\ Strikes(r, y, off) < January(y + 1) * DAY
<1> DEFINE s == StrikeDay(r, y)
           t == RuleTime(r)
           jan == January(y)
           len == MonthLength(y, r.m)
<1>1. r \in RuleText /\ r.m \in 2 .. 11 /\ r.m \in 1 .. 12 /\ (r.time = <<>> \/ r.time[2] <= 24)
  BY DEF KeepsTime
<1>2. t \in Int /\ -1500 < t /\ t < 1500
  BY <1>1, RuleTimeIs
<1>3. jan \in Int /\ LeapDay(y) \in {0, 1}
  BY JanuaryInt
<1>4. /\ MonthStart(y, r.m) \in Int /\ MonthStart(y, r.m) >= 31
      /\ MonthStart(y, r.m) + len <= 335
  BY <1>1, MonthsWithin
<1>5. s \in Int /\ jan + MonthStart(y, r.m) <= s /\ s < jan + MonthStart(y, r.m) + len
  BY <1>1, StrikeDayIs DEF MonthBegins
<1>6. len \in 28 .. 31
  BY ONLY <1>1, y \in Int, MonthBeginsInt
<1>7. January(y + 1) = jan + 365 + LeapDay(y)
  BY NextJanuary
<1> HIDE DEF s, t, jan, len
<1>8. s \in Int /\ jan + 31 <= s /\ s < jan + 335
  BY <1>3, <1>4, <1>5, <1>6
<1>9. off \in Int /\ -1440 < off /\ off < 1440
  BY DEF WithinADay, DAY
<1>10. s * DAY + t - off \in Int /\ jan * DAY < s * DAY + t - off
  BY <1>2, <1>3, <1>8, <1>9 DEF DAY
<1>11. s * DAY + t - off < (jan + 365 + LeapDay(y)) * DAY
  BY <1>2, <1>3, <1>8, <1>9 DEF DAY
<1> QED
  BY <1>7, <1>10, <1>11 DEF Strikes, s, t, jan

\* Two rules that are months apart strike one after the other.
LEMMA StrikeInOrder ==
  ASSUME NEW y \in Int, NEW r, KeepsTime(r), NEW q, KeepsTime(q), r.m + 2 <= q.m,
         NEW off \in WithinADay, NEW gap \in WithinADay
  PROVE  Strikes(r, y, off) < Strikes(q, y, gap)
<1> DEFINE s == StrikeDay(r, y)
           z == StrikeDay(q, y)
           t == RuleTime(r)
           x == RuleTime(q)
           len == MonthLength(y, r.m)
           jan == January(y)
<1>1. /\ r \in RuleText /\ r.m \in 2 .. 11 /\ r.m \in 1 .. 12 /\ (r.time = <<>> \/ r.time[2] <= 24)
      /\ q \in RuleText /\ q.m \in 2 .. 11 /\ q.m \in 1 .. 12 /\ (q.time = <<>> \/ q.time[2] <= 24)
  BY DEF KeepsTime
<1>2. t \in Int /\ t < 1500 /\ x \in Int /\ -1500 < x
  BY <1>1, RuleTimeIs
<1>3. LeapDay(y) \in {0, 1} /\ jan \in Int
  BY JanuaryInt
<1>4. MonthStart(y, r.m) + len + 28 <= MonthStart(y, q.m)
  BY <1>1, MonthsApart
<1>5. s \in Int /\ s < jan + MonthStart(y, r.m) + len
  BY <1>1, StrikeDayIs DEF MonthBegins
<1>6. z \in Int /\ jan + MonthStart(y, q.m) <= z
  BY <1>1, StrikeDayIs DEF MonthBegins
<1>7. len \in 28 .. 31 /\ MonthStart(y, r.m) \in Nat
  BY ONLY <1>1, y \in Int, MonthBeginsInt
<1>8. MonthStart(y, q.m) \in Nat
  BY ONLY <1>1, y \in Int, MonthBeginsInt
<1> HIDE DEF s, z, t, x, len, jan
<1>9. s + 28 < z
  BY <1>3, <1>4, <1>5, <1>6, <1>7, <1>8
<1>10. off \in Int /\ -1440 < off /\ gap \in Int /\ gap < 1440
  BY DEF WithinADay, DAY
<1>11. s * DAY + t - off < z * DAY + x - gap
  BY <1>2, <1>5, <1>6, <1>9, <1>10 DEF DAY
<1> QED
  BY <1>11 DEF Strikes, s, z, t, x

-----------------------------------------------------------------------------
(***************************************************************************)
(* The changes of a footer: of those past, posix_resolve() and the reference*)
(* take the same one, though they consider a different number of years.    *)
(***************************************************************************)

\* The changes of two years in a row, a before b or b before a within each.
InRow(a1, b1, a0, b0) ==
    /\ a1.at \in Int /\ b1.at \in Int /\ a0.at \in Int /\ b0.at \in Int
    /\ a1.at # b1.at /\ a0.at # b0.at
    /\ a1.at < a0.at /\ a1.at < b0.at /\ b1.at < a0.at /\ b1.at < b0.at

\* P has of them what is past at u, and else only what came before both years.
PastOnes(P, a1, b1, a0, b0, u) ==
    /\ a1 \in P /\ b1 \in P
    /\ a0 \in P <=> a0.at <= u
    /\ b0 \in P <=> b0.at <= u
    /\ \A c \in P : \/ c = a1 \/ c = b1 \/ c = a0 \/ c = b0
                    \/ c.at \in Int /\ c.at < a1.at /\ c.at < b1.at

\* The last of them.
LastOf(a1, b1, a0, b0, u) ==
    IF a0.at <= u /\ (b0.at <= u => b0.at < a0.at) THEN a0
    ELSE IF b0.at <= u THEN b0
    ELSE IF a1.at > b1.at THEN a1 ELSE b1

\* Every other one comes before it.
LEMMA LastOfIs ==
  ASSUME NEW a1, NEW b1, NEW a0, NEW b0, NEW u \in Int, NEW P,
         InRow(a1, b1, a0, b0), PastOnes(P, a1, b1, a0, b0, u),
         NEW l, l = LastOf(a1, b1, a0, b0, u)
  PROVE  l \in P /\ l.at \in Int /\ \A c \in P : c = l \/ (c.at \in Int /\ c.at < l.at)
<1>1. /\ a1.at \in Int /\ b1.at \in Int /\ a0.at \in Int /\ b0.at \in Int
      /\ a1.at # b1.at /\ a0.at # b0.at
      /\ a1.at < a0.at /\ a1.at < b0.at /\ b1.at < a0.at /\ b1.at < b0.at
  BY DEF InRow
<1>2. /\ a1 \in P /\ b1 \in P
      /\ a0 \in P <=> a0.at <= u
      /\ b0 \in P <=> b0.at <= u
  BY DEF PastOnes
<1>3. ASSUME NEW c \in P
      PROVE  \/ c = a1 \/ c = b1 \/ (c = a0 /\ a0.at <= u) \/ (c = b0 /\ b0.at <= u)
             \/ c.at \in Int /\ c.at < a1.at /\ c.at < b1.at
  BY <1>2 DEF PastOnes
<1>4. CASE a0.at <= u /\ (b0.at <= u => b0.at < a0.at)
  <2>1. l = a0
    BY <1>4 DEF LastOf
  <2> QED
    BY <1>1, <1>2, <1>3, <1>4, <2>1
<1>5. CASE ~(a0.at <= u /\ (b0.at <= u => b0.at < a0.at)) /\ b0.at <= u
  <2>1. l = b0
    BY <1>5 DEF LastOf
  <2> QED
    BY <1>1, <1>2, <1>3, <1>5, <2>1
<1>6. CASE ~(a0.at <= u) /\ ~(b0.at <= u) /\ a1.at > b1.at
  <2>1. l = a1
    BY <1>6 DEF LastOf
  <2> QED
    BY <1>1, <1>2, <1>3, <1>6, <2>1
<1>7. CASE ~(a0.at <= u) /\ ~(b0.at <= u) /\ ~(a1.at > b1.at)
  <2>1. l = b1
    BY <1>7 DEF LastOf
  <2> QED
    BY <1>1, <1>2, <1>3, <1>7, <2>1
<1> QED
  BY <1>1, <1>4, <1>5, <1>6, <1>7

\* Which year and rule it is of is a matter of the minutes only.
LEMMA LastOfSame ==
  ASSUME NEW a1, NEW b1, NEW a0, NEW b0, NEW A1, NEW B1, NEW A0, NEW B0,
         a1.at = A1.at /\ b1.at = B1.at /\ a0.at = A0.at /\ b0.at = B0.at
  PROVE  \A u : \/ LastOf(a1, b1, a0, b0, u) = a0 /\ LastOf(A1, B1, A0, B0, u) = A0
                \/ LastOf(a1, b1, a0, b0, u) = b0 /\ LastOf(A1, B1, A0, B0, u) = B0
                \/ LastOf(a1, b1, a0, b0, u) = a1 /\ LastOf(A1, B1, A0, B0, u) = A1
                \/ LastOf(a1, b1, a0, b0, u) = b1 /\ LastOf(A1, B1, A0, B0, u) = B1
  BY DEF LastOf

\* Two changes in each year, at A[k] and at B[k], and an instant u in year y.
YearRow(A, B, y, u) ==
    /\ A \in [Int -> Int] /\ B \in [Int -> Int] /\ y \in Int /\ u \in Int
    /\ \A k \in Int : /\ A[k] # B[k]
                      /\ A[k] < A[k + 1] /\ A[k] < B[k + 1]
                      /\ B[k] < A[k + 1] /\ B[k] < B[k + 1]
    /\ A[y - 1] <= u /\ B[y - 1] <= u /\ u < A[y + 1] /\ u < B[y + 1]

\* What the code considers: three years.
Considered(A, B, y) ==
    UNION {{[at |-> A[k], nth |-> 2 * k, isdst |-> TRUE],
            [at |-> B[k], nth |-> 2 * k + 1, isdst |-> FALSE]} : k \in {y - 1, y, y + 1}}

\* Of those past, the last is one of this year or of the year before.
LEMMA CodePast ==
  ASSUME NEW A, NEW B, NEW y, NEW u, YearRow(A, B, y, u)
  PROVE  LET a(k) == [at |-> A[k], nth |-> 2 * k, isdst |-> TRUE]
             b(k) == [at |-> B[k], nth |-> 2 * k + 1, isdst |-> FALSE]
         IN  /\ InRow(a(y - 1), b(y - 1), a(y), b(y))
             /\ PastOnes({c \in Considered(A, B, y) : c.at <= u},
                         a(y - 1), b(y - 1), a(y), b(y), u)
<1> DEFINE a(k) == [at |-> A[k], nth |-> 2 * k, isdst |-> TRUE]
           b(k) == [at |-> B[k], nth |-> 2 * k + 1, isdst |-> FALSE]
           P == {c \in Considered(A, B, y) : c.at <= u}
<1>1. /\ y \in Int /\ u \in Int /\ y - 1 \in Int /\ y + 1 \in Int
      /\ A[y] \in Int /\ B[y] \in Int /\ A[y - 1] \in Int /\ B[y - 1] \in Int
      /\ A[y + 1] \in Int /\ B[y + 1] \in Int
      /\ A[y - 1] <= u /\ B[y - 1] <= u /\ u < A[y + 1] /\ u < B[y + 1]
  BY DEF YearRow
<1>2. A[y] # B[y] /\ A[y - 1] # B[y - 1]
  BY <1>1 DEF YearRow
<1>3. A[y - 1] < A[y] /\ A[y - 1] < B[y] /\ B[y - 1] < A[y] /\ B[y - 1] < B[y]
  <2>1. (y - 1) + 1 = y
    BY <1>1
  <2> QED
    BY <1>1, <2>1 DEF YearRow
<1>4. \A k : a(k).at = A[k] /\ b(k).at = B[k]
  OBVIOUS
<1> HIDE DEF a, b
<1>5. InRow(a(y - 1), b(y - 1), a(y), b(y))
  BY <1>1, <1>2, <1>3, <1>4 DEF InRow
<1>6. \A c : c \in Considered(A, B, y) <=>
             \/ c = a(y - 1) \/ c = b(y - 1) \/ c = a(y) \/ c = b(y)
             \/ c = a(y + 1) \/ c = b(y + 1)
  BY DEF Considered, a, b
<1>7. \A c : c \in P <=> c \in Considered(A, B, y) /\ c.at <= u
  OBVIOUS
<1> HIDE DEF P
<1>8. PastOnes(P, a(y - 1), b(y - 1), a(y), b(y), u)
  <2>1. a(y - 1) \in P /\ b(y - 1) \in P
    BY <1>1, <1>4, <1>6, <1>7
  <2>2. (a(y) \in P <=> a(y).at <= u) /\ (b(y) \in P <=> b(y).at <= u)
    BY <1>6, <1>7
  <2>3. a(y + 1) \notin P /\ b(y + 1) \notin P
    BY <1>1, <1>4, <1>7
  <2>4. \A c \in P : c = a(y - 1) \/ c = b(y - 1) \/ c = a(y) \/ c = b(y)
    BY <1>6, <1>7, <2>3
  <2> QED
    BY <2>1, <2>2, <2>4 DEF PastOnes
<1> QED
  BY <1>5, <1>8 DEF a, b, P

\* What the reference considers: five years, with the offsets d and s that come in force.
Asked(A, B, y, d, s) ==
    UNION {{[at |-> A[k], off |-> d, isdst |-> TRUE],
            [at |-> B[k], off |-> s, isdst |-> FALSE]} : k \in y - 2 .. y + 2}

\* Again the last of those past is one of this year or of the year before.
LEMMA AskedPast ==
  ASSUME NEW A, NEW B, NEW y, NEW u, YearRow(A, B, y, u), NEW d, NEW s
  PROVE  LET a(k) == [at |-> A[k], off |-> d, isdst |-> TRUE]
             b(k) == [at |-> B[k], off |-> s, isdst |-> FALSE]
         IN  /\ InRow(a(y - 1), b(y - 1), a(y), b(y))
             /\ PastOnes({c \in Asked(A, B, y, d, s) : c.at <= u},
                         a(y - 1), b(y - 1), a(y), b(y), u)
<1> DEFINE a(k) == [at |-> A[k], off |-> d, isdst |-> TRUE]
           b(k) == [at |-> B[k], off |-> s, isdst |-> FALSE]
           P == {c \in Asked(A, B, y, d, s) : c.at <= u}
<1>1. /\ y \in Int /\ u \in Int /\ y - 1 \in Int /\ y + 1 \in Int /\ y - 2 \in Int /\ y + 2 \in Int
      /\ A[y] \in Int /\ B[y] \in Int /\ A[y - 1] \in Int /\ B[y - 1] \in Int
      /\ A[y + 1] \in Int /\ B[y + 1] \in Int /\ A[y + 2] \in Int /\ B[y + 2] \in Int
      /\ A[y - 2] \in Int /\ B[y - 2] \in Int
      /\ A[y - 1] <= u /\ B[y - 1] <= u /\ u < A[y + 1] /\ u < B[y + 1]
  BY DEF YearRow
<1>2. A[y] # B[y] /\ A[y - 1] # B[y - 1]
  BY <1>1 DEF YearRow
<1>3. A[y - 1] < A[y] /\ A[y - 1] < B[y] /\ B[y - 1] < A[y] /\ B[y - 1] < B[y]
  <2>1. (y - 1) + 1 = y
    BY <1>1
  <2> QED
    BY <1>1, <2>1 DEF YearRow
<1>4. A[y - 2] < A[y - 1] /\ A[y - 2] < B[y - 1] /\ B[y - 2] < A[y - 1] /\ B[y - 2] < B[y - 1]
  <2>1. (y - 2) + 1 = y - 1
    BY <1>1
  <2> QED
    BY <1>1, <2>1 DEF YearRow
<1>5. A[y + 1] < A[y + 2] /\ B[y + 1] < B[y + 2]
  <2>1. (y + 1) + 1 = y + 2
    BY <1>1
  <2> QED
    BY <1>1, <2>1 DEF YearRow
<1>6. \A k : a(k).at = A[k] /\ b(k).at = B[k]
  OBVIOUS
<1>7. \A c : c \in Asked(A, B, y, d, s) <=>
             \/ c = a(y - 2) \/ c = b(y - 2) \/ c = a(y - 1) \/ c = b(y - 1) \/ c = a(y) \/ c = b(y)
             \/ c = a(y + 1) \/ c = b(y + 1) \/ c = a(y + 2) \/ c = b(y + 2)
  <2>1. y - 2 .. y + 2 = {y - 2, y - 1, y, y + 1, y + 2}
    BY <1>1
  <2>2. \A c : c \in Asked(A, B, y, d, s) <=> \E k \in y - 2 .. y + 2 : c = a(k) \/ c = b(k)
    BY DEF Asked
  <2> HIDE DEF a, b
  <2> QED
    BY <2>1, <2>2
<1> HIDE DEF a, b
<1>8. InRow(a(y - 1), b(y - 1), a(y), b(y))
  BY <1>1, <1>2, <1>3, <1>6 DEF InRow
<1>9. \A c : c \in P <=> c \in Asked(A, B, y, d, s) /\ c.at <= u
  OBVIOUS
<1> HIDE DEF P
<1>10. PastOnes(P, a(y - 1), b(y - 1), a(y), b(y), u)
  <2>1. a(y - 1) \in P /\ b(y - 1) \in P
    BY <1>1, <1>6, <1>7, <1>9
  <2>2. (a(y) \in P <=> a(y).at <= u) /\ (b(y) \in P <=> b(y).at <= u)
    BY <1>7, <1>9
  <2>3. /\ a(y + 1) \notin P /\ b(y + 1) \notin P
        /\ a(y + 2) \notin P /\ b(y + 2) \notin P
    BY <1>1, <1>5, <1>6, <1>9
  <2>4. /\ a(y - 2).at \in Int /\ a(y - 2).at < a(y - 1).at /\ a(y - 2).at < b(y - 1).at
        /\ b(y - 2).at \in Int /\ b(y - 2).at < a(y - 1).at /\ b(y - 2).at < b(y - 1).at
    BY <1>1, <1>4, <1>6
  <2>5. \A c \in P : \/ c = a(y - 1) \/ c = b(y - 1) \/ c = a(y) \/ c = b(y)
                     \/ c = a(y - 2) \/ c = b(y - 2)
    BY <1>7, <1>9, <2>3
  <2> QED
    BY <2>1, <2>2, <2>4, <2>5 DEF PastOnes
<1> QED
  BY <1>8, <1>10 DEF a, b, P

\* posix_resolve() decides by the last of the changes past,
LEMMA CodeDecides ==
  ASSUME NEW P, NEW l \in P, l.at \in Int, l.isdst \in BOOLEAN,
         \A c \in P : c = l \/ (c.at \in Int /\ c.at < l.at), l.nth \in Int
  PROVE  (\E c \in P : Decides(c, P) /\ c.isdst) <=> l.isdst
<1>1. Decides(l, P)
  BY DEF Decides
<1>2. ASSUME NEW c \in P, Decides(c, P)
      PROVE  c = l
  BY <1>2 DEF Decides
<1> QED
  BY <1>1, <1>2

\* and so does the reference.
LEMMA LatestIs ==
  ASSUME NEW P, NEW l \in P, l.at \in Int,
         \A c \in P : c = l \/ (c.at \in Int /\ c.at < l.at)
  PROVE  (CHOOSE e \in P : \A o \in P : o.at <= e.at) = l
<1>1. \A o \in P : o.at <= l.at
  OBVIOUS
<1>2. ASSUME NEW e \in P, \A o \in P : o.at <= e.at
      PROVE  e = l
  BY <1>2
<1> QED
  BY <1>1, <1>2

\* The offsets of a footer are those written in it.
LEMMA FooterIs ==
  ASSUME NEW z \in Names
  PROVE  LET f == Blob[z].footer
             p == ParsePosix(f)
         IN  /\ p.hasDst = f.hasDst /\ f.hasDst \in BOOLEAN
             /\ p.std = -Written(f.std) /\ p.std \in WithinADay
             /\ f.hasDst => /\ p.dst = IF f.dst = <<>> THEN p.std + 60 ELSE -Written(f.dst)
                            /\ p.dst \in WithinADay
                            /\ p.start = ParseRule(f.start) /\ p.end = ParseRule(f.end)
<1> DEFINE f == Blob[z].footer
           p == ParsePosix(f)
<1>1. /\ f.std \in OffsetText(24) /\ f.hasDst \in BOOLEAN
      /\ f.hasDst => f.dst \in {<<>>} \cup OffsetText(24)
  BY BlobsAreWellFormed
<1>2. p.std \in WithinADay /\ (p.hasDst => p.dst \in WithinADay)
  BY OffsetsWithinADay
<1>3. ASSUME NEW t \in OffsetText(24)
      PROVE  ParsePosixOffset(t) = Written(t)
  <2>1. t \in OffsetText(167) /\ t[2] <= 24
    BY DEF OffsetText
  <2> QED
    BY <2>1, TimeIs
<1> HIDE DEF f
<1>4. CASE ~f.hasDst
  BY <1>1, <1>2, <1>3, <1>4 DEF ParsePosix, f
<1>5. CASE f.hasDst
  <2>1. p = [hasDst |-> TRUE, std |-> -ParsePosixOffset(f.std),
             dst |-> IF f.dst = <<>> THEN -ParsePosixOffset(f.std) + 60 ELSE -ParsePosixOffset(f.dst),
             start |-> ParseRule(f.start), end |-> ParseRule(f.end)]
    BY <1>5 DEF ParsePosix
  <2>2. p.hasDst = TRUE
    BY <2>1
  <2>3. p.std = -Written(f.std)
    BY <1>1, <1>3, <2>1
  <2>4. p.dst = IF f.dst = <<>> THEN p.std + 60 ELSE -Written(f.dst)
    BY <1>1, <1>3, <1>5, <2>1
  <2>5. p.start = ParseRule(f.start) /\ p.end = ParseRule(f.end)
    BY <2>1
  <2> HIDE DEF p
  <2> QED
    BY <1>1, <1>2, <1>5, <2>2, <2>3, <2>4, <2>5 DEF f, p
<1> QED
  BY <1>1, <1>4, <1>5

\* The changes of the years a footer is asked for, by year.
SummerStarts(z) == LET p == ParsePosix(Blob[z].footer)
                   IN  [k \in Int |-> Strikes(Blob[z].footer.start, k, p.std)]
SummerEnds(z) == LET p == ParsePosix(Blob[z].footer)
                 IN  [k \in Int |-> Strikes(Blob[z].footer.end, k, p.dst)]

\* They keep to their years, and one is not at the minute of the other.
LEMMA FooterRow ==
  ASSUME NEW z \in Names, StrikesWithinDay(z), Blob[z].footer.hasDst,
         NEW y \in Int, NEW u \in Int, January(y) * DAY <= u, u < January(y + 1) * DAY
  PROVE  YearRow(SummerStarts(z), SummerEnds(z), y, u)
<1> DEFINE f == Blob[z].footer
           p == ParsePosix(f)
           std == p.std
           dst == p.dst
           r == f.start
           q == f.end
           A == SummerStarts(z)
           B == SummerEnds(z)
<1>1. /\ KeepsTime(r) /\ KeepsTime(q)
      /\ r.m + 2 <= q.m \/ q.m + 2 <= r.m
  <2>1. /\ r \in RuleText /\ q \in RuleText /\ r.m \in 2 .. 11 /\ q.m \in 2 .. 11
        /\ Abs(r.m - q.m) >= 2
    BY BlobsAreWellFormed
  <2>2. (r.time = <<>> \/ r.time[2] <= 24) /\ (q.time = <<>> \/ q.time[2] <= 24)
    BY DEF StrikesWithinDay
  <2> HIDE DEF r, q
  <2>3. r.m + 2 <= q.m \/ q.m + 2 <= r.m
    BY <2>1 DEF Abs
  <2> QED
    BY <2>1, <2>2, <2>3 DEF KeepsTime
<1>2. std \in WithinADay /\ dst \in WithinADay
  BY FooterIs
<1>3. /\ A \in [Int -> Int] /\ B \in [Int -> Int]
      /\ \A k \in Int : A[k] = Strikes(r, k, std) /\ B[k] = Strikes(q, k, dst)
  <2>1. A = [k \in Int |-> Strikes(r, k, std)] /\ B = [k \in Int |-> Strikes(q, k, dst)]
    BY DEF SummerStarts, SummerEnds
  <2> HIDE DEF r, q, std, dst, A, B
  <2>2. \A k \in Int : Strikes(r, k, std) \in Int /\ Strikes(q, k, dst) \in Int
    BY <1>1, <1>2, StrikesInYear
  <2> QED
    BY <2>1, <2>2
<1> HIDE DEF f, p, std, dst, r, q, A, B
<1>4. ASSUME NEW k \in Int
      PROVE  /\ A[k] \in Int /\ B[k] \in Int /\ A[k] # B[k]
             /\ January(k) * DAY < A[k] /\ A[k] < January(k + 1) * DAY
             /\ January(k) * DAY < B[k] /\ B[k] < January(k + 1) * DAY
  <2>1. /\ A[k] \in Int /\ January(k) * DAY < A[k] /\ A[k] < January(k + 1) * DAY
        /\ B[k] \in Int /\ January(k) * DAY < B[k] /\ B[k] < January(k + 1) * DAY
    BY <1>1, <1>2, <1>3, StrikesInYear
  <2>2. r.m + 2 <= q.m => A[k] < B[k]
    BY <1>1, <1>2, <1>3, StrikeInOrder
  <2>3. q.m + 2 <= r.m => B[k] < A[k]
    BY <1>1, <1>2, <1>3, StrikeInOrder
  <2>4. A[k] # B[k]
    BY <1>1, <2>1, <2>2, <2>3
  <2> QED
    BY <2>1, <2>4
<1>5. \A k \in Int : January(k) * DAY \in Int
  BY JanuaryInt DEF DAY
<1>6. \A k \in Int : /\ A[k] < A[k + 1] /\ A[k] < B[k + 1]
                     /\ B[k] < A[k + 1] /\ B[k] < B[k + 1]
  BY <1>4, <1>5
<1>7. A[y - 1] <= u /\ B[y - 1] <= u
  <2>1. y - 1 \in Int /\ (y - 1) + 1 = y
    OBVIOUS
  <2>2. A[y - 1] < January(y) * DAY /\ B[y - 1] < January(y) * DAY
    BY <1>4, <2>1
  <2> QED
    BY <1>4, <1>5, <2>1, <2>2
<1>8. u < A[y + 1] /\ u < B[y + 1]
  BY <1>4, <1>5
<1> QED
  BY <1>3, <1>4, <1>6, <1>7, <1>8 DEF YearRow, A, B

\* posix_resolve() considers the changes of the three years,
LEMMA CandidatesAre ==
  ASSUME NEW z \in Names, StrikesWithinDay(z), Blob[z].footer.hasDst,
         NEW y \in Int, NEW u, Breakdown(u).year = y
  PROVE  Candidates(ParsePosix(Blob[z].footer), u)
           = Considered(SummerStarts(z), SummerEnds(z), y)
<1> DEFINE f == Blob[z].footer
           p == ParsePosix(f)
           A == SummerStarts(z)
           B == SummerEnds(z)
           Two(k) == {[at |-> A[k], nth |-> 2 * k, isdst |-> TRUE],
                      [at |-> B[k], nth |-> 2 * k + 1, isdst |-> FALSE]}
<1>1. /\ f.start \in RuleText /\ f.end \in RuleText
      /\ f.start.time = <<>> \/ f.start.time[2] <= 24
      /\ f.end.time = <<>> \/ f.end.time[2] <= 24
  BY BlobsAreWellFormed DEF StrikesWithinDay
<1>2. p.start = ParseRule(f.start) /\ p.end = ParseRule(f.end)
  BY FooterIs
<1>3. ASSUME NEW k \in Int
      PROVE  YearChanges(p, k) = Two(k)
  <2>1. /\ A[k] = StrikeDay(f.start, k) * DAY + RuleTime(f.start) - p.std
        /\ B[k] = StrikeDay(f.end, k) * DAY + RuleTime(f.end) - p.dst
    BY DEF SummerStarts, SummerEnds, Strikes
  <2>2. /\ RuleLocal(p.start, k) = StrikeDay(f.start, k) * DAY + RuleTime(f.start)
        /\ RuleLocal(p.end, k) = StrikeDay(f.end, k) * DAY + RuleTime(f.end)
    <3> HIDE DEF p, f
    <3> QED
      BY <1>1, <1>2, RuleLocalIs
  <2>3. p.std \in Int /\ p.dst \in Int
    <3> DEFINE std == p.std
               dst == p.dst
    <3>1. std \in WithinADay /\ dst \in WithinADay
      BY FooterIs
    <3> HIDE DEF std, dst
    <3>2. std \in Int /\ dst \in Int
      BY <3>1 DEF WithinADay, DAY
    <3> QED
      BY <3>2 DEF std, dst
  <2> HIDE DEF p, f, A, B
  <2>4. /\ StrikeDay(f.start, k) * DAY \in Int /\ RuleTime(f.start) \in Int
        /\ StrikeDay(f.end, k) * DAY \in Int /\ RuleTime(f.end) \in Int
    BY <1>1, StrikeDayIs, RuleTimeIs DEF DAY
  <2>5. RuleLocal(p.start, k) - p.std = A[k] /\ RuleLocal(p.end, k) - p.dst = B[k]
    BY <2>1, <2>2, <2>3, <2>4
  <2> QED
    BY <2>5 DEF YearChanges
<1> HIDE DEF p, f, A, B
<1>4. Candidates(p, u) = UNION {YearChanges(p, y + dy) : dy \in -1 .. 1}
  BY DEF Candidates
<1>5. \A c : c \in Candidates(p, u) <=> \E dy \in -1 .. 1 : c \in Two(y + dy)
  <2>1. \A dy \in -1 .. 1 : y + dy \in Int
    OBVIOUS
  <2> HIDE DEF Two
  <2> QED
    BY <1>3, <1>4, <2>1
<1>6. Considered(A, B, y) = UNION {Two(k) : k \in {y - 1, y, y + 1}}
  BY DEF Considered
<1>7. \A c : c \in Considered(A, B, y) <=> c \in Two(y - 1) \/ c \in Two(y) \/ c \in Two(y + 1)
  <2> HIDE DEF Two
  <2> QED
    BY <1>6
<1>8. \A c : c \in Candidates(p, u) <=> c \in Two(y - 1) \/ c \in Two(y) \/ c \in Two(y + 1)
  <2>1. \A dy \in -1 .. 1 : dy = -1 \/ dy = 0 \/ dy = 1
    OBVIOUS
  <2>2. y + (-1) = y - 1 /\ y + 0 = y
    OBVIOUS
  <2>3. -1 \in -1 .. 1 /\ 0 \in -1 .. 1 /\ 1 \in -1 .. 1
    OBVIOUS
  <2> HIDE DEF Two
  <2> QED
    BY <1>5, <2>1, <2>2, <2>3
<1> HIDE DEF Two
<1>9. Candidates(p, u) = Considered(A, B, y)
  BY <1>7, <1>8
<1> QED
  BY <1>9 DEF p, f, A, B

\* and the reference, of five.
LEMMA ChangesAre ==
  ASSUME NEW z \in Names, StrikesWithinDay(z), Blob[z].footer.hasDst,
         NEW y \in Int, y \in 1962 .. LastYear + 1
  PROVE  LET p == ParsePosix(Blob[z].footer)
         IN  Changes(Blob[z].footer, y) = Asked(SummerStarts(z), SummerEnds(z), y, p.dst, p.std)
<1> DEFINE f == Blob[z].footer
           p == ParsePosix(f)
           A == SummerStarts(z)
           B == SummerEnds(z)
           std == p.std
           dst == p.dst
<1>1. /\ f.start \in RuleText /\ f.end \in RuleText
      /\ f.start.time = <<>> \/ f.start.time[2] <= 24
      /\ f.end.time = <<>> \/ f.end.time[2] <= 24
  BY BlobsAreWellFormed DEF StrikesWithinDay
<1>2. std = -Written(f.std) /\ dst = IF f.dst = <<>> THEN -Written(f.std) + 60 ELSE -Written(f.dst)
  BY FooterIs
<1>3. LastYear \in Int
  BY DatesExist
<1>4. ASSUME NEW k \in y - 2 .. y + 2
      PROVE  RuleStrikes(f.start, k, std) = A[k] /\ RuleStrikes(f.end, k, dst) = B[k]
  <2>1. k \in Int /\ k \in 1960 .. LastYear + 3
    BY <1>3
  <2>2. /\ A[k] = StrikeDay(f.start, k) * DAY + RuleTime(f.start) - std
        /\ B[k] = StrikeDay(f.end, k) * DAY + RuleTime(f.end) - dst
    BY <2>1 DEF SummerStarts, SummerEnds, Strikes
  <2> HIDE DEF f, p, std, dst
  <2>3. RuleStrikes(f.start, k, std) = StrikeDay(f.start, k) * DAY + RuleTime(f.start) - std
    BY <1>1, <2>1, RuleStrikesIs
  <2>4. RuleStrikes(f.end, k, dst) = StrikeDay(f.end, k) * DAY + RuleTime(f.end) - dst
    BY <1>1, <2>1, RuleStrikesIs
  <2> QED
    BY <2>2, <2>3, <2>4
<1>5. Changes(f, y) =
        UNION {{[at |-> RuleStrikes(f.start, k, std), off |-> dst, isdst |-> TRUE],
                [at |-> RuleStrikes(f.end, k, dst), off |-> std, isdst |-> FALSE]}
               : k \in y - 2 .. y + 2}
  <2> HIDE DEF f, std, dst
  <2> QED
    BY <1>2 DEF Changes, f
<1> HIDE DEF f, p, std, dst, A, B
<1>6. Changes(f, y) = Asked(A, B, y, dst, std)
  <2> DEFINE K == y - 2 .. y + 2
             one(k) == {[at |-> RuleStrikes(f.start, k, std), off |-> dst, isdst |-> TRUE],
                        [at |-> RuleStrikes(f.end, k, dst), off |-> std, isdst |-> FALSE]}
             other(k) == {[at |-> A[k], off |-> dst, isdst |-> TRUE],
                          [at |-> B[k], off |-> std, isdst |-> FALSE]}
  <2>1. \A k \in K : one(k) = other(k)
    BY <1>4
  <2>2. Changes(f, y) = UNION {one(k) : k \in K}
    BY <1>5
  <2>3. Asked(A, B, y, dst, std) = UNION {other(k) : k \in K}
    BY DEF Asked
  <2> HIDE DEF K, one, other
  <2> QED
    BY ONLY <2>1, <2>2, <2>3, Zenon
<1> QED
  BY <1>6 DEF f, p, std, dst, A, B

\* The type in force at u among some changes, by the reference; std where there is none.
InForceAmong(all, u, std) ==
    LET past   == {e \in all : e.at <= u}
        latest == CHOOSE e \in past : \A o \in past : o.at <= e.at
        first  == CHOOSE e \in all : \A o \in all : e.at <= o.at
    IN  IF all = {} THEN [off |-> std, isdst |-> FALSE]
        ELSE LET e == IF past = {} THEN first ELSE latest
             IN  [off |-> e.off, isdst |-> e.isdst]

\* The two agree.
LEMMA FooterAgrees ==
  ASSUME NEW z \in Names, StrikesWithinDay(z),
         NEW y \in Int, y \in 1962 .. LastYear + 1,
         NEW u \in Int, January(y) * DAY <= u, u < January(y + 1) * DAY, Breakdown(u).year = y
  PROVE  PosixResolve(ParsePosix(Blob[z].footer), u)
           = InForceAmong(Changes(Blob[z].footer, y), u, -Written(Blob[z].footer.std))
<1> DEFINE f == Blob[z].footer
           p == ParsePosix(f)
           A == SummerStarts(z)
           B == SummerEnds(z)
           std == p.std
           dst == p.dst
           all == Changes(f, y)
           asked == {e \in all : e.at <= u}
           past == {c \in Candidates(p, u) : c.at <= u}
<1>1. /\ p.hasDst = f.hasDst /\ f.hasDst \in BOOLEAN /\ p.std = -Written(f.std)
  BY FooterIs
<1>2. CASE ~f.hasDst
  <2> HIDE DEF p, f
  <2>1. all = {}
    BY <1>2 DEF Changes
  <2>2. PosixResolve(p, u) = [off |-> p.std, isdst |-> FALSE]
    BY <1>1, <1>2 DEF PosixResolve, OffsetAfter
  <2> QED
    BY <1>1, <2>1, <2>2 DEF InForceAmong, f, p
<1>3. CASE f.hasDst
  <2> DEFINE a(k) == [at |-> A[k], nth |-> 2 * k, isdst |-> TRUE]
             b(k) == [at |-> B[k], nth |-> 2 * k + 1, isdst |-> FALSE]
             ra(k) == [at |-> A[k], off |-> dst, isdst |-> TRUE]
             rb(k) == [at |-> B[k], off |-> std, isdst |-> FALSE]
             l == LastOf(a(y - 1), b(y - 1), a(y), b(y), u)
             rl == LastOf(ra(y - 1), rb(y - 1), ra(y), rb(y), u)
  <2>1. YearRow(A, B, y, u)
    BY <1>3, FooterRow
  <2>2. Candidates(p, u) = Considered(A, B, y)
    BY <1>3, CandidatesAre
  <2>3. all = Asked(A, B, y, dst, std)
    BY <1>3, ChangesAre
  <2> HIDE DEF A, B, p, f, all, std, dst, l, rl
  <2>4. /\ InRow(a(y - 1), b(y - 1), a(y), b(y))
        /\ PastOnes({c \in Considered(A, B, y) : c.at <= u}, a(y - 1), b(y - 1), a(y), b(y), u)
    BY <2>1, CodePast
  <2>5. /\ InRow(ra(y - 1), rb(y - 1), ra(y), rb(y))
        /\ PastOnes({c \in Asked(A, B, y, dst, std) : c.at <= u},
                    ra(y - 1), rb(y - 1), ra(y), rb(y), u)
    BY <2>1, AskedPast
  <2>6. \/ l = a(y) /\ rl = ra(y)
        \/ l = b(y) /\ rl = rb(y)
        \/ l = a(y - 1) /\ rl = ra(y - 1)
        \/ l = b(y - 1) /\ rl = rb(y - 1)
    <3>1. /\ a(y).at = ra(y).at /\ b(y).at = rb(y).at
          /\ a(y - 1).at = ra(y - 1).at /\ b(y - 1).at = rb(y - 1).at
      OBVIOUS
    <3>2. /\ l = LastOf(a(y - 1), b(y - 1), a(y), b(y), u)
          /\ rl = LastOf(ra(y - 1), rb(y - 1), ra(y), rb(y), u)
      BY DEF l, rl
    <3> HIDE DEF a, b, ra, rb, asked, past
    <3> QED
      BY ONLY <3>1, <3>2 DEF LastOf
  <2>7. a(y).nth \in Int /\ b(y).nth \in Int /\ a(y - 1).nth \in Int /\ b(y - 1).nth \in Int
    OBVIOUS
  <2>8. /\ a(y).isdst = TRUE /\ b(y).isdst = FALSE
        /\ a(y - 1).isdst = TRUE /\ b(y - 1).isdst = FALSE
        /\ ra(y).isdst = TRUE /\ rb(y).isdst = FALSE
        /\ ra(y - 1).isdst = TRUE /\ rb(y - 1).isdst = FALSE
        /\ ra(y).off = dst /\ rb(y).off = std
        /\ ra(y - 1).off = dst /\ rb(y - 1).off = std
    OBVIOUS
  <2> HIDE DEF a, b, ra, rb
  <2>9. l \in past /\ l.at \in Int /\ \A c \in past : c = l \/ (c.at \in Int /\ c.at < l.at)
    <3>1. PastOnes(past, a(y - 1), b(y - 1), a(y), b(y), u)
      BY <2>2, <2>4
    <3> HIDE DEF past
    <3> QED
      BY <2>4, <3>1, LastOfIs DEF l
  <2>10. rl \in asked /\ rl.at \in Int /\ \A c \in asked : c = rl \/ (c.at \in Int /\ c.at < rl.at)
    <3>1. PastOnes(asked, ra(y - 1), rb(y - 1), ra(y), rb(y), u)
      BY <2>3, <2>5
    <3> HIDE DEF asked
    <3> QED
      BY <2>5, <3>1, LastOfIs DEF rl
  <2>11. l.nth \in Int
    <3> HIDE DEF past, asked
    <3> QED
      BY <2>6, <2>7
  <2>12. \/ l.isdst = TRUE /\ rl.isdst = TRUE /\ rl.off = dst
         \/ l.isdst = FALSE /\ rl.isdst = FALSE /\ rl.off = std
    <3> HIDE DEF past, asked
    <3>1. CASE l = a(y) /\ rl = ra(y)
      BY ONLY <2>8, <3>1
    <3>2. CASE l = b(y) /\ rl = rb(y)
      BY ONLY <2>8, <3>2, Zenon
    <3>3. CASE l = a(y - 1) /\ rl = ra(y - 1)
      <4>1. l.isdst = TRUE
        BY ONLY <2>8, <3>3, Zenon
      <4> QED
        BY ONLY <2>8, <3>3
    <3>4. CASE l = b(y - 1) /\ rl = rb(y - 1)
      BY ONLY <2>8, <3>4
    <3> QED
      BY <2>6, <3>1, <3>2, <3>3, <3>4
  <2>13. (\E c \in past : Decides(c, past) /\ c.isdst) <=> l.isdst
    <3> HIDE DEF past, asked
    <3>1. l.isdst \in BOOLEAN
      BY ONLY <2>12, Zenon
    <3> QED
      BY <2>9, <2>11, <3>1, CodeDecides
  <2>14. PosixResolve(p, u) = IF \E c \in past : Decides(c, past) /\ c.isdst
                              THEN [off |-> dst, isdst |-> TRUE]
                              ELSE [off |-> std, isdst |-> FALSE]
    <3>1. PosixResolve(p, u) = OffsetAfter(p, past)
      BY DEF PosixResolve
    <3> HIDE DEF past
    <3> QED
      BY <1>1, <1>3, <3>1 DEF OffsetAfter, std, dst
  <2>15. (CHOOSE e \in asked : \A o \in asked : o.at <= e.at) = rl
    <3> HIDE DEF asked
    <3> QED
      BY <2>10, LatestIs
  <2>16. asked # {} /\ all # {}
    BY <2>10
  <2>17. InForceAmong(all, u, -Written(f.std)) = [off |-> rl.off, isdst |-> rl.isdst]
    <3> DEFINE latest == CHOOSE e \in asked : \A o \in asked : o.at <= e.at
               first == CHOOSE e \in all : \A o \in all : e.at <= o.at
               e == IF asked = {} THEN first ELSE latest
    <3>1. InForceAmong(all, u, -Written(f.std)) =
            IF all = {} THEN [off |-> -Written(f.std), isdst |-> FALSE]
            ELSE [off |-> e.off, isdst |-> e.isdst]
      BY DEF InForceAmong
    <3>2. e = rl
      <4>1. latest = rl
        BY <2>15
      <4> HIDE DEF latest, first, asked
      <4> QED
        BY <2>16, <4>1
    <3> HIDE DEF e, asked
    <3> QED
      BY <2>16, <3>1, <3>2
  <2>18. PosixResolve(p, u) = [off |-> rl.off, isdst |-> rl.isdst]
    <3> DEFINE summer == \E c \in past : Decides(c, past) /\ c.isdst
    <3>1. PosixResolve(p, u) = IF summer THEN [off |-> dst, isdst |-> TRUE]
                                         ELSE [off |-> std, isdst |-> FALSE]
      BY <2>14
    <3>2. summer <=> l.isdst
      BY <2>13
    <3> HIDE DEF past, asked, summer
    <3>3. CASE l.isdst = TRUE /\ rl.isdst = TRUE /\ rl.off = dst
      BY ONLY <3>1, <3>2, <3>3, Zenon
    <3>4. CASE l.isdst = FALSE /\ rl.isdst = FALSE /\ rl.off = std
      BY ONLY <3>1, <3>2, <3>4, Zenon
    <3> QED
      BY <2>12, <3>3, <3>4
  <2> QED
    BY <2>17, <2>18 DEF f, p, all
<1> QED
  BY <1>1, <1>2, <1>3

-----------------------------------------------------------------------------
(***************************************************************************)
(* The offset in force, by table or footer, whichever zone is chosen.      *)
(***************************************************************************)

\* The reference looks among the table's where the table reaches, and else among the footer's.
LEMMA InForceIs ==
  ASSUME NEW z, NEW u, NEW y
  PROVE  LET table == {Blob[z].table[i] : i \in DOMAIN Blob[z].table}
             std   == -Written(Blob[z].footer.std)
         IN  InForce(z, u, y) = IF \E e \in table : e.at >= u THEN InForceAmong(table, u, std)
                                ELSE InForceAmong(Changes(Blob[z].footer, y), u, std)
<1> DEFINE table == {Blob[z].table[i] : i \in DOMAIN Blob[z].table}
           std   == -Written(Blob[z].footer.std)
           all == IF \E e \in table : e.at >= u THEN table ELSE Changes(Blob[z].footer, y)
<1>1. InForce(z, u, y) = InForceAmong(all, u, std)
  BY DEF InForce, InForceAmong
<1> HIDE DEF table, std
<1> QED
  BY <1>1 DEF table, std

\* A table of the index: in order, and not empty.
LEMMA TableIs ==
  ASSUME NEW z \in Names
  PROVE  LET t == Blob[z].table
         IN  /\ InTime(t) /\ Len(t) \in Nat \ {0} /\ DOMAIN t = 1 .. Len(t)
<1> DEFINE Types == [at : Int, off : WithinADay, isdst : BOOLEAN]
           t == Blob[z].table
<1>1. t \in Seq(Types)
  BY OffsetsWithinADay
<1>2. Len(t) > 0
  BY TimeZoneAssumption
<1>3. \A i, j \in DOMAIN t : i < j => t[i].at < t[j].at
  BY BlobsAreWellFormed
<1> HIDE DEF t
<1>4. Len(t) \in Nat \ {0} /\ DOMAIN t = 1 .. Len(t)
  BY <1>1, <1>2
<1>5. \A i \in DOMAIN t : t[i].at \in Int
  <2>1. \A i \in DOMAIN t : t[i] \in Types
    <3> HIDE DEF Types
    <3> QED
      BY <1>1, <1>4
  <2> QED
    BY <2>1
<1> QED
  BY <1>3, <1>4, <1>5 DEF InTime, t

\* Where the table reaches, the search finds the transition in force.
LEMMA TableAgrees ==
  ASSUME NEW z \in Names, NEW y, NEW u \in Int,
         ~(u > Blob[z].table[Len(Blob[z].table)].at)
  PROVE  TableType(Blob[z].table, u) = InForce(z, u, y)
<1> DEFINE t == Blob[z].table
           n == Len(t)
           k == Found(t, u)
           i == Larger(k, 1)
           all == {t[j] : j \in DOMAIN t}
           past == {e \in all : e.at <= u}
           latest == CHOOSE e \in past : \A o \in past : o.at <= e.at
           first == CHOOSE e \in all : \A o \in all : e.at <= o.at
           e == IF past = {} THEN first ELSE latest
<1>1. InTime(t) /\ n \in Nat \ {0} /\ DOMAIN t = 1 .. n
  BY TableIs
<1>2. ~(u > t[n].at)
  OBVIOUS
<1>3. (\E o \in all : o.at >= u) =>
        InForce(z, u, y) = InForceAmong(all, u, -Written(Blob[z].footer.std))
  BY InForceIs
<1> HIDE DEF t
<1>4. /\ \A j \in 1 .. n : t[j].at \in Int
      /\ \A j, m \in 1 .. n : j < m => t[j].at < t[m].at
  BY <1>1 DEF InTime
<1>5. k \in 0 .. n /\ \A j \in 1 .. n : t[j].at <= u <=> j <= k
  BY <1>1, FindsTransition
<1> HIDE DEF n, k
<1>6. n \in 1 .. n /\ 1 \in 1 .. n
  BY <1>1
<1>7. t[n] \in all /\ t[n].at >= u
  BY <1>1, <1>2, <1>4, <1>6
<1>8. InForce(z, u, y) = [off |-> e.off, isdst |-> e.isdst]
  <2>1. (\E o \in all : o.at >= u) /\ all # {}
    BY <1>7
  <2>2. all # {} => InForceAmong(all, u, -Written(Blob[z].footer.std))
                      = [off |-> e.off, isdst |-> e.isdst]
    BY DEF InForceAmong
  <2> HIDE DEF all, e
  <2> QED
    BY <1>3, <2>1, <2>2
<1>9. e = t[i]
  <2>1. CASE k = 0
    <3>1. past = {}
      BY <1>1, <1>5, <2>1
    <3>2. first = t[1]
      <4>1. t[1] \in all /\ \A o \in all : t[1].at <= o.at
        <5>1. \A j \in 1 .. n : t[1].at <= t[j].at
          BY <1>4, <1>6
        <5> QED
          BY <1>1, <1>6, <5>1
      <4>2. ASSUME NEW o \in all, \A q \in all : o.at <= q.at
            PROVE  o = t[1]
        <5>1. PICK j \in 1 .. n : o = t[j]
          BY <1>1
        <5>2. t[j].at <= t[1].at
          BY <4>1, <4>2, <5>1
        <5>3. j = 1
          BY <1>4, <1>6, <5>2
        <5> QED
          BY <5>1, <5>3
      <4> HIDE DEF all
      <4> QED
        BY <4>1, <4>2
    <3>3. i = 1
      BY <2>1 DEF Larger
    <3> HIDE DEF past, first, i
    <3> QED
      BY <3>1, <3>2, <3>3
  <2>2. CASE k # 0
    <3>1. k \in 1 .. n /\ i = k
      BY <1>1, <1>5, <2>2 DEF Larger
    <3>2. t[k] \in past
      BY <1>1, <1>5, <3>1
    <3>3. ASSUME NEW o \in past
          PROVE  o = t[k] \/ (o.at \in Int /\ o.at < t[k].at)
      <4>1. PICK j \in 1 .. n : o = t[j] /\ t[j].at <= u
        BY <1>1
      <4>2. j = k \/ j < k
        BY <1>5, <3>1, <4>1
      <4> QED
        BY <1>4, <3>1, <4>1, <4>2
    <3>4. latest = t[k]
      <4>1. t[k].at \in Int
        BY <1>4, <3>1
      <4> HIDE DEF past
      <4> QED
        BY <3>2, <3>3, <4>1, LatestIs
    <3> HIDE DEF past, latest, i
    <3> QED
      BY <3>1, <3>2, <3>4
  <2> QED
    BY <2>1, <2>2
<1>10. TableType(t, u) = [off |-> t[i].off, isdst |-> t[i].isdst]
  BY DEF TableType, k
<1> HIDE DEF e, i
<1> QED
  BY <1>8, <1>9, <1>10 DEF t

\* Past the table, the footer has it.
LEMMA TypeIsInForce ==
  ASSUME NEW z \in Names, StrikesWithinDay(z),
         NEW y \in Int, y \in 1962 .. LastYear + 1,
         NEW u \in Int, January(y) * DAY <= u, u < January(y + 1) * DAY, Breakdown(u).year = y
  PROVE  TypeAt(Blob[z], u) = InForce(z, u, y)
<1> DEFINE t == Blob[z].table
           n == Len(t)
           f == Blob[z].footer
           table == {t[i] : i \in DOMAIN t}
<1>1. CASE ~(u > t[n].at)
  BY <1>1, TableAgrees DEF TypeAt
<1>2. CASE u > t[n].at
  <2>1. TypeAt(Blob[z], u) = PosixResolve(ParsePosix(f), u)
    BY <1>2 DEF TypeAt
  <2>2. PosixResolve(ParsePosix(f), u) = InForceAmong(Changes(f, y), u, -Written(f.std))
    BY FooterAgrees
  <2>3. ~\E e \in table : e.at >= u
    <3>1. InTime(t) /\ n \in Nat \ {0} /\ DOMAIN t = 1 .. n
      BY TableIs
    <3> HIDE DEF t
    <3>2. /\ \A j \in 1 .. n : t[j].at \in Int
          /\ \A j, m \in 1 .. n : j < m => t[j].at < t[m].at
      BY <3>1 DEF InTime
    <3> HIDE DEF n
    <3>3. \A j \in 1 .. n : ~(t[j].at >= u)
      <4>1. n \in 1 .. n
        BY <3>1
      <4>2. \A j \in 1 .. n : t[j].at <= t[n].at
        BY <3>1, <3>2, <4>1
      <4> QED
        BY <1>2, <3>2, <4>1, <4>2
    <3> QED
      BY <3>1, <3>3
  <2>4. InForce(z, u, y) = InForceAmong(Changes(f, y), u, -Written(f.std))
    <3>1. InForce(z, u, y) =
            IF \E e \in table : e.at >= u THEN InForceAmong(table, u, -Written(f.std))
            ELSE InForceAmong(Changes(f, y), u, -Written(f.std))
      BY InForceIs
    <3> HIDE DEF table, f
    <3> QED
      BY <2>3, <3>1
  <2> HIDE DEF f
  <2> QED
    BY <2>1, <2>2, <2>4
<1> QED
  BY <1>1, <1>2

\* The display zone is one of the index, and what the cache remembers of a name is its entry.
ZoneInv ==
    /\ tz \in Names
    /\ cache.id # TZ_ID_INVALID => Index[cache.id] = cache.name

\* So it is at the start, where tz_startup() falls back on UTC,
LEMMA InitZone == ZoneInit => ZoneInv
<1> SUFFICES ASSUME ZoneInit
             PROVE  ZoneInv
  OBVIOUS
<1>1. PICK z \in Wanted :
        /\ tz = IF FindByName(z) = TZ_ID_INVALID THEN UTC ELSE z
        /\ cache = IF FindByName(z) = TZ_ID_INVALID THEN NoCache
                   ELSE [name |-> z, id |-> FindByName(z)]
  BY DEF ZoneInit
<1>2. UTC \in Names
  BY TimeZoneAssumption DEF Names
<1>3. CASE FindByName(z) = TZ_ID_INVALID
  BY <1>1, <1>2, <1>3 DEF ZoneInv, NoCache
<1>4. CASE FindByName(z) # TZ_ID_INVALID
  <2>1. FindByName(z) \in DOMAIN Index /\ Index[FindByName(z)] = z
    BY <1>4, FindsEntry
  <2>2. z \in Names
    BY <2>1 DEF Names
  <2> QED
    BY <1>1, <1>4, <2>1, <2>2 DEF ZoneInv
<1> QED
  BY <1>3, <1>4

\* Then tz_resolve() finds the display zone's entry, in the index or in the cache.
LEMMA ResolvesZone ==
  ASSUME CalendarInv, ZoneInv
  PROVE  /\ Resolve(tz) # TZ_ID_INVALID /\ Index[Resolve(tz)] = tz
         /\ Remembered(tz, Resolve(tz)) = [name |-> tz, id |-> Resolve(tz)]
<1>1. FindByName(tz) # TZ_ID_INVALID /\ Index[FindByName(tz)] = tz
  BY FindsEntry DEF ZoneInv
<1>2. Resolve(tz) # TZ_ID_INVALID /\ Index[Resolve(tz)] = tz
  BY <1>1 DEF Resolve, ZoneInv
<1> QED
  BY <1>2 DEF Remembered

\* So it is after every step.
LEMMA StepKeepsZone == CalendarInv /\ ZoneInv /\ [ZoneNext]_zoneVars => ZoneInv'
<1> SUFFICES ASSUME CalendarInv, ZoneInv, [ZoneNext]_zoneVars
             PROVE  ZoneInv'
  OBVIOUS
<1>1. ASSUME NEW u \in utc + 1 .. utc + DAY, Paint(u)
      PROVE  ZoneInv'
  <2>1. cache' = Remembered(tz, Resolve(tz)) /\ tz' = tz
    BY <1>1 DEF Paint
  <2> QED
    BY <2>1, ResolvesZone DEF ZoneInv
<1>2. ASSUME NEW z \in Names, ChooseZone(z)
      PROVE  ZoneInv'
  BY <1>2 DEF ChooseZone, ZoneInv
<1>3. CASE UNCHANGED zoneVars
  BY <1>3 DEF zoneVars, ZoneInv
<1> QED
  BY <1>1, <1>2, <1>3 DEF ZoneNext

\* An instant is in the year of its date.
LEMMA YearOfDate ==
  ASSUME NEW u \in Int, NEW a, IsDateOf(a, u \div DAY)
  PROVE  /\ a.year \in Int /\ Breakdown(u).year = a.year
         /\ January(a.year) * DAY <= u /\ u < January(a.year + 1) * DAY
<1> DEFINE y == a.year
           m == a.month
           jan == January(y)
<1>1. y \in Int /\ m \in 1 .. 12 /\ a.mday \in 1 .. 31 /\ a.yday \in Nat /\ "year" \in DOMAIN a
  BY DEF IsDateOf, DateSet
<1>2. Breakdown(u).year = y
  BY <1>1, BreakdownIs
<1>3. /\ a.mday <= MonthLength(y, m) /\ a.yday = MonthStart(y, m) + a.mday - 1
      /\ jan + a.yday = u \div DAY
  BY DEF IsDateOf
<1>4. jan \in Int /\ LeapDay(y) \in {0, 1} /\ January(y + 1) = jan + 365 + LeapDay(y)
  BY <1>1, JanuaryInt, NextJanuary
<1>5. MonthStart(y, m) + MonthLength(y, m) <= 365 + LeapDay(y)
  <2> HIDE DEF y, m
  <2> QED
    BY <1>1, <1>4 DEF MonthStart, kStarts, MonthLength, kMdays, LeapDay
<1>6. MonthStart(y, m) \in Nat /\ MonthLength(y, m) \in Nat
  <2>1. PICK k \in 1 .. 12 : k = m
    BY <1>1
  <2>2. MonthStart(y, k) \in Nat /\ MonthLength(y, k) \in 28 .. 31
    BY ONLY <1>1, MonthBeginsInt
  <2> QED
    BY <2>1, <2>2
<1> HIDE DEF y, m, jan
<1>7. u \div DAY \in Int /\ (u \div DAY) * DAY <= u /\ u < (u \div DAY + 1) * DAY
  BY DEF DAY
<1>8. a.yday + 1 <= 365 + LeapDay(y)
  BY <1>1, <1>3, <1>4, <1>5, <1>6
<1> DEFINE q == u \div DAY
<1> HIDE DEF q
<1>9. jan <= q /\ q + 1 <= jan + 365 + LeapDay(y) /\ q \in Int /\ q * DAY <= u /\ u < (q + 1) * DAY
  BY <1>1, <1>3, <1>4, <1>7, <1>8 DEF q
<1>10. jan * DAY <= u /\ u < (jan + 365 + LeapDay(y)) * DAY
  BY <1>4, <1>9 DEF DAY
<1> QED
  BY <1>1, <1>2, <1>4, <1>10 DEF y, jan

\* The almanac reaches two years beyond the one shown on either side.
InAlmanac == almanac.year \in 1962 .. LastYear + 1

\* A step of the zone's paints what the zone puts in force.
LEMMA PaintsOffset ==
  ASSUME CalendarInv, CalendarInv', ZoneInv, InAlmanac', [ZoneNext]_zoneVars,
         StrikesWithinDay(tz), utc' # utc
  PROVE  LET t == InForce(tz, utc', almanac'.year)
         IN  wall' # Nothing /\ wall'.off = t.off /\ wall'.isdst = t.isdst
<1> DEFINE y == almanac'.year
<1>1. PICK u \in utc + 1 .. utc + DAY : Paint(u)
  BY DEF ZoneNext, ChooseZone, zoneVars
<1> DEFINE id == Resolve(tz)
           t == InForce(tz, u, y)
<1>2. utc' = u /\ u \in Int /\ IsDateOf(almanac', u \div DAY)
  BY <1>1 DEF Paint, CalendarInv
<1>3. /\ y \in Int /\ Breakdown(u).year = y
      /\ January(y) * DAY <= u /\ u < January(y + 1) * DAY
  BY <1>2, YearOfDate
<1>4. y \in 1962 .. LastYear + 1
  BY DEF InAlmanac
<1> HIDE DEF y
<1>5. TypeAt(Blob[tz], u) = t
  <2>1. tz \in Names
    BY DEF ZoneInv
  <2> QED
    BY <1>2, <1>3, <1>4, <2>1, TypeIsInForce
<1>6. wall' = WithDate(t, u)
  <2>1. id # TZ_ID_INVALID /\ Index[id] = tz
    BY ResolvesZone
  <2>2. wall' = LocalFromUtc(id, u)
    BY <1>1, <2>1 DEF Paint
  <2> QED
    BY <1>5, <2>1, <2>2 DEF LocalFromUtc, TzifResolve
<1> HIDE DEF t
<1>7. wall'.off = t.off /\ wall'.isdst = t.isdst
  BY <1>6 DEF WithDate
<1>8. wall' # Nothing
  <2>1. "at" \in DOMAIN wall' /\ "at" \notin DOMAIN Nothing
    BY <1>6 DEF WithDate, Nothing
  <2> QED
    BY <2>1
<1> QED
  BY <1>2, <1>7, <1>8 DEF t, y

\* tzif_resolve, posix_resolve, tz_resolve: as long as the almanac reaches, each time the face is
\* painted its offset is the one that the zone's table, and after it its footer, put in force at
\* that minute, for any index in order and any tables and footers of the form embedded.
THEOREM PaintsOffsetInForce == ZoneSpec /\ []InAlmanac => OffsetInForce
<1>1. ZoneSpec => [](CalendarInv /\ ZoneInv)
  BY InitCalendar, StepKeepsCalendar, InitZone, StepKeepsZone, PTL DEF ZoneSpec
<1>2. CalendarInv /\ CalendarInv' /\ ZoneInv /\ InAlmanac' /\ [ZoneNext]_zoneVars
        => [StrikesWithinDay(tz) /\ utc' # utc =>
              LET t == InForce(tz, utc', almanac'.year)
              IN  wall' # Nothing /\ wall'.off = t.off /\ wall'.isdst = t.isdst]_zoneVars
  BY PaintsOffset
<1> QED
  BY <1>1, <1>2, PTL DEF ZoneSpec, OffsetInForce
=============================================================================
