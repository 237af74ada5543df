--------------------------- MODULE PollScheduler ---------------------------
(***************************************************************************)
(* When the program polls (lunar.tcl): the adaptive timer, the polls       *)
(* forced when the face loses its time, and the user's own.  The clock is  *)
(* what the status command shows of it: its tier, the age of its anchor,   *)
(* whether the sources agree tightly, and how the bound stands to the      *)
(* user's stop ceiling.  A read of the face is instantaneous on the scale  *)
(* of time here, so time passes only when the face has nothing to render.  *)
(***************************************************************************)
EXTENDS CArith

CONSTANTS
    PollMin,            \* poll_min: 8 s
    PollBase,           \* poll_ms: 60 s
    PollMax,            \* poll_max: 600 s
    CycleBudget,        \* 40 s: the longest a cycle takes
    StaleAfter,         \* CYCLE_STALE_AFTER_MS: 660 s
    Worlds              \* what may happen in a behaviour, one chosen for each:
                        \*   outcomes: how a cycle may end: "pass", "hold", "fail"
                        \*   breaks: may the continuity of QPC break?
                        \*   syncs: does the user ask for a sync?
                        \*   steps: is the system clock ever stepped back?

ASSUME SchedulerConstants ==
    /\ PollMin \in Nat \ {0} /\ PollBase \in Nat /\ PollMax \in Nat
    /\ PollMin <= PollBase /\ PollBase <= PollMax
    /\ CycleBudget \in Nat /\ StaleAfter \in Nat
    /\ Worlds \subseteq [outcomes : SUBSET {"pass", "hold", "fail"},
                          breaks : BOOLEAN, syncs : BOOLEAN, steps : BOOLEAN]

\* clock.c: the staleness window lies above the worst-case healthy renewal, a
\* relaxed interval and a cycle.  So does a base interval that a cycle in flight
\* makes the timer miss; and a cycle (40 s) ends within the base interval (60 s).
ASSUME WindowClearsRenewal ==
    /\ PollMax + CycleBudget <= StaleAfter
    /\ PollBase + 2 * CycleBudget <= StaleAfter
    /\ CycleBudget < PollBase

VARIABLES
    world,
    timer,      \* time until the repoll that is scheduled
    good, bad,  \* poll_good, poll_bad: they stop counting when they stop mattering
    forcedAgo,  \* [clock milliseconds] less poll_forced_at; PollMin stands for more
    cycle,      \* [age, sample]: of the cycle in flight and its sample; -1 is none
    trust, broken,      \* of the clock: see Clock
    anchorAge,  \* -1 without an anchor; MaxAge stands for more
    tight,      \* a measured rate, and both spreads of the last cycle within 80 ms
    ceiling,    \* the bound: 0 up to half the stop ceiling, 1 up to it, 2 above
    face,       \* [hits, stopped, running]: stop_hits, stopped_prev, hastime_prev
    cured       \* history: the last poll was a forced one, and found the clock healthy

vars == <<world, timer, good, bad, forcedAgo, cycle, trust, broken, anchorAge, tight,
          ceiling, face, cured>>
clock == <<trust, broken, anchorAge, tight, ceiling>>
pace == <<timer, good, bad, forcedAgo>>

\* Bound on the age of the anchor.
MaxAge == Larger(StaleAfter, PollMax + 2 * CycleBudget) + 1

INOP == 0
REACQUIRING == 1
HOLDOVER == 2
OK == 3

\* DeriveDisplayLocked, on what is kept of the clock here.
DisplayState ==
    IF anchorAge = -1 THEN INOP
    ELSE IF broken THEN REACQUIRING
    ELSE IF trust = OK /\ anchorAge <= StaleAfter THEN OK
    ELSE HOLDOVER

HasTime == DisplayState >= HOLDOVER

NoCycle == [age |-> -1, sample |-> -1]
NewCycle == [age |-> 0, sample |-> -1]

Init ==     \* engine_start fires the first cycle and arms the timer
    /\ world \in Worlds
    /\ timer = PollMin /\ good = 0 /\ bad = 0 /\ forcedAgo = PollMin
    /\ cycle = NewCycle
    /\ trust = INOP /\ broken = FALSE /\ anchorAge = -1
    /\ tight = FALSE /\ ceiling = 0
    /\ face = [hits |-> 0, stopped |-> FALSE, running |-> TRUE]
    /\ cured = FALSE
-----------------------------------------------------------------------------
(***************************************************************************)
(* next_poll_ms and repoll.                                                *)
(***************************************************************************)
MaxBad == 5
MaxGood == 12

Unhealthy == DisplayState # OK \/ ceiling > 0

\* 1 << n, for the shifts that occur.
Shifted(n) == <<1, 2, 4, 8, 16, 32, 64, 128, 256>>[n + 1]

\* Fast while unhealthy, doubling up to the base interval.
Backoff(n) == Smaller(PollBase, PollMin * Shifted(Smaller(n - 1, 4)))

\* Mutant: the relaxed interval has no ceiling.
RelaxUncapped(n) == PollBase * Shifted(Smaller(n - 3, 8))

\* Relaxed after three converged polls, doubling up to the ceiling.
Relax(n) == Smaller(PollMax, PollBase * Shifted(Smaller(n - 3, 8)))

SyncNow == IF cycle = NoCycle THEN cycle' = NewCycle ELSE UNCHANGED cycle

NextPoll ==
    \/ /\ Unhealthy
       /\ good' = 0 /\ bad' = Smaller(MaxBad, bad + 1)
       /\ timer' = Backoff(bad')
    \/ /\ ~Unhealthy /\ ~tight
       /\ good' = 0 /\ bad' = 0
       /\ timer' = PollBase
    \/ /\ ~Unhealthy /\ tight
       /\ good' = Smaller(MaxGood, good + 1) /\ bad' = 0
       /\ timer' = IF good' < 3 THEN PollBase ELSE Relax(good')

\* The status is read just after the cycle is asked for, so the interval is
\* that of the state before this cycle's verdict.
Repoll ==
    /\ timer = 0
    /\ SyncNow
    /\ NextPoll
    /\ cured' = (forcedAgo < PollMin /\ ~Unhealthy)
    /\ UNCHANGED <<world, forcedAgo, clock, face>>

\* Ctrl-R, or the button of the settings window.
UserSync ==
    /\ world.syncs
    /\ cycle = NoCycle
    /\ cycle' = NewCycle
    /\ UNCHANGED <<world, pace, clock, face, cured>>
-----------------------------------------------------------------------------
(***************************************************************************)
(* The face: five reads a second.                                          *)
(***************************************************************************)

\* stop_eval: two consecutive reads above the ceiling stop the face.
NextFace ==
    LET hits == IF HasTime /\ ceiling = 2 THEN Smaller(2, face.hits + 1) ELSE 0
    IN  [hits |-> hits, stopped |-> hits = 2, running |-> HasTime]

\* Mutant: the edge on which the time vanishes is not watched.
StopEdgeOnly == NextFace.stopped /\ ~face.stopped

\* The edges on which the face stops showing a running time.
LostTime == (NextFace.stopped /\ ~face.stopped) \/ (~NextFace.running /\ face.running)

\* poll_now: at most one forced poll for each PollMin of the system clock.
PollNow ==
    IF forcedAgo < PollMin
    THEN UNCHANGED pace
    ELSE forcedAgo' = 0 /\ timer' = 0 /\ UNCHANGED <<good, bad>>

Render ==
    /\ face # NextFace
    /\ face' = NextFace
    /\ IF LostTime THEN PollNow ELSE UNCHANGED pace
    /\ UNCHANGED <<world, cycle, clock, cured>>
-----------------------------------------------------------------------------
(***************************************************************************)
(* A cycle in flight, and the machine.                                     *)
(***************************************************************************)
InFlight == cycle # NoCycle

Capture ==
    /\ InFlight /\ cycle.sample = -1
    /\ cycle' = [cycle EXCEPT !.sample = 0]
    /\ UNCHANGED <<world, pace, clock, face, cured>>

\* The cycle's sample is accepted: an OK display on a new anchor.
EndPass(c) ==
    /\ "pass" \in world.outcomes /\ InFlight /\ cycle.sample >= 0
    /\ trust' = OK /\ broken' = FALSE
    /\ anchorAge' = cycle.sample
    /\ tight' \in BOOLEAN
    /\ ceiling' = c
    /\ cycle' = NoCycle
    /\ UNCHANGED <<world, pace, face, cured>>

\* The sample disagrees with the anchor held: holdover, the bound inflated.
EndHold(c) ==
    /\ "hold" \in world.outcomes /\ InFlight /\ cycle.sample >= 0
    /\ anchorAge >= 0 /\ ~broken
    /\ trust' = HOLDOVER
    /\ tight' \in BOOLEAN
    /\ ceiling' = c
    /\ cycle' = NoCycle
    /\ UNCHANGED <<world, pace, broken, anchorAge, face, cured>>

\* The gate failed: holdover on the anchor held, if any.
EndFail ==
    /\ "fail" \in world.outcomes /\ InFlight
    /\ trust' = IF anchorAge >= 0 /\ ~broken THEN HOLDOVER ELSE trust
    /\ tight' \in BOOLEAN
    /\ cycle' = NoCycle
    /\ UNCHANGED <<world, pace, broken, anchorAge, ceiling, face, cured>>

\* QPC loses time, with a cycle in flight or none; the next read of the face
\* trips the continuity.
Break ==
    /\ world.breaks /\ anchorAge >= 0
    /\ broken' = TRUE
    /\ UNCHANGED <<world, pace, cycle, trust, anchorAge, tight, ceiling, face, cured>>

\* The bound grows with the time since the anchor.
Grow ==
    /\ anchorAge >= 0 /\ ceiling < 2
    /\ ceiling' = ceiling + 1
    /\ UNCHANGED <<world, pace, cycle, trust, broken, anchorAge, tight, face, cured>>

\* The system clock is stepped back, and poll_forced_at lies ahead of it.
StepClockBack ==
    /\ world.steps
    /\ forcedAgo' = -PollMax
    /\ UNCHANGED <<world, timer, good, bad, cycle, clock, face, cured>>

Older(n, limit) == IF n = -1 THEN -1 ELSE Smaller(limit, n + 1)

Tick ==
    /\ timer > 0 /\ face = NextFace /\ cycle.age < CycleBudget
    /\ timer' = timer - 1
    /\ forcedAgo' = Smaller(PollMin, forcedAgo + 1)
    /\ anchorAge' = Older(anchorAge, MaxAge)
    /\ cycle' = [age |-> Older(cycle.age, CycleBudget),
                 sample |-> Older(cycle.sample, CycleBudget)]
    /\ UNCHANGED <<world, good, bad, trust, broken, tight, ceiling, face, cured>>

Next ==
    \/ Repoll \/ UserSync \/ Render
    \/ Capture \/ (\E c \in 0..1 : EndPass(c)) \/ (\E c \in 0..2 : EndHold(c)) \/ EndFail
    \/ Break \/ Grow \/ StepClockBack
    \/ Tick

Spec == Init /\ [][Next]_vars
-----------------------------------------------------------------------------
(***************************************************************************)
(* Properties.                                                             *)
(***************************************************************************)

\* Nothing goes wrong but the pace: cycles pass, QPC runs on.
Healthy == world.outcomes = {"pass"} /\ ~world.breaks

\* clock.c derives CYCLE_STALE_AFTER_MS from the scheduler.  While every cycle
\* passes and only the timer polls, an OK once published stays, however the
\* intervals and the duration of the cycles fall.
HealthyNeverStale == Healthy /\ ~world.syncs /\ trust = OK => DisplayState = OK

\* A sync the user asks for is not the timer's: the poll that falls into it is
\* ignored, and OK may lapse.  It lapses only until the cycle after that one has
\* spent its budget.
FalseAlarmIsBrief == Healthy /\ trust = OK => anchorAge <= PollMax + 2 * CycleBudget

\* How far the forced polls of lunar.tcl keep their promise, "recovery never
\* waits out a relaxed interval".  A face that shows no running time is at most a
\* base interval from a poll, whenever the time was lost, in the middle of a
\* cycle or not - with one exception, against the promise: the cycle in flight
\* restores the time before the forced poll comes, which then relaxes the pace,
\* and the time is lost again while no further poll may be forced.  (Nor if the
\* system clock is stepped back, or the user's sync comes in between.)
RecoveryNotRelaxed ==
    /\ ~world.steps /\ ~world.syncs
    /\ face.stopped \/ ~face.running
    => timer <= PollBase \/ cured
=============================================================================
