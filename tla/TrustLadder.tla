---------------------------- MODULE TrustLadder ----------------------------
(***************************************************************************)
(* What the disciplined clock promises its readers (the display states of  *)
(* clock.h), without QPC, rates or streaks: a tier, an error bound, and    *)
(* whether an authenticated poll cycle is being acted upon.  Only such a   *)
(* cycle climbs the ladder or tightens the bound; everything else - time,  *)
(* failed cycles, unauthenticated witnesses, sleeps, faults - weakens.     *)
(***************************************************************************)
EXTENDS Integers

VARIABLES tier, bound, cycling

vars == <<tier, bound, cycling>>

Tiers == 0..3           \* INOP, REACQUIRING, HOLDOVER, OK
Runs(t) == t >= 2       \* a running time is shown, with a bound

Init == tier = 0 /\ bound = 0 /\ cycling = FALSE

BeginCycle ==
    /\ ~cycling
    /\ cycling' = TRUE
    /\ UNCHANGED <<tier, bound>>

\* A running time stays only with a bound at least as wide; nothing climbs.
Weaken ==
    /\ tier' \in 0..tier
    /\ IF Runs(tier') THEN bound' >= bound ELSE bound' = 0
    /\ cycling' \in {cycling, FALSE}

\* The cycle in hand holds, widens, tightens, or lays a new anchor.
Corroborate ==
    /\ cycling
    /\ tier' \in Tiers
    /\ Runs(tier) => Runs(tier')
    /\ IF Runs(tier') THEN bound' \in Nat ELSE bound' = 0
    /\ cycling' \in BOOLEAN

Next == BeginCycle \/ Weaken \/ Corroborate

Spec == Init /\ [][Next]_vars
=============================================================================
