------------------------------ MODULE MCClock ------------------------------
(***************************************************************************)
(* Small instances of Clock.  Times are scaled: 10 ms stand for the 8 s of *)
(* a poll, a rate unit is one part in PPM = 20, and a QPC tick is half a   *)
(* millisecond, so rounding and truncation really happen.                  *)
(***************************************************************************)
EXTENDS Clock

Accurate == {[off |-> 0, err |-> 2], [off |-> -2, err |-> 2]}
Unmeasured == {[off |-> 3, err |-> 0]}

\* A calm network jitters by a quarter of the threshold (4); a wrong sample passes
\* the gate.
MCSamplesSmall == {[off |-> -1, err |-> 2], [off |-> 1, err |-> 2], [off |-> 9, err |-> 9]}
MCSamplesUnmeasured == Accurate \cup Unmeasured

MCNoFiles == {NoFile}
MCFiles == {NoFile, [rate |-> 1, lastSync |-> 0], [rate |-> 3, lastSync |-> 1]}

MCDrifts == {1}
MCDriftsWide == {-1, 1}

\* The instances satisfy what HonestBound and OkIsFresh ask of their surroundings.
ASSUME WithinThePremises == SamplesWithinError /\ PausesAreNoticed /\ CyclesKeepTime
=============================================================================
