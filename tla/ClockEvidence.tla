--------------------------- MODULE ClockEvidence ---------------------------
(***************************************************************************)
(* Clock with a history of the disagreements the gate-passing cycles of    *)
(* the held anchor reported, as the network sent them: what the streak     *)
(* counters of clock.c are meant to summarise.                             *)
(***************************************************************************)
EXTENDS Clock, Sequences, FiniteSets

CONSTANT MaxHistory      \* bound: gate-passing cycles judged between accepts

ASSUME HistoryBound == MaxHistory \in Nat

VARIABLE history         \* of [diff, err], in the order they were classified

evars == <<vars, history>>

EvidenceInit == Init /\ history = <<>>

\* The disagreement in hand joins those before it.
WithThis == Append(history, [diff |-> Residual, err |-> cycle.err])

\* An accepted sample ends the history, and so does a restart.
EvidenceNext ==
    /\ Next
    /\ IF ClassifyGated
       THEN /\ Len(history) < MaxHistory
            /\ history' = IF cycle'.pc = "accepted" THEN <<>> ELSE WithThis
       ELSE history' = IF restarts' = restarts THEN history ELSE <<>>

EvidenceSpec == EvidenceInit /\ [][EvidenceNext]_evars
-----------------------------------------------------------------------------
\* A disagreement that is more than its own uncertainty explains.
Indicts(c) ==
    /\ Abs(c.diff) > FAULT_THRESHOLD_MS
    /\ Abs(c.diff) > Larger(c.err, FAULT_EVIDENCE_FLOOR_MS)

\* The indictments of h from position i on.
Since(h, i) == {j \in i..Len(h) : Indicts(h[j])}

\* They tell one story: the sign of the first, within a factor two of it.
OneStory(h, i) ==
    /\ i \in Since(h, i)
    /\ \A j \in Since(h, i) :
          /\ SignOf(h[j].diff) = SignOf(h[i].diff)
          /\ Abs(h[j].diff) * 2 >= Abs(h[i].diff)
          /\ Abs(h[j].diff) <= Abs(h[i].diff) * 2

\* The clock is forced off an intact anchor only by LOCAL_FAULT_ESCAPE_N
\* gate-passing cycles that indict it and tell one story, none of another
\* story among them: no shorter, mixed or congested series, however the failed
\* cycles and witnesses fall between, ever steps the displayed time.
StepNeedsEvidence ==
    [][ ClassifyFault /\ cycle.pc = "gated" /\ cycle'.pc = "accepted"
        => \E i \in 1..Len(WithThis) :
              /\ OneStory(WithThis, i)
              /\ Cardinality(Since(WithThis, i)) >= LOCAL_FAULT_ESCAPE_N
      ]_evars
=============================================================================
