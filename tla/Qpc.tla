-------------------------------- MODULE Qpc --------------------------------
(***************************************************************************)
(* The performance counter: its ticks in milliseconds.                     *)
(***************************************************************************)
EXTENDS CArith

CONSTANT QpcFreq        \* QPC ticks per 1000 ms

QpcTicksToMs(ticks) == RoundDiv(ticks * 1000, QpcFreq)
=============================================================================
