-------------------------- MODULE MCClockEvidence --------------------------
(***************************************************************************)
(* A small instance of ClockEvidence: samples whose true errors agree,     *)
(* disagree and flip sign, with and without uncertainty to excuse them.    *)
(***************************************************************************)
EXTENDS ClockEvidence

MCStories == {[off |-> 0, err |-> 2], [off |-> 7, err |-> 2],
              [off |-> -7, err |-> 2], [off |-> 16, err |-> 20]}

MCNoFiles == {NoFile}
MCDrifts == {1}
=============================================================================
