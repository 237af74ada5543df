----------------------------- MODULE MCEventLog -----------------------------
(***************************************************************************)
(* Small instances of EventLog, one for each part: the ring and the shell  *)
(* in one run of the program, the two over a crash, and the files alone    *)
(* (the engine is silent) over several rotations and two crashes.          *)
(***************************************************************************)
EXTENDS EventLog

VARIABLE part

\* How far a part goes, within the bounds of the configuration.
MCBounds ==
    [ring  |-> [seq |-> 4, made |-> 4, runs |-> 1],
     both  |-> [seq |-> 3, made |-> 3, runs |-> 2],
     files |-> [seq |-> 0, made |-> 6, runs |-> 3]]

MCInit == LogInit /\ part \in DOMAIN MCBounds

MCNext ==
    /\ LogNext /\ part' = part
    /\ nextSeq' <= MCBounds[part].seq + 1
    /\ made' <= MCBounds[part].made /\ runs' <= MCBounds[part].runs
    /\ part = "files" => UNCHANGED engine

MCSpec == MCInit /\ [][MCNext]_<<logVars, part>>

MCSymmetry == Permutations(Threads)
=============================================================================
