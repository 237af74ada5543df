----------------------------- MODULE MCEvidence -----------------------------
(***************************************************************************)
(* What evidence is worth, within a cycle and over several: small          *)
(* instances of Concur and of ClockEvidence.  They share no variable, so   *)
(* each is run while the other rests in one of its initial states.         *)
(***************************************************************************)
EXTENDS MCConcur, MCClockEvidence

VARIABLE part

MCInit ==
    \/ /\ part = "gate"
       /\ ConcurInit
       /\ EvidenceInit
    \/ /\ part = "streak"
       /\ core = [i \in CoreSlots |-> Failed] /\ nts = [k \in NtsSlots |-> NtsFailed]
       /\ ConcurInit
       /\ EvidenceInit

MCNext ==
    /\ part' = part
    /\ \/ part = "gate" /\ ConcurNext /\ UNCHANGED evars
       \/ part = "streak" /\ EvidenceNext /\ UNCHANGED concurVars

MCSpec == MCInit /\ [][MCNext]_<<concurVars, evars, part>>
=============================================================================
