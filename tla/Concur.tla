------------------------------- MODULE Concur -------------------------------
(***************************************************************************)
(* The concurrence gate of a poll cycle (Ntp_Concur, src/src/ntp.c): four  *)
(* plain core sources and two authenticated NTS anchors go in; a verdict,  *)
(* an anchor with its measured uncertainty, and perhaps a core cluster     *)
(* come out.  Inputs are what the workers can report: each sample carries  *)
(* its UTC, the QPC value it was captured at, and what the exchange says   *)
(* about its error.                                                        *)
(***************************************************************************)
EXTENDS Qpc, Sequences, FiniteSets, TLC

CONSTANTS
    CONCUR_THRESHOLD_MS,        \* 200
    CORE_CLUSTER_THRESHOLD_MS,  \* 100
    NTP_DISP_FLOOR_MS,          \* 15
    CoreReports,    \* what a core slot may report: [ok, utc, qpc]
    NtsReports      \* an NTS slot: [ok, utc, qpc, rtt, root, auth, family]

ASSUME ConcurConstants ==
    /\ QpcFreq \in Nat \ {0}
    /\ CONCUR_THRESHOLD_MS \in Nat \ {0} /\ CORE_CLUSTER_THRESHOLD_MS \in Nat
    /\ NTP_DISP_FLOOR_MS \in Nat

ASSUME ReportsTyped ==
    /\ CoreReports \subseteq [ok : BOOLEAN, utc : Int, qpc : Int]
    /\ \A r \in NtsReports : /\ r.ok \in BOOLEAN /\ r.utc \in Int /\ r.qpc \in Int
                             /\ r.rtt \in Nat /\ r.root \in Nat

VARIABLES
    core,           \* slots 0..3 of this cycle
    nts,            \* slots 4..5, as 1..2
    verdict,        \* what Ntp_Concur returned
    lastSpreadMs, lastNtsSpreadMs      \* what the poll scheduler reads

concurVars == <<core, nts, verdict, lastSpreadMs, lastNtsSpreadMs>>

CoreSlots == 0..3
NtsSlots == 1..2

NoVerdict == [trust |-> "none", utc |-> 0, qpc |-> 0, err |-> 0, cluster |-> {}]
Inop(err) == [NoVerdict EXCEPT !.trust = "INOP", !.err = err]
-----------------------------------------------------------------------------
\* Mutant: samples are compared as if captured at one instant.
Unprojected(r, refQpc) == r.utc

\* ProjectUtcOntoQpc: the sample's UTC moved to another QPC value.
Projected(r, refQpc) == r.utc + QpcTicksToMs(refQpc - r.qpc)

a == nts[1]
b == nts[2]

\* A sample some pin vouches for; a rotated pin is still pending.
Authentic(r) == r.ok /\ r.auth \in {"enrolled", "rotated"}

PairPresent == Authentic(a) /\ Authentic(b)

NtsDelta == Projected(b, a.qpc) - a.utc

\* The midpoint of the pair, at slot a's capture.
Mid == a.utc + TruncDiv(NtsDelta, 2)

\* The deviations of the answering cores from the midpoint.
Deviation(i) == Abs(Projected(core[i], a.qpc) - Mid)
Answering == {i \in CoreSlots : core[i].ok}
Concurring == {i \in Answering : Deviation(i) <= CONCUR_THRESHOLD_MS}

\* The largest deviation in a set of cores; zero for none.
Worst(cores) ==
    IF cores = {} THEN 0
    ELSE CHOOSE d \in {Deviation(i) : i \in cores} : \A i \in cores : Deviation(i) <= d

\* The median deviation of the concurring cores.
Median ==
    LET n == Cardinality(Concurring)
        rank(i) == Cardinality({j \in Concurring :
                     Deviation(j) < Deviation(i) \/ (Deviation(j) = Deviation(i) /\ j < i)})
        at(k) == Deviation(CHOOSE i \in Concurring : rank(i) = k)
    IN  IF n % 2 = 1 THEN at(n \div 2) ELSE (at(n \div 2 - 1) + at(n \div 2)) \div 2

\* Mutant: the wider of the halves stands for their sum.
WiderHalf ==
    Larger(Abs(NtsDelta) \div 2,
           Larger(a.rtt, b.rtt) \div 2 + Larger(Larger(a.root, b.root), NTP_DISP_FLOOR_MS))

\* Half the spread, half the worst round trip, and what the servers claim.
PairError ==
    Abs(NtsDelta) \div 2 + Larger(a.rtt, b.rtt) \div 2
      + Larger(Larger(a.root, b.root), NTP_DISP_FLOOR_MS)
-----------------------------------------------------------------------------
(***************************************************************************)
(* CoreOnlyConsensus: the first core, in slot order, with most cores       *)
(* within the cluster threshold of it, all moved to the first answer.      *)
(***************************************************************************)
LeastOf(S) == CHOOSE i \in S : \A j \in S : i <= j

RefQpc == core[LeastOf(Answering)].qpc

Near(i) == {j \in Answering : Abs(Projected(core[j], RefQpc) - Projected(core[i], RefQpc))
                                <= CORE_CLUSTER_THRESHOLD_MS}

Centers == {i \in Answering :
              \A j \in Answering : Cardinality(Near(j)) <= Cardinality(Near(i))}

\* The cluster reported to the watchdog, if three cores are in it.
Cluster ==
    IF Answering = {} \/ \A i \in Answering : Cardinality(Near(i)) < 3 THEN {}
    ELSE LET center == LeastOf(Centers)
         IN  {[utc |-> Projected(core[center], RefQpc), qpc |-> RefQpc,
               members |-> Near(center)]}
-----------------------------------------------------------------------------
ConcurInit ==
    /\ core \in [CoreSlots -> CoreReports]
    /\ nts \in [NtsSlots -> NtsReports]
    /\ verdict = NoVerdict /\ lastSpreadMs = 0 /\ lastNtsSpreadMs = 0

Unjudged == verdict = NoVerdict /\ UNCHANGED <<core, nts>>

\* No continuous pin vouches for the cycle.
TwoRotated == a.auth = "rotated" /\ b.auth = "rotated"

OneOperator == a.family = "" \/ b.family = "" \/ a.family = b.family

JudgeUntrustedPair ==
    /\ Unjudged /\ PairPresent
    /\ TwoRotated \/ OneOperator
    /\ verdict' = Inop(0)
    /\ UNCHANGED <<lastSpreadMs, lastNtsSpreadMs>>

JudgeSplitPair ==
    /\ Unjudged /\ PairPresent /\ ~TwoRotated /\ ~OneOperator
    /\ Abs(NtsDelta) > CONCUR_THRESHOLD_MS
    /\ verdict' = Inop(Abs(NtsDelta))
    /\ lastNtsSpreadMs' = Abs(NtsDelta)
    /\ UNCHANGED lastSpreadMs

\* Mutant: half of the cores will do.
HalfOfCores == Cardinality(Concurring) >= 2

SuperMajority == Cardinality(Concurring) >= 3

JudgeWeakCore ==
    /\ Unjudged /\ PairPresent /\ ~TwoRotated /\ ~OneOperator
    /\ Abs(NtsDelta) <= CONCUR_THRESHOLD_MS
    /\ ~SuperMajority
    /\ verdict' = Inop(Worst(Answering))
    /\ lastNtsSpreadMs' = Abs(NtsDelta)
    /\ lastSpreadMs' = Worst(Answering)

JudgePass ==
    /\ Unjudged /\ PairPresent /\ ~TwoRotated /\ ~OneOperator
    /\ Abs(NtsDelta) <= CONCUR_THRESHOLD_MS
    /\ SuperMajority
    /\ verdict' = [trust |-> "OK", utc |-> Mid, qpc |-> a.qpc,
                   err |-> Larger(PairError, Median), cluster |-> {}]
    /\ lastNtsSpreadMs' = Abs(NtsDelta)
    /\ lastSpreadMs' = Worst(Concurring)

\* An anchor is missing: no verdict, but maybe a witness.
JudgeNoPair ==
    /\ Unjudged /\ ~PairPresent
    /\ verdict' = [Inop(0) EXCEPT !.cluster = Cluster]
    /\ UNCHANGED <<lastSpreadMs, lastNtsSpreadMs>>

ConcurNext == JudgeUntrustedPair \/ JudgeSplitPair \/ JudgeWeakCore \/ JudgePass \/ JudgeNoPair

ConcurSpec == ConcurInit /\ [][ConcurNext]_concurVars
-----------------------------------------------------------------------------
(***************************************************************************)
(* Properties.  True UTC at a QPC value is that value in milliseconds.     *)
(***************************************************************************)
TrueError(r) == Abs(r.utc - QpcTicksToMs(r.qpc))

\* An NTS sample whose error its round trip and its server's claim explain.
HonestAnchor(r) == TrueError(r) <= r.rtt \div 2 + Larger(r.root, NTP_DISP_FLOOR_MS)

\* What arithmetic costs: a sample moved to another QPC value by whole milliseconds
\* may be off by one, and so is the midpoint of an odd spread.
MoveMs == 1
MidpointMs == 1

\* ntp.c takes the sum of the halves, not the larger, to hold in both regimes:
\* as long as one of the two anchors is honest, the uncertainty measured by a
\* passing cycle covers the true error of its anchor (but for the roundings).
ErrorCoversLiar ==
    verdict.trust = "OK" /\ (HonestAnchor(a) \/ HonestAnchor(b))
      => TrueError(verdict) <= verdict.err + MoveMs + MidpointMs

\* Even with both anchors lying, an accepted anchor stays within the threshold
\* of a core source that tells the truth, unless three of the four cores lie.
MajorityHoldsAnchor ==
    verdict.trust = "OK" /\ Cardinality({i \in CoreSlots : core[i].ok /\ TrueError(core[i]) = 0}) >= 2
      => TrueError(verdict) <= CONCUR_THRESHOLD_MS + MoveMs

\* When each sample was captured must not matter: samples that are all
\* truthful pass, however far apart their capture, and the cluster of truthful
\* cores is true.
TruthAgrees ==
    /\ /\ verdict.trust = "INOP" /\ PairPresent /\ ~TwoRotated /\ ~OneOperator
       => \/ \E i \in NtsSlots : TrueError(nts[i]) > 0
          \/ Cardinality({j \in CoreSlots : core[j].ok /\ TrueError(core[j]) = 0}) < 3
    /\ \A c \in verdict.cluster :
          (\A i \in Answering : TrueError(core[i]) = 0) => TrueError(c) <= MoveMs
=============================================================================
