---------------------------- MODULE ConcurProofs ----------------------------
(***************************************************************************)
(* What the gate of a poll cycle guarantees, for every QPC frequency,      *)
(* every threshold and every report the six slots can make: its measured   *)
(* uncertainty covers one lying anchor, its super-majority two, and the    *)
(* truth passes it.                                                        *)
(***************************************************************************)
EXTENDS Concur, CArithTheorems, FiniteSetTheorems, TLAPS

\* A reading of UTC at a QPC value, both whole numbers.
Reading(r) == r.utc \in Int /\ r.qpc \in Int

Eligible == PairPresent /\ ~TwoRotated /\ ~OneOperator
Agreeing == Abs(NtsDelta) <= CONCUR_THRESHOLD_MS

\* The inductive invariant: the verdict is what the reports, which stay, deserve.
ConcurInv ==
    /\ core \in [CoreSlots -> CoreReports]
    /\ nts \in [NtsSlots -> NtsReports]
    /\ verdict.trust = "OK" =>
          /\ Agreeing /\ SuperMajority
          /\ verdict.utc = Mid /\ verdict.qpc = a.qpc
          /\ verdict.err = Larger(PairError, Median)
    /\ verdict.trust = "INOP" /\ Eligible => ~(Agreeing /\ SuperMajority)
    /\ verdict.cluster \subseteq Cluster

\* The reports of this cycle.
Reports ==
    /\ core \in [CoreSlots -> CoreReports]
    /\ nts \in [NtsSlots -> NtsReports]
-----------------------------------------------------------------------------
(***************************************************************************)
(* Moving readings between QPC values.                                     *)
(***************************************************************************)
LEMMA TicksInt == ASSUME NEW t \in Int PROVE QpcTicksToMs(t) \in Int
  BY ConcurConstants, RoundDivInt DEF QpcTicksToMs

\* The milliseconds between two QPC values differ from the difference of the
\* milliseconds by at most one.
LEMMA MoveCost ==
  ASSUME NEW s \in Int, NEW t \in Int
  PROVE  Abs(QpcTicksToMs(s - t) - QpcTicksToMs(s) + QpcTicksToMs(t)) <= 1
<1> DEFINE F == QpcFreq
           x == QpcTicksToMs(s - t)
           y == QpcTicksToMs(s)
           z == QpcTicksToMs(t)
<1>1. F \in Nat \ {0} /\ x \in Int /\ y \in Int /\ z \in Int
  BY ConcurConstants, TicksInt
<1>2. /\ 2 * (x * F) <= 2 * ((s - t) * 1000) + F /\ 2 * ((s - t) * 1000) - F <= 2 * (x * F)
      /\ 2 * (y * F) <= 2 * (s * 1000) + F /\ 2 * (s * 1000) - F <= 2 * (y * F)
      /\ 2 * (z * F) <= 2 * (t * 1000) + F /\ 2 * (t * 1000) - F <= 2 * (z * F)
  <2>1. (s - t) * 1000 \in Int /\ s * 1000 \in Int /\ t * 1000 \in Int
    OBVIOUS
  <2> QED
    BY <1>1, <2>1, RoundDivClose DEF QpcTicksToMs
<1> HIDE DEF F, x, y, z
<1>3. (x - y + z) * F = x * F - y * F + z * F
  BY <1>1
<1>4. x * F \in Int /\ y * F \in Int /\ z * F \in Int
  BY <1>1
<1>5. (x - y + z) * F < 2 * F /\ (-2) * F < (x - y + z) * F
  BY <1>1, <1>2, <1>3, <1>4
<1>6. x - y + z < 2 /\ -2 < x - y + z
  BY <1>1, <1>5, Cancel
<1> QED
  BY <1>1, <1>6 DEF Abs, x, y, z

LEMMA TrueErrorNat == ASSUME NEW r, Reading(r) PROVE TrueError(r) \in Nat
  BY TicksInt DEF Reading, TrueError, Abs

\* A sample moved to another QPC value is as true as it was, but for a rounding.
LEMMA MovedTrue ==
  ASSUME NEW r, Reading(r), NEW q \in Int
  PROVE  /\ Projected(r, q) \in Int
         /\ Abs(Projected(r, q) - QpcTicksToMs(q)) <= TrueError(r) + MoveMs
<1>1. /\ QpcTicksToMs(q - r.qpc) \in Int /\ QpcTicksToMs(q) \in Int
      /\ QpcTicksToMs(r.qpc) \in Int
  BY TicksInt DEF Reading
<1>2. Abs(QpcTicksToMs(q - r.qpc) - QpcTicksToMs(q) + QpcTicksToMs(r.qpc)) <= 1
  BY MoveCost DEF Reading
<1> QED
  BY <1>1, <1>2 DEF Reading, Projected, TrueError, MoveMs, Abs

\* Half of a spread, as C cuts it.
LEMMA HalfSpread ==
  ASSUME NEW n \in Int
  PROVE  /\ TruncDiv(n, 2) \in Int /\ Abs(n) \div 2 \in Nat
         /\ Abs(TruncDiv(n, 2)) = Abs(n) \div 2
         /\ Abs(n - TruncDiv(n, 2)) <= Abs(n) \div 2 + MidpointMs
         /\ Abs(n) <= 1 => TruncDiv(n, 2) = 0
  BY DEF TruncDiv, Abs, MidpointMs
-----------------------------------------------------------------------------
(***************************************************************************)
(* The reports, the midpoint and the deviations from it.                   *)
(***************************************************************************)
LEMMA ReportsAreReadings ==
  ASSUME Reports
  PROVE  /\ \A i \in CoreSlots : Reading(core[i]) /\ core[i].ok \in BOOLEAN
         /\ \A i \in NtsSlots : Reading(nts[i])
         /\ Reading(a) /\ a.rtt \in Nat /\ a.root \in Nat
         /\ Reading(b) /\ b.rtt \in Nat /\ b.root \in Nat
<1>1. \A i \in CoreSlots : core[i] \in [ok : BOOLEAN, utc : Int, qpc : Int]
  BY ReportsTyped DEF Reports
<1>2. \A i \in NtsSlots : nts[i] \in NtsReports
  BY DEF Reports
<1>3. 1 \in NtsSlots /\ 2 \in NtsSlots
  BY DEF NtsSlots
<1> QED
  BY <1>1, <1>2, <1>3, ReportsTyped DEF Reading, a, b

LEMMA MidInt ==
  ASSUME Reports
  PROVE  NtsDelta \in Int /\ Mid \in Int /\ QpcTicksToMs(a.qpc) \in Int
<1>1. Reading(a) /\ Reading(b)
  BY ReportsAreReadings
<1>2. NtsDelta \in Int
  BY <1>1, MovedTrue DEF Reading, NtsDelta
<1> QED
  BY <1>1, <1>2, HalfSpread, TicksInt DEF Mid, Reading

LEMMA DeviationNat ==
  ASSUME Reports, NEW i \in CoreSlots
  PROVE  Deviation(i) \in Nat
<1>1. Reading(core[i]) /\ Reading(a) /\ Mid \in Int
  BY ReportsAreReadings, MidInt
<1> QED
  BY <1>1, MovedTrue, AbsNat DEF Deviation, Reading

LEMMA CoresFinite ==
  /\ IsFiniteSet(CoreSlots) /\ Cardinality(CoreSlots) = 4
  /\ \A S \in SUBSET CoreSlots : IsFiniteSet(S) /\ Cardinality(S) \in Nat
<1>1. IsFiniteSet(CoreSlots) /\ Cardinality(CoreSlots) = 4
  <2>1. 0 \in Int /\ 3 \in Int /\ 3 - 0 + 1 = 4 /\ ~(0 > 3)
    OBVIOUS
  <2> QED
    BY <2>1, FS_Interval DEF CoreSlots
<1> QED
  BY <1>1, FS_Subset, FS_CardinalityType

\* The place of a concurring core in the order of deviations.
Below(i) == {j \in Concurring :
               Deviation(j) < Deviation(i) \/ (Deviation(j) = Deviation(i) /\ j < i)}
Rank(i) == Cardinality(Below(i))

\* Every place is taken, so the median is the deviation of some core, or of two.
LEMMA RanksTaken ==
  ASSUME Reports, NEW k \in 0 .. Cardinality(Concurring) - 1
  PROVE  \E i \in Concurring : Rank(i) = k
<1> DEFINE n == Cardinality(Concurring)
           f == [i \in Concurring |-> Rank(i)]
<1>1. Concurring \subseteq CoreSlots /\ CoreSlots \subseteq Int
  BY DEF Concurring, Answering, CoreSlots
<1>2. IsFiniteSet(Concurring) /\ n \in Nat
  BY <1>1, CoresFinite
<1>3. \A i \in Concurring : Deviation(i) \in Nat /\ i \in Int
  BY <1>1, DeviationNat
<1>4. ASSUME NEW i \in Concurring
      PROVE  IsFiniteSet(Below(i)) /\ Rank(i) \in 0 .. n - 1
  <2>1. Below(i) \subseteq Concurring /\ i \notin Below(i)
    BY <1>3 DEF Below
  <2>2. IsFiniteSet(Below(i)) /\ Rank(i) <= n /\ (n = Rank(i) => Concurring = Below(i))
    BY <1>2, <2>1, FS_Subset DEF Rank
  <2>3. Rank(i) \in Nat
    BY <2>2, FS_CardinalityType DEF Rank
  <2> QED
    BY <1>2, <2>1, <2>2, <2>3
<1>5. ASSUME NEW i \in Concurring, NEW j \in Concurring, i \in Below(j)
      PROVE  Rank(i) < Rank(j)
  <2>1. Below(i) \subseteq Below(j) /\ i \notin Below(i)
    BY <1>3, <1>5 DEF Below
  <2>2. Rank(i) <= Rank(j) /\ (Rank(j) = Rank(i) => Below(j) = Below(i))
    BY <1>4, <2>1, FS_Subset DEF Rank
  <2> QED
    BY <1>4, <1>5, <2>1, <2>2
<1>6. ASSUME NEW i \in Concurring, NEW j \in Concurring, Rank(i) = Rank(j)
      PROVE  i = j
  <2>1. i \notin Below(j) /\ j \notin Below(i)
    BY <1>4, <1>5, <1>6
  <2> QED
    BY <1>3, <2>1 DEF Below
<1>7. f \in Injection(Concurring, 0 .. n - 1)
  BY <1>4, <1>6 DEF Injection, IsInjective
<1>8. IsFiniteSet(0 .. n - 1) /\ Cardinality(0 .. n - 1) = n
  <2>1. 0 \in Int /\ n - 1 \in Int /\ n - 1 - 0 + 1 = n /\ (0 > n - 1 => n = 0)
    BY <1>2
  <2> QED
    BY <2>1, FS_Interval
<1>9. f \in Surjection(Concurring, 0 .. n - 1)
  BY <1>7, <1>8, FS_Injection
<1> QED
  BY <1>9 DEF Surjection

LEMMA MedianNat ==
  ASSUME Reports, SuperMajority
  PROVE  Median \in Nat
<1> DEFINE n == Cardinality(Concurring)
           at(k) == Deviation(CHOOSE i \in Concurring : Rank(i) = k)
<1>1. n \in Nat /\ n >= 3
  <2>1. Concurring \subseteq CoreSlots
    BY DEF Concurring, Answering
  <2> QED
    BY <2>1, CoresFinite DEF SuperMajority
<1>2. ASSUME NEW k \in 0 .. n - 1 PROVE at(k) \in Nat
  <2>1. (CHOOSE i \in Concurring : Rank(i) = k) \in Concurring
    BY RanksTaken
  <2> QED
    BY <2>1, DeviationNat DEF Concurring, Answering
<1>3. Median = IF n % 2 = 1 THEN at(n \div 2) ELSE (at(n \div 2 - 1) + at(n \div 2)) \div 2
  BY DEF Median, Rank, Below
<1>4. n \div 2 \in 0 .. n - 1 /\ n \div 2 - 1 \in 0 .. n - 1
  BY <1>1
<1>5. at(n \div 2) \in Nat /\ at(n \div 2 - 1) \in Nat
  BY <1>2, <1>4
<1> HIDE DEF at, n
<1> QED
  BY <1>3, <1>5

\* The uncertainty of a passing cycle, from below.
LEMMA PairErrorCovers ==
  ASSUME Reports
  PROVE  /\ PairError \in Nat
         /\ \A r \in {a, b} :
              Abs(NtsDelta) \div 2 + r.rtt \div 2 + Larger(r.root, NTP_DISP_FLOOR_MS)
                <= PairError
<1>1. /\ a.rtt \in Nat /\ b.rtt \in Nat /\ a.root \in Nat /\ b.root \in Nat
      /\ NTP_DISP_FLOOR_MS \in Nat
  BY ReportsAreReadings, ConcurConstants
<1>2. Abs(NtsDelta) \div 2 \in Nat
  BY MidInt, HalfSpread
<1>3. /\ Larger(a.rtt, b.rtt) \div 2 \in Nat
      /\ a.rtt \div 2 <= Larger(a.rtt, b.rtt) \div 2
      /\ b.rtt \div 2 <= Larger(a.rtt, b.rtt) \div 2
      /\ a.rtt \div 2 \in Nat /\ b.rtt \div 2 \in Nat
  BY <1>1 DEF Larger
<1>4. /\ Larger(Larger(a.root, b.root), NTP_DISP_FLOOR_MS) \in Nat
      /\ Larger(a.root, NTP_DISP_FLOOR_MS)
           <= Larger(Larger(a.root, b.root), NTP_DISP_FLOOR_MS)
      /\ Larger(b.root, NTP_DISP_FLOOR_MS)
           <= Larger(Larger(a.root, b.root), NTP_DISP_FLOOR_MS)
      /\ Larger(a.root, NTP_DISP_FLOOR_MS) \in Nat /\ Larger(b.root, NTP_DISP_FLOOR_MS) \in Nat
  BY <1>1 DEF Larger
<1> QED
  BY <1>2, <1>3, <1>4 DEF PairError
-----------------------------------------------------------------------------
(***************************************************************************)
(* The verdict.                                                            *)
(***************************************************************************)
LEMMA ConcurInvInit == ConcurInit => ConcurInv
  BY DEF ConcurInit, ConcurInv, NoVerdict

\* A judgement leaves the reports, and so everything that is derived from them.
LEMMA ReportsStay ==
  ASSUME UNCHANGED <<core, nts>>
  PROVE  /\ (Agreeing <=> Agreeing') /\ (SuperMajority <=> SuperMajority')
         /\ (Eligible <=> Eligible')
         /\ Mid' = Mid /\ (a.qpc)' = a.qpc
         /\ PairError' = PairError /\ Median' = Median /\ Cluster' = Cluster
<1>1. a' = a /\ b' = b
  BY DEF a, b
<1>2. NtsDelta' = NtsDelta
  BY <1>1 DEF NtsDelta, Projected
<1>3. Mid' = Mid /\ PairError' = PairError /\ (Agreeing <=> Agreeing')
  BY <1>1, <1>2 DEF Mid, PairError, Agreeing
<1>4. \A i : Deviation(i)' = Deviation(i)
  BY <1>1, <1>3 DEF Deviation, Projected
<1>5. Answering' = Answering
  BY DEF Answering
<1>6. Concurring' = Concurring
  BY <1>4, <1>5 DEF Concurring
<1>7. Median' = Median
  BY DEF Median, Concurring, Answering, Deviation, Projected, Mid, NtsDelta, a, b
<1>8. Cluster' = Cluster
  BY <1>5 DEF Cluster, Near, Centers, RefQpc, Projected
<1>9. (Eligible <=> Eligible') /\ (SuperMajority <=> SuperMajority')
  BY <1>1, <1>6 DEF Eligible, PairPresent, TwoRotated, OneOperator, Authentic, SuperMajority
<1> QED
  BY <1>1, <1>3, <1>7, <1>8, <1>9

LEMMA ConcurInvNext == ConcurInv /\ [ConcurNext]_concurVars => ConcurInv'
<1> SUFFICES ASSUME ConcurInv, [ConcurNext]_concurVars PROVE ConcurInv'
  OBVIOUS
<1>0. UNCHANGED <<core, nts>>
  BY DEF ConcurNext, JudgeUntrustedPair, JudgeSplitPair, JudgeWeakCore, JudgePass, JudgeNoPair,
         Unjudged, concurVars
<1>1. core' \in [CoreSlots -> CoreReports] /\ nts' \in [NtsSlots -> NtsReports]
  BY <1>0 DEF ConcurInv
<1>2. CASE UNCHANGED concurVars
  BY <1>0, <1>1, <1>2, ReportsStay DEF ConcurInv, concurVars
<1>3. CASE JudgeUntrustedPair
  <2>1. verdict'.trust = "INOP" /\ verdict'.cluster = {} /\ ~Eligible
    BY <1>3 DEF JudgeUntrustedPair, Inop, NoVerdict, Eligible
  <2> QED
    BY <1>0, <1>1, <2>1, ReportsStay DEF ConcurInv
<1>4. CASE JudgeSplitPair
  <2>1. verdict'.trust = "INOP" /\ verdict'.cluster = {}
    BY <1>4 DEF JudgeSplitPair, Inop, NoVerdict
  <2>2. ~Agreeing
    <3>1. Abs(NtsDelta) \in Nat /\ CONCUR_THRESHOLD_MS \in Nat
      BY MidInt, AbsNat, ConcurConstants DEF ConcurInv, Reports
    <3> QED
      BY <1>4, <3>1 DEF JudgeSplitPair, Agreeing
  <2> QED
    BY <1>0, <1>1, <2>1, <2>2, ReportsStay DEF ConcurInv
<1>5. CASE JudgeWeakCore
  <2>1. verdict'.trust = "INOP" /\ verdict'.cluster = {} /\ ~SuperMajority
    BY <1>5 DEF JudgeWeakCore, Inop, NoVerdict
  <2> QED
    BY <1>0, <1>1, <2>1, ReportsStay DEF ConcurInv
<1>6. CASE JudgePass
  <2>1. /\ verdict'.trust = "OK" /\ verdict'.cluster = {}
        /\ verdict'.utc = Mid /\ verdict'.qpc = a.qpc
        /\ verdict'.err = Larger(PairError, Median)
        /\ Agreeing /\ SuperMajority
    BY <1>6 DEF JudgePass, Agreeing
  <2> QED
    BY <1>0, <1>1, <2>1, ReportsStay DEF ConcurInv
<1>7. CASE JudgeNoPair
  <2>1. verdict'.trust = "INOP" /\ verdict'.cluster = Cluster /\ ~Eligible
    BY <1>7 DEF JudgeNoPair, Inop, NoVerdict, Eligible
  <2> QED
    BY <1>0, <1>1, <2>1, ReportsStay DEF ConcurInv
<1> QED
  BY <1>2, <1>3, <1>4, <1>5, <1>6, <1>7 DEF ConcurNext

LEMMA ConcurInvAlways == ConcurSpec => []ConcurInv
  BY ConcurInvInit, ConcurInvNext, PTL DEF ConcurSpec
-----------------------------------------------------------------------------
(***************************************************************************)
(* What follows of a passing cycle.                                        *)
(***************************************************************************)

\* One honest anchor holds the midpoint, for they are at most a spread apart.
LEMMA PassCoversLiar ==
  ASSUME Reports, SuperMajority, HonestAnchor(a) \/ HonestAnchor(b)
  PROVE  Abs(Mid - QpcTicksToMs(a.qpc)) <= Larger(PairError, Median) + MoveMs + MidpointMs
<1> DEFINE Q == QpcTicksToMs(a.qpc)
           B == Projected(b, a.qpc)
           H == Abs(NtsDelta) \div 2
<1>1. /\ Q \in Int /\ NtsDelta \in Int /\ Mid \in Int /\ H \in Nat
      /\ Reading(a) /\ Reading(b)
  BY MidInt, HalfSpread, ReportsAreReadings
<1>2. B \in Int /\ NtsDelta = B - a.utc
  BY <1>1, MovedTrue DEF NtsDelta, Reading
<1>3. /\ PairError \in Nat
      /\ PairError <= Larger(PairError, Median) /\ Larger(PairError, Median) \in Nat
  <2>1. PairError \in Nat /\ Median \in Nat
    BY PairErrorCovers, MedianNat
  <2> QED
    BY <2>1 DEF Larger
<1>4. CASE HonestAnchor(a)
  <2> DEFINE E == a.rtt \div 2 + Larger(a.root, NTP_DISP_FLOOR_MS)
  <2>1. Abs(a.utc - Q) <= E /\ H + E <= PairError
    <3>1. a.rtt \div 2 \in Nat /\ Larger(a.root, NTP_DISP_FLOOR_MS) \in Nat
      BY ReportsAreReadings, ConcurConstants DEF Larger
    <3> QED
      BY <1>1, <1>4, <3>1, PairErrorCovers DEF HonestAnchor, TrueError
  <2>2. Abs(TruncDiv(NtsDelta, 2)) = H /\ TruncDiv(NtsDelta, 2) \in Int
    BY <1>1, HalfSpread
  <2>3. a.utc \in Int /\ E \in Int /\ Mid = a.utc + TruncDiv(NtsDelta, 2)
    BY <1>1, ReportsAreReadings, ConcurConstants DEF Reading, Mid, Larger
  <2> HIDE DEF E, H, Q
  <2>4. Abs(Mid - Q) <= PairError
    BY <1>1, <1>3, <2>1, <2>2, <2>3 DEF Abs
  <2> QED
    BY <1>1, <1>3, <2>4 DEF Q, Abs, MoveMs, MidpointMs
<1>5. CASE HonestAnchor(b)
  <2> DEFINE E == b.rtt \div 2 + Larger(b.root, NTP_DISP_FLOOR_MS)
             D == NtsDelta - TruncDiv(NtsDelta, 2)
  <2>1. E \in Nat /\ TrueError(b) <= E /\ H + E <= PairError
    <3>1. b.rtt \div 2 \in Nat /\ Larger(b.root, NTP_DISP_FLOOR_MS) \in Nat
      BY ReportsAreReadings, ConcurConstants DEF Larger
    <3> QED
      BY <1>1, <1>5, <3>1, PairErrorCovers DEF HonestAnchor
  <2>2. Abs(B - Q) <= TrueError(b) + MoveMs /\ TrueError(b) \in Nat
    BY <1>1, MovedTrue, TrueErrorNat DEF Reading
  <2>3. D \in Int /\ Abs(D) <= H + MidpointMs
    BY <1>1, HalfSpread
  <2>4. Mid = B - D
    BY <1>1, <1>2, HalfSpread DEF Mid, Reading
  <2> HIDE DEF E, H, Q, B, D
  <2>5. Abs(Mid - Q) <= PairError + MoveMs + MidpointMs
    BY <1>1, <1>2, <1>3, <2>1, <2>2, <2>3, <2>4 DEF Abs, MoveMs, MidpointMs
  <2> QED
    BY <1>1, <1>3, <2>5 DEF Q, Abs, MoveMs, MidpointMs
<1> QED
  BY <1>4, <1>5

\* The cores that answer truthfully.
Truthful == {i \in CoreSlots : core[i].ok /\ TrueError(core[i]) = 0}

\* Two truthful cores are not both outside three of the four.
LEMMA TruthfulConcurs ==
  ASSUME Reports, SuperMajority, Cardinality(Truthful) >= 2
  PROVE  \E i \in Truthful : i \in Concurring
<1>1. Truthful \subseteq CoreSlots /\ Concurring \subseteq CoreSlots
  BY DEF Truthful, Concurring, Answering
<1>2. SUFFICES ASSUME Truthful \cap Concurring = {} PROVE FALSE
  OBVIOUS
<1>3. Cardinality(Truthful \cup Concurring) = Cardinality(Truthful) + Cardinality(Concurring)
  <2>1. Cardinality(Truthful \cap Concurring) = 0
    BY <1>2, FS_EmptySet
  <2>2. IsFiniteSet(Truthful) /\ IsFiniteSet(Concurring)
    BY <1>1, CoresFinite
  <2>3. Cardinality(Truthful) \in Nat /\ Cardinality(Concurring) \in Nat
    BY <2>2, FS_CardinalityType
  <2> QED
    BY <2>1, <2>2, <2>3, FS_Union
<1>4. Cardinality(Truthful \cup Concurring) <= 4
  <2>1. Truthful \cup Concurring \in SUBSET CoreSlots
    BY <1>1
  <2> QED
    BY <2>1, CoresFinite, FS_Subset
<1>5. Cardinality(Truthful) \in Nat /\ Cardinality(Concurring) \in Nat
  BY <1>1, CoresFinite
<1> QED
  BY <1>3, <1>4, <1>5 DEF SuperMajority

LEMMA PassHeldByMajority ==
  ASSUME Reports, SuperMajority, Cardinality(Truthful) >= 2
  PROVE  Abs(Mid - QpcTicksToMs(a.qpc)) <= CONCUR_THRESHOLD_MS + MoveMs
<1>1. PICK i \in Truthful : i \in Concurring
  BY TruthfulConcurs
<1>2. i \in CoreSlots /\ Reading(core[i]) /\ TrueError(core[i]) = 0
  BY <1>1, ReportsAreReadings DEF Truthful
<1>3. /\ Mid \in Int /\ QpcTicksToMs(a.qpc) \in Int /\ a.qpc \in Int
      /\ CONCUR_THRESHOLD_MS \in Nat
  BY MidInt, ReportsAreReadings, ConcurConstants DEF Reading
<1>4. /\ Projected(core[i], a.qpc) \in Int
      /\ Abs(Projected(core[i], a.qpc) - QpcTicksToMs(a.qpc)) <= MoveMs
  <2>1. Abs(Projected(core[i], a.qpc) - QpcTicksToMs(a.qpc)) <= 0 + MoveMs
    BY <1>2, <1>3, MovedTrue
  <2> QED
    BY <1>2, <1>3, <2>1, MovedTrue DEF MoveMs
<1>5. Abs(Projected(core[i], a.qpc) - Mid) <= CONCUR_THRESHOLD_MS
  BY <1>1 DEF Concurring, Deviation
<1> QED
  BY <1>3, <1>4, <1>5 DEF Abs, MoveMs

\* Truthful anchors agree, and truthful cores with them.
LEMMA TruthPasses ==
  ASSUME Reports, \A i \in NtsSlots : TrueError(nts[i]) = 0,
         Cardinality(Truthful) >= 3
  PROVE  Agreeing /\ SuperMajority
<1> DEFINE Q == QpcTicksToMs(a.qpc)
<1>1. /\ Reading(a) /\ Reading(b) /\ Q \in Int /\ NtsDelta \in Int
      /\ CONCUR_THRESHOLD_MS \in Nat \ {0}
  BY ReportsAreReadings, MidInt, ConcurConstants
<1>2. TrueError(a) = 0 /\ TrueError(b) = 0
  BY DEF NtsSlots, a, b
<1>3. a.utc = Q
  BY <1>1, <1>2 DEF TrueError, Abs, Reading
<1>4. Projected(b, a.qpc) \in Int /\ Abs(Projected(b, a.qpc) - Q) <= 0 + MoveMs
  BY <1>1, <1>2, MovedTrue DEF Reading
<1> HIDE DEF Q
<1>5. Abs(NtsDelta) <= 1
  BY <1>1, <1>3, <1>4 DEF NtsDelta, Abs, MoveMs
<1>6. Mid = Q
  BY <1>1, <1>3, <1>5, HalfSpread DEF Mid
<1>7. Truthful \subseteq Concurring
  <2> SUFFICES ASSUME NEW i \in Truthful PROVE i \in Concurring
    OBVIOUS
  <2>1. i \in CoreSlots /\ core[i].ok /\ Reading(core[i]) /\ TrueError(core[i]) = 0
    BY ReportsAreReadings DEF Truthful
  <2>2. /\ Projected(core[i], a.qpc) \in Int
        /\ Abs(Projected(core[i], a.qpc) - Q) <= 0 + MoveMs
    BY <1>1, <2>1, MovedTrue DEF Reading, Q
  <2>3. Deviation(i) <= CONCUR_THRESHOLD_MS
    BY <1>1, <1>6, <2>2 DEF Deviation, Abs, MoveMs
  <2> QED
    BY <2>1, <2>3 DEF Concurring, Answering
<1>8. Cardinality(Truthful) <= Cardinality(Concurring)
  <2>1. Concurring \subseteq CoreSlots
    BY DEF Concurring, Answering
  <2>2. IsFiniteSet(Concurring)
    BY <2>1, CoresFinite
  <2> QED
    BY <1>7, <2>2, FS_Subset
<1>9. Cardinality(Truthful) \in Nat /\ Cardinality(Concurring) \in Nat
  <2>1. Truthful \subseteq CoreSlots /\ Concurring \subseteq CoreSlots
    BY DEF Truthful, Concurring, Answering
  <2> QED
    BY <2>1, CoresFinite
<1> QED
  BY <1>1, <1>5, <1>8, <1>9, AbsNat DEF Agreeing, SuperMajority

\* The first in slot order is one of them.
LEMMA FirstCore ==
  ASSUME NEW S \in SUBSET CoreSlots, S # {}
  PROVE  LeastOf(S) \in S
<1>1. S \subseteq Nat
  BY DEF CoreSlots
<1>2. \E i \in S : \A j \in S : i <= j
  BY <1>1, LeastNumber
<1> QED
  BY <1>2 DEF LeastOf

\* If some core answers, one of them has most cores near it.
LEMMA CenterExists ==
  ASSUME Answering # {}
  PROVE  Centers # {}
<1> DEFINE size(i) == Cardinality(Near(i))
           rest == {4 - size(i) : i \in Answering}
<1>1. Answering \subseteq CoreSlots
  BY DEF Answering
<1>2. \A i \in Answering : size(i) \in Nat /\ size(i) <= 4
  <2>1. \A i \in Answering : Near(i) \in SUBSET CoreSlots
    BY <1>1 DEF Near
  <2> QED
    BY <2>1, CoresFinite, FS_Subset
<1> HIDE DEF size
<1>3. rest \subseteq Nat /\ rest # {}
  BY <1>2
<1>4. PICK n \in rest : \A m \in rest : n <= m
  <2> HIDE DEF rest
  <2> QED
    BY <1>3, LeastNumber
<1>5. PICK i \in Answering : n = 4 - size(i)
  OBVIOUS
<1>6. ASSUME NEW j \in Answering PROVE size(j) <= size(i)
  <2>1. 4 - size(i) <= 4 - size(j)
    BY <1>4, <1>5
  <2> QED
    BY <1>2, <2>1
<1> QED
  BY <1>6 DEF Centers, size

LEMMA ClusterOfTruthful ==
  ASSUME Reports, NEW c \in Cluster, \A i \in Answering : TrueError(core[i]) = 0
  PROVE  TrueError(c) <= MoveMs
<1> DEFINE center == LeastOf(Centers)
           first == LeastOf(Answering)
<1>1. /\ Answering # {}
      /\ c = [utc |-> Projected(core[center], RefQpc), qpc |-> RefQpc,
              members |-> Near(center)]
  BY DEF Cluster
<1>2. first \in Answering /\ center \in Answering
  <2>1. Answering \in SUBSET CoreSlots /\ Centers \in SUBSET Answering
    BY DEF Answering, Centers
  <2>2. Centers # {} /\ Centers \in SUBSET CoreSlots
    BY <1>1, <2>1, CenterExists
  <2>3. first \in Answering
    BY <1>1, <2>1, FirstCore
  <2>4. center \in Centers
    BY <2>2, FirstCore
  <2> QED
    BY <2>1, <2>3, <2>4
<1> HIDE DEF center
<1>3. RefQpc \in Int
  BY <1>2, ReportsAreReadings DEF RefQpc, Reading, Answering
<1>4. Reading(core[center]) /\ TrueError(core[center]) = 0
  BY <1>2, ReportsAreReadings DEF Answering
<1>5. Abs(Projected(core[center], RefQpc) - QpcTicksToMs(RefQpc)) <= 0 + MoveMs
  BY <1>3, <1>4, MovedTrue
<1> QED
  BY <1>1, <1>5 DEF TrueError, MoveMs
-----------------------------------------------------------------------------
(***************************************************************************)
(* The theorems.                                                           *)
(***************************************************************************)

\* With one honest anchor the measured uncertainty of a passing cycle covers the true
\* error of its anchor, but for the two roundings.
THEOREM UncertaintyCoversLiar == ConcurSpec => []ErrorCoversLiar
<1>1. ConcurInv => ErrorCoversLiar
  <2> SUFFICES ASSUME ConcurInv, verdict.trust = "OK", HonestAnchor(a) \/ HonestAnchor(b)
               PROVE  TrueError(verdict) <= verdict.err + MoveMs + MidpointMs
    BY DEF ErrorCoversLiar
  <2>1. /\ Reports /\ SuperMajority
        /\ verdict.utc = Mid /\ verdict.qpc = a.qpc
        /\ verdict.err = Larger(PairError, Median)
    BY DEF ConcurInv, Reports
  <2> QED
    BY <2>1, PassCoversLiar DEF TrueError
<1> QED
  BY <1>1, ConcurInvAlways, PTL

\* Two truthful cores hold an accepted anchor within the threshold, both anchors lying.
THEOREM AnchorHeldByMajority == ConcurSpec => []MajorityHoldsAnchor
<1>1. ConcurInv => MajorityHoldsAnchor
  <2> SUFFICES ASSUME ConcurInv, verdict.trust = "OK", Cardinality(Truthful) >= 2
               PROVE  TrueError(verdict) <= CONCUR_THRESHOLD_MS + MoveMs
    BY DEF MajorityHoldsAnchor, Truthful
  <2>1. /\ Reports /\ SuperMajority
        /\ verdict.utc = Mid /\ verdict.qpc = a.qpc
    BY DEF ConcurInv, Reports
  <2> QED
    BY <2>1, PassHeldByMajority DEF TrueError
<1> QED
  BY <1>1, ConcurInvAlways, PTL

\* Samples that are all truthful pass, whenever each was captured, and the cluster of
\* truthful cores is true, but for a rounding.
THEOREM TruthIsAccepted == ConcurSpec => []TruthAgrees
<1>1. ConcurInv => TruthAgrees
  <2> SUFFICES ASSUME ConcurInv PROVE TruthAgrees
    OBVIOUS
  <2>0. Reports
    BY DEF ConcurInv, Reports
  <2>1. ASSUME verdict.trust = "INOP", Eligible,
               ~(\E i \in NtsSlots : TrueError(nts[i]) > 0), ~(Cardinality(Truthful) < 3)
        PROVE  FALSE
    <3>1. \A i \in NtsSlots : TrueError(nts[i]) = 0
      <4>1. \A i \in NtsSlots : TrueError(nts[i]) \in Nat
        BY <2>0, ReportsAreReadings, TrueErrorNat
      <4> QED
        BY <2>1, <4>1
    <3>2. Cardinality(Truthful) >= 3
      <4>1. Truthful \in SUBSET CoreSlots
        BY DEF Truthful
      <4>2. Cardinality(Truthful) \in Nat
        BY <4>1, CoresFinite
      <4> QED
        BY <2>1, <4>2
    <3>3. Agreeing /\ SuperMajority
      BY <2>0, <3>1, <3>2, TruthPasses
    <3> QED
      BY <2>1, <3>3 DEF ConcurInv
  <2>2. ASSUME NEW c \in verdict.cluster, \A i \in Answering : TrueError(core[i]) = 0
        PROVE  TrueError(c) <= MoveMs
    <3>1. c \in Cluster
      BY DEF ConcurInv
    <3> QED
      BY <2>0, <2>2, <3>1, ClusterOfTruthful
  <2>3. \/ ~(verdict.trust = "INOP" /\ Eligible)
        \/ \E i \in NtsSlots : TrueError(nts[i]) > 0
        \/ Cardinality(Truthful) < 3
    BY <2>1
  <2>4. \A c \in verdict.cluster :
          (\A i \in Answering : TrueError(core[i]) = 0) => TrueError(c) <= MoveMs
    BY <2>2
  <2> QED
    BY <2>3, <2>4, Zenon DEF TruthAgrees, Truthful, Eligible
<1> QED
  BY <1>1, ConcurInvAlways, PTL
=============================================================================
