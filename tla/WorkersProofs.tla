--------------------------- MODULE WorkersProofs ---------------------------
(***************************************************************************)
(* Theorems about what the workers of a cycle do, for pools, jars, clocks  *)
(* and tables of any size: what a sample is off by (Exchange), whom the    *)
(* workers ask (Sources), what they spend (CookieJar), and what they are   *)
(* told over HTTP/2 (H2).                                                  *)
(***************************************************************************)
EXTENDS Sources, CookieJar, Exchange, H2, CArithTheorems, SequenceTheorems
-----------------------------------------------------------------------------
(***************************************************************************)
(* Exchange: the error of a sample.                                        *)
(***************************************************************************)

\* A number within the era is its own remainder.
LEMMA WithinEra ==
  ASSUME NEW n \in Nat, NEW m \in Nat \ {0}, n < m
  PROVE  n % m = n
  OBVIOUS

\* QPC in milliseconds, cut and rounded.
Cut(q) == (q * 1000) \div QpcFreq

\* Rounding adds at most one millisecond to cutting.
LEMMA CutAndMs ==
  ASSUME NEW q \in Nat
  PROVE  Cut(q) \in Nat /\ Ms(q) \in Nat /\ Cut(q) <= Ms(q) /\ Ms(q) <= Cut(q) + 1
<1> DEFINE n == q * 1000
           h == QpcFreq \div 2
<1>1. QpcFreq \in Nat \ {0} /\ n \in Nat /\ h \in Nat /\ h < QpcFreq
  BY ExchangeConstants
<1>2. Ms(q) = (n + h) \div QpcFreq /\ Cut(q) = n \div QpcFreq
  BY <1>1 DEF Ms, RoundDiv, Cut
<1>3. /\ Cut(q) \in Nat /\ Cut(q) * QpcFreq <= n /\ n < Cut(q) * QpcFreq + QpcFreq
      /\ Ms(q) \in Nat /\ Ms(q) * QpcFreq <= n + h
      /\ n + h < Ms(q) * QpcFreq + QpcFreq
  BY <1>1, <1>2, Quotient
<1> HIDE DEF n, h
<1>4. Cut(q) * QpcFreq < (Ms(q) + 1) * QpcFreq
  BY <1>1, <1>3
<1>5. Ms(q) * QpcFreq < (Cut(q) + 2) * QpcFreq
  BY <1>1, <1>3
<1> QED
  BY <1>1, <1>3, <1>4, <1>5, Cancel

\* Later instants are cut to later milliseconds.
LEMMA CutMonotone ==
  ASSUME NEW p \in Nat, NEW q \in Nat, p <= q
  PROVE  Cut(p) <= Cut(q)
<1>1. QpcFreq \in Nat \ {0} /\ p * 1000 \in Nat /\ q * 1000 \in Nat
  BY ExchangeConstants
<1>2. /\ Cut(p) \in Nat /\ Cut(p) * QpcFreq <= p * 1000
      /\ Cut(q) \in Nat /\ q * 1000 < Cut(q) * QpcFreq + QpcFreq
  BY <1>1, Quotient DEF Cut
<1>3. Cut(p) * QpcFreq < (Cut(q) + 1) * QpcFreq
  BY <1>1, <1>2
<1> QED
  BY <1>1, <1>2, <1>3, Cancel

\* The round trip agrees with the times at its ends.
LEMMA RttAndMs ==
  ASSUME NEW p \in Nat, NEW q \in Nat, p <= q
  PROVE  /\ Ms(q - p) \in Nat
         /\ Ms(q) - Cut(p) - 1 <= Ms(q - p) /\ Ms(q - p) <= Ms(q) - Cut(p)
<1> DEFINE h == QpcFreq \div 2
           m == p * 1000
           n == q * 1000
           k == n - m + h
           l == n + h
<1>1. /\ QpcFreq \in Nat \ {0} /\ m \in Nat /\ n \in Nat /\ h \in Nat
      /\ q - p \in Nat /\ n - m \in Nat /\ (q - p) * 1000 = n - m
      /\ k \in Nat /\ k = n - m + h /\ l \in Nat /\ l = n + h
  BY ExchangeConstants
<1>2. /\ Ms(q - p) = k \div QpcFreq
      /\ Ms(q) = l \div QpcFreq /\ Cut(p) = m \div QpcFreq
  BY <1>1 DEF Ms, RoundDiv, Cut
<1> HIDE DEF m, n, h, k, l
<1>3. /\ Ms(q - p) \in Nat /\ Ms(q - p) * QpcFreq <= k
      /\ k < Ms(q - p) * QpcFreq + QpcFreq
  <2>1. /\ k \div QpcFreq \in Nat /\ (k \div QpcFreq) * QpcFreq <= k
        /\ k < (k \div QpcFreq) * QpcFreq + QpcFreq
    BY <1>1, Quotient
  <2> QED
    BY <1>2, <2>1
<1>4. Ms(q) \in Nat /\ Ms(q) * QpcFreq <= l /\ l < Ms(q) * QpcFreq + QpcFreq
  BY <1>1, <1>2, Quotient
<1>5. Cut(p) \in Nat /\ Cut(p) * QpcFreq <= m /\ m < Cut(p) * QpcFreq + QpcFreq
  BY <1>1, <1>2, Quotient
<1>6. (Ms(q) - Cut(p) - 2) * QpcFreq < Ms(q - p) * QpcFreq
  BY <1>1, <1>3, <1>4, <1>5
<1>7. Ms(q - p) * QpcFreq < (Ms(q) - Cut(p) + 1) * QpcFreq
  BY <1>1, <1>3, <1>4, <1>5
<1> QED
  BY <1>1, <1>3, <1>4, <1>5, <1>6, <1>7, Cancel

\* A server within its claim is within what the client makes of the claim, but for
\* one millisecond.
LEMMA ClaimInMs ==
  ASSUME NEW c \in [delay : Nat, disp : Nat], NEW e \in Int, Honest(e, c)
  PROVE  RootErrMs(c) \in Nat /\ Abs(e) <= RootErrMs(c) + 1
<1> DEFINE d == c.delay
           s == c.disp
<1>1. d \in Nat /\ s \in Nat /\ Abs(e) \in Nat
  BY DEF Abs
<1>2. 131072 * Abs(e) <= 1000 * (2 * s + d)
  BY DEF Honest
<1>3. RootErrMs(c) = (s * 1000) \div 65536 + ((d * 1000) \div 65536) \div 2
  BY DEF RootErrMs, FixedMs
<1> HIDE DEF d, s
<1> QED
  BY <1>1, <1>2, <1>3

\* An exchange in milliseconds: sent in f1, stamped in f2 and f3 by a server that was
\* off by e2 and e3, received at r4.
Measured(f1, f2, f3, r4, e2, e3, rtt, root) ==
    /\ f1 \in Nat /\ f2 \in Nat /\ f3 \in Nat /\ r4 \in Nat
    /\ e2 \in Int /\ e3 \in Int /\ rtt \in Nat /\ root \in Nat
    /\ f1 <= f2 /\ f2 <= f3 /\ f3 <= r4
    /\ r4 - f1 - 1 <= rtt /\ rtt <= r4 - f1
    /\ Abs(e2) <= root + 1 /\ Abs(e3) <= root + 1

\* The error of what is computed from it.
LEMMA SampleError ==
  ASSUME NEW f1, NEW f2, NEW f3, NEW r4, NEW e2, NEW e3, NEW rtt, NEW root,
         Measured(f1, f2, f3, r4, e2, e3, rtt, root)
  PROVE  Abs((f3 + e3 + NonNeg(rtt - NonNeg((f3 + e3) - (f2 + e2))) \div 2) - r4)
           <= rtt \div 2 + root + 3
<1>0. /\ f1 \in Nat /\ f2 \in Nat /\ f3 \in Nat /\ r4 \in Nat
      /\ e2 \in Int /\ e3 \in Int /\ rtt \in Nat /\ root \in Nat
      /\ f1 <= f2 /\ f2 <= f3 /\ f3 <= r4
      /\ r4 - f1 - 1 <= rtt /\ rtt <= r4 - f1
      /\ Abs(e2) <= root + 1 /\ Abs(e3) <= root + 1
  BY DEF Measured
<1>1. /\ -(root + 1) <= e2 /\ e2 <= root + 1
      /\ -(root + 1) <= e3 /\ e3 <= root + 1
  BY <1>0 DEF Abs
<1> DEFINE proc == (f3 + e3) - (f2 + e2)
           net == NonNeg(rtt - NonNeg(proc))
           err == (f3 + e3 + net \div 2) - r4
<1>2. proc \in Int /\ net \in Nat /\ err \in Int
  BY <1>0 DEF NonNeg
<1>3. \/ proc < 0 /\ net = rtt
      \/ 0 <= proc /\ proc <= rtt /\ net = rtt - proc
      \/ rtt < proc /\ net = 0
  BY <1>0, <1>2 DEF NonNeg
<1>4. err <= rtt \div 2 + root + 3 /\ -err <= rtt \div 2 + root + 3
  <2> HIDE DEF net
  <2>1. CASE proc < 0 /\ net = rtt
    BY <1>0, <1>1, <1>2, <2>1
  <2>2. CASE 0 <= proc /\ proc <= rtt /\ net = rtt - proc
    BY <1>0, <1>1, <1>2, <2>2
  <2>3. CASE rtt < proc /\ net = 0
    BY <1>0, <1>1, <1>2, <2>3
  <2> QED
    BY <1>3, <2>1, <2>2, <2>3
<1> HIDE DEF err
<1>5. err \in Int
  BY <1>2
<1>6. Abs(err) <= rtt \div 2 + root + 3
  BY <1>0, <1>4, <1>5 DEF Abs
<1> QED
  BY <1>6 DEF err
-----------------------------------------------------------------------------
\* A stamp was made at q, by a server as far off as e.
MadeAt(t, q, e) ==
    /\ q \in Nat /\ qpcT1 <= q /\ q <= now
    /\ e \in Errors /\ Honest(e, claim)
    /\ t = Stamp(q, e)

\* The inductive invariant: the stamps were made in their order, within the exchange
\* and within the claim.
ExInv ==
    /\ step \in {"idle", "request", "server", "reply"}
    /\ now \in Nat /\ qpcT1 \in Nat /\ claim \in [delay : Nat, disp : Nat]
    /\ step # "idle" => qpcT1 <= now
    /\ step = "server" => \E q, e \in Int : MadeAt(t2, q, e)
    /\ step = "reply" => \E q, p, e, f \in Int :
          MadeAt(t2, q, e) /\ MadeAt(t3, p, f) /\ q <= p
    /\ ErrorExplained

\* In the first era, a stamp is the millisecond it was made in, give or take.
LEMMA StampInEra ==
  ASSUME NEW q \in Nat, NEW e \in Errors, NEW limit \in Int,
         Cut(q) + e <= limit, limit < ERA_MS - NTP_EPOCH_DELTA_MS
  PROVE  Stamp(q, e) = Cut(q) + e + NTP_EPOCH_DELTA_MS
<1>1. Cut(q) \in Nat /\ e \in Int /\ -e <= NTP_EPOCH_DELTA_MS
  BY CutAndMs, ExchangeConstants
<1> DEFINE n == Cut(q) + e + NTP_EPOCH_DELTA_MS
<1>2. n \in Nat /\ n < ERA_MS /\ ERA_MS \in Nat \ {0}
  BY <1>1, ExchangeConstants
<1>3. Stamp(q, e) = n % ERA_MS
  BY DEF Stamp, Cut
<1> HIDE DEF n
<1>4. n % ERA_MS = n
  BY <1>2, WithinEra
<1> QED
  BY <1>3, <1>4 DEF n

\* The step that makes a sample.
LEMMA SampleExplained ==
  ASSUME ExInv, ReceiveTime
  PROVE  ErrorExplained'
<1> SUFFICES ASSUME sample'.got = "time", InEra'
             PROVE  (Abs(sample.utc - Ms(sample.qpc)) <= sample.rtt \div 2 + sample.root + 3)'
  BY DEF ErrorExplained
<1> DEFINE root == RootErrMs(claim)
<1>1. /\ sample'.utc = UtcAtT4 /\ sample'.qpc = now
      /\ sample'.rtt = Rtt /\ sample'.root = root
  BY DEF ReceiveTime, Nothing
<1>2. PICK q \in Int, p \in Int, e \in Int, f \in Int :
        MadeAt(t2, q, e) /\ MadeAt(t3, p, f) /\ q <= p
  BY DEF ExInv, ReceiveTime
<1>3. /\ q \in Nat /\ p \in Nat /\ now \in Nat /\ qpcT1 \in Nat
      /\ qpcT1 <= q /\ q <= p /\ p <= now
      /\ e \in Errors /\ Honest(e, claim) /\ t2 = Stamp(q, e)
      /\ f \in Errors /\ Honest(f, claim) /\ t3 = Stamp(p, f)
      /\ claim \in [delay : Nat, disp : Nat]
  BY <1>2 DEF MadeAt, ExInv
<1>4. root \in Nat /\ Abs(e) <= root + 1 /\ Abs(f) <= root + 1
  BY <1>3, ClaimInMs
<1> HIDE DEF root
<1>5. /\ Cut(qpcT1) \in Nat /\ Cut(q) \in Nat /\ Cut(p) \in Nat
      /\ Cut(now) \in Nat /\ Ms(now) \in Nat /\ Cut(now) <= Ms(now)
      /\ Cut(qpcT1) <= Cut(q) /\ Cut(q) <= Cut(p) /\ Cut(p) <= Cut(now)
  BY <1>3, CutAndMs, CutMonotone
<1>6. /\ Ms(now - qpcT1) \in Nat
      /\ Ms(now) - Cut(qpcT1) - 1 <= Ms(now - qpcT1)
      /\ Ms(now - qpcT1) <= Ms(now) - Cut(qpcT1)
  BY <1>3, <1>5, RttAndMs
<1>7. Rtt = Ms(now - qpcT1)
  BY <1>6 DEF Rtt, Ms, NonNeg
<1>8. Ms(now) + root + 1 < ERA_MS - NTP_EPOCH_DELTA_MS
  BY <1>1 DEF InEra, Ms
<1>9. /\ t2 = Cut(q) + e + NTP_EPOCH_DELTA_MS
      /\ t3 = Cut(p) + f + NTP_EPOCH_DELTA_MS
  <2>1. Cut(q) + e <= Ms(now) + root + 1 /\ Cut(p) + f <= Ms(now) + root + 1
    BY <1>4, <1>5 DEF Abs
  <2>2. Ms(now) + root + 1 \in Int
    BY <1>4, <1>5
  <2> QED
    BY <1>3, <1>8, <2>1, <2>2, StampInEra
<1>10. UtcAtT4 = Cut(p) + f
                  + NonNeg(Rtt - NonNeg((Cut(p) + f) - (Cut(q) + e))) \div 2
  <2>1. t3 - t2 = (Cut(p) + f) - (Cut(q) + e) /\ t3 - NTP_EPOCH_DELTA_MS = Cut(p) + f
    BY <1>5, <1>9, <1>3, ExchangeConstants
  <2> QED
    BY <2>1 DEF UtcAtT4, NetRtt
<1>11. Abs(UtcAtT4 - Ms(now)) <= Rtt \div 2 + root + 3
  <2>1. /\ e \in Int /\ f \in Int /\ Cut(p) <= Ms(now)
        /\ Rtt \in Nat /\ Ms(now) - Cut(qpcT1) - 1 <= Rtt /\ Rtt <= Ms(now) - Cut(qpcT1)
    BY <1>3, <1>5, <1>6, <1>7, ExchangeConstants
  <2>2. Measured(Cut(qpcT1), Cut(q), Cut(p), Ms(now), e, f, Rtt, root)
    BY <1>4, <1>5, <2>1 DEF Measured
  <2> QED
    BY <1>10, <2>2, SampleError
<1> QED
  BY <1>1, <1>11 DEF Ms

LEMMA ExInitInv == ExInit => ExInv
  BY DEF ExInit, ExInv, ErrorExplained, Nothing

\* One step for each action.
LEMMA ExNextInv == ExInv /\ [ExNext]_exVars => ExInv'
<1> SUFFICES ASSUME ExInv, [ExNext]_exVars PROVE ExInv'
  OBVIOUS
<1> USE DEF ExInv
<1>1. ASSUME NEW nts \in BOOLEAN, NEW start \in Starts, Send(nts, start) PROVE ExInv'
  BY <1>1, ExchangeConstants DEF Send, ErrorExplained, Nothing
<1>2. ASSUME NEW c \in Claims, NEW e \in Errors, ServerReceives(c, e) PROVE ExInv'
  <2>1. /\ now' \in Nat /\ qpcT1' = qpcT1 /\ now <= now' /\ claim' = c
        /\ c \in [delay : Nat, disp : Nat]
    BY <1>2, ExchangeConstants DEF ServerReceives, TimePasses
  <2>2. PICK q \in Nat : q = now
    OBVIOUS
  <2>3. MadeAt(t2, q, e)' /\ e \in Int /\ q \in Int
    BY <1>2, <2>1, <2>2, ExchangeConstants DEF ServerReceives, MadeAt, Stamp, Honest
  <2>4. ErrorExplained'
    BY <1>2 DEF ServerReceives, ErrorExplained, InEra, Ms
  <2> QED
    BY <1>2, <2>1, <2>2, <2>3, <2>4 DEF ServerReceives
<1>3. ASSUME NEW e \in Errors, ServerReplies(e) PROVE ExInv'
  <2>1. /\ now' \in Nat /\ qpcT1' = qpcT1 /\ now <= now' /\ claim' = claim /\ t2' = t2
    BY <1>3, ExchangeConstants DEF ServerReplies, TimePasses
  <2>2. PICK q \in Int, d \in Int : MadeAt(t2, q, d)
    BY <1>3 DEF ServerReplies
  <2>3. MadeAt(t2, q, d)' /\ q <= now
    BY <2>1, <2>2 DEF MadeAt, Stamp, Honest
  <2>4. PICK p \in Nat : p = now
    OBVIOUS
  <2>5. MadeAt(t3, p, e)' /\ e \in Int /\ p \in Int
    BY <1>3, <2>1, <2>4, ExchangeConstants DEF ServerReplies, MadeAt, Stamp, Honest
  <2>6. ErrorExplained'
    BY <1>3 DEF ServerReplies, ErrorExplained, InEra, Ms
  <2> QED
    BY <1>3, <2>1, <2>3, <2>4, <2>5, <2>6 DEF ServerReplies
<1>4. CASE TimedOut
  BY <1>4 DEF TimedOut, ErrorExplained, Nothing
<1>5. CASE ReceiveTime
  BY <1>5, SampleExplained DEF ReceiveTime
<1>6. ASSUME NEW kiss \in BOOLEAN, ReceiveOther(kiss) PROVE ExInv'
  BY <1>6 DEF ReceiveOther, ErrorExplained, Nothing
<1>7. CASE UNCHANGED exVars
  BY <1>7 DEF exVars, MadeAt, Stamp, Honest, ErrorExplained, InEra, Ms
<1> QED
  BY <1>1, <1>2, <1>3, <1>4, <1>5, <1>6, <1>7 DEF ExNext

\* ntp.c, nts.c: the round trip and the server's claim explain the error of every
\* sample, for every QPC frequency, route and claim.
THEOREM ErrorIsExplained == ExSpec => []ErrorExplained
<1>1. ExInv => ErrorExplained
  BY DEF ExInv
<1> QED
  BY <1>1, ExInitInv, ExNextInv, PTL DEF ExSpec
-----------------------------------------------------------------------------
(***************************************************************************)
(* Sources: the providers that answer are of distinct operators, and a     *)
(* core host that sent a kiss is left alone.                               *)
(***************************************************************************)

\* The stripes of a draw that reach a slot.
Stripes(s, k, n, m) == {a \in 1 .. m : k + (a - 1) * n <= Len(s)}

\* A slot has a candidate for each, the entry of the draw at its place in the stripe.
LEMMA CandidatesOf ==
  ASSUME NEW s, NEW k \in Int, NEW n \in Int, NEW m \in Nat
  PROVE  /\ Cardinality(Stripes(s, k, n, m)) \in 0 .. m
         /\ Len(Candidates(s, k, n, m)) = Cardinality(Stripes(s, k, n, m))
         /\ DOMAIN Candidates(s, k, n, m) = 1 .. Len(Candidates(s, k, n, m))
         /\ \A a \in 1 .. Len(Candidates(s, k, n, m)) :
              Candidates(s, k, n, m)[a] = s[k + (a - 1) * n]
<1> DEFINE N == Cardinality(Stripes(s, k, n, m))
           c == Candidates(s, k, n, m)
<1>1. c = [a \in 1 .. N |-> s[k + (a - 1) * n]]
  BY DEF Candidates, Stripes
<1>2. N \in 0 .. m
  <2>1. Stripes(s, k, n, m) \in SUBSET (1 .. m)
    BY DEF Stripes
  <2>2. IsFiniteSet(1 .. m) /\ Cardinality(1 .. m) = m
    BY FS_Interval
  <2>3. IsFiniteSet(Stripes(s, k, n, m)) /\ N <= m
    BY <2>1, <2>2, FS_Subset
  <2> QED
    BY <2>3, FS_CardinalityType
<1> HIDE DEF N, c
<1>3. DOMAIN c = 1 .. N /\ \A a \in 1 .. N : c[a] = s[k + (a - 1) * n]
  BY <1>1
<1>4. Len(c) = N
  BY <1>1, <1>2
<1> QED
  BY <1>2, <1>3, <1>4 DEF N, c

-----------------------------------------------------------------------------
\* Draws in which every place has an operator of its own.
Diverse == {s \in [1 .. Wanted -> Providers] :
              \A i, j \in 1 .. Wanted : i # j => Operator[s[i]] # Operator[s[j]]}

Tiers == [Providers -> 0 .. 2]

\* The providers that the passes before a given one take while no tier changes.
Before(n) == {p \in Providers : tier[p] < n}

\* An ordering of a set of providers, of the length of the set.
Enumerates(s, T) ==
    /\ s \in Seq(Providers) /\ Len(s) = Cardinality(T)
    /\ \A p \in T : \E i \in 1 .. Len(s) : s[i] = p

\* The inductive invariant of the NTS half: a draw has the providers of its passes so
\* far, unless a tier changed under it; a slot that has its sample has it from a
\* candidate of a draw that is complete.
NtsInv ==
    /\ tier \in Tiers
    /\ slot \in [1 .. NtsSlots -> [i : Nat \ {0}, ok : BOOLEAN]]
    /\ \A k \in 1 .. NtsSlots :
         slot[k].ok => running /\ slot[k].i \in 1 .. Len(Mine(sticky, k))
    /\ draw = NoDraw \/ (running /\ sticky = <<>> /\ draw.pass \in {1, 2})
    /\ ~raced => /\ sticky = <<>> \/ sticky \in Diverse
                 /\ draw = NoDraw \/ Enumerates(draw.ordered, Before(draw.pass))

\* The places of two slots in the stripes are apart.
LEMMA StripesApart ==
  ASSUME NEW k \in 1 .. NtsSlots, NEW l \in 1 .. NtsSlots, k # l,
         NEW a \in 1 .. Attempts, NEW b \in 1 .. Attempts
  PROVE  /\ k + (a - 1) * NtsSlots \in 1 .. Wanted
         /\ k + (a - 1) * NtsSlots # l + (b - 1) * NtsSlots
<1>1. NtsSlots \in Nat \ {0} /\ a \in {1, 2} /\ b \in {1, 2}
  BY PoolsSuffice DEF Attempts
<1>2. /\ (a - 1) * NtsSlots \in {0, NtsSlots} /\ (b - 1) * NtsSlots \in {0, NtsSlots}
  BY <1>1
<1> QED
  BY <1>1, <1>2 DEF Wanted, Attempts

\* A slot has nobody to ask in a draw that is not complete.
LEMMA NobodyYet ==
  ASSUME NEW k \in 1 .. NtsSlots
  PROVE  Len(Mine(<<>>, k)) = 0
<1>1. k \in Int /\ NtsSlots \in Int /\ Attempts \in Nat /\ k >= 1 /\ NtsSlots \in Nat
  BY PoolsSuffice DEF Attempts
<1>2. ASSUME NEW i \in 1 .. Attempts PROVE ~(k + (i - 1) * NtsSlots <= Len(<<>>))
  <2>1. i \in {1, 2} /\ Len(<<>>) = 0
    BY DEF Attempts
  <2> QED
    BY <1>1, <2>1
<1>3. Stripes(<<>>, k, NtsSlots, Attempts) = {}
  BY <1>2 DEF Stripes
<1>4. Len(Mine(<<>>, k)) = Cardinality(Stripes(<<>>, k, NtsSlots, Attempts))
  BY <1>1, CandidatesOf DEF Mine
<1> QED
  BY <1>3, <1>4, FS_EmptySet

\* What the invariant is for.
LEMMA InvIsDiverse == NtsInv => PairDiverse
<1> SUFFICES ASSUME NtsInv, ~raced, NEW k \in 1 .. NtsSlots, NEW l \in 1 .. NtsSlots,
                    k # l, slot[k].ok, slot[l].ok
             PROVE  Operator[Mine(sticky, k)[slot[k].i]] # Operator[Mine(sticky, l)[slot[l].i]]
  BY DEF PairDiverse, PairAlwaysDiverse
<1> DEFINE a == slot[k].i
           b == slot[l].i
<1>1. a \in 1 .. Len(Mine(sticky, k)) /\ b \in 1 .. Len(Mine(sticky, l))
  BY DEF NtsInv
<1>2. k \in Int /\ l \in Int /\ NtsSlots \in Int /\ Attempts \in Nat
  BY PoolsSuffice DEF Attempts
<1> HIDE DEF a, b
<1>3. /\ a \in 1 .. Attempts /\ b \in 1 .. Attempts
      /\ Mine(sticky, k)[a] = sticky[k + (a - 1) * NtsSlots]
      /\ Mine(sticky, l)[b] = sticky[l + (b - 1) * NtsSlots]
  <2>1. \A i \in 1 .. Len(Mine(sticky, k)) :
          i \in 1 .. Attempts /\ Mine(sticky, k)[i] = sticky[k + (i - 1) * NtsSlots]
    BY <1>2, CandidatesOf DEF Mine
  <2>2. \A i \in 1 .. Len(Mine(sticky, l)) :
          i \in 1 .. Attempts /\ Mine(sticky, l)[i] = sticky[l + (i - 1) * NtsSlots]
    BY <1>2, CandidatesOf DEF Mine
  <2> QED
    BY <1>1, <2>1, <2>2, Zenon
<1>4. sticky \in Diverse
  <2>1. sticky # <<>>
    BY <1>1, NobodyYet
  <2> QED
    BY <2>1 DEF NtsInv
<1>5. /\ k + (a - 1) * NtsSlots \in 1 .. Wanted
      /\ l + (b - 1) * NtsSlots \in 1 .. Wanted
      /\ k + (a - 1) * NtsSlots # l + (b - 1) * NtsSlots
  BY <1>3, StripesApart
<1> QED
  BY <1>3, <1>4, <1>5 DEF Diverse, a, b

\* A pass has every provider of its tier.
LEMMA PassTakesTier ==
  ASSUME NEW n, NEW s \in Shuffled(n)
  PROVE  Enumerates(s, {p \in Providers : tier[p] = n})
<1> DEFINE T == {p \in Providers : tier[p] = n}
           N == Cardinality(T)
<1>1. IsFiniteSet(T) /\ N \in Nat
  BY PoolsSuffice, FS_Subset, FS_CardinalityType
<1>2. s \in [1 .. N -> T] /\ IsInjective(s)
  BY DEF Shuffled
<1>3. T \subseteq Providers
  OBVIOUS
<1> HIDE DEF T
<1>4. IsFiniteSet(1 .. N) /\ Cardinality(1 .. N) = N
  <2>1. 1 \in Int /\ N \in Int /\ N - 1 + 1 = N /\ (1 > N => N = 0)
    BY <1>1
  <2> QED
    BY <2>1, FS_Interval
<1>5. s \in Injection(1 .. N, T)
  BY <1>2 DEF Injection
<1>6. s \in Surjection(1 .. N, T)
  BY <1>1, <1>4, <1>5, FS_Injection
<1>7. \A p \in T : \E i \in 1 .. N : s[i] = p
  BY <1>6 DEF Surjection
<1>8. s \in Seq(Providers) /\ Len(s) = N
  BY <1>1, <1>2, <1>3
<1> QED
  BY <1>7, <1>8 DEF Enumerates, T

\* Passes are put end to end.
LEMMA PassesAddUp ==
  ASSUME tier \in Tiers, NEW n \in Nat, NEW r, NEW s, Enumerates(r, Before(n)),
         Enumerates(s, {p \in Providers : tier[p] = n})
  PROVE  Enumerates(r \o s, Before(n + 1))
<1> DEFINE B == Before(n)
           T == {p \in Providers : tier[p] = n}
<1>1. Before(n + 1) = B \cup T /\ B \cap T = {}
  BY DEF Before, Tiers
<1>2. /\ IsFiniteSet(B) /\ IsFiniteSet(T)
      /\ Cardinality(B) \in Nat /\ Cardinality(T) \in Nat
  <2>1. B \in SUBSET Providers /\ T \in SUBSET Providers
    BY DEF Before
  <2> QED
    BY <2>1, PoolsSuffice, FS_Subset, FS_CardinalityType
<1>3. /\ r \in Seq(Providers) /\ Len(r) = Cardinality(B)
      /\ \A p \in B : \E i \in 1 .. Len(r) : r[i] = p
  BY DEF Enumerates
<1>4. /\ s \in Seq(Providers) /\ Len(s) = Cardinality(T)
      /\ \A p \in T : \E i \in 1 .. Len(s) : s[i] = p
  BY DEF Enumerates
<1> HIDE DEF B, T
<1>5. Cardinality(B \cup T) = Cardinality(B) + Cardinality(T)
  BY <1>1, <1>2, FS_Union, FS_EmptySet
<1>6. /\ r \o s \in Seq(Providers) /\ Len(r \o s) = Len(r) + Len(s)
      /\ \A i \in 1 .. Len(r) : (r \o s)[i] = r[i]
      /\ \A i \in 1 .. Len(s) : (r \o s)[Len(r) + i] = s[i]
  BY <1>3, <1>4
<1>7. ASSUME NEW p \in B PROVE \E i \in 1 .. Len(r \o s) : (r \o s)[i] = p
  <2>1. PICK i \in 1 .. Len(r) : r[i] = p
    BY <1>3
  <2>2. i \in 1 .. Len(r \o s) /\ (r \o s)[i] = p
    BY <1>2, <1>3, <1>4, <1>6, <2>1
  <2> QED
    BY <2>2
<1>8. ASSUME NEW p \in T PROVE \E i \in 1 .. Len(r \o s) : (r \o s)[i] = p
  <2>1. PICK i \in 1 .. Len(s) : s[i] = p
    BY <1>4
  <2>2. Len(r) + i \in 1 .. Len(r \o s) /\ (r \o s)[Len(r) + i] = p
    BY <1>2, <1>3, <1>4, <1>6, <2>1
  <2> QED
    BY <2>2
<1>9. \A p \in B \cup T : \E i \in 1 .. Len(r \o s) : (r \o s)[i] = p
  BY <1>7, <1>8
<1> QED
  BY <1>1, <1>3, <1>4, <1>5, <1>6, <1>9 DEF Enumerates

\* The chosen places are taken each once, in their order.
LEMMA InPlacesTakes ==
  ASSUME NEW o \in Seq(Providers), NEW S \in SUBSET (1 .. Len(o))
  PROVE  /\ IsFiniteSet(S) /\ Cardinality(S) \in Nat
         /\ InPlaces(o, S) \in Seq(Providers) /\ Len(InPlaces(o, S)) = Cardinality(S)
         /\ \E at \in [1 .. Cardinality(S) -> S] :
              /\ IsInjective(at)
              /\ \A k \in 1 .. Cardinality(S) : InPlaces(o, S)[k] = o[at[k]]
<1> DEFINE N == Cardinality(S)
           upTo(i) == {j \in S : j <= i}
           f == [i \in S |-> Cardinality(upTo(i))]
           at == [k \in 1 .. N |-> CHOOSE i \in S : Cardinality(upTo(i)) = k]
           c == InPlaces(o, S)
<1>1. Len(o) \in Nat /\ \A i \in S : i \in Int /\ i \in 1 .. Len(o) /\ o[i] \in Providers
  OBVIOUS
<1>2. IsFiniteSet(S) /\ N \in Nat
  <2>1. IsFiniteSet(1 .. Len(o))
    BY <1>1, FS_Interval
  <2> QED
    BY <2>1, FS_Subset, FS_CardinalityType
<1>3. ASSUME NEW i \in S PROVE IsFiniteSet(upTo(i)) /\ f[i] \in 1 .. N
  <2>1. upTo(i) \in SUBSET S /\ i \in upTo(i)
    BY <1>1
  <2>2. IsFiniteSet(upTo(i)) /\ Cardinality(upTo(i)) <= N
    BY <1>2, <2>1, FS_Subset
  <2>3. Cardinality(upTo(i)) \in Nat /\ Cardinality(upTo(i)) # 0
    BY <2>1, <2>2, FS_CardinalityType, FS_EmptySet
  <2> QED
    BY <1>2, <2>2, <2>3
<1>4. ASSUME NEW i \in S, NEW j \in S, i < j PROVE f[i] # f[j]
  <2>1. upTo(i) \in SUBSET upTo(j) /\ j \in upTo(j) /\ j \notin upTo(i)
    <3>1. i \in Int /\ j \in Int /\ i < j /\ j <= j /\ ~(j <= i)
      BY <1>1, <1>4
    <3>2. ASSUME NEW k \in S, k <= i PROVE k <= j
      BY <1>1, <3>1, <3>2
    <3>3. upTo(i) \in SUBSET upTo(j)
      BY <3>2
    <3>4. j \in upTo(j) /\ j \notin upTo(i)
      BY <3>1
    <3> QED
      BY <3>3, <3>4
  <2>2. Cardinality(upTo(j)) # Cardinality(upTo(i))
    BY <1>3, <2>1, FS_Subset
  <2> QED
    BY <2>2
<1>5. f \in Injection(S, 1 .. N)
  <2>1. f \in [S -> 1 .. N]
    BY <1>3
  <2>2. ASSUME NEW i \in S, NEW j \in S, f[i] = f[j] PROVE i = j
    BY <1>1, <1>4, <2>2
  <2> HIDE DEF f
  <2> QED
    BY <2>1, <2>2 DEF Injection, IsInjective
<1>6. IsFiniteSet(1 .. N) /\ Cardinality(1 .. N) = N
  <2>1. 1 \in Int /\ N \in Int /\ N - 1 + 1 = N /\ (1 > N => N = 0)
    BY <1>2
  <2> QED
    BY <2>1, FS_Interval
<1>7. f \in Surjection(S, 1 .. N)
  <2> HIDE DEF f
  <2> QED
    BY <1>5, <1>6, FS_Injection
<1>8. ASSUME NEW k \in 1 .. N PROVE \E i \in S : Cardinality(upTo(i)) = k
  BY <1>7 DEF Surjection
<1>9. ASSUME NEW k \in 1 .. N PROVE at[k] \in S /\ Cardinality(upTo(at[k])) = k
  <2> DEFINE i == CHOOSE i \in S : Cardinality(upTo(i)) = k
  <2>1. i \in S /\ Cardinality(upTo(i)) = k
    BY <1>8
  <2>2. at[k] = i
    OBVIOUS
  <2> HIDE DEF at, i
  <2> QED
    BY <2>1, <2>2
<1>10. /\ at \in [1 .. N -> S]
       /\ IsInjective(at)
  <2>1. at \in [1 .. N -> S]
    BY <1>9
  <2>2. ASSUME NEW k \in 1 .. N, NEW l \in 1 .. N, at[k] = at[l] PROVE k = l
    <3> HIDE DEF at
    <3> QED
      BY <1>9, <2>2
  <2> HIDE DEF at
  <2> QED
    BY <2>1, <2>2 DEF IsInjective
<1>11. c = [k \in 1 .. N |-> o[at[k]]]
  BY DEF InPlaces
<1> HIDE DEF at, c, f
<1>12. c \in [1 .. N -> Providers] /\ \A k \in 1 .. N : c[k] = o[at[k]]
  BY <1>1, <1>10, <1>11
<1>13. c \in Seq(Providers) /\ Len(c) = N
  BY <1>2, <1>12
<1> QED
  BY <1>2, <1>10, <1>12, <1>13 DEF c

\* A whole ordering has a first provider of each operator, and no two of one.
LEMMA FirstsOfAll ==
  ASSUME NEW o, Enumerates(o, Providers)
  PROVE  /\ Firsts(o) \in SUBSET (1 .. Len(o))
         /\ Cardinality(Firsts(o)) >= Wanted
         /\ \A i, j \in Firsts(o) : i # j => Operator[o[i]] # Operator[o[j]]
<1> DEFINE F == Firsts(o)
           f == [i \in F |-> Operator[o[i]]]
<1>1. /\ o \in Seq(Providers) /\ Len(o) \in Nat /\ DOMAIN o = 1 .. Len(o)
      /\ \A p \in Providers : \E i \in 1 .. Len(o) : o[i] = p
  BY DEF Enumerates
<1>2. F \in SUBSET (1 .. Len(o))
  BY <1>1 DEF Firsts
<1>3. \A i, j \in F : i # j => Operator[o[i]] # Operator[o[j]]
  <2> SUFFICES ASSUME NEW i \in F, NEW j \in F, i < j
               PROVE  Operator[o[i]] # Operator[o[j]]
    BY <1>2
  <2>1. i \in 1 .. j - 1
    BY <1>2
  <2> QED
    BY <2>1 DEF Firsts
<1>4. IsFiniteSet(F) /\ Cardinality(F) \in Nat
  <2>1. IsFiniteSet(1 .. Len(o))
    BY <1>1, FS_Interval
  <2> HIDE DEF F
  <2> QED
    BY <1>2, <2>1, FS_Subset, FS_CardinalityType
<1>5. ASSUME NEW op \in Operators PROVE \E i \in F : Operator[o[i]] = op
  <2> DEFINE S == {i \in 1 .. Len(o) : Operator[o[i]] = op}
  <2>1. S \subseteq Nat /\ \E i : i \in S
    BY <1>1 DEF Operators
  <2>2. PICK i \in S : \A j \in S : i <= j
    <3> HIDE DEF S
    <3> QED
      BY <2>1, LeastNumber
  <2>3. ASSUME NEW j \in 1 .. i - 1 PROVE Operator[o[j]] # Operator[o[i]]
    <3>1. j \in 1 .. Len(o) /\ j < i /\ Operator[o[i]] = op
      BY <1>1
    <3> QED
      BY <2>2, <3>1
  <2>4. i \in F /\ Operator[o[i]] = op
    BY <1>1, <2>3 DEF Firsts
  <2> QED
    BY <2>4
<1>6. f \in Surjection(F, Operators)
  <2>1. ASSUME NEW i \in F PROVE Operator[o[i]] \in Operators
    BY <1>1, <1>2 DEF Operators
  <2> HIDE DEF F
  <2> QED
    BY <1>5, <2>1 DEF Surjection
<1>7. Cardinality(Operators) <= Cardinality(F)
  <2> HIDE DEF f, F
  <2> QED
    BY <1>4, <1>6, FS_Surjection
<1>8. Wanted <= Cardinality(Operators) /\ Cardinality(Operators) \in Nat /\ Wanted \in Nat
  <2>1. IsFiniteSet(Operators)
    <3> HIDE DEF f, F
    <3> QED
      BY <1>4, <1>6, FS_Surjection
  <2> QED
    BY <2>1, PoolsSuffice, FS_CardinalityType DEF Wanted, Attempts
<1> QED
  BY <1>2, <1>3, <1>4, <1>7, <1>8

\* What is picked from a whole ordering is of distinct operators.
LEMMA PickedIsDiverse ==
  ASSUME NEW o, Enumerates(o, Providers)
  PROVE  Picked(o) \in Diverse
<1> DEFINE A == InPlaces(o, Firsts(o))
           B == InPlaces(o, Others(o))
           all == A \o B
<1>1. o \in Seq(Providers) /\ DOMAIN o = 1 .. Len(o)
  BY DEF Enumerates
<1>2. /\ Firsts(o) \in SUBSET (1 .. Len(o)) /\ Others(o) \in SUBSET (1 .. Len(o))
      /\ Cardinality(Firsts(o)) >= Wanted
      /\ \A i, j \in Firsts(o) : i # j => Operator[o[i]] # Operator[o[j]]
  BY <1>1, FirstsOfAll DEF Others
<1>3. /\ A \in Seq(Providers) /\ Len(A) = Cardinality(Firsts(o)) /\ Len(A) \in Nat
      /\ \E at \in [1 .. Len(A) -> Firsts(o)] :
           /\ IsInjective(at)
           /\ \A k \in 1 .. Len(A) : A[k] = o[at[k]]
  BY <1>1, <1>2, InPlacesTakes
<1>4. B \in Seq(Providers)
  BY <1>1, <1>2, InPlacesTakes
<1>5. PICK at \in [1 .. Len(A) -> Firsts(o)] :
        IsInjective(at) /\ \A k \in 1 .. Len(A) : A[k] = o[at[k]]
  BY <1>3
<1>6. Wanted \in Nat /\ Wanted <= Len(A)
  BY <1>2, <1>3, PoolsSuffice DEF Wanted, Attempts
<1>7. Picked(o) = IF Len(all) <= Wanted THEN all ELSE SubSeq(all, 1, Wanted)
  BY DEF Picked
<1> HIDE DEF A, B
<1>8. /\ all \in Seq(Providers) /\ Len(all) \in Nat /\ Len(A) <= Len(all)
      /\ \A k \in 1 .. Len(A) : all[k] = A[k]
  BY <1>3, <1>4
<1> HIDE DEF all
<1>9. /\ Picked(o) \in [1 .. Wanted -> Providers]
      /\ \A k \in 1 .. Wanted : Picked(o)[k] = A[k]
  <2>1. CASE Len(all) <= Wanted
    <3>1. Picked(o) = all /\ Len(all) = Wanted
      BY <1>3, <1>6, <1>7, <1>8, <2>1
    <3> QED
      BY <1>3, <1>6, <1>8, <3>1
  <2>2. CASE ~(Len(all) <= Wanted)
    <3>1. Picked(o) = SubSeq(all, 1, Wanted)
      BY <1>7, <2>2
    <3>2. Wanted \in 0 .. Len(all)
      BY <1>6, <1>8, <2>2
    <3>3. SubSeq(all, 1, Wanted) = [i \in 1 .. Wanted |-> all[i]]
      BY <1>6, <1>8, <3>2
    <3>4. \A i \in 1 .. Wanted : /\ i \in 1 .. Len(all) /\ i \in 1 .. Len(A)
                                /\ all[i] \in Providers /\ all[i] = A[i]
      BY <1>3, <1>6, <1>8, <3>2
    <3>5. Picked(o) = [i \in 1 .. Wanted |-> all[i]]
      BY <3>1, <3>3
    <3> QED
      BY <3>4, <3>5
  <2> QED
    BY <2>1, <2>2
<1>10. ASSUME NEW i \in 1 .. Wanted, NEW j \in 1 .. Wanted, i # j
       PROVE  Operator[Picked(o)[i]] # Operator[Picked(o)[j]]
  <2>1. i \in 1 .. Len(A) /\ j \in 1 .. Len(A)
    BY <1>3, <1>6
  <2>2. at[i] \in Firsts(o) /\ at[j] \in Firsts(o) /\ at[i] # at[j]
    BY <1>5, <1>10, <2>1 DEF IsInjective
  <2>3. Picked(o)[i] = o[at[i]] /\ Picked(o)[j] = o[at[j]]
    BY <1>5, <1>9, <2>1
  <2> QED
    BY <1>2, <2>2, <2>3
<1> QED
  BY <1>9, <1>10 DEF Diverse

\* Nothing is left over of an ordering of all providers.
LEMMA FilledIsWhole ==
  ASSUME NEW o, Enumerates(o, Providers)
  PROVE  Filled(o) = {o}
<1>1. /\ o \in Seq(Providers) /\ Len(o) = Cardinality(Providers)
      /\ Cardinality(Providers) \in Nat
  BY PoolsSuffice, FS_CardinalityType DEF Enumerates
<1>2. SubSeq(o, 1, Len(o)) = o
  BY <1>1
<1> QED
  BY <1>1, <1>2 DEF Filled

LEMMA NtsInitInv == NtsInit => NtsInv
  BY DEF NtsInit, NtsInv, Unasked, NoDraw, Tiers

\* One step for each action.
LEMMA NtsNextInv == NtsInv /\ [NtsNext]_ntsVars => NtsInv'
<1> SUFFICES ASSUME NtsInv, [NtsNext]_ntsVars PROVE NtsInv'
  OBVIOUS
<1>1. CASE NtsReuse
  BY <1>1 DEF NtsReuse, NtsInv, Before
<1>2. ASSUME NEW trusted \in BOOLEAN, NtsDraw(trusted) PROVE NtsInv'
  <2>1. PICK s \in Shuffled(0) : draw' = [pass |-> 1, ordered |-> s]
    BY <1>2 DEF NtsDraw
  <2>2. /\ tier' = tier /\ slot' = slot /\ running' = TRUE /\ sticky' = <<>>
        /\ \A k \in 1 .. NtsSlots : ~slot[k].ok
    BY <1>2 DEF NtsDraw, NtsInv
  <2>3. Enumerates(s, Before(1))
    <3>1. Before(1) = {p \in Providers : tier[p] = 0}
      BY DEF Before, NtsInv, Tiers
    <3> QED
      BY <3>1, PassTakesTier
  <2>4. Enumerates(s, Before(1)')
    BY <2>2, <2>3 DEF Before
  <2>5. draw'.pass = 1 /\ draw'.ordered = s
    BY <2>1
  <2> QED
    BY <2>2, <2>4, <2>5 DEF NtsInv, Before, Enumerates
<1>3. CASE NtsPass
  <2>1. PICK s \in Shuffled(1) : draw' = [pass |-> 2, ordered |-> draw.ordered \o s]
    BY <1>3 DEF NtsPass
  <2>2. /\ tier' = tier /\ slot' = slot /\ running' = running /\ sticky' = sticky
        /\ raced' = raced /\ draw.pass = 1 /\ draw # NoDraw
    BY <1>3 DEF NtsPass, NoDraw
  <2>3. ~raced => Enumerates(draw.ordered \o s, Before(2))
    <3>1. 1 \in Nat /\ 1 + 1 = 2 /\ tier \in Tiers
      BY DEF NtsInv
    <3>2. ASSUME ~raced PROVE Enumerates(draw.ordered, Before(1))
      BY <2>2, <3>2 DEF NtsInv
    <3>3. Enumerates(s, {p \in Providers : tier[p] = 1})
      BY PassTakesTier
    <3>4. ASSUME ~raced PROVE Enumerates(draw.ordered \o s, Before(1 + 1))
      BY <3>1, <3>2, <3>3, <3>4, PassesAddUp, Zenon
    <3> QED
      BY <3>1, <3>4
  <2>4. draw'.pass = 2 /\ draw'.ordered = draw.ordered \o s
    BY <2>1
  <2> QED
    BY <2>2, <2>3, <2>4 DEF NtsInv, Before, Enumerates
<1>4. CASE NtsTake
  <2>1. /\ tier' = tier /\ slot' = slot /\ running' = running
        /\ raced' = raced /\ draw.pass = 2 /\ draw # NoDraw /\ draw' = NoDraw
    BY <1>4 DEF NtsTake, NoDraw
  <2>2. PICK s \in Shuffled(2) : \E o \in Filled(draw.ordered \o s) : sticky' = Picked(o)
    BY <1>4 DEF NtsTake
  <2>3. ASSUME ~raced PROVE sticky' \in Diverse
    <3>1. Enumerates(draw.ordered \o s, Before(3))
      <4>1. 2 \in Nat /\ 2 + 1 = 3 /\ tier \in Tiers
        BY DEF NtsInv
      <4>2. Enumerates(draw.ordered, Before(2))
        BY <2>1, <2>3 DEF NtsInv
      <4>3. Enumerates(s, {p \in Providers : tier[p] = 2})
        BY PassTakesTier
      <4>4. Enumerates(draw.ordered \o s, Before(2 + 1))
        BY <4>1, <4>2, <4>3, PassesAddUp, Zenon
      <4> QED
        BY <4>1, <4>4
    <3>2. Before(3) = Providers
      BY DEF Before, NtsInv, Tiers
    <3>3. Filled(draw.ordered \o s) = {draw.ordered \o s}
      BY <3>1, <3>2, FilledIsWhole
    <3> QED
      BY <2>2, <3>1, <3>2, <3>3, PickedIsDiverse
  <2>4. \A k \in 1 .. NtsSlots : ~slot[k].ok
    BY <2>1, NobodyYet DEF NtsInv
  <2> QED
    BY <2>1, <2>3, <2>4 DEF NtsInv
<1>5. ASSUME NEW k \in 1 .. NtsSlots, Served(k) PROVE NtsInv'
  <2>1. /\ sticky' = sticky /\ running' = running /\ draw' = draw /\ raced' = raced
        /\ slot' = [slot EXCEPT ![k].ok = TRUE] /\ Working(k)
    BY <1>5 DEF Served
  <2>2. slot[k].i \in 1 .. Len(Mine(sticky, k)) /\ running
    <3>1. Len(Mine(sticky, k)) \in Nat
      BY PoolsSuffice, CandidatesOf DEF Mine, Attempts
    <3> QED
      BY <2>1, <3>1 DEF Working, NtsInv
  <2>3. draw = NoDraw
    BY <2>2, NobodyYet DEF NtsInv
  <2>4. tier' \in Tiers
    <3>1. PICK far \in {0, 2} : tier' = [tier EXCEPT ![Mine(sticky, k)[slot[k].i]] = far]
      BY <1>5 DEF Served, Reported
    <3>2. tier \in Tiers /\ far \in 0 .. 2
      BY DEF NtsInv
    <3> QED
      BY <3>1, <3>2 DEF Tiers
  <2>5. slot' \in [1 .. NtsSlots -> [i : Nat \ {0}, ok : BOOLEAN]]
    BY <2>1 DEF NtsInv
  <2>6. ASSUME NEW l \in 1 .. NtsSlots, slot'[l].ok
        PROVE  running' /\ slot'[l].i \in 1 .. Len(Mine(sticky', l))
    BY <2>1, <2>2, <2>6 DEF NtsInv
  <2> QED
    BY <2>1, <2>3, <2>4, <2>5, <2>6 DEF NtsInv
<1>6. ASSUME NEW k \in 1 .. NtsSlots, Failed(k) PROVE NtsInv'
  <2>1. /\ sticky' = sticky /\ running' = running /\ draw' = draw /\ raced' = raced
        /\ tier' = tier /\ slot' = [slot EXCEPT ![k].i = @ + 1] /\ ~slot[k].ok
    BY <1>6 DEF Failed, Working
  <2>2. slot' \in [1 .. NtsSlots -> [i : Nat \ {0}, ok : BOOLEAN]]
    BY <2>1 DEF NtsInv
  <2>3. ASSUME NEW l \in 1 .. NtsSlots, slot'[l].ok
        PROVE  running' /\ slot'[l].i \in 1 .. Len(Mine(sticky', l))
    <3>1. l # k
      BY <2>1, <2>3 DEF NtsInv
    <3> QED
      BY <2>1, <2>3, <3>1 DEF NtsInv
  <2> QED
    BY <2>1, <2>2, <2>3 DEF NtsInv, Before
<1>7. CASE ServedLate
  <2>1. /\ sticky' = sticky /\ running' = running /\ draw' = draw /\ slot' = slot
        /\ raced' = (raced \/ (draw # NoDraw /\ tier' # tier))
    BY <1>7 DEF ServedLate
  <2>2. tier' \in Tiers
    <3>1. PICK p \in late, far \in {0, 2} : tier' = [tier EXCEPT ![p] = far]
      BY <1>7 DEF ServedLate, Reported
    <3>2. tier \in Tiers /\ far \in 0 .. 2
      BY DEF NtsInv
    <3> QED
      BY <3>1, <3>2 DEF Tiers
  <2>3. ~raced' => ~raced /\ (draw = NoDraw \/ tier' = tier)
    BY <2>1
  <2> QED
    BY <2>1, <2>2, <2>3 DEF NtsInv, Before
<1>8. CASE NtsEnd
  <2>1. /\ sticky' = sticky /\ draw = NoDraw /\ draw' = draw /\ raced' = raced
        /\ tier' = tier /\ slot' = [k \in 1 .. NtsSlots |-> Unasked]
    BY <1>8 DEF NtsEnd
  <2> QED
    BY <2>1 DEF NtsInv, Unasked
<1>9. CASE UNCHANGED ntsVars
  <2>1. /\ sticky' = sticky /\ slot' = slot /\ draw' = draw /\ tier' = tier
        /\ raced' = raced /\ running' = running
    BY <1>9 DEF ntsVars
  <2> QED
    BY <2>1 DEF NtsInv, Before
<1> QED
  BY <1>1, <1>2, <1>3, <1>4, <1>5, <1>6, <1>7, <1>8, <1>9 DEF NtsNext

\* nts.c: a draw that no late report disturbed has a provider of every operator in it,
\* so what is taken is of distinct operators; striping keeps them distinct in whichever
\* attempts the slots succeed, and so does every later use of the draw, however many
\* slots and providers there are.
THEOREM PairIsDiverse == NtsSpec => []PairDiverse
  BY NtsInitInv, NtsNextInv, InvIsDiverse, PTL DEF NtsSpec

\* The pool that nts.c ships: as many operators as the two slots have attempts.
ShippedPool == NtsSlots = 2 /\ IsFiniteSet(Operators) /\ Cardinality(Operators) = 4

\* p is drawn for its operator: no sibling has a better tier.
BestOf(p, t) == p \in Providers /\ \A q \in Providers : Operator[q] = Operator[p] => t[p] <= t[q]

\* Four providers, best of four operators and in the order of their tiers.
LinedUp(s, t) ==
    /\ s \in [1 .. 4 -> Providers]
    /\ \A i \in 1 .. 4 : BestOf(s[i], t)
    /\ \A i, j \in 1 .. 4 : i < j => t[s[i]] <= t[s[j]] /\ Operator[s[i]] # Operator[s[j]]
    /\ \A o \in Operators : \E i \in 1 .. 4 : Operator[s[i]] = o

\* They are a draw.
LEMMA LinedUpIsDrawn ==
  ASSUME ShippedPool, NEW t \in Tiers, NEW s, LinedUp(s, t)
  PROVE  s \in FreshDraws(t)
<1>1. Wanted = 4
  BY DEF ShippedPool, Wanted, Attempts
<1>2. s \in [1 .. Wanted -> Providers]
  BY <1>1 DEF LinedUp
<1>3. \A i, j \in 1 .. Wanted : i < j =>
         t[s[i]] <= t[s[j]] /\ Operator[s[i]] # Operator[s[j]]
  BY <1>1 DEF LinedUp
<1>4. ASSUME NEW p \in Providers, NEW i \in 1 .. Wanted, t[p] < t[s[i]]
      PROVE  \E j \in 1 .. Wanted : Operator[s[j]] = Operator[p] /\ t[s[j]] <= t[p]
  <2>1. Operator[p] \in Operators
    BY DEF Operators
  <2>2. PICK j \in 1 .. 4 : Operator[s[j]] = Operator[p]
    BY <2>1 DEF LinedUp
  <2>3. BestOf(s[j], t)
    BY DEF LinedUp
  <2>4. t[s[j]] <= t[p]
    BY <2>2, <2>3 DEF BestOf
  <2> QED
    BY <1>1, <2>2, <2>4
<1> QED
  BY <1>2, <1>3, <1>4 DEF FreshDraws

\* The slots take the first and the third, the second and the fourth of a draw.
LEMMA SlotsOfFour ==
  ASSUME ShippedPool, NEW s \in [1 .. 4 -> Providers], NEW up \in SUBSET Providers,
         s[1] \in up \/ s[3] \in up, s[2] \in up \/ s[4] \in up
  PROVE  Pairs(s, up)
<1> SUFFICES ASSUME NEW k \in 1 .. NtsSlots
             PROVE  Range(Mine(s, k)) \cap up # {}
  BY DEF Pairs
<1>1. NtsSlots = 2 /\ Attempts = 2 /\ k \in {1, 2}
  BY DEF ShippedPool, Attempts
<1>2. Len(s) = 4
  OBVIOUS
<1>3. Stripes(s, k, 2, 2) = 1 .. 2
  BY <1>1, <1>2 DEF Stripes
<1>4. Cardinality(1 .. 2) = 2
  <2> DEFINE two == 2
  <2>1. two \in Nat
    OBVIOUS
  <2> HIDE DEF two
  <2>2. Cardinality(1 .. two) = two
    BY <2>1, FS_Interval
  <2> QED
    BY <2>2 DEF two
<1> DEFINE c == Mine(s, k)
<1>5. c = Candidates(s, k, 2, 2)
  BY <1>1 DEF Mine
<1>6. /\ Len(c) = 2 /\ DOMAIN c = 1 .. 2
      /\ \A a \in 1 .. 2 : c[a] = s[k + (a - 1) * 2]
  <2>1. k \in Int /\ 2 \in Int /\ 2 \in Nat
    BY <1>1
  <2>2. /\ Len(Candidates(s, k, 2, 2)) = Cardinality(Stripes(s, k, 2, 2))
        /\ DOMAIN Candidates(s, k, 2, 2) = 1 .. Len(Candidates(s, k, 2, 2))
        /\ \A a \in 1 .. Len(Candidates(s, k, 2, 2)) :
             Candidates(s, k, 2, 2)[a] = s[k + (a - 1) * 2]
    BY <2>1, CandidatesOf
  <2>3. Cardinality(Stripes(s, k, 2, 2)) = 2
    BY <1>3, <1>4, Zenon
  <2> HIDE DEF c
  <2> QED
    BY <1>5, <2>2, <2>3
<1> HIDE DEF c
<1>7. c[1] = s[k] /\ c[2] = s[k + 2]
  BY <1>1, <1>6
<1>8. c[1] \in Range(c) /\ c[2] \in Range(c)
  BY <1>6 DEF Range
<1>9. c[1] \in up \/ c[2] \in up
  BY <1>1, <1>7
<1> QED
  BY <1>8, <1>9 DEF c

\* Four operators, two of them in reach: with three tiers, some order of the tiers keeps
\* the two out of one slot.  Here a is no further than b, and c no further than d.
LEMMA TwoApart ==
  ASSUME NEW a \in 0 .. 2, NEW b \in 0 .. 2, NEW c \in 0 .. 2, NEW d \in 0 .. 2,
         a <= b, c <= d
  PROVE  b <= c \/ (a <= c /\ d <= b) \/ (c <= a /\ b <= d) \/ d <= a
  OBVIOUS

\* Four providers, each the best of an operator of its own, for all operators.
OneOfEach(a, b, c, d, t) ==
    /\ BestOf(a, t) /\ BestOf(b, t) /\ BestOf(c, t) /\ BestOf(d, t)
    /\ Operator[a] # Operator[b] /\ Operator[a] # Operator[c] /\ Operator[a] # Operator[d]
    /\ Operator[b] # Operator[c] /\ Operator[b] # Operator[d] /\ Operator[c] # Operator[d]
    /\ Operators = {Operator[a], Operator[b], Operator[c], Operator[d]}

\* Best providers of the four operators, in the order of their tiers, are a draw.
LEMMA InOrderOfTiers ==
  ASSUME NEW t \in Tiers, NEW a \in Providers, NEW b \in Providers, NEW c \in Providers,
         NEW d \in Providers, OneOfEach(a, b, c, d, t),
         t[a] <= t[b], t[b] <= t[c], t[c] <= t[d]
  PROVE  LinedUp(<<a, b, c, d>>, t)
<1> DEFINE s == <<a, b, c, d>>
<1>1. /\ s \in [1 .. 4 -> Providers]
      /\ s[1] = a /\ s[2] = b /\ s[3] = c /\ s[4] = d
  OBVIOUS
<1> HIDE DEF s
<1>2. t[a] \in 0 .. 2 /\ t[b] \in 0 .. 2 /\ t[c] \in 0 .. 2 /\ t[d] \in 0 .. 2
  BY DEF Tiers
<1>3. ASSUME NEW i \in 1 .. 4
      PROVE  BestOf(s[i], t)
  BY <1>1, i \in {1, 2, 3, 4} DEF OneOfEach
<1>4. ASSUME NEW i \in 1 .. 4, NEW j \in 1 .. 4, i < j
      PROVE  t[s[i]] <= t[s[j]] /\ Operator[s[i]] # Operator[s[j]]
  <2>1. \/ i = 1 /\ j \in {2, 3, 4}
        \/ i = 2 /\ j \in {3, 4}
        \/ i = 3 /\ j = 4
    BY <1>4
  <2>2. t[a] <= t[c] /\ t[a] <= t[d] /\ t[b] <= t[d]
    BY <1>2
  <2>3. t[s[i]] <= t[s[j]]
    BY <1>1, <2>1, <2>2
  <2>4. Operator[s[i]] # Operator[s[j]]
    BY <1>1, <2>1 DEF OneOfEach
  <2> QED
    BY <2>3, <2>4
<1>5. ASSUME NEW o \in Operators
      PROVE  \E i \in 1 .. 4 : Operator[s[i]] = o
  <2>1. 1 \in 1 .. 4 /\ 2 \in 1 .. 4 /\ 3 \in 1 .. 4 /\ 4 \in 1 .. 4
    OBVIOUS
  <2> QED
    BY <1>1, <2>1 DEF OneOfEach
<1> QED
  BY <1>1, <1>3, <1>4, <1>5 DEF LinedUp, s

\* Two of the four answer, the first two; a draw has them in two slots.
LEMMA TwoServed ==
  ASSUME ShippedPool, NEW t \in Tiers, NEW a \in Providers, NEW b \in Providers,
         NEW c \in Providers, NEW d \in Providers, OneOfEach(a, b, c, d, t),
         t[a] <= t[b], t[c] <= t[d], NEW up \in SUBSET Providers, a \in up, b \in up
  PROVE  \E s \in FreshDraws(t) : Pairs(s, up)
<1>1. t[a] \in 0 .. 2 /\ t[b] \in 0 .. 2 /\ t[c] \in 0 .. 2 /\ t[d] \in 0 .. 2
  BY DEF Tiers
<1>2. ASSUME NEW s \in [1 .. 4 -> Providers], LinedUp(s, t),
             s[1] \in up \/ s[3] \in up, s[2] \in up \/ s[4] \in up
      PROVE  \E e \in FreshDraws(t) : Pairs(e, up)
  BY <1>2, LinedUpIsDrawn, SlotsOfFour
<1>3. CASE t[b] <= t[c]
  <2>1. LinedUp(<<a, b, c, d>>, t)
    BY <1>3, InOrderOfTiers
  <2> QED
    BY <1>2, <2>1
<1>4. CASE t[a] <= t[c] /\ t[d] <= t[b]
  <2>1. OneOfEach(a, c, d, b, t)
    BY DEF OneOfEach
  <2>2. LinedUp(<<a, c, d, b>>, t)
    BY <1>4, <2>1, InOrderOfTiers
  <2> QED
    BY <1>2, <2>2
<1>5. CASE t[c] <= t[a] /\ t[b] <= t[d]
  <2>1. OneOfEach(c, a, b, d, t)
    BY DEF OneOfEach
  <2>2. LinedUp(<<c, a, b, d>>, t)
    BY <1>5, <2>1, InOrderOfTiers
  <2> QED
    BY <1>2, <2>2
<1>6. CASE t[d] <= t[a]
  <2>1. OneOfEach(c, d, a, b, t)
    BY DEF OneOfEach
  <2>2. LinedUp(<<c, d, a, b>>, t)
    BY <1>6, <2>1, InOrderOfTiers
  <2> QED
    BY <1>2, <2>2
<1> QED
  BY <1>1, <1>3, <1>4, <1>5, <1>6, TwoApart

\* Every operator has a best provider.
LEMMA BestExists ==
  ASSUME NEW t \in Tiers, NEW o \in Operators
  PROVE  \E p \in Providers : BestOf(p, t) /\ Operator[p] = o
<1> DEFINE T == {t[p] : p \in {q \in Providers : Operator[q] = o}}
<1>1. T \subseteq Nat /\ \E n : n \in T
  <2>1. PICK q \in Providers : Operator[q] = o
    BY DEF Operators
  <2>2. t[q] \in T
    BY <2>1
  <2>3. \A p \in Providers : t[p] \in Nat
    BY DEF Tiers
  <2> QED
    BY <2>2, <2>3
<1>2. PICK n \in T : \A m \in T : n <= m
  <2> HIDE DEF T
  <2> QED
    BY <1>1, LeastNumber
<1>3. PICK p \in Providers : Operator[p] = o /\ n = t[p]
  BY <1>2
<1>4. ASSUME NEW q \in Providers, Operator[q] = o
      PROVE  t[p] <= t[q]
  BY <1>2, <1>3, <1>4
<1> QED
  BY <1>3, <1>4 DEF BestOf

\* A set of at least two has two.
LEMMA TwoOf ==
  ASSUME NEW S, IsFiniteSet(S), Cardinality(S) >= 2
  PROVE  \E x, y \in S : x # y /\ Cardinality(S \ {x, y}) = Cardinality(S) - 2
                        /\ IsFiniteSet(S \ {x, y})
<1>1. Cardinality(S) \in Nat
  BY FS_CardinalityType
<1>2. S # {}
  BY <1>1, FS_EmptySet
<1>3. PICK x : x \in S
  BY <1>2
<1> DEFINE T == S \ {x}
<1>4. IsFiniteSet(T) /\ Cardinality(T) = Cardinality(S) - 1
  BY <1>3, FS_RemoveElement
<1>5. T # {}
  <2> HIDE DEF T
  <2> QED
    BY <1>1, <1>4, FS_EmptySet
<1>6. PICK y : y \in T
  BY <1>5
<1> DEFINE U == T \ {y}
<1>7. IsFiniteSet(U) /\ Cardinality(U) = Cardinality(T) - 1
  <2> HIDE DEF T
  <2> QED
    BY <1>4, <1>6, FS_RemoveElement
<1>8. U = S \ {x, y} /\ y \in S /\ x # y
  BY <1>6
<1> HIDE DEF T, U
<1>9. Cardinality(S \ {x, y}) = Cardinality(S) - 2 /\ IsFiniteSet(S \ {x, y})
  <2>1. Cardinality(U) = Cardinality(S) - 2 /\ IsFiniteSet(U)
    BY <1>1, <1>4, <1>7
  <2> QED
    BY <1>8, <2>1
<1> QED
  BY <1>3, <1>8, <1>9

\* Whatever the tiers, some draw of the shipped pool pairs two operators in reach: with
\* three tiers and four places, the two that answer and the two that do not can each be
\* put in the order of their tiers, and that leaves the first two in different slots.
LEMMA ShippedPoolPairs ==
  ASSUME ShippedPool, NEW t \in Tiers
  PROVE  Pairable(t)
<1> SUFFICES ASSUME NEW up \in SUBSET Providers,
                    Cardinality({o \in Operators : InReach(o, up, t)}) >= NtsSlots
             PROVE  \E s \in FreshDraws(t) : Pairs(s, up)
  BY DEF Pairable
<1> DEFINE R == {o \in Operators : InReach(o, up, t)}
<1>1. IsFiniteSet(R) /\ Cardinality(R) >= 2
  <2>1. R \subseteq Operators /\ IsFiniteSet(Operators) /\ NtsSlots = 2
    BY DEF ShippedPool
  <2> QED
    BY <2>1, FS_Subset
<1>2. PICK o1 \in R, o2 \in R : o1 # o2
  <2> HIDE DEF R
  <2>1. \E x, y \in R : /\ x # y /\ Cardinality(R \ {x, y}) = Cardinality(R) - 2
                       /\ IsFiniteSet(R \ {x, y})
    BY ONLY <1>1, TwoOf
  <2> QED
    BY <2>1
<1> DEFINE L == Operators \ {o1, o2}
<1>3. IsFiniteSet(L) /\ Cardinality(L) = 2
  <2> DEFINE K == Operators \ {o1}
  <2>1. IsFiniteSet(K) /\ Cardinality(K) = 3
    <3>1. IsFiniteSet(Operators) /\ Cardinality(Operators) = 4 /\ o1 \in Operators
      BY <1>2 DEF ShippedPool
    <3>2. IsFiniteSet(K) /\ Cardinality(K) = Cardinality(Operators) - 1
      BY <3>1, FS_RemoveElement
    <3> QED
      BY <3>1, <3>2
  <2>2. o2 \in K /\ L = K \ {o2}
    BY <1>2
  <2> HIDE DEF K, L
  <2>3. IsFiniteSet(K \ {o2}) /\ Cardinality(K \ {o2}) = Cardinality(K) - 1
    BY <2>1, <2>2, FS_RemoveElement
  <2> QED
    BY <2>1, <2>2, <2>3
<1>4. PICK o3 \in L, o4 \in L : o3 # o4 /\ L = {o3, o4}
  <2> HIDE DEF L
  <2>1. PICK x \in L, y \in L : /\ x # y /\ Cardinality(L \ {x, y}) = Cardinality(L) - 2
                               /\ IsFiniteSet(L \ {x, y})
    BY <1>3, TwoOf
  <2>2. L \ {x, y} = {}
    <3> DEFINE M == L \ {x, y}
    <3>1. IsFiniteSet(M) /\ Cardinality(M) = 0
      BY <1>3, <2>1
    <3> HIDE DEF M
    <3>2. M = {}
      BY <3>1, FS_EmptySet
    <3> QED
      BY <3>2 DEF M
  <2>3. L = {x, y}
    BY <2>2
  <2> QED
    BY <2>1, <2>3
<1>5. PICK a \in up : Operator[a] = o1 /\ \A q \in Providers : Operator[q] = o1 => t[a] <= t[q]
  BY <1>2 DEF InReach
<1>6. PICK b \in up : Operator[b] = o2 /\ \A q \in Providers : Operator[q] = o2 => t[b] <= t[q]
  BY <1>2 DEF InReach
<1>7. PICK c \in Providers : BestOf(c, t) /\ Operator[c] = o3
  BY <1>4, BestExists
<1>8. PICK d \in Providers : BestOf(d, t) /\ Operator[d] = o4
  BY <1>4, BestExists
<1>9. a \in Providers /\ b \in Providers /\ BestOf(a, t) /\ BestOf(b, t)
  BY <1>5, <1>6 DEF BestOf
<1>10. Operators = {o1, o2, o3, o4}
  BY <1>2, <1>4
<1>11. /\ OneOfEach(a, b, c, d, t) /\ OneOfEach(b, a, c, d, t)
       /\ OneOfEach(a, b, d, c, t) /\ OneOfEach(b, a, d, c, t)
  <2>1. o1 # o2 /\ o1 # o3 /\ o1 # o4 /\ o2 # o3 /\ o2 # o4 /\ o3 # o4
    BY <1>2, <1>4
  <2> HIDE DEF L, R
  <2> QED
    BY <1>5, <1>6, <1>7, <1>8, <1>9, <1>10, <2>1 DEF OneOfEach
<1>12. t[a] \in 0 .. 2 /\ t[b] \in 0 .. 2 /\ t[c] \in 0 .. 2 /\ t[d] \in 0 .. 2
  BY <1>7, <1>8, <1>9 DEF Tiers
<1> HIDE DEF L, R
<1>13. CASE t[a] <= t[b] /\ t[c] <= t[d]
  BY <1>5, <1>6, <1>9, <1>11, <1>13, TwoServed
<1>14. CASE t[a] <= t[b] /\ t[d] <= t[c]
  BY <1>5, <1>6, <1>9, <1>11, <1>14, TwoServed
<1>15. CASE t[b] <= t[a] /\ t[c] <= t[d]
  BY <1>5, <1>6, <1>9, <1>11, <1>15, TwoServed
<1>16. CASE t[b] <= t[a] /\ t[d] <= t[c]
  BY <1>5, <1>6, <1>9, <1>11, <1>16, TwoServed
<1> QED
  BY <1>12, <1>13, <1>14, <1>15, <1>16

\* ntp.c's "re-anchor never gambles on a bad or stale-cookie provider", for any providers
\* of the four operators that ship and whatever round trips were measured: two operators
\* in reach are served by the two slots under some shuffle.
THEOREM PairIsInReach == ShippedPool => (NtsSpec => []PairInReach)
<1> SUFFICES ASSUME ShippedPool PROVE NtsSpec => []PairInReach
  OBVIOUS
<1>1. NtsInv => PairInReach
  <2> SUFFICES ASSUME tier \in Tiers PROVE <<tier, TRUE>> \in Verdicts
    BY DEF PairInReach, NtsInv
  <2>1. Pairable(tier) = TRUE
    BY ShippedPoolPairs DEF Pairable
  <2> QED
    BY <2>1 DEF Verdicts, Tiers
<1> QED
  BY <1>1, NtsInitInv, NtsNextInv, PTL DEF NtsSpec
-----------------------------------------------------------------------------
AskerSet == [left : Seq(CoreHosts), pc : {"ask", "wait"}, told : SUBSET CoreHosts]

\* A worker knows of every host it is still to ask that exclusions c exclude; it has
\* each host once.
Knows(w, c) ==
    /\ IsInjective(w.left)
    /\ w.pc = "wait" => w.left # <<>>
    /\ \A i \in 1 .. Len(w.left) : c[w.left[i]] > 0 => w.left[i] \in w.told

\* The inductive invariant of the core half.
CoreInv ==
    /\ cooling \in [CoreHosts -> Int]
    /\ core \in [(1 .. CoreSlots) \X Gens -> AskerSet]
    /\ \A kg \in (1 .. CoreSlots) \X Gens : Knows(core[kg], cooling)

LEMMA DoneKnows == Done \in AskerSet /\ \A c : Knows(Done, c)
  BY DEF Done, AskerSet, Knows, IsInjective

\* A worker that moves on to its next candidate.
LEMMA NextKnows ==
  ASSUME NEW c, NEW w \in AskerSet, Knows(w, c), w.left # <<>>
  PROVE  /\ NextCandidate(w) \in AskerSet /\ Knows(NextCandidate(w), c)
         /\ \A i \in 1 .. Len(NextCandidate(w).left) :
              NextCandidate(w).left[i] # Head(w.left)
<1> DEFINE s == w.left
           v == NextCandidate(w)
<1>1. s \in Seq(CoreHosts) /\ s # <<>> /\ w.told \in SUBSET CoreHosts
  BY DEF AskerSet
<1>2. /\ Len(s) \in Nat \ {0} /\ DOMAIN s = 1 .. Len(s) /\ Head(s) = s[1]
      /\ Tail(s) \in Seq(CoreHosts) /\ Len(Tail(s)) = Len(s) - 1
      /\ DOMAIN Tail(s) = 1 .. Len(Tail(s))
      /\ \A i \in 1 .. Len(Tail(s)) : Tail(s)[i] = s[i + 1]
  BY <1>1, HeadTailProperties, LenProperties, EmptySeq
<1>3. /\ v.left = Tail(s) /\ v.pc = "ask"
      /\ v.told = IF Len(s) = 1 THEN {} ELSE w.told
      /\ v \in AskerSet
  BY <1>1, <1>2 DEF NextCandidate, AskerSet
<1> HIDE DEF s, v
<1>4. IsInjective(s) /\ \A i \in 1 .. Len(s) : c[s[i]] > 0 => s[i] \in w.told
  BY DEF Knows, s
<1>5. IsInjective(Tail(s)) /\ \A i \in 1 .. Len(Tail(s)) : Tail(s)[i] # Head(s)
  BY <1>2, <1>4 DEF IsInjective
<1>6. \A i \in 1 .. Len(Tail(s)) : c[Tail(s)[i]] > 0 => Tail(s)[i] \in v.told
  BY <1>2, <1>3, <1>4
<1>7. Knows(v, c)
  BY <1>3, <1>5, <1>6 DEF Knows
<1> QED
  BY <1>3, <1>5, <1>7 DEF s, v

LEMMA CoreInitInv == CoreInit => CoreInv
<1> SUFFICES ASSUME CoreInit PROVE CoreInv
  OBVIOUS
<1>1. /\ cooling = [h \in CoreHosts |-> 0]
      /\ core = [k \in (1 .. CoreSlots) \X Gens |-> Done]
  BY DEF CoreInit
<1> QED
  BY <1>1, DoneKnows DEF CoreInv

\* The stripes that reach a slot are the first ones.
LEMMA FirstStripes ==
  ASSUME NEW s, Len(s) \in Nat, NEW k \in Nat, NEW n \in Nat, NEW m \in {1, 2},
         NEW a \in 1 .. Cardinality(Stripes(s, k, n, m))
  PROVE  k + (a - 1) * n <= Len(s)
<1> DEFINE S == Stripes(s, k, n, m)
<1>1. \A b \in {1, 2} : b \in S <=> b <= m /\ k + (b - 1) * n <= Len(s)
  BY DEF Stripes
<1>2. S \subseteq {1, 2}
  BY DEF Stripes
<1>3. 2 \in S => 1 \in S
  BY <1>1
<1>4. PICK j \in 0 .. 2 : S = 1 .. j
  <2>1. S = 1 .. 0 \/ S = 1 .. 1 \/ S = 1 .. 2
    BY <1>2, <1>3
  <2> QED
    BY <2>1
<1>5. Cardinality(S) = j
  <2> HIDE DEF S
  <2>1. 1 \in Int /\ j \in Int
    OBVIOUS
  <2>2. Cardinality(1 .. j) = IF 1 > j THEN 0 ELSE j - 1 + 1
    BY <2>1, FS_Interval, Zenon
  <2> QED
    BY <1>4, <2>2
<1>6. a \in S
  BY <1>4, <1>5
<1> QED
  BY <1>6 DEF Stripes

\* A worker of a new cycle has hosts that are not excluded, each once.
LEMMA DrawnKnows ==
  ASSUME NEW n \in Nat, NEW s \in PickCore(n), NEW k \in 1 .. CoreSlots, NEW m \in {1, 2}
  PROVE  LET w == [Done EXCEPT !.left = Candidates(s, k, CoreSlots, m)]
         IN  w \in AskerSet /\ Knows(w, cooling)
<1> DEFINE c == Candidates(s, k, CoreSlots, m)
<1>1. /\ s \in [1 .. n -> Eligible] /\ IsInjective(s) /\ DOMAIN s = 1 .. n
      /\ Len(s) = n
  BY DEF PickCore
<1>2. /\ k \in Nat \ {0} /\ CoreSlots \in Nat \ {0} /\ m \in Nat
      /\ k \in Int /\ CoreSlots \in Int
  BY PoolsSuffice
<1>3. /\ Len(c) \in 0 .. 2 /\ DOMAIN c = 1 .. Len(c)
      /\ Len(c) = Cardinality(Stripes(s, k, CoreSlots, m))
      /\ \A a \in 1 .. Len(c) : c[a] = s[k + (a - 1) * CoreSlots]
  <2>1. Cardinality(Stripes(s, k, CoreSlots, m)) \in 0 .. m
    BY <1>2, CandidatesOf
  <2>2. Len(c) = Cardinality(Stripes(s, k, CoreSlots, m)) /\ DOMAIN c = 1 .. Len(c)
    BY <1>2, CandidatesOf
  <2>3. \A a \in 1 .. Len(c) : c[a] = s[k + (a - 1) * CoreSlots]
    BY <1>2, CandidatesOf
  <2> HIDE DEF c
  <2> QED
    BY <2>1, <2>2, <2>3
<1>4. c = [a \in 1 .. Len(c) |-> s[k + (a - 1) * CoreSlots]]
  BY <1>3 DEF Candidates, Stripes
<1> HIDE DEF c
<1>5. ASSUME NEW a \in 1 .. Len(c)
      PROVE  k + (a - 1) * CoreSlots \in 1 .. n
  <2>1. k + (a - 1) * CoreSlots <= n
    BY <1>1, <1>2, <1>3, FirstStripes
  <2>2. a = 1 \/ a = 2
    BY <1>3
  <2>3. (1 - 1) * CoreSlots = 0 /\ (2 - 1) * CoreSlots = CoreSlots
    BY <1>2
  <2>4. (a - 1) * CoreSlots \in Nat
    BY <1>2, <2>2, <2>3
  <2> QED
    BY <1>2, <2>1, <2>4
<1>6. \A a \in 1 .. Len(c) : c[a] \in Eligible
  BY <1>1, <1>3, <1>5
<1>7. c \in Seq(CoreHosts)
  BY <1>3, <1>4, <1>6 DEF Eligible
<1>8. IsInjective(c)
  <2> SUFFICES ASSUME NEW a \in 1 .. Len(c), NEW b \in 1 .. Len(c), c[a] = c[b]
               PROVE  a = b
    BY <1>3 DEF IsInjective
  <2>1. k + (a - 1) * CoreSlots = k + (b - 1) * CoreSlots
    BY <1>1, <1>3, <1>5 DEF IsInjective
  <2>2. a \in {1, 2} /\ b \in {1, 2}
    BY <1>3
  <2> QED
    BY <1>2, <2>1, <2>2
<1>9. \A a \in 1 .. Len(c) : ~(cooling[c[a]] > 0)
  BY <1>6 DEF Eligible
<1> QED
  BY <1>7, <1>8, <1>9 DEF AskerSet, Knows, Done, c

\* Fewer exclusions than before leave a worker's knowledge complete.
LEMMA StillKnows ==
  ASSUME NEW c, NEW d, NEW w \in AskerSet, Knows(w, c),
         \A h \in CoreHosts : d[h] > 0 => c[h] > 0
  PROVE  Knows(w, d)
<1>1. \A i \in 1 .. Len(w.left) : w.left[i] \in CoreHosts
  BY ElementOfSeq DEF AskerSet
<1> QED
  BY <1>1 DEF Knows

\* One step for each action.
LEMMA CoreNextInv == CoreInv /\ [CoreNext]_coreVars => CoreInv'
<1> SUFFICES ASSUME CoreInv, [CoreNext]_coreVars PROVE CoreInv'
  OBVIOUS
<1> DEFINE D == (1 .. CoreSlots) \X Gens
<1>1. /\ cooling \in [CoreHosts -> Int] /\ core \in [D -> AskerSet] /\ DOMAIN core = D
      /\ \A kg \in D : core[kg] \in AskerSet /\ Knows(core[kg], cooling)
  BY DEF CoreInv
<1>2. ASSUME NEW trusted \in BOOLEAN, CoreDraw(trusted) PROVE CoreInv'
  <2> DEFINE m == IF trusted THEN 1 ELSE Attempts
             most == CoreSlots * Attempts
             n == IF Cardinality(Eligible) < most THEN Cardinality(Eligible) ELSE most
             New(s, kg) == [Done EXCEPT !.left = Candidates(s, kg[1], CoreSlots, m)]
  <2>1. cooling' = cooling /\ m \in {1, 2}
    BY <1>2 DEF CoreDraw, Attempts
  <2>2. n \in Nat
    <3>1. Eligible \in SUBSET CoreHosts
      BY DEF Eligible
    <3>2. Cardinality(Eligible) \in Nat
      BY <3>1, PoolsSuffice, FS_Subset, FS_CardinalityType
    <3> QED
      BY <3>2, PoolsSuffice DEF Attempts
  <2>3. PICK s \in PickCore(n) :
          core' = [kg \in D |-> IF kg[2] = "late" THEN core[kg] ELSE New(s, kg)]
    BY <1>1, <1>2 DEF CoreDraw
  <2> HIDE DEF n, m
  <2>4. ASSUME NEW kg \in D PROVE New(s, kg) \in AskerSet /\ Knows(New(s, kg), cooling)
    BY <2>1, <2>2, DrawnKnows
  <2> HIDE DEF New
  <2> QED
    BY <1>1, <2>1, <2>3, <2>4 DEF CoreInv
<1>3. ASSUME NEW kg \in D, Ask(kg) PROVE CoreInv'
  <2>1. /\ cooling' = cooling /\ core' = [core EXCEPT ![kg].pc = "wait"]
        /\ core[kg].left # <<>>
    BY <1>3 DEF Ask
  <2>2. [core[kg] EXCEPT !.pc = "wait"] \in AskerSet
    BY <1>1 DEF AskerSet
  <2>3. Knows([core[kg] EXCEPT !.pc = "wait"], cooling)
    BY <1>1, <2>1 DEF Knows, AskerSet
  <2> QED
    BY <1>1, <2>1, <2>2, <2>3 DEF CoreInv
<1>4. ASSUME NEW kg \in D, Sample(kg) PROVE CoreInv'
  BY <1>1, <1>4, DoneKnows DEF Sample, CoreInv
<1>5. ASSUME NEW kg \in D, core[kg].pc = "wait"
      PROVE  /\ core[kg].left # <<>> /\ NextCandidate(core[kg]) \in AskerSet
             /\ Knows(NextCandidate(core[kg]), cooling)
             /\ \A i \in 1 .. Len(NextCandidate(core[kg]).left) :
                  NextCandidate(core[kg]).left[i] # Head(core[kg].left)
  <2>1. core[kg].left # <<>>
    BY <1>1, <1>5 DEF Knows
  <2> QED
    BY <1>1, <2>1, NextKnows
<1>6. ASSUME NEW kg \in D, NoSample(kg) PROVE CoreInv'
  BY <1>1, <1>5, <1>6 DEF NoSample, CoreInv
<1>7. ASSUME NEW kg \in D, NEW forever \in BOOLEAN, Kiss(kg, forever) PROVE CoreInv'
  <2> DEFINE h == Head(core[kg].left)
             until == IF forever THEN Forever ELSE KOD_RATE_COOLDOWN_MS
             told(w) == [w EXCEPT !.told = @ \cup {h}]
  <2>1. /\ core[kg].pc = "wait" /\ cooling' = [cooling EXCEPT ![h] = until]
        /\ core' = [g \in D |-> IF g = kg THEN NextCandidate(core[g])
                                ELSE IF h \in Range(core[g].left) THEN told(core[g])
                                ELSE core[g]]
    BY <1>1, <1>7 DEF Kiss
  <2>2. h \in CoreHosts
    BY <1>1, <1>5, <2>1, HeadTailProperties DEF AskerSet
  <2>3. until \in Int
    BY PoolsSuffice DEF Forever
  <2> HIDE DEF until, h
  <2>4. /\ cooling' \in [CoreHosts -> Int]
        /\ \A x \in CoreHosts : x # h => cooling'[x] = cooling[x]
    BY <1>1, <2>1, <2>2, <2>3
  <2>5. \A g \in D : \A i \in 1 .. Len(core[g].left) :
          core[g].left[i] \in CoreHosts /\ core[g].left[i] \in Range(core[g].left)
    BY <1>1, ElementOfSeq, LenProperties DEF AskerSet, Range
  <2>6. NextCandidate(core[kg]) \in AskerSet /\ Knows(NextCandidate(core[kg]), cooling')
    <3>1. \A i \in 1 .. Len(NextCandidate(core[kg]).left) :
            NextCandidate(core[kg]).left[i] \in CoreHosts \ {h}
      BY <1>5, <2>1, ElementOfSeq DEF AskerSet, h
    <3> QED
      BY <1>5, <2>1, <2>4, <3>1 DEF Knows
  <2>7. ASSUME NEW g \in D, h \in Range(core[g].left)
        PROVE  told(core[g]) \in AskerSet /\ Knows(told(core[g]), cooling')
    <3>1. told(core[g]) \in AskerSet
      BY <1>1, <2>2 DEF AskerSet
    <3>2. /\ told(core[g]).left = core[g].left /\ told(core[g]).pc = core[g].pc
          /\ told(core[g]).told = core[g].told \cup {h}
      BY <1>1 DEF AskerSet
    <3> QED
      BY <1>1, <2>4, <2>5, <3>1, <3>2 DEF Knows
  <2>8. ASSUME NEW g \in D, h \notin Range(core[g].left)
        PROVE  Knows(core[g], cooling')
    BY <1>1, <2>4, <2>5, <2>8 DEF Knows
  <2> HIDE DEF told
  <2>9. \A g \in D : core'[g] \in AskerSet /\ Knows(core'[g], cooling')
    BY <1>1, <2>1, <2>6, <2>7, <2>8
  <2>10. core' \in [D -> AskerSet]
    BY <2>1, <2>9
  <2> QED
    BY <2>4, <2>9, <2>10 DEF CoreInv
<1>8. ASSUME NEW k \in 1 .. CoreSlots, Detach(k) PROVE CoreInv'
  <2>1. /\ cooling' = cooling
        /\ core' = [core EXCEPT ![<<k, "late">>] = core[<<k, "now">>], ![<<k, "now">>] = Done]
    BY <1>8 DEF Detach
  <2>2. <<k, "now">> \in D /\ <<k, "late">> \in D
    BY DEF Gens
  <2> QED
    BY <1>1, <2>1, <2>2, DoneKnows DEF CoreInv
<1>9. CASE Cool
  <2>1. /\ core' = core
        /\ cooling' = [h \in CoreHosts |->
             IF cooling[h] \in {0, Forever} THEN cooling[h] ELSE cooling[h] - 1]
    BY <1>9 DEF Cool
  <2>2. /\ cooling' \in [CoreHosts -> Int]
        /\ \A h \in CoreHosts : cooling'[h] > 0 => cooling[h] > 0
    BY <1>1, <2>1
  <2> QED
    BY <1>1, <2>1, <2>2, StillKnows DEF CoreInv
<1>10. CASE UNCHANGED coreVars
  <2>1. cooling' = cooling /\ core' = core
    BY <1>10 DEF coreVars
  <2> QED
    BY <2>1 DEF CoreInv
<1> QED
  BY <1>1, <1>2, <1>3, <1>4, <1>6, <1>7, <1>8, <1>9, <1>10 DEF CoreNext

\* ntp.c: whichever workers overlap, a host that asked for a respite is asked only by
\* a worker that held it already, however many hosts and slots there are.
THEOREM KissIsHonoured == CoreSpec => KodHonoured
<1>1. CoreInv => \A kg \in DOMAIN core :
        core[kg].left # <<>> /\ cooling[Head(core[kg].left)] > 0
          => Head(core[kg].left) \in core[kg].told
  <2> SUFFICES ASSUME CoreInv, NEW kg \in (1 .. CoreSlots) \X Gens, core[kg].left # <<>>,
                      cooling[Head(core[kg].left)] > 0
               PROVE  Head(core[kg].left) \in core[kg].told
    BY DEF CoreInv
  <2>1. core[kg].left \in Seq(CoreHosts) /\ Knows(core[kg], cooling)
    BY DEF CoreInv, AskerSet
  <2>2. Len(core[kg].left) \in Nat \ {0} /\ Head(core[kg].left) = core[kg].left[1]
    BY <2>1, EmptySeq
  <2> QED
    BY <2>1, <2>2 DEF Knows
<1>2. CoreInv /\ [CoreNext]_coreVars => [\A kg \in DOMAIN core :
        (/\ core[kg].left # <<>> /\ core[kg].pc = "ask"
         /\ core'[kg] = [core[kg] EXCEPT !.pc = "wait"]
         /\ cooling[Head(core[kg].left)] > 0)
            => Head(core[kg].left) \in core[kg].told]_coreVars
  BY <1>1
<1> QED
  BY <1>2, CoreInitInv, CoreNextInv, PTL DEF CoreSpec, KodHonoured
-----------------------------------------------------------------------------
(***************************************************************************)
(* CookieJar: no cookie is sent twice, and only enrolled sessions are      *)
(* reused.                                                                 *)
(***************************************************************************)

Cookie == [serial : Nat, session : Nat]
JarSet == [valid : BOOLEAN, session : Nat, cookies : Seq(Cookie), old : BOOLEAN]

\* Where a worker's cookies are still to be sent or kept, and where it has none.
Holding == {"reuse", "store", "exchange", "add"}
EmptyHanded == {"idle", "take", "ke", "done"}

WorkerSet ==
    [pc : Holding \cup EmptyHanded \cup {"drop"}, session : Nat, cookies : Seq(Cookie),
     pending : BOOLEAN, result : {"none", "keFailed", "failed", "enrolled", "rotated"}]

Serials(cs) == {cs[i].serial : i \in DOMAIN cs}
Distinct(cs) == \A i, j \in DOMAIN cs : cs[i].serial = cs[j].serial => i = j

Enrolled(s, e) == s \in DOMAIN e /\ e[s]

\* A jar with cookies is valid, and valid jars are of enrolled sessions, as are their
\* cookies: those may be of another session than the keys.
JarOk(j, e) ==
    /\ j.cookies # <<>> => j.valid
    /\ j.valid => Enrolled(j.session, e)
    /\ \A i \in DOMAIN j.cookies : Enrolled(j.cookies[i].session, e)

\* What a worker has at each step of a fetch, and what it knows of its session.
WorkerOk(k, e) ==
    /\ k.pc \in EmptyHanded => k.cookies = <<>>
    /\ k.pc \in {"reuse", "exchange"} => Len(k.cookies) = 1
    /\ k.pc = "store" => k.cookies # <<>>
    /\ k.pc = "take" => ~k.pending
    /\ k.pc = "reuse" => ~k.pending /\ Enrolled(k.session, e)
    /\ k.pc \in {"store", "exchange", "add"} =>
          /\ k.session \in DOMAIN e /\ e[k.session] = ~k.pending
          /\ \A i \in DOMAIN k.cookies : k.cookies[i].session = k.session
    /\ k.pc # "done" => k.result = "none"
    /\ k.result = "enrolled" => Enrolled(k.session, e)
    /\ k.result = "rotated" => k.session \in DOMAIN e /\ ~e[k.session]

\* Each cookie the server issued is in one place at most: in the jar, in a hand, or
\* spent; one that is spent is in a hand only if its worker is about to drop it.
PlacesOk(k, in, out, was) ==
    /\ out \subseteq was /\ in \subseteq was /\ in \cap out = {}
    /\ \A v \in Workers :
          /\ Serials(k[v].cookies) \subseteq was
          /\ k[v].pc = "drop" => Serials(k[v].cookies) \subseteq out
          /\ k[v].pc \in Holding => Serials(k[v].cookies) \cap (out \cup in) = {}
          /\ k[v].pc \in EmptyHanded => Serials(k[v].cookies) = {}
    /\ \A u, v \in Workers : u # v => Serials(k[u].cookies) \cap Serials(k[v].cookies) = {}

\* What one step of a worker does with serials: jar and hand are filled from the two
\* and from what is fresh, and only what was in the hand is spent.
Moves(in, hand, out, fresh, in2, hand2, out2) ==
    /\ in2 \cup hand2 \subseteq in \cup hand \cup fresh
    /\ in2 \cap hand2 = {} /\ in2 \cap out2 = {}
    /\ out \subseteq out2 /\ out2 \subseteq out \cup hand

\* The inductive invariant.
JarInv ==
    /\ jar \in JarSet
    /\ worker \in [Workers -> WorkerSet]
    /\ enrolled \in Seq(BOOLEAN)
    /\ issued \in Nat
    /\ JarOk(jar, enrolled)
    /\ Distinct(jar.cookies)
    /\ \A w \in Workers : WorkerOk(worker[w], enrolled) /\ Distinct(worker[w].cookies)
    /\ PlacesOk(worker, Serials(jar.cookies), spent, 1 .. issued)
-----------------------------------------------------------------------------
(***************************************************************************)
(* Cookies in a row.                                                       *)
(***************************************************************************)
LEMMA EmptyCookies ==
  /\ <<>> \in Seq(Cookie) /\ Len(<<>>) = 0 /\ Serials(<<>>) = {} /\ Distinct(<<>>)
  /\ \A i \in DOMAIN <<>> : FALSE
  BY EmptySeq DEF Serials, Distinct

LEMMA OneCookie ==
  ASSUME NEW c \in Cookie
  PROVE  /\ <<c>> \in Seq(Cookie) /\ Len(<<c>>) = 1
         /\ Serials(<<c>>) = {c.serial} /\ Distinct(<<c>>)
         /\ DOMAIN <<c>> = {1} /\ <<c>>[1] = c
<1>1. <<c>> \in Seq(Cookie) /\ Len(<<c>>) = 1 /\ DOMAIN <<c>> = {1} /\ <<c>>[1] = c
  OBVIOUS
<1>2. Serials(<<c>>) = {c.serial}
  BY <1>1 DEF Serials
<1>3. Distinct(<<c>>)
  BY <1>1 DEF Distinct
<1> QED
  BY <1>1, <1>2, <1>3

\* A part of a row.
LEMMA PartOfCookies ==
  ASSUME NEW cs \in Seq(Cookie), NEW m \in Nat \ {0}, NEW n \in Int, n <= Len(cs)
  PROVE  LET part == SubSeq(cs, m, n)
         IN  /\ part \in Seq(Cookie)
             /\ Serials(part) \subseteq Serials(cs)
             /\ Distinct(cs) => Distinct(part)
             /\ \A i \in DOMAIN part : \E j \in DOMAIN cs : part[i] = cs[j]
             /\ Distinct(cs) => \A i \in DOMAIN cs :
                                    i \notin m .. n => cs[i].serial \notin Serials(part)
<1> DEFINE part == SubSeq(cs, m, n)
<1>1. Len(cs) \in Nat /\ DOMAIN cs = 1 .. Len(cs)
  BY LenProperties
<1>2. \A i \in m .. n : i \in DOMAIN cs /\ cs[i] \in Cookie
  BY <1>1, ElementOfSeq
<1>3. /\ part \in Seq(Cookie)
      /\ Len(part) = IF m <= n THEN n - m + 1 ELSE 0
      /\ \A i \in 1 .. n - m + 1 : part[i] = cs[m + i - 1]
  <2>1. \A i \in m .. n : cs[i] \in Cookie
    BY <1>2
  <2>2. m \in Int
    OBVIOUS
  <2> QED
    BY <2>1, <2>2, SubSeqProperties
<1>4. DOMAIN part = 1 .. Len(part)
  BY <1>3, LenProperties
<1> HIDE DEF part
<1>5. \A i \in DOMAIN part : m + i - 1 \in m .. n /\ m + i - 1 \in DOMAIN cs /\ part[i] = cs[m + i - 1]
  <2> SUFFICES ASSUME NEW i \in DOMAIN part
               PROVE  m + i - 1 \in m .. n /\ m + i - 1 \in DOMAIN cs /\ part[i] = cs[m + i - 1]
    OBVIOUS
  <2>1. i \in 1 .. n - m + 1 /\ i \in Int
    BY <1>3, <1>4
  <2>2. m + i - 1 \in m .. n
    BY <2>1
  <2> QED
    BY <1>2, <1>3, <2>1, <2>2
<1>6. Serials(part) \subseteq Serials(cs)
  BY <1>5 DEF Serials
<1>7. ASSUME Distinct(cs) PROVE Distinct(part)
  <2> SUFFICES ASSUME NEW i \in DOMAIN part, NEW j \in DOMAIN part,
                      part[i].serial = part[j].serial
               PROVE  i = j
    BY DEF Distinct
  <2>1. m + i - 1 = m + j - 1
    BY <1>5, <1>7 DEF Distinct
  <2>2. i \in Int /\ j \in Int
    BY <1>3, <1>4
  <2> QED
    BY <2>1, <2>2
<1>8. ASSUME Distinct(cs), NEW i \in DOMAIN cs, i \notin m .. n
      PROVE  cs[i].serial \notin Serials(part)
  <2> SUFFICES ASSUME NEW j \in DOMAIN part, part[j].serial = cs[i].serial PROVE FALSE
    BY DEF Serials
  <2> QED
    BY <1>5, <1>8 DEF Distinct
<1> QED
  BY <1>3, <1>5, <1>6, <1>7, <1>8 DEF part

\* One row behind another.
LEMMA MoreCookies ==
  ASSUME NEW a \in Seq(Cookie), NEW b \in Seq(Cookie),
         Distinct(a), Distinct(b), Serials(a) \cap Serials(b) = {}
  PROVE  /\ a \o b \in Seq(Cookie) /\ Distinct(a \o b)
         /\ Serials(a \o b) \subseteq Serials(a) \cup Serials(b)
         /\ \A i \in DOMAIN (a \o b) :
               (\E j \in DOMAIN a : (a \o b)[i] = a[j]) \/ (\E j \in DOMAIN b : (a \o b)[i] = b[j])
<1> DEFINE c == a \o b
<1>1. /\ Len(a) \in Nat /\ DOMAIN a = 1 .. Len(a)
      /\ Len(b) \in Nat /\ DOMAIN b = 1 .. Len(b)
  BY LenProperties
<1>2. /\ c \in Seq(Cookie) /\ Len(c) = Len(a) + Len(b)
      /\ \A i \in 1 .. Len(a) + Len(b) : c[i] = IF i <= Len(a) THEN a[i] ELSE b[i - Len(a)]
  BY ConcatProperties
<1>3. DOMAIN c = 1 .. Len(a) + Len(b)
  BY <1>2, LenProperties
<1> HIDE DEF c
<1>4. \A i \in DOMAIN c : \/ i <= Len(a) /\ i \in DOMAIN a /\ c[i] = a[i]
                          \/ i > Len(a) /\ i - Len(a) \in DOMAIN b /\ c[i] = b[i - Len(a)]
  BY <1>1, <1>2, <1>3
<1>5. \A i \in DOMAIN a, j \in DOMAIN b : a[i].serial # b[j].serial
  BY DEF Serials
<1>6. Distinct(c)
  <2> SUFFICES ASSUME NEW i \in DOMAIN c, NEW j \in DOMAIN c, c[i].serial = c[j].serial
               PROVE  i = j
    BY DEF Distinct
  <2>1. i \in Int /\ j \in Int
    BY <1>3
  <2>2. CASE i <= Len(a) /\ j <= Len(a)
    BY <1>1, <1>4, <2>1, <2>2 DEF Distinct
  <2>3. CASE i > Len(a) /\ j > Len(a)
    <3>1. i - Len(a) = j - Len(a)
      BY <1>1, <1>4, <2>1, <2>3 DEF Distinct
    <3> QED
      BY <1>1, <2>1, <3>1
  <2>4. CASE i <= Len(a) /\ j > Len(a)
    BY <1>1, <1>4, <1>5, <2>1, <2>4
  <2>5. CASE i > Len(a) /\ j <= Len(a)
    BY <1>1, <1>4, <1>5, <2>1, <2>5
  <2> QED
    BY <1>1, <2>1, <2>2, <2>3, <2>4, <2>5
<1>7. Serials(c) \subseteq Serials(a) \cup Serials(b)
  BY <1>4 DEF Serials
<1> QED
  BY <1>2, <1>4, <1>6, <1>7 DEF c

\* What the server issues.
LEMMA FreshCookies ==
  ASSUME issued \in Nat, NEW n \in Nat, NEW s \in Nat
  PROVE  /\ Fresh(n, s) \in Seq(Cookie) /\ Len(Fresh(n, s)) = n
         /\ DOMAIN Fresh(n, s) = 1 .. n
         /\ Distinct(Fresh(n, s)) /\ Serials(Fresh(n, s)) \subseteq issued + 1 .. issued + n
         /\ \A i \in DOMAIN Fresh(n, s) : Fresh(n, s)[i].session = s
<1>1. DOMAIN Fresh(n, s) = 1 .. n
  BY DEF Fresh
<1>2. \A i \in 1 .. n : Fresh(n, s)[i] = [serial |-> issued + i, session |-> s]
  BY DEF Fresh
<1>3. Fresh(n, s) \in [1 .. n -> Cookie]
  BY DEF Fresh, Cookie
<1>4. Fresh(n, s) \in Seq(Cookie) /\ Len(Fresh(n, s)) = n
  BY <1>1, <1>3
<1>5. Distinct(Fresh(n, s))
  BY <1>1, <1>2 DEF Distinct
<1>6. Serials(Fresh(n, s)) \subseteq issued + 1 .. issued + n
  BY <1>1, <1>2 DEF Serials
<1> QED
  BY <1>1, <1>2, <1>4, <1>5, <1>6
-----------------------------------------------------------------------------
(***************************************************************************)
(* One step of one worker.  It takes from the jar, from its own hand and   *)
(* from what the server has just issued, and sends from its own hand only. *)
(***************************************************************************)
LEMMA LaterOk ==
  ASSUME NEW k, NEW e, NEW f, WorkerOk(k, e),
         \A s \in DOMAIN e : s \in DOMAIN f /\ f[s] = e[s]
  PROVE  WorkerOk(k, f)
<1>1. k.pc = "reuse" => ~k.pending /\ Enrolled(k.session, f)
  BY DEF WorkerOk, Enrolled
<1>2. k.pc \in {"store", "exchange", "add"} =>
          /\ k.session \in DOMAIN f /\ f[k.session] = ~k.pending
          /\ \A i \in DOMAIN k.cookies : k.cookies[i].session = k.session
  BY Zenon DEF WorkerOk
<1>3. /\ k.result = "enrolled" => Enrolled(k.session, f)
      /\ k.result = "rotated" => k.session \in DOMAIN f /\ ~f[k.session]
  BY Zenon DEF WorkerOk, Enrolled
<1> QED
  BY <1>1, <1>2, <1>3 DEF WorkerOk

\* A step of w keeps the places apart.
LEMMA PlacesApart ==
  ASSUME NEW w \in Workers, NEW was, NEW grown, NEW fresh,
         PlacesOk(worker, Serials(jar.cookies), spent, was),
         Moves(Serials(jar.cookies), Serials(worker[w].cookies), spent, fresh,
               Serials(jar'.cookies), Serials(worker'[w].cookies), spent'),
         was \subseteq grown, fresh \subseteq grown, \A x \in fresh : x \notin was,
         \A v \in Workers : worker[v].pc \in Holding \cup EmptyHanded \cup {"drop"},
         \A v \in Workers : v # w => worker'[v] = worker[v],
         worker'[w].pc = "drop" => Serials(worker'[w].cookies) \subseteq spent',
         worker'[w].pc \in Holding => Serials(worker'[w].cookies) \cap spent' = {},
         worker'[w].pc \in EmptyHanded => Serials(worker'[w].cookies) = {}
  PROVE  PlacesOk(worker', Serials(jar'.cookies), spent', grown)
<1> DEFINE h(v) == Serials(worker[v].cookies)
           h2(v) == Serials(worker'[v].cookies)
           in == Serials(jar.cookies)
           in2 == Serials(jar'.cookies)
<1>1. ASSUME NEW v \in Workers, v # w, NEW x \in h(v)
      PROVE  x \in was /\ x \notin in /\ x \notin h(w) /\ x \notin fresh
  <2>1. x \in was /\ x \notin h(w)
    BY <1>1 DEF PlacesOk
  <2>2. x \notin fresh
    BY <2>1
  <2>3. CASE worker[v].pc \in Holding
    BY <1>1, <2>1, <2>2, <2>3 DEF PlacesOk
  <2>4. CASE worker[v].pc = "drop"
    BY <1>1, <2>1, <2>2, <2>4 DEF PlacesOk
  <2>5. CASE worker[v].pc \in EmptyHanded
    BY <1>1, <2>5 DEF PlacesOk
  <2> QED
    BY <2>3, <2>4, <2>5
<1>2. ASSUME NEW v \in Workers, v # w, NEW x \in h(v)
      PROVE  x \notin in2 /\ x \notin h2(w) /\ (x \notin spent => x \notin spent')
  BY <1>1, <1>2 DEF Moves
<1>3. /\ spent' \subseteq grown /\ in2 \subseteq grown /\ in2 \cap spent' = {} /\ h2(w) \subseteq grown
  BY DEF Moves, PlacesOk
<1>4. /\ h2(w) \subseteq grown
      /\ worker'[w].pc = "drop" => h2(w) \subseteq spent'
      /\ worker'[w].pc \in Holding => h2(w) \cap (spent' \cup in2) = {}
      /\ worker'[w].pc \in EmptyHanded => h2(w) = {}
  BY <1>3 DEF Moves
<1>5. ASSUME NEW v \in Workers, v # w
      PROVE  /\ h2(v) = h(v)
             /\ h2(v) \subseteq grown
             /\ worker'[v].pc = "drop" => h2(v) \subseteq spent'
             /\ worker'[v].pc \in Holding => h2(v) \cap (spent' \cup in2) = {}
             /\ worker'[v].pc \in EmptyHanded => h2(v) = {}
  <2>1. worker'[v] = worker[v]
    BY <1>5
  <2>2. h2(v) = h(v) /\ h(v) \subseteq grown
    BY <1>1, <1>5, <2>1
  <2>3. worker[v].pc = "drop" => h(v) \subseteq spent'
    BY DEF PlacesOk, Moves
  <2>4. worker[v].pc \in Holding => h(v) \cap (spent' \cup in2) = {}
    BY <1>2, <1>5 DEF PlacesOk
  <2>5. worker[v].pc \in EmptyHanded => h(v) = {}
    BY DEF PlacesOk
  <2> QED
    BY <2>1, <2>2, <2>3, <2>4, <2>5
<1>6. ASSUME NEW u \in Workers, NEW v \in Workers, u # v PROVE h2(u) \cap h2(v) = {}
  <2>1. CASE u = w
    BY <1>2, <1>5, <1>6, <2>1
  <2>2. CASE v = w
    BY <1>2, <1>5, <1>6, <2>2
  <2>3. CASE u # w /\ v # w
    <3>1. h(u) \cap h(v) = {}
      BY <1>6 DEF PlacesOk
    <3> QED
      BY <1>5, <2>3, <3>1
  <2> QED
    BY <2>1, <2>2, <2>3
<1>7. \A v \in Workers : /\ h2(v) \subseteq grown
                         /\ worker'[v].pc = "drop" => h2(v) \subseteq spent'
                         /\ worker'[v].pc \in Holding => h2(v) \cap (spent' \cup in2) = {}
                         /\ worker'[v].pc \in EmptyHanded => h2(v) = {}
  BY <1>4, <1>5
<1> QED
  BY <1>3, <1>6, <1>7 DEF PlacesOk

\* A step of w that leaves the jar, the sessions and its own hand in order.
LEMMA WorkerSteps ==
  ASSUME JarInv, NEW w \in Workers, NEW k \in WorkerSet, worker' = [worker EXCEPT ![w] = k],
         jar' \in JarSet, enrolled' \in Seq(BOOLEAN), issued' \in Nat, issued <= issued',
         \A s \in DOMAIN enrolled : s \in DOMAIN enrolled' /\ enrolled'[s] = enrolled[s],
         JarOk(jar', enrolled'), WorkerOk(k, enrolled'),
         Distinct(jar'.cookies), Distinct(k.cookies),
         Moves(Serials(jar.cookies), Serials(worker[w].cookies), spent, issued + 1 .. issued',
               Serials(jar'.cookies), Serials(k.cookies), spent'),
         k.pc = "drop" => Serials(k.cookies) \subseteq spent',
         k.pc \in Holding => Serials(k.cookies) \cap spent' = {}
  PROVE  JarInv'
<1>1. /\ worker \in [Workers -> WorkerSet] /\ issued \in Nat
      /\ \A v \in Workers : WorkerOk(worker[v], enrolled) /\ Distinct(worker[v].cookies)
      /\ PlacesOk(worker, Serials(jar.cookies), spent, 1 .. issued)
  BY DEF JarInv
<1>2. /\ worker' \in [Workers -> WorkerSet]
      /\ worker'[w] = k /\ \A v \in Workers : v # w => worker'[v] = worker[v]
  BY <1>1
<1>3. \A v \in Workers : worker[v].pc \in Holding \cup EmptyHanded \cup {"drop"}
  BY <1>1 DEF WorkerSet
<1>4. /\ 1 .. issued \subseteq 1 .. issued' /\ issued + 1 .. issued' \subseteq 1 .. issued'
      /\ \A x \in issued + 1 .. issued' : x \notin 1 .. issued
  BY <1>1
<1>5. k.pc \in EmptyHanded => Serials(k.cookies) = {}
  BY EmptyCookies DEF WorkerOk
<1>6. PlacesOk(worker', Serials(jar'.cookies), spent', 1 .. issued')
  <2> DEFINE in == Serials(jar.cookies)
             in2 == Serials(jar'.cookies)
             was == 1 .. issued
             grown == 1 .. issued'
             fresh == issued + 1 .. issued'
  <2>1. PlacesOk(worker, in, spent, was)
    BY <1>1
  <2>2. Moves(in, Serials(worker[w].cookies), spent, fresh, in2, Serials(worker'[w].cookies), spent')
    BY <1>2
  <2>3. was \subseteq grown /\ fresh \subseteq grown /\ \A x \in fresh : x \notin was
    BY <1>4
  <2>4. /\ worker'[w].pc = "drop" => Serials(worker'[w].cookies) \subseteq spent'
        /\ worker'[w].pc \in Holding => Serials(worker'[w].cookies) \cap spent' = {}
        /\ worker'[w].pc \in EmptyHanded => Serials(worker'[w].cookies) = {}
    BY <1>2, <1>5
  <2> HIDE DEF was, grown, fresh
  <2>5. PlacesOk(worker', in2, spent', grown)
    BY <1>2, <1>3, <2>1, <2>2, <2>3, <2>4, PlacesApart
  <2> QED
    BY <2>5 DEF in2, grown
<1>7. ASSUME NEW v \in Workers PROVE WorkerOk(worker'[v], enrolled') /\ Distinct(worker'[v].cookies)
  <2>1. CASE v = w
    BY <1>2, <2>1
  <2>2. CASE v # w
    BY <1>1, <1>2, <2>2, LaterOk
  <2> QED
    BY <2>1, <2>2
<1> QED
  BY <1>2, <1>6, <1>7 DEF JarInv
-----------------------------------------------------------------------------
(***************************************************************************)
(* The steps.                                                              *)
(***************************************************************************)
LEMMA AtRest ==
  /\ Resting \in WorkerSet /\ Resting.cookies = <<>>
  /\ NoJar \in JarSet /\ NoJar.cookies = <<>> /\ ~NoJar.valid
  BY EmptyCookies DEF Resting, WorkerSet, EmptyHanded, NoJar, JarSet

LEMMA InOrder ==
  ASSUME JarInv, NEW w \in Workers
  PROVE  /\ worker[w] \in WorkerSet /\ worker[w].session \in Nat
         /\ worker[w].cookies \in Seq(Cookie) /\ worker[w].pending \in BOOLEAN
         /\ Distinct(worker[w].cookies) /\ WorkerOk(worker[w], enrolled)
         /\ jar.valid \in BOOLEAN /\ jar.session \in Nat
         /\ jar.cookies \in Seq(Cookie) /\ jar.old \in BOOLEAN
         /\ Serials(jar.cookies) \cap spent = {}
         /\ Serials(jar.cookies) \subseteq 1 .. issued
         /\ Serials(worker[w].cookies) \subseteq 1 .. issued /\ spent \subseteq 1 .. issued
         /\ worker[w].pc \in Holding =>
               Serials(worker[w].cookies) \cap (spent \cup Serials(jar.cookies)) = {}
<1>1. worker[w] \in WorkerSet /\ jar \in JarSet
  BY DEF JarInv
<1>2. PlacesOk(worker, Serials(jar.cookies), spent, 1 .. issued)
  BY DEF JarInv
<1>3. /\ Serials(jar.cookies) \cap spent = {} /\ Serials(jar.cookies) \subseteq 1 .. issued
      /\ Serials(worker[w].cookies) \subseteq 1 .. issued /\ spent \subseteq 1 .. issued
      /\ worker[w].pc \in Holding =>
            Serials(worker[w].cookies) \cap (spent \cup Serials(jar.cookies)) = {}
  BY <1>2 DEF PlacesOk
<1>4. Distinct(worker[w].cookies) /\ WorkerOk(worker[w], enrolled)
  BY DEF JarInv
<1>5. /\ worker[w].session \in Nat
      /\ worker[w].cookies \in Seq(Cookie) /\ worker[w].pending \in BOOLEAN
  BY <1>1 DEF WorkerSet
<1>6. /\ jar.valid \in BOOLEAN /\ jar.session \in Nat
      /\ jar.cookies \in Seq(Cookie) /\ jar.old \in BOOLEAN
  BY <1>1 DEF JarSet
<1> QED
  BY <1>1, <1>3, <1>4, <1>5, <1>6

LEMMA LoneCookie ==
  ASSUME NEW cs \in Seq(Cookie), cs # <<>>
  PROVE  /\ Len(cs) \in Nat \ {0} /\ DOMAIN cs = 1 .. Len(cs)
         /\ Head(cs) = cs[1] /\ Head(cs) \in Cookie /\ Head(cs).serial \in Serials(cs)
         /\ Len(cs) = 1 => Serials(cs) = {Head(cs).serial}
<1>1. Len(cs) \in Nat \ {0} /\ DOMAIN cs = 1 .. Len(cs) /\ Head(cs) = cs[1] /\ Head(cs) \in Cookie
  OBVIOUS
<1>2. Head(cs).serial \in Serials(cs)
  BY <1>1 DEF Serials
<1>3. Len(cs) = 1 => Serials(cs) = {Head(cs).serial}
  BY <1>1 DEF Serials
<1> QED
  BY <1>1, <1>2, <1>3

\* A step after which w's hand is empty, and the jar is as it was or has no cookies.
LEMMA QuietSteps ==
  ASSUME JarInv, NEW w \in Workers, NEW k \in WorkerSet, worker' = [worker EXCEPT ![w] = k],
         k.cookies = <<>>, k.pc \in EmptyHanded, WorkerOk(k, enrolled),
         jar' = jar \/ jar' = NoJar \/ jar' = [jar EXCEPT !.cookies = <<>>],
         UNCHANGED server,
         spent \subseteq spent', spent' \subseteq spent \cup Serials(worker[w].cookies),
         Serials(jar'.cookies) \cap spent' = {}
  PROVE  JarInv'
<1>1. enrolled' = enrolled /\ issued' = issued /\ enrolled \in Seq(BOOLEAN) /\ issued \in Nat
  BY DEF server, JarInv
<1>2. jar' \in JarSet /\ (jar'.cookies = jar.cookies \/ jar'.cookies = <<>>)
  BY AtRest, EmptyCookies DEF JarInv, JarSet
<1>3. JarOk(jar', enrolled') /\ Distinct(jar'.cookies)
  BY <1>1, <1>2, AtRest, EmptyCookies DEF JarInv, JarOk, JarSet
<1>4. Serials(jar'.cookies) \subseteq Serials(jar.cookies) /\ Serials(k.cookies) = {}
  BY <1>2, EmptyCookies
<1>5. Moves(Serials(jar.cookies), Serials(worker[w].cookies), spent, issued + 1 .. issued',
            Serials(jar'.cookies), Serials(k.cookies), spent')
  BY <1>4 DEF Moves
<1>6. Distinct(k.cookies) /\ k.pc \notin Holding /\ k.pc # "drop"
  BY EmptyCookies DEF EmptyHanded, Holding
<1>7. WorkerOk(k, enrolled') /\ issued <= issued'
  BY <1>1
<1> QED
  BY <1>1, <1>2, <1>3, <1>5, <1>6, <1>7, WorkerSteps

LEMMA BeginStep ==
  ASSUME JarInv, NEW w \in Workers, Begin(w) PROVE JarInv'
<1> DEFINE k == [Resting EXCEPT !.pc = "take"]
<1>1. k \in WorkerSet /\ k.cookies = <<>> /\ k.pc \in EmptyHanded
  BY AtRest DEF Resting, WorkerSet, EmptyHanded
<1>2. WorkerOk(k, enrolled)
  BY DEF WorkerOk, Resting
<1>3. worker' = [worker EXCEPT ![w] = k] /\ jar' = jar /\ spent' = spent /\ UNCHANGED server
  BY DEF Begin
<1>4. Serials(jar'.cookies) \cap spent' = {}
  BY <1>3, InOrder
<1> HIDE DEF k
<1> QED
  BY <1>1, <1>2, <1>3, <1>4, QuietSteps

LEMMA DropRejectedStep ==
  ASSUME JarInv, NEW w \in Workers, DropRejected(w) PROVE JarInv'
<1> DEFINE k == [Resting EXCEPT !.pc = "ke"]
<1>1. k \in WorkerSet /\ k.cookies = <<>> /\ k.pc \in EmptyHanded
  BY AtRest DEF Resting, WorkerSet, EmptyHanded
<1>2. WorkerOk(k, enrolled)
  BY DEF WorkerOk, Resting
<1>3. worker' = [worker EXCEPT ![w] = k] /\ jar' = NoJar /\ spent' = spent /\ UNCHANGED server
  BY DEF DropRejected
<1>4. Serials(jar'.cookies) \cap spent' = {}
  BY <1>3, AtRest, EmptyCookies
<1> HIDE DEF k
<1> QED
  BY <1>1, <1>2, <1>3, <1>4, QuietSteps

LEMMA KeFailsStep ==
  ASSUME JarInv, NEW w \in Workers, KeFails(w) PROVE JarInv'
<1> DEFINE k == [Resting EXCEPT !.pc = "done", !.result = "keFailed"]
<1>1. k \in WorkerSet /\ k.cookies = <<>> /\ k.pc \in EmptyHanded
  BY AtRest DEF Resting, WorkerSet, EmptyHanded
<1>2. WorkerOk(k, enrolled)
  BY DEF WorkerOk, Resting
<1>3. worker' = [worker EXCEPT ![w] = k] /\ jar' = jar /\ spent' = spent /\ UNCHANGED server
  BY DEF KeFails
<1>4. Serials(jar'.cookies) \cap spent' = {}
  BY <1>3, InOrder
<1> HIDE DEF k
<1> QED
  BY <1>1, <1>2, <1>3, <1>4, QuietSteps

LEMMA ReturnStep ==
  ASSUME JarInv, NEW w \in Workers, Return(w) PROVE JarInv'
<1>1. Resting \in WorkerSet /\ Resting.cookies = <<>> /\ Resting.pc \in EmptyHanded
  BY AtRest DEF Resting, EmptyHanded
<1>2. WorkerOk(Resting, enrolled)
  BY DEF WorkerOk, Resting
<1>3. worker' = [worker EXCEPT ![w] = Resting] /\ jar' = jar /\ spent' = spent /\ UNCHANGED server
  BY DEF Return
<1>4. Serials(jar'.cookies) \cap spent' = {}
  BY <1>3, InOrder
<1> QED
  BY <1>1, <1>2, <1>3, <1>4, QuietSteps

LEMMA ExchangeFailsStep ==
  ASSUME JarInv, NEW w \in Workers, ExchangeFails(w) PROVE JarInv'
<1> DEFINE k == [Resting EXCEPT !.pc = "done", !.result = "failed"]
           serial == Head(worker[w].cookies).serial
<1>1. k \in WorkerSet /\ k.cookies = <<>> /\ k.pc \in EmptyHanded
  BY AtRest DEF Resting, WorkerSet, EmptyHanded
<1>2. WorkerOk(k, enrolled)
  BY DEF WorkerOk, Resting
<1>3. /\ worker' = [worker EXCEPT ![w] = k] /\ jar' = jar /\ spent' = spent \cup {serial}
      /\ UNCHANGED server
  BY DEF ExchangeFails
<1>4. worker[w].pc \in Holding /\ worker[w].cookies # <<>>
  BY InOrder, EmptySeq DEF ExchangeFails, Holding, WorkerOk
<1>5. serial \in Serials(worker[w].cookies)
  BY <1>4, InOrder, LoneCookie
<1>6. Serials(jar'.cookies) \cap spent' = {}
  BY <1>3, <1>4, <1>5, InOrder
<1> HIDE DEF k, serial
<1> QED
  BY <1>1, <1>2, <1>3, <1>5, <1>6, QuietSteps

LEMMA ReuseFailsStep ==
  ASSUME JarInv, NEW w \in Workers, ReuseFails(w) PROVE JarInv'
<1> DEFINE k == [worker[w] EXCEPT !.pc = "drop"]
           serial == Head(worker[w].cookies).serial
<1>1. worker[w].pc = "reuse" /\ worker[w].pc \in Holding /\ Len(worker[w].cookies) = 1
  BY InOrder DEF ReuseFails, Holding, WorkerOk
<1>2. worker[w].cookies # <<>>
  <2> SUFFICES ASSUME worker[w].cookies = <<>> PROVE Len(<<>>) = 1
    BY EmptyCookies
  <2> QED
    BY <1>1
<1>3. Serials(worker[w].cookies) = {serial}
  BY <1>1, <1>2, InOrder, LoneCookie
<1>4. k \in WorkerSet /\ k.cookies = worker[w].cookies /\ k.pc = "drop"
  BY InOrder DEF WorkerSet
<1>5. WorkerOk(k, enrolled)
  BY <1>1, InOrder DEF WorkerOk, EmptyHanded, WorkerSet
<1>6. /\ worker' = [worker EXCEPT ![w] = k] /\ jar' = jar /\ spent' = spent \cup {serial}
      /\ enrolled' = enrolled /\ issued' = issued
  BY InOrder DEF ReuseFails, Goto, server, WorkerSet
<1>7. Moves(Serials(jar.cookies), Serials(worker[w].cookies), spent, issued + 1 .. issued',
            Serials(jar'.cookies), Serials(k.cookies), spent')
  BY <1>1, <1>3, <1>4, <1>6, InOrder DEF Moves
<1>8. k.pc \notin Holding /\ Serials(k.cookies) \subseteq spent'
  BY <1>3, <1>4, <1>6 DEF Holding
<1>9. /\ jar' \in JarSet /\ enrolled' \in Seq(BOOLEAN) /\ issued' \in Nat /\ issued <= issued'
      /\ JarOk(jar', enrolled') /\ Distinct(jar'.cookies) /\ Distinct(k.cookies)
  BY <1>4, <1>6, InOrder DEF JarInv
<1> HIDE DEF k, serial
<1> QED
  BY <1>4, <1>5, <1>6, <1>7, <1>8, <1>9, WorkerSteps

LEMMA AnsweredStep ==
  ASSUME JarInv, NEW w \in Workers, NEW n \in Nat, worker[w].pc \in {"reuse", "exchange"},
         Answered(w, n)
  PROVE  JarInv'
<1> DEFINE cookie == Head(worker[w].cookies)
           k == [worker[w] EXCEPT !.pc = "add", !.cookies = Fresh(n, cookie.session)]
<1>1. worker[w].pc \in Holding /\ Len(worker[w].cookies) = 1 /\ issued \in Nat
  BY InOrder DEF Holding, WorkerOk, JarInv
<1>2. worker[w].cookies # <<>>
  <2> SUFFICES ASSUME worker[w].cookies = <<>> PROVE Len(<<>>) = 1
    BY EmptyCookies
  <2> QED
    BY <1>1
<1>3. Serials(worker[w].cookies) = {cookie.serial} /\ cookie \in Cookie
  BY <1>1, <1>2, InOrder, LoneCookie
<1>4. cookie.session = worker[w].session /\ cookie.session \in Nat
  BY <1>3, InOrder DEF Answered
<1>5. /\ Fresh(n, cookie.session) \in Seq(Cookie) /\ Distinct(Fresh(n, cookie.session))
      /\ Serials(Fresh(n, cookie.session)) \subseteq issued + 1 .. issued + n
      /\ \A i \in DOMAIN Fresh(n, cookie.session) :
            Fresh(n, cookie.session)[i].session = cookie.session
  BY <1>1, <1>4, FreshCookies
<1>6. /\ k \in WorkerSet /\ k.cookies = Fresh(n, cookie.session) /\ k.pc = "add"
      /\ k.session = worker[w].session /\ k.pending = worker[w].pending
      /\ k.result = worker[w].result
  BY <1>5, InOrder DEF WorkerSet, Holding
<1>7. /\ worker[w].session \in DOMAIN enrolled /\ enrolled[worker[w].session] = ~worker[w].pending
      /\ worker[w].result = "none"
  BY InOrder DEF WorkerOk, Enrolled
<1>8. WorkerOk(k, enrolled)
  BY <1>4, <1>5, <1>6, <1>7 DEF WorkerOk, EmptyHanded
<1>9. /\ worker' = [worker EXCEPT ![w] = k] /\ jar' = jar /\ spent' = spent \cup {cookie.serial}
      /\ enrolled' = enrolled /\ issued' = issued + n
  BY InOrder DEF Answered, WorkerSet
<1>10. Serials(k.cookies) \subseteq issued + 1 .. issued'
  BY <1>5, <1>6, <1>9
<1>11. spent' \subseteq 1 .. issued /\ Serials(jar.cookies) \subseteq 1 .. issued
  BY <1>3, <1>9, InOrder
<1>12. \A x \in Serials(k.cookies) : x \notin 1 .. issued
  BY <1>1, <1>10
<1>13. Moves(Serials(jar.cookies), Serials(worker[w].cookies), spent, issued + 1 .. issued',
             Serials(jar'.cookies), Serials(k.cookies), spent')
  BY <1>1, <1>3, <1>9, <1>10, <1>11, <1>12, InOrder DEF Moves
<1>14. k.pc # "drop" /\ Serials(k.cookies) \cap spent' = {}
  BY <1>6, <1>11, <1>12
<1>15. /\ jar' \in JarSet /\ enrolled' \in Seq(BOOLEAN) /\ issued' \in Nat /\ issued <= issued'
       /\ JarOk(jar', enrolled') /\ Distinct(jar'.cookies) /\ Distinct(k.cookies)
  BY <1>1, <1>5, <1>6, <1>9 DEF JarInv
<1> HIDE DEF k, cookie
<1> QED
  BY <1>6, <1>8, <1>9, <1>13, <1>14, <1>15, WorkerSteps

LEMMA KeStep ==
  ASSUME JarInv, NEW w \in Workers, NEW n \in Nat \ {0}, NEW pending \in BOOLEAN, Ke(w, n, pending)
  PROVE  JarInv'
<1> DEFINE s == Len(enrolled) + 1
           k == [worker[w] EXCEPT !.pc = "store", !.session = s, !.cookies = Fresh(n, s),
                                  !.pending = pending]
<1>1. /\ enrolled \in Seq(BOOLEAN) /\ issued \in Nat /\ Len(enrolled) \in Nat
      /\ DOMAIN enrolled = 1 .. Len(enrolled) /\ JarOk(jar, enrolled)
  BY LenProperties DEF JarInv
<1>2. /\ Fresh(n, s) \in Seq(Cookie) /\ Fresh(n, s) # <<>> /\ Distinct(Fresh(n, s))
      /\ Serials(Fresh(n, s)) \subseteq issued + 1 .. issued + n
      /\ \A i \in DOMAIN Fresh(n, s) : Fresh(n, s)[i].session = s
  <2>1. s \in Nat /\ n \in Nat /\ n # 0
    BY <1>1
  <2> QED
    BY <1>1, <2>1, FreshCookies, EmptyCookies
<1>3. /\ k \in WorkerSet /\ k.cookies = Fresh(n, s) /\ k.pc = "store" /\ k.session = s
      /\ k.pending = pending /\ k.result = worker[w].result
  <2>1. s \in Nat /\ worker[w] \in WorkerSet
    BY <1>1, InOrder
  <2> HIDE DEF s
  <2> QED
    BY <1>2, <2>1 DEF WorkerSet, Holding
<1>4. worker[w].cookies = <<>> /\ worker[w].result = "none"
  BY InOrder DEF Ke, WorkerOk, EmptyHanded
<1>5. /\ worker' = [worker EXCEPT ![w] = k] /\ jar' = jar /\ spent' = spent
      /\ enrolled' = Append(enrolled, ~pending) /\ issued' = issued + n
  BY InOrder DEF Ke, WorkerSet
<1>6. /\ enrolled' \in Seq(BOOLEAN) /\ Len(enrolled') = s /\ enrolled'[s] = ~pending
      /\ \A i \in 1 .. Len(enrolled) : enrolled'[i] = enrolled[i]
  BY <1>1, <1>5, AppendProperties
<1>7. /\ s \in DOMAIN enrolled'
      /\ \A i \in DOMAIN enrolled : i \in DOMAIN enrolled' /\ enrolled'[i] = enrolled[i]
  BY <1>1, <1>6
<1>8. WorkerOk(k, enrolled')
  BY <1>2, <1>3, <1>4, <1>6, <1>7 DEF WorkerOk, EmptyHanded
<1>9. JarOk(jar', enrolled')
  BY <1>1, <1>5, <1>7 DEF JarOk, Enrolled
<1>10. Serials(k.cookies) \subseteq issued + 1 .. issued'
  BY <1>2, <1>3, <1>5
<1>11. \A x \in Serials(k.cookies) : x \notin 1 .. issued
  BY <1>1, <1>10
<1>12. Serials(worker[w].cookies) = {}
  BY <1>4, EmptyCookies
<1>13. Moves(Serials(jar.cookies), Serials(worker[w].cookies), spent, issued + 1 .. issued',
             Serials(jar'.cookies), Serials(k.cookies), spent')
  BY <1>5, <1>10, <1>11, InOrder DEF Moves
<1>14. k.pc # "drop" /\ Serials(k.cookies) \cap spent' = {}
  BY <1>3, <1>5, <1>11, InOrder
<1>15. /\ jar' \in JarSet /\ issued' \in Nat /\ issued <= issued'
       /\ Distinct(jar'.cookies) /\ Distinct(k.cookies)
  BY <1>1, <1>2, <1>3, <1>5 DEF JarInv
<1> HIDE DEF k, s
<1> QED
  BY <1>3, <1>5, <1>6, <1>7, <1>8, <1>9, <1>13, <1>14, <1>15, WorkerSteps

LEMMA TakeStep ==
  ASSUME JarInv, NEW w \in Workers, Take(w) PROVE JarInv'
<1>1. /\ worker[w].pc = "take" /\ worker[w].cookies = <<>> /\ worker[w].result = "none"
      /\ Serials(worker[w].cookies) = {}
  BY InOrder, EmptyCookies DEF Take, WorkerOk, EmptyHanded
<1>2. enrolled' = enrolled /\ issued' = issued /\ spent' = spent /\ UNCHANGED server
  BY DEF Take, server
<1>3. CASE jar.cookies = <<>> \/ jar.old
  <2> DEFINE k == [worker[w] EXCEPT !.pc = "ke"]
  <2>1. k \in WorkerSet /\ k.cookies = <<>> /\ k.pc = "ke" /\ k.result = "none"
    BY <1>1, InOrder DEF WorkerSet, EmptyHanded
  <2>2. WorkerOk(k, enrolled) /\ k.pc \in EmptyHanded
    BY <2>1 DEF WorkerOk, EmptyHanded
  <2>3. worker' = [worker EXCEPT ![w] = k] /\ jar' = [jar EXCEPT !.cookies = <<>>]
    BY <1>3, InOrder DEF Take, Goto, WorkerSet
  <2>4. jar'.cookies = <<>>
    BY <2>3 DEF JarInv, JarSet
  <2>5. Serials(jar'.cookies) \cap spent' = {}
    BY <2>4, EmptyCookies
  <2> HIDE DEF k
  <2> QED
    BY <1>1, <1>2, <2>1, <2>2, <2>3, <2>5, QuietSteps
<1>4. CASE jar.cookies # <<>> /\ ~jar.old
  <2> DEFINE cs == jar.cookies
             last == Last(jar.cookies)
             k == [worker[w] EXCEPT !.pc = "reuse", !.session = jar.session, !.cookies = <<last>>]
  <2>1. cs \in Seq(Cookie) /\ Len(cs) \in Nat \ {0} /\ Len(cs) \in DOMAIN cs /\ Distinct(cs)
    BY <1>4, InOrder, LoneCookie DEF JarInv
  <2>2. last = cs[Len(cs)] /\ last \in Cookie
    BY <2>1, ElementOfSeq DEF Last
  <2>3. /\ Taken \in Seq(Cookie) /\ Serials(Taken) \subseteq Serials(cs) /\ Distinct(Taken)
        /\ \A i \in DOMAIN Taken : \E j \in DOMAIN cs : Taken[i] = cs[j]
        /\ last.serial \notin Serials(Taken)
    <3>1. Taken = SubSeq(cs, 1, Len(cs) - 1)
      BY DEF Taken, Front
    <3>2. Len(cs) - 1 \in Int /\ Len(cs) - 1 <= Len(cs) /\ Len(cs) \notin 1 .. Len(cs) - 1
      BY <2>1
    <3>3. 1 \in Nat \ {0}
      OBVIOUS
    <3> HIDE DEF cs, last
    <3>4. /\ Taken \in Seq(Cookie) /\ Serials(Taken) \subseteq Serials(cs) /\ Distinct(Taken)
          /\ \A i \in DOMAIN Taken : \E j \in DOMAIN cs : Taken[i] = cs[j]
          /\ \A i \in DOMAIN cs : i \notin 1 .. Len(cs) - 1 => cs[i].serial \notin Serials(Taken)
      BY <2>1, <3>1, <3>2, <3>3, PartOfCookies
    <3> QED
      BY <2>1, <2>2, <3>2, <3>4
  <2>4. last.serial \in Serials(cs)
    BY <2>1, <2>2 DEF Serials
  <2>5. /\ <<last>> \in Seq(Cookie) /\ Len(<<last>>) = 1
        /\ Serials(<<last>>) = {last.serial} /\ Distinct(<<last>>)
    BY <2>2, OneCookie
  <2>6. /\ k \in WorkerSet /\ k.cookies = <<last>> /\ k.pc = "reuse" /\ k.session = jar.session
        /\ k.pending = worker[w].pending /\ k.result = "none"
    BY <1>1, <2>5, InOrder DEF WorkerSet, Holding
  <2>7. /\ worker' = [worker EXCEPT ![w] = k] /\ jar' = [jar EXCEPT !.cookies = Taken]
    BY <1>4, InOrder DEF Take, WorkerSet
  <2>8. /\ jar' \in JarSet /\ jar'.cookies = Taken
        /\ jar'.valid = jar.valid /\ jar'.session = jar.session
    BY <2>3, <2>7 DEF JarInv, JarSet
  <2>9. JarOk(jar', enrolled') /\ Enrolled(jar.session, enrolled)
    BY <1>2, <1>4, <2>3, <2>8 DEF JarInv, JarOk
  <2>10. WorkerOk(k, enrolled') /\ Distinct(k.cookies)
    <3>1. ~worker[w].pending
      BY <1>1, InOrder DEF WorkerOk
    <3> QED
      BY <1>2, <2>5, <2>6, <2>9, <3>1 DEF WorkerOk, EmptyHanded
  <2>11. Serials(jar'.cookies) = Serials(Taken) /\ Serials(k.cookies) = {last.serial}
    BY <2>5, <2>6, <2>8
  <2>12. Moves(Serials(jar.cookies), Serials(worker[w].cookies), spent, issued + 1 .. issued',
               Serials(jar'.cookies), Serials(k.cookies), spent')
    BY <1>1, <1>2, <2>3, <2>4, <2>11, InOrder DEF Moves
  <2>13. k.pc # "drop" /\ Serials(k.cookies) \cap spent' = {}
    BY <1>2, <2>4, <2>6, <2>11, InOrder
  <2>14. /\ enrolled' \in Seq(BOOLEAN) /\ issued' \in Nat /\ issued <= issued'
         /\ Distinct(jar'.cookies)
    BY <1>2, <2>3, <2>8 DEF JarInv
  <2> HIDE DEF k, last, cs
  <2> QED
    BY <1>2, <2>6, <2>7, <2>8, <2>9, <2>10, <2>12, <2>13, <2>14, WorkerSteps
<1> QED
  BY <1>3, <1>4

LEMMA StoreStep ==
  ASSUME JarInv, NEW w \in Workers, Store(w) PROVE JarInv'
<1> DEFINE cs == worker[w].cookies
           first == Head(cs)
           k == [worker[w] EXCEPT !.pc = "exchange", !.cookies = <<first>>]
<1>1. /\ worker[w].pc = "store" /\ worker[w].pc \in Holding /\ worker[w].result = "none"
      /\ cs \in Seq(Cookie) /\ cs # <<>> /\ Distinct(cs)
      /\ worker[w].session \in DOMAIN enrolled
      /\ enrolled[worker[w].session] = ~worker[w].pending
      /\ \A i \in DOMAIN cs : cs[i].session = worker[w].session
  BY InOrder DEF Store, Holding, WorkerOk
<1>2. /\ Len(cs) \in Nat \ {0} /\ DOMAIN cs = 1 .. Len(cs) /\ first = cs[1]
      /\ first \in Cookie /\ first.serial \in Serials(cs)
  BY <1>1, LoneCookie
<1>3. /\ Kept(w) \in Seq(Cookie) /\ Serials(Kept(w)) \subseteq Serials(cs) /\ Distinct(Kept(w))
      /\ \A i \in DOMAIN Kept(w) : Kept(w)[i].session = worker[w].session
      /\ first.serial \notin Serials(Kept(w))
  <2>1. Kept(w) = SubSeq(cs, 2, Len(cs))
    BY <1>1, TailIsSubSeq DEF Kept
  <2>2. 2 \in Nat \ {0} /\ Len(cs) \in Int /\ Len(cs) <= Len(cs)
        /\ 1 \in DOMAIN cs /\ 1 \notin 2 .. Len(cs)
    BY <1>2
  <2> HIDE DEF cs, first
  <2>3. /\ Kept(w) \in Seq(Cookie) /\ Serials(Kept(w)) \subseteq Serials(cs) /\ Distinct(Kept(w))
        /\ \A i \in DOMAIN Kept(w) : \E j \in DOMAIN cs : Kept(w)[i] = cs[j]
        /\ \A i \in DOMAIN cs : i \notin 2 .. Len(cs) => cs[i].serial \notin Serials(Kept(w))
    BY <1>1, <2>1, <2>2, PartOfCookies
  <2> QED
    BY <1>1, <1>2, <2>2, <2>3
<1>4. /\ <<first>> \in Seq(Cookie) /\ Len(<<first>>) = 1 /\ Serials(<<first>>) = {first.serial}
      /\ Distinct(<<first>>) /\ DOMAIN <<first>> = {1} /\ <<first>>[1] = first
  BY <1>2, OneCookie
<1>5. /\ k \in WorkerSet /\ k.cookies = <<first>> /\ k.pc = "exchange"
      /\ k.session = worker[w].session /\ k.pending = worker[w].pending /\ k.result = "none"
  BY <1>1, <1>4, InOrder DEF WorkerSet, Holding
<1>6. /\ worker' = [worker EXCEPT ![w] = k]
      /\ enrolled' = enrolled /\ issued' = issued /\ spent' = spent
  BY DEF Store, server
<1>7. WorkerOk(k, enrolled')
  <2>1. \A i \in DOMAIN k.cookies : k.cookies[i].session = worker[w].session
    BY <1>1, <1>2, <1>4, <1>5
  <2> QED
    BY <1>1, <1>4, <1>5, <1>6, <2>1 DEF WorkerOk, EmptyHanded
<1>8. /\ jar' \in JarSet /\ Distinct(jar'.cookies) /\ JarOk(jar', enrolled)
      /\ jar'.cookies = Kept(w) \/ jar'.cookies = <<>>
  <2>1. CASE jar' = NoJar
    BY <2>1, AtRest, EmptyCookies DEF JarOk
  <2>2. CASE /\ MayKeep(w)
             /\ jar' = [valid |-> TRUE, session |-> worker[w].session, cookies |-> Kept(w),
                        old |-> FALSE]
    <3>1. Enrolled(worker[w].session, enrolled)
      BY <1>1, <2>2, InOrder DEF Enrolled, MayKeep
    <3> QED
      BY <1>3, <2>2, <3>1, InOrder DEF JarOk, JarSet
  <2> QED
    BY <2>1, <2>2 DEF Store
<1>9. Serials(jar'.cookies) \subseteq Serials(cs) /\ first.serial \notin Serials(jar'.cookies)
  BY <1>3, <1>8, EmptyCookies
<1>10. Serials(k.cookies) = {first.serial}
  BY <1>4, <1>5
<1>11. Moves(Serials(jar.cookies), Serials(cs), spent, issued + 1 .. issued',
             Serials(jar'.cookies), Serials(k.cookies), spent')
  BY <1>1, <1>2, <1>6, <1>9, <1>10, InOrder DEF Moves
<1>12. k.pc # "drop" /\ Serials(k.cookies) \cap spent' = {}
  BY <1>1, <1>2, <1>5, <1>6, <1>10, InOrder
<1>13. /\ enrolled' \in Seq(BOOLEAN) /\ issued' \in Nat /\ issued <= issued'
       /\ JarOk(jar', enrolled') /\ Distinct(k.cookies)
  BY <1>4, <1>5, <1>6, <1>8 DEF JarInv
<1> HIDE DEF k, first
<1> QED
  BY <1>5, <1>6, <1>7, <1>8, <1>11, <1>12, <1>13, WorkerSteps

\* The lesser of two numbers.
LEMMA LesserOfTwo ==
  ASSUME NEW a \in Int, NEW b \in Int
  PROVE  Min({a, b}) \in Int /\ Min({a, b}) <= a
<1>1. \E x \in {a, b} : \A y \in {a, b} : x <= y
  <2>1. CASE a <= b
    BY <2>1
  <2>2. CASE ~(a <= b)
    BY <2>2
  <2> QED
    BY <2>1, <2>2
<1>2. Min({a, b}) \in {a, b} /\ \A y \in {a, b} : Min({a, b}) <= y
  BY <1>1 DEF Min
<1> QED
  BY <1>2

LEMMA AddStep ==
  ASSUME JarInv, NEW w \in Workers, Add(w) PROVE JarInv'
<1> DEFINE cs == worker[w].cookies
           result == IF worker[w].pending THEN "rotated" ELSE "enrolled"
           k == [worker[w] EXCEPT !.pc = "done", !.cookies = <<>>, !.result = result]
           part == AddUpToFull(cs)
<1>1. /\ worker[w].pc = "add" /\ worker[w].pc \in Holding
      /\ cs \in Seq(Cookie) /\ Distinct(cs) /\ jar.cookies \in Seq(Cookie) /\ Distinct(jar.cookies)
      /\ worker[w].session \in DOMAIN enrolled
      /\ enrolled[worker[w].session] = ~worker[w].pending
      /\ \A i \in DOMAIN cs : cs[i].session = worker[w].session
  BY InOrder DEF Add, Holding, WorkerOk, JarInv
<1>2. /\ k \in WorkerSet /\ k.cookies = <<>> /\ k.pc = "done" /\ k.result = result
      /\ k.session = worker[w].session /\ k.pc \in EmptyHanded
  BY EmptyCookies, InOrder DEF WorkerSet, EmptyHanded
<1>3. WorkerOk(k, enrolled)
  <2> HIDE DEF k
  <2>1. CASE worker[w].pending
    BY <1>1, <1>2, <2>1 DEF WorkerOk, EmptyHanded, Enrolled
  <2>2. CASE ~worker[w].pending
    BY <1>1, <1>2, <2>2 DEF WorkerOk, EmptyHanded, Enrolled
  <2> QED
    BY <2>1, <2>2
<1>4. /\ worker' = [worker EXCEPT ![w] = k] /\ UNCHANGED server
      /\ enrolled' = enrolled /\ issued' = issued /\ spent' = spent
  BY InOrder DEF Add, WorkerSet, server
<1>5. CASE jar' = jar
  <2>1. Serials(jar'.cookies) \cap spent' = {}
    BY <1>4, <1>5, InOrder
  <2> HIDE DEF k, part
  <2> QED
    BY <1>2, <1>3, <1>4, <1>5, <2>1, QuietSteps
<1>6. CASE /\ ~worker[w].pending /\ jar.valid
           /\ jar' = [jar EXCEPT !.cookies = @ \o part]
  <2>1. /\ part \in Seq(Cookie) /\ Serials(part) \subseteq Serials(cs) /\ Distinct(part)
        /\ \A i \in DOMAIN part : part[i].session = worker[w].session
    <3> DEFINE room == NTSKE_MAX_COOKIES - Len(jar.cookies)
               n == Min({Len(cs), room})
    <3>1. Len(cs) \in Int /\ room \in Int
      BY <1>1, LenProperties, JarConstants
    <3>2. n \in Int /\ n <= Len(cs)
      <4> HIDE DEF room, cs
      <4> QED
        BY <3>1, LesserOfTwo, Zenon
    <3>5. 1 \in Nat \ {0}
      OBVIOUS
    <3>3. part = SubSeq(cs, 1, n)
      BY DEF AddUpToFull
    <3> HIDE DEF n, part, cs
    <3>4. /\ part \in Seq(Cookie) /\ Serials(part) \subseteq Serials(cs) /\ Distinct(part)
          /\ \A i \in DOMAIN part : \E j \in DOMAIN cs : part[i] = cs[j]
      BY <1>1, <3>2, <3>3, <3>5, PartOfCookies
    <3> QED
      BY <1>1, <3>4
  <2> DEFINE both == jar.cookies \o part
  <2>2. Serials(jar.cookies) \cap Serials(part) = {}
    BY <1>1, <2>1, InOrder
  <2>3. /\ both \in Seq(Cookie) /\ Distinct(both)
        /\ Serials(both) \subseteq Serials(jar.cookies) \cup Serials(part)
        /\ \A i \in DOMAIN both : \/ \E j \in DOMAIN jar.cookies : both[i] = jar.cookies[j]
                                  \/ \E j \in DOMAIN part : both[i] = part[j]
    <3> HIDE DEF part
    <3> QED
      BY <1>1, <2>1, <2>2, MoreCookies
  <2>4. /\ jar' \in JarSet /\ jar'.cookies = both
        /\ jar'.valid = jar.valid /\ jar'.session = jar.session
    BY <1>6, <2>3 DEF JarInv, JarSet
  <2> HIDE DEF part, both
  <2>5. Enrolled(worker[w].session, enrolled)
    BY <1>1, <1>6, InOrder DEF Enrolled
  <2>6. JarOk(jar, enrolled)
    BY DEF JarInv
  <2>7. \A i \in DOMAIN both : Enrolled(both[i].session, enrolled)
    BY <2>1, <2>3, <2>5, <2>6 DEF JarOk
  <2>8. JarOk(jar', enrolled')
    BY <1>4, <1>6, <2>4, <2>6, <2>7 DEF JarOk
  <2>9. Serials(k.cookies) = {} /\ Distinct(k.cookies) /\ k.pc # "drop"
    BY <1>2, EmptyCookies
  <2>10. Serials(jar'.cookies) \subseteq Serials(jar.cookies) \cup Serials(cs)
    BY <2>1, <2>3, <2>4
  <2>11. Moves(Serials(jar.cookies), Serials(cs), spent, issued + 1 .. issued',
               Serials(jar'.cookies), Serials(k.cookies), spent')
    BY <1>1, <1>4, <2>9, <2>10, InOrder DEF Moves
  <2>12. /\ enrolled' \in Seq(BOOLEAN) /\ issued' \in Nat /\ issued <= issued'
         /\ Distinct(jar'.cookies) /\ Serials(k.cookies) \cap spent' = {}
         /\ WorkerOk(k, enrolled')
    BY <1>3, <1>4, <2>3, <2>4, <2>9 DEF JarInv
  <2> HIDE DEF k, result
  <2> QED
    BY <1>2, <1>4, <2>4, <2>8, <2>9, <2>11, <2>12, WorkerSteps
<1> QED
  BY <1>5, <1>6 DEF Add

LEMMA AgeStep ==
  ASSUME JarInv, Age PROVE JarInv'
<1>1. /\ jar' \in JarSet /\ jar'.cookies = jar.cookies
      /\ jar'.valid = jar.valid /\ jar'.session = jar.session
  BY DEF Age, JarInv, JarSet
<1>2. /\ worker' = worker /\ enrolled' = enrolled /\ issued' = issued /\ spent' = spent
  BY DEF Age, server
<1> QED
  BY <1>1, <1>2 DEF JarInv, JarOk
-----------------------------------------------------------------------------
(***************************************************************************)
(* The invariant.                                                          *)
(***************************************************************************)
LEMMA JarInvInit == Init => JarInv
<1> SUFFICES ASSUME Init PROVE JarInv
  OBVIOUS
<1>1. /\ jar = NoJar /\ worker = [w \in Workers |-> Resting]
      /\ enrolled = <<>> /\ issued = 0 /\ spent = {}
  BY DEF Init
<1>2. jar \in JarSet /\ JarOk(jar, enrolled) /\ Distinct(jar.cookies) /\ Serials(jar.cookies) = {}
  BY <1>1, AtRest, EmptyCookies DEF JarOk
<1>3. ASSUME NEW w \in Workers
      PROVE  /\ worker[w] \in WorkerSet /\ WorkerOk(worker[w], enrolled)
             /\ Distinct(worker[w].cookies) /\ Serials(worker[w].cookies) = {}
  <2>1. worker[w] = Resting
    BY <1>1
  <2>2. WorkerOk(Resting, enrolled)
    BY DEF WorkerOk, Resting
  <2> QED
    BY <2>1, <2>2, AtRest, EmptyCookies
<1>4. worker \in [Workers -> WorkerSet]
  BY <1>1, AtRest
<1>5. enrolled \in Seq(BOOLEAN) /\ issued \in Nat
  BY <1>1
<1>6. PlacesOk(worker, Serials(jar.cookies), spent, 1 .. issued)
  BY <1>1, <1>2, <1>3 DEF PlacesOk
<1> QED
  BY <1>2, <1>3, <1>4, <1>5, <1>6 DEF JarInv

LEMMA JarInvNext == JarInv /\ [Next]_vars => JarInv'
<1> SUFFICES ASSUME JarInv, [Next]_vars PROVE JarInv'
  OBVIOUS
<1>1. CASE UNCHANGED vars
  BY <1>1 DEF vars, JarInv
<1>2. CASE Age
  BY <1>2, AgeStep
<1>3. ASSUME NEW w \in Workers, Fetch(w) PROVE JarInv'
  <2>1. CASE Begin(w)
    BY <2>1, BeginStep
  <2>2. CASE Take(w)
    BY <2>2, TakeStep
  <2>3. CASE ReuseFails(w)
    BY <2>3, ReuseFailsStep
  <2>4. CASE DropRejected(w)
    BY <2>4, DropRejectedStep
  <2>5. CASE KeFails(w)
    BY <2>5, KeFailsStep
  <2>6. CASE Store(w)
    BY <2>6, StoreStep
  <2>7. CASE ExchangeFails(w)
    BY <2>7, ExchangeFailsStep
  <2>8. CASE Add(w)
    BY <2>8, AddStep
  <2>9. CASE Return(w)
    BY <2>9, ReturnStep
  <2>10. ASSUME NEW n \in 0 .. NTSKE_MAX_COOKIES, ReuseAnswered(w, n) \/ ExchangeAnswered(w, n)
         PROVE  JarInv'
    <3>1. n \in Nat
      BY <2>10, JarConstants
    <3>2. worker[w].pc \in {"reuse", "exchange"} /\ Answered(w, n)
      BY <2>10 DEF ReuseAnswered, ExchangeAnswered
    <3> QED
      BY <3>1, <3>2, AnsweredStep
  <2>11. ASSUME NEW n \in 1 .. NTSKE_MAX_COOKIES, NEW pending \in BOOLEAN, Ke(w, n, pending)
         PROVE  JarInv'
    <3>1. n \in Nat \ {0}
      BY JarConstants
    <3> QED
      BY <2>11, <3>1, KeStep
  <2> QED
    BY <1>3, <2>1, <2>2, <2>3, <2>4, <2>5, <2>6, <2>7, <2>8, <2>9, <2>10, <2>11 DEF Fetch
<1> QED
  BY <1>1, <1>2, <1>3 DEF Next

\* The cookies, keys and results of any number of overlapping fetches stay in order.
THEOREM JarStaysInOrder == Spec => []JarInv
<1>1. Init => JarInv
  BY JarInvInit
<1>2. JarInv /\ [Next]_vars => JarInv'
  BY JarInvNext
<1> QED
  BY <1>1, <1>2, PTL DEF Spec

\* As many serials as cookies.
LEMMA SerialsCount ==
  ASSUME NEW cs \in Seq(Cookie), Distinct(cs)
  PROVE  Cardinality(Serials(cs)) = Len(cs)
<1> DEFINE f == [i \in 1 .. Len(cs) |-> cs[i].serial]
<1>1. Len(cs) \in Nat /\ DOMAIN cs = 1 .. Len(cs)
  BY LenProperties
<1>2. f \in [1 .. Len(cs) -> Serials(cs)]
  BY <1>1 DEF Serials
<1>3. \A x \in Serials(cs) : \E i \in 1 .. Len(cs) : f[i] = x
  BY <1>1 DEF Serials
<1>4. \A i, j \in 1 .. Len(cs) : f[i] = f[j] => i = j
  BY <1>1 DEF Distinct
<1> HIDE DEF f
<1>5. f \in Bijection(1 .. Len(cs), Serials(cs))
  BY <1>2, <1>3, <1>4 DEF Bijection, Injection, Surjection, IsInjective
<1>6. ExistsBijection(1 .. Len(cs), Serials(cs))
  BY <1>5 DEF ExistsBijection
<1>7. 1 \in Int /\ Len(cs) \in Int
  BY <1>1
<1>8. IsFiniteSet(1 .. Len(cs)) /\ Cardinality(1 .. Len(cs)) = Len(cs)
  BY <1>1, <1>7, FS_Interval
<1> QED
  BY <1>6, <1>8, FS_Bijection

\* RFC 8915, as the comment on the jar has it: an exchange spends one cookie, and no
\* cookie is sent twice, whatever the workers of overlapping cycles do to the jar.
THEOREM NoCookieTwice == Spec => []SpentOnce
<1>1. JarInv => SpentOnce
  <2> SUFFICES ASSUME JarInv PROVE SpentOnce
    OBVIOUS
  <2>1. InJar = Serials(jar.cookies) /\ \A w \in Workers : InHand(w) = Serials(worker[w].cookies)
    BY DEF InJar, InHand, Serials
  <2>2. Cardinality(InJar) = Len(jar.cookies)
    BY <2>1, SerialsCount DEF JarInv, JarSet
  <2>3. PlacesOk(worker, Serials(jar.cookies), spent, 1 .. issued)
    BY DEF JarInv
  <2>4. InJar \cap spent = {}
    BY <2>1, <2>3 DEF PlacesOk
  <2>5. ASSUME NEW w \in Workers
        PROVE  /\ worker[w].pc \in {"reuse", "exchange", "add"} =>
                     InHand(w) \cap (spent \cup InJar) = {}
               /\ \A v \in Workers \ {w} : InHand(v) \cap InHand(w) = {}
    BY <2>1, <2>3 DEF PlacesOk, Holding
  <2> QED
    BY <2>2, <2>4, <2>5 DEF SpentOnce
<1> QED
  BY <1>1, JarStaysInOrder, PTL

\* nts.c's "a jar sample is always an enrolled pin": nothing of a session that waits
\* for corroboration is kept, and every sample says of its session what it is.
THEOREM SamplesOfEnrolledPins == Spec => []EnrolledMeansEnrolled
<1>1. JarInv => EnrolledMeansEnrolled
  <2> SUFFICES ASSUME JarInv PROVE EnrolledMeansEnrolled
    OBVIOUS
  <2>1. /\ \A i \in DOMAIN jar.cookies : enrolled[jar.cookies[i].session]
        /\ jar.valid => enrolled[jar.session]
    BY DEF JarInv, JarOk, Enrolled
  <2>2. ASSUME NEW w \in Workers
        PROVE  /\ worker[w].result = "enrolled" => enrolled[worker[w].session]
               /\ worker[w].result = "rotated" => ~enrolled[worker[w].session]
    BY DEF JarInv, WorkerOk, Enrolled
  <2> QED
    BY <2>1, <2>2 DEF EnrolledMeansEnrolled
<1> QED
  BY <1>1, JarStaysInOrder, PTL
-----------------------------------------------------------------------------
(***************************************************************************)
(* H2: a response is returned whole, or not at all.  First the two tables: *)
(* what the client evicts is what the server forgets.  Then the blocks: a  *)
(* decoder that starts with the encoder's table ends with it, however the  *)
(* block was written.  Then the exchange: between two blocks the client's  *)
(* table is the server's, and within a block it will be, once the client   *)
(* has read what is left of it.                                            *)
(***************************************************************************)

\* A header takes room.
LEMMA HeaderCosts ==
  ASSUME NEW f \in Header
  PROVE  f.value \in Values /\ f.value \in Nat /\ Cost[f.value] \in Nat \ {0}
<1>1. f.value \in Values
  BY DEF Header
<1> QED
  BY <1>1, H2Constants

\* What a table takes, added up entry by entry.
LEMMA UsedIsRun ==
  ASSUME NEW t \in Seq(Header), NEW h \in [0 .. Len(t) -> Nat], h[0] = 0,
         \A k \in 0 .. Len(t) - 1 : h[k + 1] = h[k] + Cost[t[k + 1].value]
  PROVE  Used(t) = h[Len(t)]
<1> DEFINE n == Len(t)
           V == Nat
           zero == 0
           body(f, r) == IF r = {} THEN 0 ELSE f[r \ {Max(r)}] + Cost[t[Max(r)].value]
           P(f) == f = [r \in SUBSET (DOMAIN t) |-> body(f, r)]
           F == CHOOSE f : P(f)
           adds == [q \in V \X (1 .. n) |-> q[1] + Cost[t[q[2]].value]]
<1>1. n \in Nat /\ DOMAIN t = 1 .. n /\ \A i \in 1 .. n : Cost[t[i].value] \in Nat
  <2>1. \A i \in 1 .. n : t[i] \in Header
    OBVIOUS
  <2> QED
    BY <2>1, HeaderCosts
<1>2. Used(t) = F[1 .. n]
  BY <1>1 DEF Used, FoldLeft, MapThenFoldSet
<1>3. adds \in [V \X (1 .. n) -> V]
  BY <1>1
<1>4. ASSUME NEW f, NEW r \in SUBSET (1 .. n), r # {}, f[r \ {Max(r)}] \in V
      PROVE  adds[<<f[r \ {Max(r)}], Max(r)>>] = f[r \ {Max(r)}] + Cost[t[Max(r)].value]
  <2>1. Max(r) \in 1 .. n
    BY <1>1, <1>4, Greatest
  <2> QED
    BY <1>4, <2>1
<1>5. P(F)
  <2>1. PICK f \in [SUBSET (1 .. n) -> V] : Folds(f, n, zero, adds)
    <3>1. zero \in V /\ n \in Nat /\ adds \in [V \X (1 .. n) -> V]
      BY <1>1, <1>3
    <3> HIDE DEF adds, n, V, zero
    <3> QED
      BY <3>1, FoldExists
  <2>2. P(f)
    <3>1. ASSUME NEW r \in SUBSET (1 .. n), r # {}
          PROVE  adds[<<f[r \ {Max(r)}], Max(r)>>] = f[r \ {Max(r)}] + Cost[t[Max(r)].value]
      <4>1. f[r \ {Max(r)}] \in V
        BY <2>1
      <4> HIDE DEF adds, V
      <4> QED
        BY <1>4, <3>1, <4>1
    <3> HIDE DEF adds
    <3> QED
      BY <1>1, <2>1, <3>1 DEF Folds
  <2> HIDE DEF P
  <2> QED
    BY <2>2, Zenon
<1> HIDE DEF F
<1>6. F[{}] = zero /\ zero \in V
  BY <1>5
<1>7. ASSUME NEW r \in SUBSET (1 .. n), r # {} /\ F[r \ {Max(r)}] \in V
      PROVE  F[r] = adds[<<F[r \ {Max(r)}], Max(r)>>]
  <2>1. F[r] = F[r \ {Max(r)}] + Cost[t[Max(r)].value]
    BY <1>1, <1>5, <1>7
  <2> HIDE DEF adds
  <2> QED
    BY <1>4, <1>7, <2>1
<1>8. ASSUME NEW k \in 0 .. n - 1
      PROVE  h[k + 1] = adds[<<h[k], k + 1>>]
  <2>1. k + 1 \in 1 .. n /\ h[k] \in Nat
    BY <1>1
  <2> QED
    BY <2>1
<1>9. F[1 .. n] = h[n]
  <2>1. h \in [0 .. n -> V] /\ n \in Nat
    BY <1>1
  <2>2. Gathers(F, n, V, zero, adds)
    BY <1>6, <1>7 DEF Gathers
  <2>3. Passes(h, n, zero, adds)
    BY <1>8 DEF Passes
  <2> HIDE DEF adds, n, V, zero
  <2>4. EndsLike(F, h, n)
    BY <1>3, <1>6, <2>1, <2>2, <2>3, RunIsFold
  <2> QED
    BY <2>4 DEF EndsLike
<1> QED
  BY <1>2, <1>9

\* There is such a sum for every table.
LEMMA UsedRunExists ==
  ASSUME NEW t \in Seq(Header)
  PROVE  \E h \in [0 .. Len(t) -> Nat] :
            h[0] = 0 /\ \A k \in 0 .. Len(t) - 1 : h[k + 1] = h[k] + Cost[t[k + 1].value]
<1> DEFINE n == Len(t)
           V == Nat
           zero == 0
           adds == [q \in V \X (1 .. n) |-> q[1] + Cost[t[q[2]].value]]
<1>1. n \in Nat /\ \A i \in 1 .. n : Cost[t[i].value] \in Nat
  <2>1. \A i \in 1 .. n : t[i] \in Header
    OBVIOUS
  <2> QED
    BY <2>1, HeaderCosts
<1>2. adds \in [V \X (1 .. n) -> V] /\ zero \in V
  BY <1>1
<1>3. PICK h \in [0 .. n -> V] : Passes(h, n, zero, adds)
  <2> HIDE DEF n, V, zero, adds
  <2> QED
    BY <1>1, <1>2, RunExists
<1>4. ASSUME NEW k \in 0 .. n - 1
      PROVE  h[k + 1] = h[k] + Cost[t[k + 1].value]
  <2>1. k \in 0 .. n /\ k + 1 \in 1 .. n /\ h[k] \in V
    BY <1>1
  <2>2. h[k + 1] = adds[<<h[k], k + 1>>]
    BY <1>3 DEF Passes
  <2> QED
    BY <2>1, <2>2
<1>5. h[0] = 0
  BY <1>3 DEF Passes
<1> QED
  BY <1>3, <1>4, <1>5

\* An empty table takes no room.
LEMMA UsedEmpty == Used(<<>>) = 0
<1> DEFINE t == <<>>
<1>1. t \in Seq(Header) /\ Len(t) = 0
  OBVIOUS
<1> HIDE DEF t
<1>2. PICK h \in [0 .. Len(t) -> Nat] :
         h[0] = 0 /\ \A k \in 0 .. Len(t) - 1 : h[k + 1] = h[k] + Cost[t[k + 1].value]
  BY <1>1, UsedRunExists
<1>3. Used(t) = h[Len(t)]
  BY <1>1, <1>2, UsedIsRun
<1> QED
  BY <1>1, <1>2, <1>3 DEF t

\* The room a table takes grows by the cost of a header that is added.
LEMMA UsedAppend ==
  ASSUME NEW t \in Seq(Header), NEW f \in Header
  PROVE  Used(t) \in Nat /\ Used(Append(t, f)) = Used(t) + Cost[f.value]
<1> DEFINE n == Len(t)
           s == Append(t, f)
<1>1. /\ n \in Nat /\ s \in Seq(Header) /\ Len(s) = n + 1 /\ s[n + 1] = f
      /\ \A i \in 1 .. n : s[i] = t[i]
  OBVIOUS
<1> HIDE DEF s
<1>2. PICK h \in [0 .. Len(s) -> Nat] :
         h[0] = 0 /\ \A k \in 0 .. Len(s) - 1 : h[k + 1] = h[k] + Cost[s[k + 1].value]
  BY <1>1, UsedRunExists
<1>3. Used(s) = h[n + 1]
  BY <1>1, <1>2, UsedIsRun
<1> DEFINE g == [k \in 0 .. n |-> h[k]]
<1>4. g \in [0 .. Len(t) -> Nat] /\ g[0] = 0 /\ g[n] = h[n] /\ g[n] \in Nat
  BY <1>1, <1>2
<1>5. ASSUME NEW k \in 0 .. Len(t) - 1
      PROVE  g[k + 1] = g[k] + Cost[t[k + 1].value]
  <2>1. k \in 0 .. n /\ k + 1 \in 0 .. n /\ k \in 0 .. Len(s) - 1 /\ k + 1 \in 1 .. n
    BY <1>1
  <2>2. g[k] = h[k] /\ g[k + 1] = h[k + 1] /\ s[k + 1] = t[k + 1]
    BY <1>1, <2>1
  <2> HIDE DEF g
  <2> QED
    BY <1>2, <2>1, <2>2
<1>6. Used(t) = h[n]
  <2> HIDE DEF g
  <2> QED
    BY <1>4, <1>5, UsedIsRun
<1>7. h[n + 1] = h[n] + Cost[f.value]
  <2>1. n \in 0 .. Len(s) - 1
    BY <1>1
  <2> QED
    BY <1>1, <1>2, <2>1
<1> QED
  BY <1>3, <1>4, <1>6, <1>7 DEF s

\* The entries from place i on are within a room; i is the first such place.
Fits(t, i, room) == Used(SubSeq(t, i, Len(t))) <= room

FirstFit(t, i, room) ==
    /\ i \in 1 .. Len(t) + 1 /\ Fits(t, i, room)
    /\ \A j \in 1 .. Len(t) + 1 : Fits(t, j, room) => i <= j

\* In every table there is a first place from which on it fits: at worst behind the last.
LEMMA FirstFitExists ==
  ASSUME NEW t \in Seq(Header), NEW room \in Nat
  PROVE  \E i : FirstFit(t, i, room)
<1> DEFINE n == Len(t)
           T == {i \in 1 .. n + 1 : Fits(t, i, room)}
<1>1. n \in Nat /\ T \subseteq Nat
  OBVIOUS
<1>2. n + 1 \in T
  <2>1. SubSeq(t, n + 1, n) = <<>>
    BY <1>1
  <2>2. Used(SubSeq(t, n + 1, n)) = 0
    BY <2>1, UsedEmpty, Zenon
  <2>3. Fits(t, n + 1, room)
    BY <2>2 DEF Fits
  <2> QED
    BY <1>1, <2>3
<1>3. PICK i \in T : \A j \in T : i <= j
  <2> HIDE DEF T
  <2> QED
    BY <1>1, <1>2, LeastNumber
<1> QED
  BY <1>3 DEF FirstFit

\* The client's loop evicts what is before that place,
LEMMA EvictedIs ==
  ASSUME NEW t \in Seq(Header), NEW room \in Nat, NEW i, FirstFit(t, i, room)
  PROVE  Evicted(t, room) = SubSeq(t, i, Len(t))
<1> DEFINE fits == {k \in 1 .. Len(t) + 1 : Used(SubSeq(t, k, Len(t))) <= room}
           c == CHOOSE k \in fits : \A j \in fits : k <= j
<1>1. i \in fits /\ i \in Nat /\ fits \subseteq Nat /\ \A j \in fits : i <= j
  BY DEF FirstFit, Fits
<1>2. Evicted(t, room) = SubSeq(t, c, Len(t))
  BY DEF Evicted
<1>3. c \in fits /\ \A j \in fits : c <= j
  <2> HIDE DEF fits
  <2> QED
    BY <1>1
<1>4. c \in Nat /\ c <= i /\ i <= c
  BY <1>1, <1>3
<1>5. c = i
  <2> HIDE DEF c
  <2> QED
    BY <1>1, <1>4
<1> QED
  BY <1>2, <1>5

\* and the RFC keeps what is from it on.
LEMMA RetainedIs ==
  ASSUME NEW t \in Seq(Header), NEW max \in Nat, NEW i, FirstFit(t, i, max)
  PROVE  Retained(t, max) = SubSeq(t, i, Len(t))
<1> DEFINE n == Len(t)
           newest(k) == SubSeq(t, n - k + 1, n)
           fit == {k \in 0 .. n : Used(newest(k)) <= max}
           c == CHOOSE k \in fit : \A j \in fit : j <= k
           m == n - i + 1
<1>1. n \in Nat /\ i \in 1 .. n + 1 /\ m \in 0 .. n /\ n - m + 1 = i
  BY DEF FirstFit
<1>2. Retained(t, max) = newest(c)
  BY DEF Retained
<1>3. m \in fit
  BY <1>1 DEF FirstFit, Fits
<1>4. ASSUME NEW j \in fit
      PROVE  j <= m
  <2>1. j \in 0 .. n /\ n - j + 1 \in 1 .. n + 1 /\ Used(SubSeq(t, n - j + 1, n)) <= max
    BY <1>1
  <2>2. i <= n - j + 1
    BY <2>1 DEF FirstFit, Fits
  <2> QED
    BY <1>1, <2>1, <2>2
<1>5. c \in fit /\ (\A j \in fit : j <= c) /\ fit \subseteq Nat
  <2>1. fit \subseteq Nat
    OBVIOUS
  <2> HIDE DEF fit, m
  <2> QED
    BY <1>3, <1>4, <2>1
<1>6. c = m
  <2> HIDE DEF fit, c, m
  <2> QED
    BY <1>3, <1>4, <1>5
<1> QED
  BY <1>1, <1>2, <1>6

\* Making room for nothing is keeping what fits: the client's loop and the RFC agree.
LEMMA RoomIsMade ==
  ASSUME NEW t \in Seq(Header), NEW max \in Nat
  PROVE  /\ Evicted(t, max) = Retained(t, max) /\ Retained(t, max) \in Seq(Header)
         /\ Used(Retained(t, max)) <= max
         /\ Used(t) <= max => Retained(t, max) = t
<1>1. PICK i : FirstFit(t, i, max)
  BY FirstFitExists
<1>2. Evicted(t, max) = SubSeq(t, i, Len(t)) /\ Retained(t, max) = SubSeq(t, i, Len(t))
  BY <1>1, EvictedIs, RetainedIs
<1>3. i \in 1 .. Len(t) + 1 /\ Used(SubSeq(t, i, Len(t))) <= max
  BY <1>1 DEF FirstFit, Fits
<1>4. SubSeq(t, i, Len(t)) \in Seq(Header)
  <2>1. \A k \in i .. Len(t) : t[k] \in Header
    BY <1>3
  <2> QED
    BY <1>3, <2>1
<1>5. ASSUME Used(t) <= max
      PROVE  SubSeq(t, i, Len(t)) = t
  <2>1. SubSeq(t, 1, Len(t)) = t
    BY SubSeqFull
  <2>2. Used(SubSeq(t, 1, Len(t))) <= max
    BY <1>5, <2>1, Zenon
  <2> DEFINE n == Len(t)
  <2>3. 1 \in 1 .. n + 1 /\ n \in Nat
    OBVIOUS
  <2>4. i <= 1
    BY <1>1, <2>2, <2>3 DEF FirstFit, Fits
  <2>5. i = 1
    BY <1>3, <2>4
  <2> QED
    BY <2>1, <2>5
<1> QED
  BY <1>2, <1>3, <1>4, <1>5

\* Adding a header is adding it and keeping what fits then: nothing, when it is too large.
LEMMA DynAddIs ==
  ASSUME NEW t \in Seq(Header), NEW max \in Nat, NEW f \in Header
  PROVE  DynAdd(t, max, f) = Retained(Append(t, f), max)
<1> DEFINE n == Len(t)
           s == Append(t, f)
           cost == Cost[f.value]
<1>1. /\ n \in Nat /\ s \in Seq(Header) /\ Len(s) = n + 1 /\ s[n + 1] = f
      /\ \A i \in 1 .. n : s[i] = t[i]
  OBVIOUS
<1>2. cost \in Nat
  BY HeaderCosts
<1>3. ASSUME NEW i \in 1 .. n + 1
      PROVE  /\ SubSeq(t, i, n) \in Seq(Header)
             /\ SubSeq(s, i, n + 1) = Append(SubSeq(t, i, n), f)
  <2>1. \A k \in i .. n : t[k] \in Header
    BY <1>1
  <2>2. SubSeq(t, i, n) \in Seq(Header) /\ Len(SubSeq(t, i, n)) = n - i + 1
    BY <1>1, <2>1
  <2>3. SubSeq(s, i, n + 1) = Append(SubSeq(t, i, n), f)
    BY <1>1, <2>2
  <2> QED
    BY <2>2, <2>3
<1>4. ASSUME NEW i \in 1 .. n + 1
      PROVE  /\ Used(SubSeq(t, i, n)) \in Nat
             /\ Used(SubSeq(s, i, n + 1)) = Used(SubSeq(t, i, n)) + cost
  BY <1>3, UsedAppend
<1>5. SubSeq(s, n + 2, n + 1) = <<>>
  BY <1>1
<1> HIDE DEF s, cost
<1>6. CASE cost > max
  <2>1. FirstFit(s, n + 2, max)
    <3>1. n + 2 \in 1 .. Len(s) + 1 /\ Fits(s, n + 2, max)
      <4>1. Used(SubSeq(s, n + 2, n + 1)) = 0
        BY <1>5, UsedEmpty, Zenon
      <4> QED
        BY <1>1, <4>1 DEF Fits
    <3>2. ASSUME NEW j \in 1 .. Len(s) + 1, Fits(s, j, max)
          PROVE  n + 2 <= j
      <4>1. CASE j \in 1 .. n + 1
        BY <1>1, <1>2, <1>4, <1>6, <3>2, <4>1 DEF Fits
      <4>2. CASE j = n + 2
        BY <1>1, <4>2
      <4> QED
        BY <1>1, <4>1, <4>2
    <3> QED
      BY <3>1, <3>2 DEF FirstFit
  <2>2. Retained(s, max) = <<>>
    BY <1>1, <1>5, <2>1, RetainedIs
  <2> QED
    BY <1>6, <2>2 DEF DynAdd, s, cost
<1>7. CASE ~(cost > max)
  <2> DEFINE room == max - cost
  <2>1. room \in Nat /\ room + cost = max
    BY <1>2, <1>7
  <2> HIDE DEF room
  <2>2. PICK i : FirstFit(t, i, room)
    BY <2>1, FirstFitExists
  <2>3. i \in 1 .. n + 1 /\ Used(SubSeq(t, i, n)) <= room
    BY <2>2 DEF FirstFit, Fits
  <2>4. FirstFit(s, i, max)
    <3>1. i \in 1 .. Len(s) + 1 /\ Fits(s, i, max)
      BY <1>1, <1>2, <1>4, <2>1, <2>3 DEF Fits
    <3>2. ASSUME NEW j \in 1 .. Len(s) + 1, Fits(s, j, max)
          PROVE  i <= j
      <4>1. CASE j \in 1 .. n + 1
        <5>1. Used(SubSeq(t, j, n)) <= room
          BY <1>1, <1>2, <1>4, <2>1, <3>2, <4>1 DEF Fits
        <5> QED
          BY <2>2, <4>1, <5>1 DEF FirstFit, Fits
      <4>2. CASE j = n + 2
        BY <1>1, <2>3, <4>2
      <4> QED
        BY <1>1, <4>1, <4>2
    <3> QED
      BY <3>1, <3>2 DEF FirstFit
  <2>5. Retained(s, max) = SubSeq(s, i, n + 1)
    BY <1>1, <2>4, RetainedIs
  <2>6. Evicted(t, room) = SubSeq(t, i, n)
    BY <2>1, <2>2, EvictedIs
  <2> QED
    BY <1>3, <1>7, <2>3, <2>5, <2>6 DEF DynAdd, s, cost, room
<1> QED
  BY <1>6, <1>7

\* What a block is made of, and what the client knows while it reads one.
Representation ==
    [kind : {"resize"}, idx : {0}, max : Nat]
        \cup [kind : {"indexed"}, idx : Nat]
        \cup [kind : {"literal"}, idx : Nat, field : Header, add : BOOLEAN]

Decoder == [ok : BOOLEAN, table : Seq(Header), max : Nat, status : Nat]

\* A header is its name and its value.
LEMMA HeaderWithValue ==
  ASSUME NEW e \in Header, NEW f \in Header
  PROVE  /\ [e EXCEPT !.value = f.value] \in Header
         /\ [e EXCEPT !.value = f.value].name = e.name
         /\ e.name = f.name => [e EXCEPT !.value = f.value] = f
  BY DEF Header

\* The client finds in its table what the RFC numbers: the static entries, then its own,
\* the newest first.
LEMMA LookupIs ==
  ASSUME NEW t \in Seq(Header), NEW i \in Nat
  PROVE  /\ Known(t, i) <=> i \in DOMAIN (Static \o Reverse(t))
         /\ Known(t, i) => /\ TableLookup(t, i) = (Static \o Reverse(t))[i]
                           /\ TableLookup(t, i) \in Header
<1> DEFINE m == Len(Static)
           n == Len(t)
           u == Reverse(t)
           space == Static \o u
<1>1. Static \in Seq(Header) /\ m \in Nat /\ n \in Nat
  BY HeaderLists
<1>2. /\ u \in Seq(Header) /\ Len(u) = n
      /\ \A k \in 1 .. n : u[k] = t[n - k + 1]
  <2>1. \A k \in 1 .. n : n - k + 1 \in 1 .. n /\ t[n - k + 1] \in Header
    BY <1>1
  <2>2. u = [k \in 1 .. n |-> t[n - k + 1]]
    BY DEF Reverse
  <2> QED
    BY <1>1, <2>1, <2>2
<1> HIDE DEF u
<1>3. /\ space \in Seq(Header) /\ Len(space) = m + n /\ DOMAIN space = 1 .. m + n
      /\ \A k \in 1 .. m : space[k] = Static[k]
      /\ \A k \in m + 1 .. m + n : space[k] = u[k - m]
  BY <1>1, <1>2, ConcatProperties
<1>4. Known(t, i) <=> i \in DOMAIN space
  BY <1>3 DEF Known
<1>5. ASSUME Known(t, i)
      PROVE  TableLookup(t, i) = space[i] /\ space[i] \in Header
  <2>1. i \in 1 .. m + n
    BY <1>5 DEF Known
  <2>2. space[i] \in Header
    <3> HIDE DEF space
    <3> QED
      BY <1>3, <2>1
  <2>3. CASE i <= m
    BY <1>1, <1>3, <2>1, <2>2, <2>3 DEF TableLookup
  <2>4. CASE ~(i <= m)
    <3>1. i - m \in 1 .. n /\ n - (i - m) + 1 = n - (i - m - 1)
      BY <1>1, <2>1, <2>4
    <3>2. space[i] = u[i - m] /\ u[i - m] = t[n - (i - m) + 1]
      BY <1>1, <1>2, <1>3, <2>1, <2>4, <3>1
    <3>3. TableLookup(t, i) = t[n - (i - m - 1)]
      BY <2>4 DEF TableLookup
    <3> QED
      BY <2>2, <3>1, <3>2, <3>3
  <2> QED
    BY <2>3, <2>4
<1> QED
  BY <1>4, <1>5 DEF u

\* A status that was seen is a number.
LEMMA SeenIsNat ==
  ASSUME NEW d \in Decoder, NEW f \in Header
  PROVE  StatusSeen(d, f) \in Nat
  BY HeaderCosts DEF StatusSeen, Decoder

\* A representation leaves a decoder that is one.
LEMMA DecodeOneType ==
  ASSUME NEW d \in Decoder, NEW r \in Representation
  PROVE  DecodeOne(d, r) \in Decoder
<1>1. d.ok \in BOOLEAN /\ d.table \in Seq(Header) /\ d.max \in Nat /\ d.status \in Nat
  BY DEF Decoder
<1>2. [d EXCEPT !.ok = FALSE] \in Decoder
  BY DEF Decoder
<1>3. CASE ~d.ok
  BY <1>3 DEF DecodeOne
<1>4. CASE d.ok /\ r.kind = "resize"
  <2>1. r.max \in Nat
    BY <1>4 DEF Representation
  <2>2. Evicted(d.table, r.max) \in Seq(Header)
    BY <1>1, <2>1, RoomIsMade
  <2>3. [d EXCEPT !.max = r.max, !.table = Evicted(@, r.max)] \in Decoder
    BY <2>1, <2>2 DEF Decoder
  <2> QED
    BY <1>2, <1>4, <2>3 DEF DecodeOne
<1>5. CASE d.ok /\ r.kind = "indexed"
  <2>1. r.idx \in Nat
    BY <1>5 DEF Representation
  <2>2. CASE r.idx = 0 \/ ~Known(d.table, r.idx)
    BY <1>2, <1>5, <2>2 DEF DecodeOne
  <2>3. CASE ~(r.idx = 0 \/ ~Known(d.table, r.idx))
    <3>1. TableLookup(d.table, r.idx) \in Header
      BY <1>1, <2>1, <2>3, LookupIs
    <3>2. StatusSeen(d, TableLookup(d.table, r.idx)) \in Nat
      BY <3>1, SeenIsNat
    <3>3. DecodeOne(d, r) = [d EXCEPT !.status = StatusSeen(d, TableLookup(d.table, r.idx))]
      BY <1>5, <2>3 DEF DecodeOne
    <3> QED
      BY <3>2, <3>3 DEF Decoder
  <2> QED
    BY <2>2, <2>3
<1>6. CASE d.ok /\ r.kind = "literal"
  <2>1. r.idx \in Nat /\ r.field \in Header /\ r.add \in BOOLEAN
    BY <1>6 DEF Representation
  <2> DEFINE entry == IF r.idx = 0 THEN r.field ELSE TableLookup(d.table, r.idx)
             field == [entry EXCEPT !.value = r.field.value]
             bad == ~(r.idx = 0 \/ Known(d.table, r.idx)) \/ Cost[r.field.value] > HPACK_STR_MAX
  <2>2. CASE bad
    BY <1>2, <1>6, <2>2 DEF DecodeOne
  <2>3. CASE ~bad
    <3>1. entry \in Header
      BY <1>1, <2>1, <2>3, LookupIs
    <3> HIDE DEF entry
    <3>2. field \in Header
      BY <2>1, <3>1, HeaderWithValue
    <3> HIDE DEF field
    <3>3. StatusSeen(d, field) \in Nat
      BY <3>2, SeenIsNat
    <3>4. DynAdd(d.table, d.max, field) \in Seq(Header)
      <4>1. Append(d.table, field) \in Seq(Header)
        BY <1>1, <3>2
      <4>2. DynAdd(d.table, d.max, field) = Retained(Append(d.table, field), d.max)
        BY <1>1, <3>2, DynAddIs
      <4>3. Retained(Append(d.table, field), d.max) \in Seq(Header)
        BY <1>1, <4>1, RoomIsMade
      <4> QED
        BY <4>2, <4>3
    <3>5. DecodeOne(d, r) = [d EXCEPT !.status = StatusSeen(d, field),
                       !.table = IF r.add THEN DynAdd(@, d.max, field) ELSE @]
      BY <1>6, <2>3 DEF DecodeOne, field, entry
    <3>6. (IF r.add THEN DynAdd(d.table, d.max, field) ELSE d.table) \in Seq(Header)
      BY <1>1, <3>4
    <3> QED
      BY <3>3, <3>5, <3>6 DEF Decoder
  <2> QED
    BY <2>2, <2>3
<1>7. r.kind \in {"resize", "indexed", "literal"}
  BY DEF Representation
<1> QED
  BY <1>3, <1>4, <1>5, <1>6, <1>7

\* What a decoder makes of a sequence of representations.
DecodeFrom(d, s) == FoldLeft(DecodeOne, d, s)

\* A decoder's runs end in what the fold yields.
LEMMA DecodeIsRun ==
  ASSUME NEW d \in Decoder, NEW s \in Seq(Representation),
         NEW h \in [0 .. Len(s) -> Decoder], h[0] = d,
         \A k \in 0 .. Len(s) - 1 : h[k + 1] = DecodeOne(h[k], s[k + 1])
  PROVE  DecodeFrom(d, s) = h[Len(s)]
<1> DEFINE n == Len(s)
           V == Decoder
           body(f, r) == IF r = {} THEN d ELSE DecodeOne(f[r \ {Max(r)}], s[Max(r)])
           P(f) == f = [r \in SUBSET (DOMAIN s) |-> body(f, r)]
           F == CHOOSE f : P(f)
           reads == [q \in V \X (1 .. n) |-> DecodeOne(q[1], s[q[2]])]
<1>1. n \in Nat /\ DOMAIN s = 1 .. n /\ \A i \in 1 .. n : s[i] \in Representation
  OBVIOUS
<1>2. DecodeFrom(d, s) = F[1 .. n]
  BY <1>1 DEF DecodeFrom, FoldLeft, MapThenFoldSet
<1>3. reads \in [V \X (1 .. n) -> V]
  BY <1>1, DecodeOneType
<1>4. ASSUME NEW f, NEW r \in SUBSET (1 .. n), r # {}, f[r \ {Max(r)}] \in V
      PROVE  reads[<<f[r \ {Max(r)}], Max(r)>>] = DecodeOne(f[r \ {Max(r)}], s[Max(r)])
  <2>1. Max(r) \in 1 .. n
    BY <1>1, <1>4, Greatest
  <2> HIDE DEF V
  <2> QED
    BY <1>4, <2>1
<1>5. P(F)
  <2>1. PICK f \in [SUBSET (1 .. n) -> V] : Folds(f, n, d, reads)
    <3>1. d \in V /\ n \in Nat
      BY <1>1
    <3> HIDE DEF reads, n, V
    <3> QED
      BY <1>3, <3>1, FoldExists
  <2>2. P(f)
    <3>1. ASSUME NEW r \in SUBSET (1 .. n), r # {}
          PROVE  reads[<<f[r \ {Max(r)}], Max(r)>>] = DecodeOne(f[r \ {Max(r)}], s[Max(r)])
      <4>1. f[r \ {Max(r)}] \in V
        BY <2>1
      <4> HIDE DEF reads, V
      <4> QED
        BY <1>4, <3>1, <4>1
    <3> HIDE DEF reads
    <3> QED
      BY <1>1, <2>1, <3>1 DEF Folds
  <2> HIDE DEF P
  <2> QED
    BY <2>2, Zenon
<1> HIDE DEF F
<1>6. F[{}] = d /\ d \in V
  BY <1>5
<1>7. ASSUME NEW r \in SUBSET (1 .. n), r # {} /\ F[r \ {Max(r)}] \in V
      PROVE  F[r] = reads[<<F[r \ {Max(r)}], Max(r)>>]
  <2>1. F[r] = DecodeOne(F[r \ {Max(r)}], s[Max(r)])
    BY <1>1, <1>5, <1>7
  <2> HIDE DEF reads
  <2> QED
    BY <1>4, <1>7, <2>1
<1>8. ASSUME NEW k \in 0 .. n - 1
      PROVE  h[k + 1] = reads[<<h[k], k + 1>>]
  <2>1. k + 1 \in 1 .. n /\ h[k] \in V
    BY <1>1
  <2> HIDE DEF V
  <2> QED
    BY <2>1
<1>9. F[1 .. n] = h[n]
  <2>1. h \in [0 .. n -> V] /\ n \in Nat
    BY <1>1
  <2>2. Gathers(F, n, V, d, reads)
    BY <1>6, <1>7 DEF Gathers
  <2>3. Passes(h, n, d, reads)
    BY <1>8 DEF Passes
  <2> HIDE DEF reads, n, V
  <2>4. EndsLike(F, h, n)
    BY <1>3, <1>6, <2>1, <2>2, <2>3, RunIsFold
  <2> QED
    BY <2>4 DEF EndsLike
<1> QED
  BY <1>2, <1>9

\* Every sequence of representations has such a run.
LEMMA DecodeRunExists ==
  ASSUME NEW d \in Decoder, NEW s \in Seq(Representation)
  PROVE  \E h \in [0 .. Len(s) -> Decoder] :
            h[0] = d /\ \A k \in 0 .. Len(s) - 1 : h[k + 1] = DecodeOne(h[k], s[k + 1])
<1> DEFINE n == Len(s)
           V == Decoder
           reads == [q \in V \X (1 .. n) |-> DecodeOne(q[1], s[q[2]])]
<1>1. n \in Nat /\ d \in V /\ \A i \in 1 .. n : s[i] \in Representation
  OBVIOUS
<1>2. reads \in [V \X (1 .. n) -> V]
  BY <1>1, DecodeOneType
<1>3. PICK h \in [0 .. n -> V] : Passes(h, n, d, reads)
  <2> HIDE DEF n, V, reads
  <2> QED
    BY <1>1, <1>2, RunExists
<1>4. ASSUME NEW k \in 0 .. n - 1
      PROVE  h[k + 1] = DecodeOne(h[k], s[k + 1])
  <2>1. k \in 0 .. n /\ k + 1 \in 1 .. n /\ h[k] \in V
    BY <1>1
  <2>2. h[k + 1] = reads[<<h[k], k + 1>>]
    BY <1>3 DEF Passes
  <2> HIDE DEF V
  <2> QED
    BY <2>1, <2>2
<1>5. h[0] = d
  BY <1>3 DEF Passes
<1> QED
  BY <1>3, <1>4, <1>5

\* Nothing to decode leaves the decoder as it is.
LEMMA DecodeEmpty ==
  ASSUME NEW d \in Decoder
  PROVE  DecodeFrom(d, <<>>) = d
<1> DEFINE s == <<>>
<1>1. s \in Seq(Representation) /\ Len(s) = 0
  OBVIOUS
<1> HIDE DEF s
<1>2. PICK h \in [0 .. Len(s) -> Decoder] :
         h[0] = d /\ \A k \in 0 .. Len(s) - 1 : h[k + 1] = DecodeOne(h[k], s[k + 1])
  BY <1>1, DecodeRunExists
<1>3. DecodeFrom(d, s) = h[Len(s)]
  BY <1>1, <1>2, DecodeIsRun
<1> QED
  BY <1>1, <1>2, <1>3 DEF s

\* One representation more is one step more.
LEMMA DecodeAppend ==
  ASSUME NEW d \in Decoder, NEW s \in Seq(Representation), NEW r \in Representation
  PROVE  /\ DecodeFrom(d, s) \in Decoder
         /\ DecodeFrom(d, Append(s, r)) = DecodeOne(DecodeFrom(d, s), r)
<1> DEFINE n == Len(s)
           u == Append(s, r)
<1>1. /\ n \in Nat /\ u \in Seq(Representation) /\ Len(u) = n + 1 /\ u[n + 1] = r
      /\ \A i \in 1 .. n : u[i] = s[i]
  OBVIOUS
<1> HIDE DEF u
<1>2. PICK h \in [0 .. Len(u) -> Decoder] :
         h[0] = d /\ \A k \in 0 .. Len(u) - 1 : h[k + 1] = DecodeOne(h[k], u[k + 1])
  BY <1>1, DecodeRunExists
<1>3. DecodeFrom(d, u) = h[n + 1]
  BY <1>1, <1>2, DecodeIsRun
<1> DEFINE g == [k \in 0 .. n |-> h[k]]
<1>4. g \in [0 .. Len(s) -> Decoder] /\ g[0] = d /\ g[n] = h[n] /\ g[n] \in Decoder
  BY <1>1, <1>2
<1>5. ASSUME NEW k \in 0 .. Len(s) - 1
      PROVE  g[k + 1] = DecodeOne(g[k], s[k + 1])
  <2>1. k \in 0 .. n /\ k + 1 \in 0 .. n /\ k \in 0 .. Len(u) - 1 /\ k + 1 \in 1 .. n
    BY <1>1
  <2>2. g[k] = h[k] /\ g[k + 1] = h[k + 1] /\ u[k + 1] = s[k + 1]
    BY <1>1, <2>1
  <2> HIDE DEF g
  <2> QED
    BY <1>2, <2>1, <2>2
<1>6. DecodeFrom(d, s) = h[n]
  <2> HIDE DEF g
  <2> QED
    BY <1>4, <1>5, DecodeIsRun
<1>7. h[n + 1] = DecodeOne(h[n], r)
  <2>1. n \in 0 .. Len(u) - 1
    BY <1>1
  <2> QED
    BY <1>1, <1>2, <2>1
<1> QED
  BY <1>3, <1>4, <1>6, <1>7 DEF u

\* A way to represent a header, and the table it leaves.
Represents(x, f, t, max) ==
    LET space == Static \o Reverse(t)
    IN  \/ /\ x.r.kind = "indexed" /\ x.r.idx \in DOMAIN space /\ space[x.r.idx] = f
           /\ x.table = t
        \/ /\ x.r.kind = "literal" /\ x.r.field = f /\ x.r.add \in BOOLEAN
           /\ x.r.idx = 0 \/ (x.r.idx \in DOMAIN space /\ space[x.r.idx].name = f.name)
           /\ x.table = IF x.r.add THEN Retained(Append(t, f), max) ELSE t

\* What Representations offers is such a way.
LEMMA RepresentationIs ==
  ASSUME NEW f \in Header, NEW t \in Seq(Header), NEW max \in Nat,
         NEW x \in Representations(f, t, max)
  PROVE  Represents(x, f, t, max)
<1> DEFINE space == Static \o Reverse(t)
<1>1. \/ \E i \in {j \in DOMAIN space : space[j] = f} :
            x = [r |-> [kind |-> "indexed", idx |-> i], table |-> t]
      \/ \E i \in {0} \cup {j \in DOMAIN space : space[j].name = f.name}, add \in BOOLEAN :
            x = [r |-> [kind |-> "literal", idx |-> i, field |-> f, add |-> add],
                 table |-> IF add THEN Retained(Append(t, f), max) ELSE t]
  <2> HIDE DEF space
  <2> QED
    BY DEF Representations, space
<1> HIDE DEF space
<1>2. CASE \E i \in {j \in DOMAIN space : space[j] = f} :
              x = [r |-> [kind |-> "indexed", idx |-> i], table |-> t]
  BY <1>2 DEF space, Represents
<1>3. CASE \E i \in {0} \cup {j \in DOMAIN space : space[j].name = f.name}, add \in BOOLEAN :
              x = [r |-> [kind |-> "literal", idx |-> i, field |-> f, add |-> add],
                   table |-> IF add THEN Retained(Append(t, f), max) ELSE t]
  <2>1. PICK i \in {0} \cup {j \in DOMAIN space : space[j].name = f.name}, add \in BOOLEAN :
              x = [r |-> [kind |-> "literal", idx |-> i, field |-> f, add |-> add],
                   table |-> IF add THEN Retained(Append(t, f), max) ELSE t]
    BY <1>3
  <2>2. /\ x.r.kind = "literal" /\ x.r.field = f /\ x.r.add = add /\ x.r.idx = i
        /\ x.table = IF add THEN Retained(Append(t, f), max) ELSE t
    BY <2>1
  <2>3. x.r.idx = 0 \/ (x.r.idx \in DOMAIN space /\ space[x.r.idx].name = f.name)
    BY <2>1, <2>2
  <2>4. x.table = IF x.r.add THEN Retained(Append(t, f), max) ELSE t
    BY <2>2
  <2>5. x.r.kind = "literal" /\ x.r.field = f /\ x.r.add \in BOOLEAN
    BY <2>1, <2>2
  <2> QED
    BY <2>3, <2>4, <2>5, Zenon DEF space, Represents
<1> QED
  BY <1>1, <1>2, <1>3

\* The indices of the address space are numbers that the client knows.
LEMMA SpaceIndices ==
  ASSUME NEW t \in Seq(Header), NEW i \in DOMAIN (Static \o Reverse(t))
  PROVE  i \in Nat /\ i # 0 /\ Known(t, i)
<1>1. i \in Nat /\ i # 0
  <2>1. Static \in Seq(Header) /\ Reverse(t) \in Seq(Header)
    <3>1. \A k \in 1 .. Len(t) : Len(t) - k + 1 \in 1 .. Len(t) /\ t[Len(t) - k + 1] \in Header
      OBVIOUS
    <3>2. Reverse(t) = [k \in 1 .. Len(t) |-> t[Len(t) - k + 1]]
      BY DEF Reverse
    <3> QED
      BY <3>1, <3>2, HeaderLists
  <2> DEFINE space == Static \o Reverse(t)
  <2>2. space \in Seq(Header)
    BY <2>1, ConcatProperties
  <2>3. i \in DOMAIN space
    OBVIOUS
  <2> HIDE DEF space
  <2> QED
    BY <2>2, <2>3
<1> QED
  BY <1>1, LookupIs

\* A way to represent a header is well-formed, and leaves a table that fits.
LEMMA RepresentationsType ==
  ASSUME NEW f \in Header, NEW t \in Seq(Header), NEW max \in Nat,
         NEW x \in Representations(f, t, max)
  PROVE  /\ x.r \in Representation /\ x.table \in Seq(Header)
         /\ Used(t) <= max => Used(x.table) <= max
<1> DEFINE space == Static \o Reverse(t)
           u == Append(t, f)
<1>1. /\ x.r \in [kind : {"indexed"}, idx : DOMAIN space]
              \cup [kind : {"literal"}, idx : {0} \cup DOMAIN space, field : {f}, add : BOOLEAN]
      /\ x.table \in {t, Retained(u, max)}
  <2> HIDE DEF space, u
  <2> QED
    BY DEF Representations, space, u
<1>2. u \in Seq(Header)
  OBVIOUS
<1> HIDE DEF u
<1>3. Retained(u, max) \in Seq(Header) /\ Used(Retained(u, max)) <= max
  BY <1>2, RoomIsMade
<1>4. \A i \in DOMAIN space : i \in Nat
  BY SpaceIndices
<1> HIDE DEF space
<1> QED
  BY <1>1, <1>3, <1>4 DEF Representation

\* One header, represented against the table the decoder has: the decoder fails only over
\* its size, and otherwise has the table that the encoder has, and the header's status.
LEMMA OneHeader ==
  ASSUME NEW d \in Decoder, d.ok, NEW f \in Header,
         NEW x \in Representations(f, d.table, d.max)
  PROVE  LET e == DecodeOne(d, x.r)
         IN  /\ ~e.ok => Cost[f.value] > HPACK_STR_MAX
             /\ e.ok => e.table = x.table /\ e.max = d.max /\ e.status = StatusSeen(d, f)
<1> DEFINE t == d.table
           i == x.r.idx
           space == Static \o Reverse(t)
           e == DecodeOne(d, x.r)
           entry == IF i = 0 THEN x.r.field ELSE TableLookup(t, i)
           field == [entry EXCEPT !.value = x.r.field.value]
<1>1. t \in Seq(Header) /\ d.max \in Nat
  BY DEF Decoder
<1>2. /\ i \in DOMAIN space => /\ i # 0 /\ Known(t, i) /\ TableLookup(t, i) = space[i]
                               /\ space[i] \in Header
  BY <1>1, SpaceIndices, LookupIs
<1>3. CASE x.r.kind = "indexed" /\ i \in DOMAIN space /\ space[i] = f /\ x.table = t
  <2>1. e = [d EXCEPT !.status = StatusSeen(d, f)]
    <3> HIDE DEF space
    <3> QED
      BY <1>2, <1>3 DEF DecodeOne
  <2> QED
    BY <1>3, <2>1 DEF Decoder
<1>4. CASE /\ x.r.kind = "literal" /\ x.r.field = f /\ x.r.add \in BOOLEAN
           /\ i = 0 \/ (i \in DOMAIN space /\ space[i].name = f.name)
           /\ x.table = IF x.r.add THEN Retained(Append(t, f), d.max) ELSE t
  <2>1. entry \in Header /\ entry.name = f.name /\ (i = 0 \/ Known(t, i))
    <3> HIDE DEF space
    <3> QED
      BY <1>2, <1>4
  <2>2. field = f
    <3> HIDE DEF entry
    <3> QED
      BY <1>4, <2>1, HeaderWithValue
  <2>3. CASE Cost[f.value] > HPACK_STR_MAX
    <3>1. e = [d EXCEPT !.ok = FALSE]
      BY <1>4, <2>3 DEF DecodeOne
    <3> QED
      BY <2>3, <3>1 DEF Decoder
  <2>4. CASE ~(Cost[f.value] > HPACK_STR_MAX)
    <3>1. e = [d EXCEPT !.status = StatusSeen(d, field),
                        !.table = IF x.r.add THEN DynAdd(@, d.max, field) ELSE @]
      <4> HIDE DEF space, t
      <4> QED
        BY <1>4, <2>1, <2>4 DEF DecodeOne, t
    <3>2. DynAdd(t, d.max, f) = Retained(Append(t, f), d.max)
      BY <1>1, DynAddIs
    <3> HIDE DEF field
    <3>3. e.ok /\ e.max = d.max /\ e.status = StatusSeen(d, f)
      BY <2>2, <3>1 DEF Decoder
    <3>4. e.table = IF x.r.add THEN DynAdd(t, d.max, f) ELSE t
      BY <2>2, <3>1 DEF Decoder
    <3> QED
      BY <1>4, <3>2, <3>3, <3>4
  <2> QED
    BY <2>3, <2>4
<1>5. \/ x.r.kind = "indexed" /\ i \in DOMAIN space /\ space[i] = f /\ x.table = t
      \/ /\ x.r.kind = "literal" /\ x.r.field = f /\ x.r.add \in BOOLEAN
         /\ i = 0 \/ (i \in DOMAIN space /\ space[i].name = f.name)
         /\ x.table = IF x.r.add THEN Retained(Append(t, f), d.max) ELSE t
  <2>1. Represents(x, f, d.table, d.max)
    BY <1>1, RepresentationIs
  <2> QED
    BY <2>1, Zenon DEF Represents
<1> HIDE DEF space, t, i
<1> QED
  BY <1>3, <1>4, <1>5, Zenon

\* A block that is being written: what it holds, and the table it leaves so far.
Written == [block : Seq(Representation), table : Seq(Header)]

\* The blocks in acc, each with one more header.
Extended(acc, f, max) ==
    UNION {{[block |-> Append(a.block, x.r), table |-> x.table] :
               x \in Representations(f, a.table, max)} : a \in acc}

\* A block with one more header is a block, from one that was there.
LEMMA ExtendedIs ==
  ASSUME NEW acc \in SUBSET Written, NEW f \in Header, NEW max \in Nat
  PROVE  /\ Extended(acc, f, max) \in SUBSET Written
         /\ \A b \in Extended(acc, f, max) :
               \E a \in acc : \E x \in Representations(f, a.table, max) :
               b.block = Append(a.block, x.r) /\ b.table = x.table
<1>1. ASSUME NEW b \in Extended(acc, f, max)
      PROVE  /\ b \in Written
             /\ \E a \in acc : \E x \in Representations(f, a.table, max) :
                   b.block = Append(a.block, x.r) /\ b.table = x.table
  <2>1. PICK a \in acc : b \in {[block |-> Append(a.block, x.r), table |-> x.table] :
                                   x \in Representations(f, a.table, max)}
    BY <1>1, Zenon DEF Extended
  <2>2. PICK x \in Representations(f, a.table, max) :
                b = [block |-> Append(a.block, x.r), table |-> x.table]
    BY <2>1, Zenon
  <2>3. a.block \in Seq(Representation) /\ a.table \in Seq(Header)
    BY DEF Written
  <2>4. x.r \in Representation /\ x.table \in Seq(Header)
    BY <2>3, RepresentationsType
  <2>5. Append(a.block, x.r) \in Seq(Representation)
    BY <2>3, <2>4
  <2>6. b.block = Append(a.block, x.r) /\ b.table = x.table
    BY <2>2
  <2>7. b \in Written
    BY <2>2, <2>4, <2>5 DEF Written
  <2> QED
    BY <2>6, <2>7
<1> QED
  BY <1>1

\* What is written after each of the headers.
Writes(h, fields, block, t, max) ==
    /\ h \in [0 .. Len(fields) -> SUBSET Written]
    /\ h[0] = {[block |-> block, table |-> t]}
    /\ \A k \in 0 .. Len(fields) - 1 : h[k + 1] = Extended(h[k], fields[k + 1], max)
    /\ Blocks(fields, block, t, max) = h[Len(fields)]

\* The blocks for a list of headers are written header by header.
LEMMA BlocksAreARun ==
  ASSUME NEW fields \in Seq(Header), NEW block \in Seq(Representation),
         NEW t \in Seq(Header), NEW max \in Nat
  PROVE  \E h : Writes(h, fields, block, t, max)
<1> DEFINE n == Len(fields)
           V == SUBSET Written
           base == {[block |-> block, table |-> t]}
           body(f, r) == IF r = {} THEN base
                         ELSE Extended(f[r \ {Max(r)}], fields[Max(r)], max)
           P(f) == f = [r \in SUBSET (DOMAIN fields) |-> body(f, r)]
           F == CHOOSE f : P(f)
           adds == [q \in V \X (1 .. n) |-> Extended(q[1], fields[q[2]], max)]
<1>1. n \in Nat /\ DOMAIN fields = 1 .. n /\ \A i \in 1 .. n : fields[i] \in Header
  OBVIOUS
<1>2. Blocks(fields, block, t, max) = F[1 .. n]
  BY <1>1 DEF Blocks, FoldLeft, MapThenFoldSet, Extended
<1>3. adds \in [V \X (1 .. n) -> V]
  BY <1>1, ExtendedIs
<1>4. ASSUME NEW f, NEW r \in SUBSET (1 .. n), r # {}, f[r \ {Max(r)}] \in V
      PROVE  adds[<<f[r \ {Max(r)}], Max(r)>>] = Extended(f[r \ {Max(r)}], fields[Max(r)], max)
  <2>1. Max(r) \in 1 .. n
    BY <1>1, <1>4, Greatest
  <2> HIDE DEF V
  <2> QED
    BY <1>4, <2>1
<1>5. base \in V
  BY DEF Written
<1>6. P(F)
  <2>1. PICK f \in [SUBSET (1 .. n) -> V] : Folds(f, n, base, adds)
    <3> HIDE DEF adds, n, V, base
    <3> QED
      BY <1>1, <1>3, <1>5, FoldExists
  <2>2. P(f)
    <3>1. ASSUME NEW r \in SUBSET (1 .. n), r # {}
          PROVE  adds[<<f[r \ {Max(r)}], Max(r)>>]
                    = Extended(f[r \ {Max(r)}], fields[Max(r)], max)
      <4>1. f[r \ {Max(r)}] \in V
        BY <2>1
      <4> HIDE DEF adds, V
      <4> QED
        BY <1>4, <3>1, <4>1
    <3> HIDE DEF adds, base
    <3> QED
      BY <1>1, <2>1, <3>1 DEF Folds
  <2> HIDE DEF P
  <2> QED
    BY <2>2, Zenon
<1> HIDE DEF F
<1>7. F[{}] = base
  BY <1>6
<1>8. ASSUME NEW r \in SUBSET (1 .. n), r # {} /\ F[r \ {Max(r)}] \in V
      PROVE  F[r] = adds[<<F[r \ {Max(r)}], Max(r)>>]
  <2>1. F[r] = Extended(F[r \ {Max(r)}], fields[Max(r)], max)
    BY <1>1, <1>6, <1>8
  <2> HIDE DEF adds
  <2> QED
    BY <1>4, <1>8, <2>1
<1>9. PICK h \in [0 .. n -> V] : Passes(h, n, base, adds)
  <2> HIDE DEF n, V, base, adds
  <2> QED
    BY <1>1, <1>3, <1>5, RunExists
<1>10. ASSUME NEW k \in 0 .. n - 1
       PROVE  h[k + 1] = Extended(h[k], fields[k + 1], max)
  <2>1. k \in 0 .. n /\ k + 1 \in 1 .. n /\ k + 1 \in 0 .. n
    BY <1>1
  <2>2. h[k + 1] = adds[<<h[k], k + 1>>]
    BY <1>9 DEF Passes
  <2>3. h[k] \in V
    <3> HIDE DEF V, n
    <3> QED
      BY <1>9, <2>1
  <2> HIDE DEF V
  <2> QED
    BY <2>1, <2>2, <2>3
<1>11. F[1 .. n] = h[n]
  <2>1. Gathers(F, n, V, base, adds)
    BY <1>7, <1>8 DEF Gathers
  <2>2. n \in Nat /\ h \in [0 .. n -> V] /\ Passes(h, n, base, adds)
    BY <1>1, <1>9
  <2> HIDE DEF adds, n, V, base
  <2>3. EndsLike(F, h, n)
    BY <1>3, <1>5, <2>1, <2>2, RunIsFold
  <2> QED
    BY <2>3 DEF EndsLike
<1>12. h[0] = base
  BY <1>9 DEF Passes
<1> QED
  BY <1>2, <1>9, <1>10, <1>11, <1>12 DEF Writes

\* What the client has read, e, and what the server has written, b, of k headers.
Agrees(e, b, fields, k, max) ==
    /\ e \in Decoder /\ b \in Written /\ Used(b.table) <= max
    /\ ~e.ok => \E i \in 1 .. k : Cost[fields[i].value] > HPACK_STR_MAX
    /\ e.ok => /\ e.table = b.table /\ e.max = max
               /\ StatusFirst(fields) /\ k > 0 => e.status = fields[1].value

\* One header more, and they still agree.
LEMMA StillAgrees ==
  ASSUME NEW fields \in Seq(Header), NEW k \in Nat, k < Len(fields), NEW max \in Nat,
         NEW e, NEW a, Agrees(e, a, fields, k, max),
         NEW x \in Representations(fields[k + 1], a.table, max),
         NEW b \in Written, b.block = Append(a.block, x.r), b.table = x.table
  PROVE  Agrees(DecodeOne(e, x.r), b, fields, k + 1, max)
<1> DEFINE f == fields[k + 1]
           c == DecodeOne(e, x.r)
<1>1. /\ f \in Header /\ k + 1 \in 1 .. k + 1 /\ 1 .. k \subseteq 1 .. k + 1
      /\ \A i \in 1 .. k : i \in 1 .. k + 1
  OBVIOUS
<1>2. e \in Decoder /\ a.table \in Seq(Header) /\ a.block \in Seq(Representation)
  BY DEF Agrees, Written
<1>3. x.r \in Representation /\ Used(x.table) <= max
  <2>1. Used(a.table) <= max
    BY DEF Agrees
  <2> QED
    BY <1>1, <1>2, <2>1, RepresentationsType
<1>4. c \in Decoder
  BY <1>2, <1>3, DecodeOneType
<1> HIDE DEF f
<1> SUFFICES Agrees(c, b, fields, k + 1, max)
  OBVIOUS
<1>5. CASE ~e.ok
  <2>1. c = e
    BY <1>5 DEF DecodeOne
  <2>2. PICK i \in 1 .. k : Cost[fields[i].value] > HPACK_STR_MAX
    BY <1>5 DEF Agrees
  <2>3. \E j \in 1 .. k + 1 : Cost[fields[j].value] > HPACK_STR_MAX
    BY <1>1, <2>2
  <2> HIDE DEF c
  <2>4. ~c.ok
    BY <1>5, <2>1
  <2>5. Used(b.table) <= max
    BY <1>3, Zenon
  <2> QED
    BY <2>5, <1>4, <2>3, <2>4, Zenon DEF Agrees
<1>6. CASE e.ok
  <2>1. e.table = a.table /\ e.max = max
    BY <1>6 DEF Agrees
  <2>2. x \in Representations(f, e.table, e.max)
    BY <2>1 DEF f
  <2>3. /\ ~c.ok => Cost[f.value] > HPACK_STR_MAX
        /\ c.ok => c.table = x.table /\ c.max = e.max /\ c.status = StatusSeen(e, f)
    BY <1>1, <1>2, <1>6, <2>2, OneHeader, Zenon
  <2> HIDE DEF c
  <2>4. ~c.ok => \E i \in 1 .. k + 1 : Cost[fields[i].value] > HPACK_STR_MAX
    BY <1>1, <2>3 DEF f
  <2>5. ASSUME c.ok, StatusFirst(fields)
        PROVE  c.status = fields[1].value
    <3>1. c.status = StatusSeen(e, f)
      BY <2>3, <2>5
    <3>2. CASE k = 0
      BY <2>5, <3>1, <3>2 DEF StatusFirst, StatusSeen, f
    <3>3. CASE k > 0
      <4>1. k + 1 \in 2 .. Len(fields)
        BY <3>3
      <4>2. f.name # "status"
        BY <2>5, <4>1 DEF StatusFirst, f
      <4>3. e.status = fields[1].value
        BY <1>6, <2>5, <3>3 DEF Agrees
      <4> QED
        BY <3>1, <4>2, <4>3 DEF StatusSeen
    <3> QED
      BY <3>2, <3>3
  <2>6. c.ok => c.table = b.table /\ c.max = max
    BY <2>1, <2>3
  <2>7. Used(b.table) <= max
    BY <1>3, Zenon
  <2> QED
    BY <1>4, <2>4, <2>5, <2>6, <2>7, Zenon DEF Agrees
<1> QED
  BY <1>5, <1>6

\* Every block of a server that keeps its table as the client does is read as it was
\* meant, or the client refuses a header it has no room for.
LEMMA BlocksDecode ==
  ASSUME NEW fields \in Seq(Header), NEW block \in Seq(Representation),
         NEW t \in Seq(Header), NEW max \in Nat, NEW d \in Decoder, Used(t) <= max,
         DecodeFrom(d, block) = [ok |-> TRUE, table |-> t, max |-> max, status |-> 0],
         NEW b \in Blocks(fields, block, t, max)
  PROVE  Agrees(DecodeFrom(d, b.block), b, fields, Len(fields), max)
<1> DEFINE n == Len(fields)
<1>1. PICK h : Writes(h, fields, block, t, max)
  BY BlocksAreARun
<1>2. /\ h \in [0 .. n -> SUBSET Written]
      /\ h[0] = {[block |-> block, table |-> t]}
      /\ \A k \in 0 .. n - 1 : h[k + 1] = Extended(h[k], fields[k + 1], max)
      /\ Blocks(fields, block, t, max) = h[n]
  BY <1>1 DEF Writes
<1> DEFINE S == {k \in Nat : k <= n =>
                    \A a \in h[k] : Agrees(DecodeFrom(d, a.block), a, fields, k, max)}
<1>3. 0 \in S
  <2>1. ASSUME NEW a \in h[0]
        PROVE  Agrees(DecodeFrom(d, a.block), a, fields, 0, max)
    <3>1. a = [block |-> block, table |-> t]
      BY <1>2, <2>1
    <3>2. a \in Written /\ a.block = block /\ a.table = t
      BY <3>1 DEF Written
    <3> DEFINE e == DecodeFrom(d, block)
    <3>3. e \in Decoder /\ e.ok /\ e.table = t /\ e.max = max
      BY DEF Decoder
    <3> HIDE DEF e
    <3>4. Agrees(e, a, fields, 0, max)
      BY <3>2, <3>3 DEF Agrees
    <3> QED
      BY <3>2, <3>4 DEF e
  <2> QED
    BY <2>1
<1>4. ASSUME NEW k \in S
      PROVE  k + 1 \in S
  <2> SUFFICES ASSUME k + 1 <= n, NEW c \in h[k + 1]
               PROVE  Agrees(DecodeFrom(d, c.block), c, fields, k + 1, max)
    OBVIOUS
  <2>1. /\ k \in Nat /\ k \in 0 .. n - 1 /\ k < n /\ k \in 0 .. n
        /\ \A a \in h[k] : Agrees(DecodeFrom(d, a.block), a, fields, k, max)
    OBVIOUS
  <2>2. fields[k + 1] \in Header /\ h[k] \in SUBSET Written
    <3>1. k + 1 \in 1 .. n
      BY <2>1
    <3>2. fields[k + 1] \in Header
      BY <3>1
    <3> DEFINE W == SUBSET Written
    <3>3. h \in [0 .. n -> W] /\ k \in 0 .. n
      BY <1>2, <2>1
    <3> HIDE DEF W, n
    <3>4. h[k] \in W
      BY <3>3
    <3> QED
      BY <3>2, <3>4 DEF W
  <2>3. c \in Extended(h[k], fields[k + 1], max)
    <3>1. h[k + 1] = Extended(h[k], fields[k + 1], max)
      BY <1>2, <2>1, Zenon
    <3> QED
      BY <3>1
  <2>4. c \in Written /\ \E a \in h[k] : \E x \in Representations(fields[k + 1], a.table, max) :
              c.block = Append(a.block, x.r) /\ c.table = x.table
    BY <2>2, <2>3, ExtendedIs
  <2>5. PICK a \in h[k] : \E x \in Representations(fields[k + 1], a.table, max) :
              c.block = Append(a.block, x.r) /\ c.table = x.table
    BY <2>4
  <2>6. PICK x \in Representations(fields[k + 1], a.table, max) :
                c.block = Append(a.block, x.r) /\ c.table = x.table
    BY <2>5
  <2>7. a.block \in Seq(Representation) /\ a.table \in Seq(Header)
    BY <2>2 DEF Written
  <2>8. x.r \in Representation
    BY <2>2, <2>7, RepresentationsType
  <2>9. DecodeFrom(d, c.block) = DecodeOne(DecodeFrom(d, a.block), x.r)
    BY <2>6, <2>7, <2>8, DecodeAppend
  <2>10. Agrees(DecodeFrom(d, a.block), a, fields, k, max)
    BY <2>1
  <2> DEFINE e == DecodeFrom(d, a.block)
  <2> HIDE DEF e
  <2>11. Agrees(e, a, fields, k, max)
    BY <2>10 DEF e
  <2>12. Agrees(DecodeOne(e, x.r), c, fields, k + 1, max)
    BY <2>1, <2>4, <2>6, <2>11, StillAgrees
  <2> QED
    BY <2>9, <2>12 DEF e
<1>5. S = Nat
  <2>1. S \in SUBSET Nat
    OBVIOUS
  <2> HIDE DEF S
  <2> QED
    BY <1>3, <1>4, <2>1, SetInduction
<1> QED
  BY <1>2, <1>5

\* What the server and the client keep.
PeerSet ==
    [stage : {"start", "block", "body", "done"}, rest : Seq(Representation), ends : BOOLEAN,
     table : Seq(Header), max : EncoderMaxes, status : Nat, len : Nat, block : Nat,
     huge : BOOLEAN, gone : BOOLEAN]

ConnSet ==
    [table : Seq(Header), max : Nat, hblock : Seq(Representation), ends : BOOLEAN,
     status : Nat, len : Nat, frames : Nat, result : {"reading", "done", "failed"}]

\* Between two blocks, the client knows what the server does.
InStep(c, p) ==
    /\ c.table = p.table /\ c.max = p.max /\ c.status = p.status
    /\ c.hblock = <<>> /\ ~c.ends

\* The decoder at the start of a block.
AtStart(c) == [ok |-> TRUE, table |-> c.table, max |-> c.max, status |-> 0]

\* What the status in the block is to be: an interim one, the response's, or nothing to
\* the client, which knows the response's.
Announced(got, c, p) ==
    \/ p.status = 0 /\ c.status = 0 /\ ~p.ends /\ (got.ok => IsInterim(got.status))
    \/ p.status # 0 /\ ~IsInterim(p.status) /\ c.status = 0 /\ (got.ok => got.status = p.status)
    \/ p.status # 0 /\ c.status = p.status /\ p.ends

\* Within a block, it will, once it has read what is left.
InBlock(c, p) ==
    LET got == DecodeFrom(AtStart(c), c.hblock \o p.rest)
    IN  /\ c.ends = p.ends /\ p.block = Len(c.hblock)
        /\ ~got.ok => p.huge
        /\ got.ok => got.table = p.table /\ got.max = p.max
        /\ Announced(got, c, p)

\* While it reads, the client is where the server is.
Following(c, p) ==
    /\ c.len = p.len
    /\ p.stage = "start" => InStep(c, p) /\ p.status = 0
    /\ p.stage = "body" => InStep(c, p) /\ p.status # 0
    /\ p.stage = "block" => InBlock(c, p)

\* WholeOrNothing, of a client and a server.
Whole(c, p) ==
    /\ c.result = "done" => p.stage = "done" /\ c.status = p.status /\ c.len = p.len
    /\ p.stage = "done" => c.result # "reading"
    /\ c.result = "failed" =>
          p.gone \/ p.huge \/ p.len > OutCap \/ p.block > HblockMax \/ c.frames > H2_MAX_FRAMES

\* The invariant: both are well-formed, the server's table fits, and the client follows.
Together(c, p) ==
    /\ c \in ConnSet /\ p \in PeerSet /\ Used(p.table) <= p.max
    /\ c.result = "reading" => c.frames <= H2_MAX_FRAMES /\ Following(c, p)
    /\ Whole(c, p)

H2Inv == Together(conn, peer)

\* A decoder begins with what the client has.
LEMMA AtStartIs ==
  ASSUME NEW c \in ConnSet
  PROVE  AtStart(c) \in Decoder
  BY DEF AtStart, ConnSet, Decoder

\* What a decoder makes of a sequence is a decoder.
LEMMA DecodeType ==
  ASSUME NEW d \in Decoder, NEW s \in Seq(Representation)
  PROVE  DecodeFrom(d, s) \in Decoder
<1>1. PICK h \in [0 .. Len(s) -> Decoder] :
         h[0] = d /\ \A k \in 0 .. Len(s) - 1 : h[k + 1] = DecodeOne(h[k], s[k + 1])
  BY DecodeRunExists
<1>2. DecodeFrom(d, s) = h[Len(s)]
  BY <1>1, DecodeIsRun
<1> QED
  BY <1>1, <1>2

\* The stage that a block leads to.
NextStage(p) == IF p.status = 0 THEN "start" ELSE IF p.ends THEN "done" ELSE "body"

\* At its end, a block is read as it was meant.
LEMMA BlockIsRead ==
  ASSUME NEW c \in ConnSet, c.result = "reading", NEW p \in PeerSet,
         InBlock(c, p), p.rest = <<>>
  PROVE  LET e == BlockEnds(c)
         IN  /\ e \in ConnSet /\ e.frames = c.frames /\ e.len = c.len
             /\ \/ e.result = "failed" /\ p.huge
                \/ e.result = "done" /\ NextStage(p) = "done" /\ e.status = p.status
                \/ /\ e.result = "reading" /\ InStep(e, p)
                   /\ NextStage(p) = IF p.status = 0 THEN "start" ELSE "body"
<1> DEFINE got == DecodeFrom(AtStart(c), c.hblock)
           read == [c EXCEPT !.table = got.table, !.max = got.max, !.hblock = <<>>]
           bad == ~got.ok \/ (c.status = 0 /\ (got.status = 0 \/ (IsInterim(got.status) /\ c.ends)))
           e == BlockEnds(c)
<1>1. c.hblock \in Seq(Representation) /\ c.hblock \o p.rest = c.hblock
  <2>1. c.hblock \in Seq(Representation)
    BY DEF ConnSet
  <2> QED
    BY <2>1, ConcatEmptySeq
<1>2. Decode(c) = got
  BY DEF Decode, AtStart, DecodeFrom
<1>3. got \in Decoder
  BY <1>1, AtStartIs, DecodeType
<1>4. /\ c.ends = p.ends /\ (~got.ok => p.huge)
      /\ got.ok => got.table = p.table /\ got.max = p.max
      /\ Announced(got, c, p)
  BY <1>1, Zenon DEF InBlock
<1>5. e = IF bad THEN Fails(c)
          ELSE IF c.status = 0 /\ IsInterim(got.status) THEN read
          ELSE [read EXCEPT !.status = IF c.status = 0 THEN got.status ELSE @,
                            !.result = IF c.ends THEN "done" ELSE @]
  BY <1>2 DEF BlockEnds
<1>6. /\ got.ok \in BOOLEAN /\ got.table \in Seq(Header) /\ got.max \in Nat /\ got.status \in Nat
  BY <1>3 DEF Decoder
<1>7. c.status \in Nat /\ p.status \in Nat /\ c.ends \in BOOLEAN /\ p.ends \in BOOLEAN
  BY DEF ConnSet, PeerSet
<1> HIDE DEF got, e
<1>8. /\ read \in ConnSet /\ read.table = got.table /\ read.max = got.max /\ read.hblock = <<>>
      /\ read.status = c.status /\ read.ends = c.ends /\ read.len = c.len
      /\ read.frames = c.frames /\ read.result = c.result
  <2> DEFINE t == got.table
             m == got.max
  <2>1. t \in Seq(Header) /\ m \in Nat /\ <<>> \in Seq(Representation)
    BY <1>6
  <2> HIDE DEF t, m
  <2>2. /\ [c EXCEPT !.table = t, !.max = m, !.hblock = <<>>] \in ConnSet
        /\ [c EXCEPT !.table = t, !.max = m, !.hblock = <<>>].table = t
        /\ [c EXCEPT !.table = t, !.max = m, !.hblock = <<>>].max = m
        /\ [c EXCEPT !.table = t, !.max = m, !.hblock = <<>>].hblock = <<>>
    BY <2>1 DEF ConnSet
  <2>3. \A fld \in {"status", "ends", "len", "frames", "result"} :
           [c EXCEPT !.table = t, !.max = m, !.hblock = <<>>][fld] = c[fld]
    BY DEF ConnSet
  <2> QED
    BY <2>2, <2>3 DEF t, m
<1>9. CASE ~got.ok
  <2>1. e = Fails(c)
    BY <1>5, <1>9
  <2> QED
    BY <1>4, <1>9, <2>1 DEF Fails, ConnSet, e
<1>10. CASE got.ok /\ p.status = 0
  <2>1. c.status = 0 /\ ~p.ends /\ IsInterim(got.status) /\ got.status # 0
    BY <1>4, <1>6, <1>10 DEF Announced, IsInterim
  <2>2. e = read
    BY <1>4, <1>5, <1>10, <2>1
  <2>3. InStep(e, p)
    BY <1>4, <1>8, <1>10, <2>1, <2>2 DEF InStep
  <2> QED
    BY <1>8, <1>10, <2>2, <2>3 DEF NextStage, e
<1>11. CASE got.ok /\ p.status # 0
  <2>1. ~bad /\ ~(c.status = 0 /\ IsInterim(got.status))
    BY <1>4, <1>6, <1>11 DEF Announced
  <2>2. (IF c.status = 0 THEN got.status ELSE c.status) = p.status
    BY <1>4, <1>6, <1>11 DEF Announced
  <2>3. e = [read EXCEPT !.status = p.status, !.result = IF c.ends THEN "done" ELSE @]
    BY <1>5, <1>8, <2>1, <2>2
  <2>4. /\ e \in ConnSet /\ e.table = got.table /\ e.max = got.max /\ e.hblock = <<>>
        /\ e.status = p.status /\ e.ends = c.ends /\ e.len = c.len /\ e.frames = c.frames
        /\ e.result = IF c.ends THEN "done" ELSE c.result
    BY <1>7, <1>8, <2>3 DEF ConnSet
  <2>5. CASE p.ends
    BY <1>4, <1>11, <2>4, <2>5 DEF NextStage, e
  <2>6. CASE ~p.ends
    <3>1. InStep(e, p)
      BY <1>4, <1>11, <2>4, <2>6 DEF InStep
    <3> QED
      BY <1>4, <1>11, <2>4, <2>6, <3>1 DEF NextStage, e
  <2> QED
    BY <1>7, <2>5, <2>6
<1> QED
  BY <1>6, <1>9, <1>10, <1>11

\* What the loop makes of a frame that alone would make the client next.
Counted(c, next) ==
    [IF c.frames >= H2_MAX_FRAMES THEN Fails(c) ELSE next EXCEPT !.frames = @ + 1]

\* A client that gives up is well-formed, and counts no frame for it.
LEMMA FailsIs ==
  ASSUME NEW c \in ConnSet
  PROVE  Fails(c) \in ConnSet /\ Fails(c).result = "failed" /\ Fails(c).frames = c.frames
  BY DEF Fails, ConnSet

\* Counting a frame changes nothing else.
LEMMA OneCounted ==
  ASSUME NEW c \in ConnSet, NEW e, e = [c EXCEPT !.frames = @ + 1]
  PROVE  /\ e \in ConnSet /\ e.result = c.result /\ e.frames = c.frames + 1
         /\ e.len = c.len /\ e.status = c.status /\ e.table = c.table
         /\ e.max = c.max /\ e.hblock = c.hblock /\ e.ends = c.ends
<1> DEFINE n == c.frames + 1
<1>1. n \in Nat
  BY DEF ConnSet
<1>2. e = [c EXCEPT !.frames = n]
  BY DEF ConnSet
<1> HIDE DEF n
<1>3. e \in ConnSet /\ e.frames = n
  BY <1>1, <1>2 DEF ConnSet
<1>4. \A fld \in {"result", "len", "status", "table", "max", "hblock", "ends"} : e[fld] = c[fld]
  BY <1>2 DEF ConnSet
<1> QED
  BY <1>3, <1>4 DEF n

\* A frame more, and the two are still together; or it is one too many.
LEMMA OneFrameMore ==
  ASSUME NEW c \in ConnSet, c.frames <= H2_MAX_FRAMES,
         NEW p \in PeerSet, Used(p.table) <= p.max,
         NEW next \in ConnSet, next.frames = c.frames,
         next.result = "reading" => Following(next, p), Whole(next, p)
  PROVE  Together(Counted(c, next), p)
<1> DEFINE e == Counted(c, next)
<1>1. c.frames \in Nat /\ next.frames \in Nat /\ H2_MAX_FRAMES \in Nat
  BY H2Constants DEF ConnSet
<1>2. CASE c.frames >= H2_MAX_FRAMES
  <2>1. e = [Fails(c) EXCEPT !.frames = @ + 1]
    BY <1>2 DEF Counted
  <2>2. e \in ConnSet /\ e.result = "failed" /\ e.frames = c.frames + 1
    BY <2>1, FailsIs, OneCounted
  <2> HIDE DEF e
  <2>3. e.frames > H2_MAX_FRAMES
    BY <1>1, <1>2, <2>2
  <2> QED
    BY <2>2, <2>3 DEF Together, Whole, e
<1>3. CASE ~(c.frames >= H2_MAX_FRAMES)
  <2>1. e = [next EXCEPT !.frames = @ + 1]
    BY <1>3 DEF Counted
  <2>2. /\ e \in ConnSet /\ e.result = next.result /\ e.frames = next.frames + 1
        /\ e.len = next.len /\ e.status = next.status /\ e.table = next.table
        /\ e.max = next.max /\ e.hblock = next.hblock /\ e.ends = next.ends
    BY <2>1, OneCounted
  <2> HIDE DEF e
  <2>3. e.frames <= H2_MAX_FRAMES /\ (next.frames > H2_MAX_FRAMES => e.frames > H2_MAX_FRAMES)
    BY <1>1, <1>3, <2>2
  <2>4. Following(next, p) => Following(e, p)
    <3>1. InStep(next, p) => InStep(e, p)
      BY <2>2 DEF InStep
    <3>2. AtStart(e) = AtStart(next)
      BY <2>2 DEF AtStart
    <3>3. InBlock(next, p) => InBlock(e, p)
      BY <2>2, <3>2, Zenon DEF InBlock, Announced
    <3> QED
      BY <2>2, <3>1, <3>3 DEF Following
  <2>5. Whole(e, p)
    BY <2>2, <2>3 DEF Whole
  <2> QED
    BY <2>2, <2>3, <2>4, <2>5 DEF Together, e
<1> QED
  BY <1>1, <1>2, <1>3

\* A part of a block, m the client with it: the rest is to come, or it was the last.
LEMMA PartIsRead ==
  ASSUME NEW c \in ConnSet, c.result = "reading", c.frames <= H2_MAX_FRAMES,
         NEW m \in ConnSet, m.frames = c.frames, m.result = "reading",
         NEW p \in PeerSet, Used(p.table) <= p.max, m.len = p.len, InBlock(m, p),
         p.stage = IF p.rest = <<>> THEN NextStage(p) ELSE "block"
  PROVE  Together(Counted(c, IF Len(m.hblock) > HblockMax THEN Fails(c)
                             ELSE IF p.rest = <<>> THEN BlockEnds(m) ELSE m), p)
<1> DEFINE next == IF Len(m.hblock) > HblockMax THEN Fails(c)
                   ELSE IF p.rest = <<>> THEN BlockEnds(m) ELSE m
<1> SUFFICES Together(Counted(c, next), p)
  OBVIOUS
<1>1. p.block = Len(m.hblock) /\ Len(m.hblock) \in Nat /\ HblockMax \in Nat
  <2>1. m.hblock \in Seq(Representation)
    BY DEF ConnSet
  <2> QED
    BY <2>1, H2Constants DEF InBlock
<1>2. CASE Len(m.hblock) > HblockMax
  <2>1. next = Fails(c)
    BY <1>2
  <2>2. Fails(c) \in ConnSet /\ Fails(c).result = "failed" /\ Fails(c).frames = c.frames
    BY FailsIs
  <2> HIDE DEF next
  <2>3. Whole(next, p)
    BY <1>1, <1>2, <2>1, <2>2 DEF Whole
  <2> QED
    BY <2>1, <2>2, <2>3, OneFrameMore
<1>3. CASE ~(Len(m.hblock) > HblockMax) /\ p.rest # <<>>
  <2>1. next = m /\ p.stage = "block"
    BY <1>3
  <2> HIDE DEF next
  <2>2. Following(next, p) /\ Whole(next, p)
    BY <2>1 DEF Following, Whole
  <2> QED
    BY <2>1, <2>2, OneFrameMore
<1>4. CASE ~(Len(m.hblock) > HblockMax) /\ p.rest = <<>>
  <2>1. next = BlockEnds(m) /\ p.stage = NextStage(p)
    BY <1>4
  <2>2. /\ next \in ConnSet /\ next.frames = m.frames /\ next.len = m.len
        /\ \/ next.result = "failed" /\ p.huge
           \/ next.result = "done" /\ p.stage = "done" /\ next.status = p.status
           \/ /\ next.result = "reading" /\ InStep(next, p)
              /\ p.stage = IF p.status = 0 THEN "start" ELSE "body"
    BY <1>4, <2>1, BlockIsRead
  <2> HIDE DEF next
  <2>3. next.result = "reading" => Following(next, p)
    BY <2>2 DEF Following
  <2>4. Whole(next, p)
    BY <2>2 DEF Whole
  <2> QED
    BY <2>2, <2>3, <2>4, OneFrameMore
<1> QED
  BY <1>1, <1>2, <1>3, <1>4

\* Where a part of a block leaves the client, but for its end.
Part(c, part, endStream) == [c EXCEPT !.hblock = c.hblock \o part, !.ends = c.ends \/ endStream]

\* What a client with a part of a block is, and what it makes of the part.
LEMMA PartIs ==
  ASSUME NEW c \in ConnSet, NEW part \in Seq(Representation), NEW endStream \in BOOLEAN,
         NEW m, m = Part(c, part, endStream)
  PROVE  /\ m \in ConnSet /\ m.hblock = c.hblock \o part /\ m.ends = (c.ends \/ endStream)
         /\ m.table = c.table /\ m.max = c.max /\ m.status = c.status /\ m.len = c.len
         /\ m.frames = c.frames /\ m.result = c.result
         /\ \A last \in BOOLEAN :
               ReadHeaders(c, part, last, endStream) =
                 IF Len(m.hblock) > HblockMax THEN Fails(c)
                 ELSE IF last THEN BlockEnds(m) ELSE m
<1> DEFINE block == c.hblock \o part
           ends == c.ends \/ endStream
<1>1. block \in Seq(Representation) /\ ends \in BOOLEAN
  BY DEF ConnSet
<1>2. m = [c EXCEPT !.hblock = block, !.ends = ends]
  BY DEF Part
<1>3. \A last \in BOOLEAN : ReadHeaders(c, part, last, endStream) =
         IF Len(block) > HblockMax THEN Fails(c) ELSE IF last THEN BlockEnds(m) ELSE m
  <2>1. [c EXCEPT !.hblock = block, !.ends = @ \/ endStream] = m
    BY <1>2 DEF ConnSet
  <2> QED
    BY <2>1 DEF ReadHeaders
<1> HIDE DEF block, ends
<1>4. m \in ConnSet /\ m.hblock = block /\ m.ends = ends
  BY <1>1, <1>2 DEF ConnSet
<1>5. \A fld \in {"table", "max", "status", "len", "frames", "result"} : m[fld] = c[fld]
  BY <1>2 DEF ConnSet
<1> QED
  BY <1>3, <1>4, <1>5 DEF block, ends

\* What a block begins with, when the encoder's table is to keep max of what it may.
Opening(old, max) == IF max = old THEN <<>> ELSE <<[kind |-> "resize", idx |-> 0, max |-> max]>>

\* After what a block begins with, the decoder's table is the encoder's.
LEMMA OpeningDecodes ==
  ASSUME NEW c \in ConnSet, Used(c.table) <= c.max, NEW max \in EncoderMaxes
  PROVE  /\ Opening(c.max, max) \in Seq(Representation)
         /\ DecodeFrom(AtStart(c), Opening(c.max, max))
              = [ok |-> TRUE, table |-> Retained(c.table, max), max |-> max, status |-> 0]
         /\ Retained(c.table, max) \in Seq(Header) /\ Used(Retained(c.table, max)) <= max
<1> DEFINE d == AtStart(c)
           t == c.table
           r == [kind |-> "resize", idx |-> 0, max |-> max]
           o == Opening(c.max, max)
           u == Retained(t, max)
<1>1. d \in Decoder /\ t \in Seq(Header) /\ c.max \in Nat
  BY AtStartIs DEF ConnSet
<1>2. max \in Nat /\ HPACK_DYN_MAX \in Nat /\ ~(max > HPACK_DYN_MAX)
  BY H2Constants
<1>3. u \in Seq(Header) /\ Used(u) <= max /\ Evicted(t, max) = u /\ (Used(t) <= max => u = t)
  BY <1>1, <1>2, RoomIsMade
<1>4. CASE max = c.max
  <2>1. o = <<>> /\ u = t
    BY <1>3, <1>4 DEF Opening
  <2>2. DecodeFrom(d, o) = d
    BY <1>1, <2>1, DecodeEmpty
  <2>3. d = [ok |-> TRUE, table |-> u, max |-> max, status |-> 0]
    BY <1>4, <2>1 DEF AtStart
  <2>4. o \in Seq(Representation)
    BY <2>1
  <2> QED
    BY <1>3, <2>2, <2>3, <2>4
<1>5. CASE max # c.max
  <2>1. r \in Representation
    BY <1>2 DEF Representation
  <2>2. o = Append(<<>>, r) /\ o \in Seq(Representation)
    BY <1>5, <2>1 DEF Opening
  <2>3. DecodeFrom(d, o) = DecodeOne(DecodeFrom(d, <<>>), r)
    <3>1. <<>> \in Seq(Representation)
      OBVIOUS
    <3> HIDE DEF r, o
    <3> QED
      BY <1>1, <2>1, <2>2, <3>1, DecodeAppend
  <2>4. DecodeFrom(d, o) = DecodeOne(d, r)
    BY <1>1, <2>3, DecodeEmpty
  <2>5. d = [ok |-> TRUE, table |-> t, max |-> c.max, status |-> 0]
    BY DEF AtStart
  <2>6. DecodeOne(d, r) = [ok |-> d.ok, table |-> Evicted(d.table, max), max |-> max,
                           status |-> d.status]
    <3> DEFINE v == Evicted(d.table, max)
    <3>1. r.kind = "resize" /\ r.max = max /\ d.ok
      BY <2>5
    <3>2. v \in Seq(Header)
      BY <1>3, <2>5
    <3> HIDE DEF r, d
    <3>3. DecodeOne(d, r) = [d EXCEPT !.max = r.max, !.table = Evicted(@, r.max)]
      BY <1>2, <3>1 DEF DecodeOne
    <3>4. DecodeOne(d, r) = [d EXCEPT !.max = max, !.table = v]
      BY <3>1, <3>3, Zenon
    <3> HIDE DEF v
    <3> DEFINE e == [d EXCEPT !.max = max, !.table = v]
    <3>5. /\ e \in Decoder /\ e.ok = d.ok /\ e.table = v /\ e.max = max /\ e.status = d.status
      BY <1>1, <1>2, <3>2 DEF Decoder
    <3>6. DecodeOne(d, r) = e
      BY <3>4
    <3> HIDE DEF e
    <3>7. e = [ok |-> d.ok, table |-> v, max |-> max, status |-> d.status]
      BY <3>5 DEF Decoder
    <3> QED
      BY <3>6, <3>7 DEF v
  <2>7. DecodeOne(d, r) = [ok |-> TRUE, table |-> Evicted(t, max), max |-> max, status |-> 0]
    BY <2>5, <2>6
  <2> QED
    BY <1>3, <2>2, <2>4, <2>7
<1> QED
  BY <1>4, <1>5

\* A block cut in two.
LEMMA CutInTwo ==
  ASSUME NEW s \in Seq(Representation), NEW cut \in 0 .. Len(s)
  PROVE  /\ SubSeq(s, 1, cut) \in Seq(Representation)
         /\ SubSeq(s, cut + 1, Len(s)) \in Seq(Representation)
         /\ Len(SubSeq(s, 1, cut)) = cut
         /\ SubSeq(s, 1, cut) \o SubSeq(s, cut + 1, Len(s)) = s
         /\ SubSeq(s, cut + 1, Len(s)) = <<>> <=> cut = Len(s)
<1>1. SubSeq(s, 1, Len(s)) = s
  BY SubSeqFull
<1>2. SubSeq(s, 1, cut) \o SubSeq(s, cut + 1, Len(s)) = SubSeq(s, 1, Len(s))
  <2>1. /\ 1 \in 1 .. Len(s) + 1 /\ cut \in 1 - 1 .. Len(s) /\ Len(s) \in cut .. Len(s)
    OBVIOUS
  <2> QED
    BY <2>1, ConcatAdjacentSubSeq
<1>3. SubSeq(s, 1, cut) \in Seq(Representation) /\ Len(SubSeq(s, 1, cut)) = cut
  OBVIOUS
<1>4. /\ SubSeq(s, cut + 1, Len(s)) \in Seq(Representation)
      /\ Len(SubSeq(s, cut + 1, Len(s))) = Len(s) - cut
  OBVIOUS
<1>5. SubSeq(s, cut + 1, Len(s)) = <<>> <=> cut = Len(s)
  <2> DEFINE u == SubSeq(s, cut + 1, Len(s))
  <2>1. u \in Seq(Representation) /\ Len(u) = Len(s) - cut
    BY <1>4
  <2> HIDE DEF u
  <2>2. u = <<>> <=> Len(u) = 0
    BY <2>1, EmptySeq
  <2>3. u = <<>> <=> cut = Len(s)
    BY <2>1, <2>2
  <2> QED
    BY <2>3 DEF u
<1> QED
  BY <1>1, <1>2, <1>3, <1>4, <1>5

\* What a list of headers says, at this point of the exchange.
Says(fields, endStream, stage, status) ==
    /\ stage = IF status = 0 THEN "start" ELSE IF endStream THEN "done" ELSE "body"
    /\ \/ /\ status = 0 /\ conn.status = 0 /\ ~endStream
          /\ StatusFirst(fields) /\ IsInterim(fields[1].value)
       \/ /\ status # 0 /\ conn.status = 0 /\ ~IsInterim(status)
          /\ StatusFirst(fields) /\ fields[1].value = status
       \/ status # 0 /\ conn.status = status /\ endStream

\* A list of headers, its block cut anywhere, keeps the two together.
LEMMA HeadersKeep ==
  ASSUME H2Inv, InStep(conn, peer), conn.len = peer.len, NEW fields \in Seq(Header),
         NEW endStream \in BOOLEAN, NEW stage, NEW status \in Nat,
         Says(fields, endStream, stage, status), SendHeaders(fields, endStream, stage, status)
  PROVE  H2Inv'
<1> DEFINE c == conn
           p == peer
           t(max) == Retained(peer.table, max)
           opening(max) == IF max = peer.max THEN <<>>
                           ELSE <<[kind |-> "resize", idx |-> 0, max |-> max]>>
<1>1. PICK max \in EncoderMaxes :
        \E b \in Blocks(fields, opening(max), t(max), max) : \E cut \in 0 .. Len(b.block) :
          /\ Reads(ReadHeaders(conn, SubSeq(b.block, 1, cut), cut = Len(b.block), endStream))
          /\ peer' = [peer EXCEPT !.stage = IF cut = Len(b.block) THEN stage ELSE "block",
                !.rest = SubSeq(b.block, cut + 1, Len(b.block)), !.ends = endStream,
                !.table = b.table, !.max = max, !.status = status, !.block = cut,
                !.huge = @ \/ \E f \in ToSet(fields) : Cost[f.value] > HPACK_STR_MAX]
  BY DEF SendHeaders
<1>2. PICK b \in Blocks(fields, opening(max), t(max), max) : \E cut \in 0 .. Len(b.block) :
          /\ Reads(ReadHeaders(conn, SubSeq(b.block, 1, cut), cut = Len(b.block), endStream))
          /\ peer' = [peer EXCEPT !.stage = IF cut = Len(b.block) THEN stage ELSE "block",
                !.rest = SubSeq(b.block, cut + 1, Len(b.block)), !.ends = endStream,
                !.table = b.table, !.max = max, !.status = status, !.block = cut,
                !.huge = @ \/ \E f \in ToSet(fields) : Cost[f.value] > HPACK_STR_MAX]
  BY <1>1
<1>3. PICK cut \in 0 .. Len(b.block) :
          /\ Reads(ReadHeaders(conn, SubSeq(b.block, 1, cut), cut = Len(b.block), endStream))
          /\ peer' = [peer EXCEPT !.stage = IF cut = Len(b.block) THEN stage ELSE "block",
                !.rest = SubSeq(b.block, cut + 1, Len(b.block)), !.ends = endStream,
                !.table = b.table, !.max = max, !.status = status, !.block = cut,
                !.huge = @ \/ \E f \in ToSet(fields) : Cost[f.value] > HPACK_STR_MAX]
  BY <1>2
<1> DEFINE last == cut = Len(b.block)
           part == SubSeq(b.block, 1, cut)
           rest == SubSeq(b.block, cut + 1, Len(b.block))
           huge == peer.huge \/ \E f \in ToSet(fields) : Cost[f.value] > HPACK_STR_MAX
           q == peer'
           m == Part(conn, part, endStream)
           d == AtStart(conn)
<1>4. c \in ConnSet /\ p \in PeerSet /\ Used(p.table) <= p.max
  BY DEF H2Inv, Together
<1>5. /\ c.result = "reading" /\ c.frames <= H2_MAX_FRAMES
      /\ conn' = Counted(c, ReadHeaders(c, part, last, endStream))
  BY <1>3 DEF Reads, Counted, H2Inv, Together
<1>6. p.table = c.table /\ p.max = c.max /\ c.hblock = <<>> /\ ~c.ends
  BY DEF InStep
<1>7. max \in Nat
  BY H2Constants
\* The encoder's table and the decoder's.
<1>8. /\ opening(max) \in Seq(Representation)
      /\ DecodeFrom(d, opening(max)) = [ok |-> TRUE, table |-> t(max), max |-> max, status |-> 0]
      /\ t(max) \in Seq(Header) /\ Used(t(max)) <= max
  <2>1. opening(max) = Opening(c.max, max) /\ t(max) = Retained(c.table, max)
    BY <1>6 DEF Opening
  <2> HIDE DEF opening, t
  <2>2. Used(c.table) <= c.max
    BY <1>4, <1>6
  <2> QED
    BY <1>4, <2>1, <2>2, OpeningDecodes
<1>9. Agrees(DecodeFrom(d, b.block), b, fields, Len(fields), max)
  <2>1. d \in Decoder
    BY <1>4, AtStartIs
  <2> HIDE DEF opening, t, d
  <2> QED
    BY <1>7, <1>8, <2>1, BlocksDecode
<1>10. b.block \in Seq(Representation) /\ b.table \in Seq(Header) /\ Used(b.table) <= max
  BY <1>9 DEF Agrees, Written
<1>11. /\ part \in Seq(Representation) /\ rest \in Seq(Representation) /\ Len(part) = cut
       /\ part \o rest = b.block /\ (rest = <<>> <=> last) /\ cut \in Nat
  <2> DEFINE s == b.block
  <2>1. s \in Seq(Representation) /\ cut \in 0 .. Len(s) /\ cut \in Nat
    BY <1>10
  <2> HIDE DEF s
  <2>2. /\ SubSeq(s, 1, cut) \in Seq(Representation)
        /\ SubSeq(s, cut + 1, Len(s)) \in Seq(Representation)
        /\ Len(SubSeq(s, 1, cut)) = cut
        /\ SubSeq(s, 1, cut) \o SubSeq(s, cut + 1, Len(s)) = s
        /\ SubSeq(s, cut + 1, Len(s)) = <<>> <=> cut = Len(s)
    BY <2>1, CutInTwo
  <2> QED
    BY <2>1, <2>2, Zenon DEF s
<1> HIDE DEF c, p, t, opening, part, rest, d
\* The server, and the client with the part.
<1>12. /\ q \in PeerSet /\ q.stage = (IF last THEN stage ELSE "block") /\ q.rest = rest
       /\ q.ends = endStream /\ q.table = b.table /\ q.max = max /\ q.status = status
       /\ q.block = cut /\ q.huge = huge /\ q.len = p.len
  <2>1. stage \in {"start", "body", "done"} /\ huge \in BOOLEAN
    BY <1>4 DEF Says, PeerSet, p
  <2> DEFINE st == IF last THEN stage ELSE "block"
  <2>2. st \in {"start", "block", "body", "done"}
    BY <2>1
  <2>3. q = [peer EXCEPT !.stage = st, !.rest = rest, !.ends = endStream, !.table = b.table,
                         !.max = max, !.status = status, !.block = cut, !.huge = huge]
    <3>1. peer' = [peer EXCEPT !.stage = st, !.rest = rest, !.ends = endStream,
                !.table = b.table, !.max = max, !.status = status, !.block = cut,
                !.huge = @ \/ \E f \in ToSet(fields) : Cost[f.value] > HPACK_STR_MAX]
      BY <1>3 DEF rest
    <3> QED
      BY <1>4, <3>1 DEF PeerSet, p
  <2> HIDE DEF st, huge, q
  <2>4. /\ q \in PeerSet /\ q.stage = st /\ q.rest = rest
        /\ q.ends = endStream /\ q.table = b.table /\ q.max = max /\ q.status = status
        /\ q.block = cut /\ q.huge = huge /\ q.len = peer.len
    BY <1>4, <1>10, <1>11, <2>1, <2>2, <2>3 DEF PeerSet, p
  <2> QED
    BY <2>4 DEF st, p
<1>13. /\ m \in ConnSet /\ m.hblock = part /\ m.ends = endStream /\ m.table = c.table
       /\ m.max = c.max /\ m.status = c.status /\ m.len = c.len /\ m.frames = c.frames
       /\ m.result = c.result
       /\ ReadHeaders(c, part, last, endStream) =
             IF Len(m.hblock) > HblockMax THEN Fails(c) ELSE IF last THEN BlockEnds(m) ELSE m
  <2>1. last \in BOOLEAN /\ <<>> \o part = part
    BY <1>11, ConcatEmptySeq
  <2> HIDE DEF last, m
  <2>2. /\ m \in ConnSet /\ m.hblock = c.hblock \o part /\ m.ends = (c.ends \/ endStream)
        /\ m.table = c.table /\ m.max = c.max /\ m.status = c.status /\ m.len = c.len
        /\ m.frames = c.frames /\ m.result = c.result
        /\ ReadHeaders(c, part, last, endStream) =
             IF Len(m.hblock) > HblockMax THEN Fails(c) ELSE IF last THEN BlockEnds(m) ELSE m
    <3>1. m = Part(c, part, endStream)
      BY DEF m, c
    <3>2. /\ m \in ConnSet /\ m.hblock = c.hblock \o part /\ m.ends = (c.ends \/ endStream)
          /\ m.table = c.table /\ m.max = c.max /\ m.status = c.status /\ m.len = c.len
          /\ m.frames = c.frames /\ m.result = c.result
          /\ \A flag \in BOOLEAN :
                ReadHeaders(c, part, flag, endStream) =
                  IF Len(m.hblock) > HblockMax THEN Fails(c)
                  ELSE IF flag THEN BlockEnds(m) ELSE m
      <4>1. c \in ConnSet /\ part \in Seq(Representation) /\ endStream \in BOOLEAN
        BY <1>4, <1>11
      <4>2. /\ m \in ConnSet /\ m.hblock = c.hblock \o part /\ m.ends = (c.ends \/ endStream)
        BY ONLY <4>1, <3>1, PartIs
      <4>3. /\ m.table = c.table /\ m.max = c.max /\ m.status = c.status /\ m.len = c.len
            /\ m.frames = c.frames /\ m.result = c.result
        BY ONLY <4>1, <3>1, PartIs
      <4>4. /\ \A flag \in BOOLEAN :
                ReadHeaders(c, part, flag, endStream) =
                  IF Len(m.hblock) > HblockMax THEN Fails(c)
                  ELSE IF flag THEN BlockEnds(m) ELSE m
        BY ONLY <4>1, <3>1, PartIs
      <4> QED
        BY <4>2, <4>3, <4>4
    <3> QED
      BY <2>1, <3>2
  <2> QED
    BY <1>6, <2>1, <2>2
<1>14. Used(q.table) <= q.max /\ m.len = q.len
  BY <1>10, <1>12, <1>13 DEF c, p
<1>15. InBlock(m, q)
  <2> DEFINE got == DecodeFrom(AtStart(m), m.hblock \o q.rest)
  <2>1. got = DecodeFrom(d, b.block)
    <3>1. AtStart(m) = d
      BY <1>13 DEF AtStart, d, c
    <3>2. m.hblock \o q.rest = b.block
      BY <1>11, <1>12, <1>13
    <3> QED
      BY <3>1, <3>2, Zenon
  <2> HIDE DEF got, m, q, last
  <2>2. /\ got.ok \in BOOLEAN /\ got.ok => got.table = b.table /\ got.max = max
        /\ got.ok => (StatusFirst(fields) /\ Len(fields) > 0 => got.status = fields[1].value)
        /\ ~got.ok => \E i \in 1 .. Len(fields) : Cost[fields[i].value] > HPACK_STR_MAX
    BY <1>9, <2>1 DEF Agrees, Decoder
  <2>3. ~got.ok => q.huge
    <3>1. \A i \in 1 .. Len(fields) : fields[i] \in ToSet(fields)
      BY DEF ToSet
    <3> QED
      BY <1>12, <2>2, <3>1 DEF huge
  <2>4. got.ok /\ StatusFirst(fields) => got.status = fields[1].value
    <3>1. StatusFirst(fields) => Len(fields) > 0
      BY DEF StatusFirst
    <3> QED
      BY <2>2, <3>1
  <2>5. Announced(got, m, q)
    BY <1>12, <1>13, <2>4 DEF Says, Announced, c
  <2>6. q.block = Len(m.hblock)
    BY <1>11, <1>12, <1>13
  <2> QED
    BY <1>12, <1>13, <2>2, <2>3, <2>5, <2>6 DEF InBlock, got
<1>16. q.stage = IF q.rest = <<>> THEN NextStage(q) ELSE "block"
  BY <1>11, <1>12 DEF NextStage, Says
<1>17. Together(conn', q)
  <2>1. conn' = Counted(c, IF Len(m.hblock) > HblockMax THEN Fails(c)
                           ELSE IF q.rest = <<>> THEN BlockEnds(m) ELSE m)
    <3>1. last <=> q.rest = <<>>
      BY <1>11, <1>12
    <3> HIDE DEF last, m, q
    <3> QED
      BY <1>5, <1>13, <3>1
  <2> HIDE DEF m, q
  <2>2. Together(Counted(c, IF Len(m.hblock) > HblockMax THEN Fails(c)
                            ELSE IF q.rest = <<>> THEN BlockEnds(m) ELSE m), q)
    BY <1>4, <1>5, <1>12, <1>13, <1>14, <1>15, <1>16, PartIsRead
  <2> QED
    BY <2>1, <2>2
<1> QED
  BY <1>17 DEF H2Inv

\* It does not matter which parts of a block are joined first.
LEMMA JoinsAssociate ==
  ASSUME NEW s \in Seq(Representation), NEW t \in Seq(Representation),
         NEW u \in Seq(Representation)
  PROVE  (s \o t) \o u = s \o (t \o u)
  BY ConcatAssociative

\* So does the rest of a block, or a part of it,
LEMMA ContinuationKeeps ==
  ASSUME H2Inv, SendContinuation
  PROVE  H2Inv'
<1> DEFINE c == conn
           p == peer
           r == peer.rest
<1>1. PICK cut \in 1 .. Len(r) :
        /\ Reads(ReadHeaders(c, SubSeq(r, 1, cut), cut = Len(r), FALSE))
        /\ peer' = [peer EXCEPT !.rest = SubSeq(@, cut + 1, Len(@)), !.block = @ + cut,
              !.stage = IF ~(cut = Len(r)) THEN @ ELSE IF peer.status = 0 THEN "start"
                        ELSE IF peer.ends THEN "done" ELSE "body"]
  BY DEF SendContinuation
<1> DEFINE last == cut = Len(r)
           part == SubSeq(r, 1, cut)
           rest == SubSeq(r, cut + 1, Len(r))
           stage == IF last THEN NextStage(p) ELSE "block"
           block == p.block + cut
           q == peer'
           m == Part(c, part, FALSE)
<1>2. c \in ConnSet /\ p \in PeerSet /\ Used(p.table) <= p.max /\ p.stage = "block"
  BY DEF H2Inv, Together, SendContinuation
<1>3. /\ c.result = "reading" /\ c.frames <= H2_MAX_FRAMES
      /\ conn' = Counted(c, ReadHeaders(c, part, last, FALSE))
  BY <1>1 DEF Reads, Counted, H2Inv, Together
<1>4. c.len = p.len /\ InBlock(c, p)
  BY <1>2, <1>3 DEF H2Inv, Together, Following
<1>5. r \in Seq(Representation) /\ cut \in 0 .. Len(r) /\ cut \in Nat
  BY <1>2 DEF PeerSet
<1> HIDE DEF c, p, r
<1>6. /\ part \in Seq(Representation) /\ rest \in Seq(Representation) /\ Len(part) = cut
      /\ part \o rest = r /\ (rest = <<>> <=> last)
  BY <1>5, CutInTwo
<1> HIDE DEF part, rest
<1>7. /\ q \in PeerSet /\ q.stage = stage /\ q.rest = rest /\ q.block = block
      /\ \A fld \in {"ends", "table", "max", "status", "len", "huge", "gone"} : q[fld] = p[fld]
  <2>1. stage \in {"start", "block", "body", "done"} /\ block \in Nat
    BY <1>2, <1>5 DEF NextStage, PeerSet
  <2>2. q = [p EXCEPT !.rest = rest, !.block = block, !.stage = stage]
    BY <1>1, <1>2 DEF PeerSet, p, r, rest, NextStage
  <2> HIDE DEF stage, block, q
  <2> QED
    BY <1>2, <1>6, <2>1, <2>2 DEF PeerSet
<1> HIDE DEF q, m
<1>8. /\ m \in ConnSet /\ m.hblock = c.hblock \o part /\ m.ends = c.ends
      /\ m.table = c.table /\ m.max = c.max /\ m.status = c.status /\ m.len = c.len
      /\ m.frames = c.frames /\ m.result = c.result
      /\ ReadHeaders(c, part, last, FALSE) =
            IF Len(m.hblock) > HblockMax THEN Fails(c) ELSE IF last THEN BlockEnds(m) ELSE m
  <2> DEFINE no == FALSE
  <2>1. m = Part(c, part, no) /\ no \in BOOLEAN
    BY DEF m
  <2> HIDE DEF no
  <2>2. c \in ConnSet /\ part \in Seq(Representation) /\ no \in BOOLEAN
    BY <1>2, <1>6, <2>1
  <2>3. m = Part(c, part, no)
    BY <2>1
  <2>4. m \in ConnSet /\ m.hblock = c.hblock \o part
    BY ONLY <2>2, <2>3, PartIs
  <2>5. m.ends = c.ends
    <3> DEFINE h == c.hblock \o part
    <3>1. m = [c EXCEPT !.hblock = h, !.ends = c.ends]
      BY <1>2 DEF m, Part, ConnSet
    <3> HIDE DEF h
    <3> QED
      BY <1>2, <3>1 DEF ConnSet
  <2>6. /\ m.table = c.table /\ m.max = c.max /\ m.status = c.status /\ m.len = c.len
        /\ m.frames = c.frames /\ m.result = c.result
    BY ONLY <2>2, <2>3, PartIs
  <2>7. \A flag \in BOOLEAN :
           ReadHeaders(c, part, flag, no) =
              IF Len(m.hblock) > HblockMax THEN Fails(c) ELSE IF flag THEN BlockEnds(m) ELSE m
    BY ONLY <2>2, <2>3, PartIs
  <2>8. last \in BOOLEAN /\ c.ends \in BOOLEAN
    BY <1>2 DEF ConnSet
  <2> QED
    BY <2>4, <2>5, <2>6, <2>7, <2>8 DEF no
<1>9. InBlock(m, q)
  <2> DEFINE got == DecodeFrom(AtStart(c), c.hblock \o r)
             h == c.hblock
  <2>1. /\ c.ends = p.ends /\ p.block = Len(h)
        /\ ~got.ok => p.huge
        /\ got.ok => got.table = p.table /\ got.max = p.max
        /\ Announced(got, c, p)
    BY <1>4, Zenon DEF InBlock, p, r
  <2>2. h \in Seq(Representation)
    BY <1>2 DEF ConnSet
  <2>3. (h \o part) \o rest = h \o r /\ Len(h \o part) = Len(h) + cut
    <3> HIDE DEF h
    <3>1. (h \o part) \o rest = h \o (part \o rest)
      <4>1. part \in Seq(Representation) /\ rest \in Seq(Representation)
        BY <1>6
      <4> QED
        BY <2>2, <4>1, JoinsAssociate
    <3>2. Len(h \o part) = Len(h) + Len(part)
      BY <1>6, <2>2, ConcatProperties
    <3> QED
      BY <1>6, <3>1, <3>2
  <2>4. AtStart(m) = AtStart(c)
    BY <1>8 DEF AtStart
  <2>5. DecodeFrom(AtStart(m), m.hblock \o q.rest) = got
    <3>1. m.hblock \o q.rest = h \o r
      BY <1>7, <1>8, <2>3
    <3> QED
      BY <2>4, <3>1, Zenon
  <2>6. q.block = Len(m.hblock)
    BY <1>7, <1>8, <2>1, <2>3
  <2> HIDE DEF got, last
  <2>7. Announced(got, m, q)
    BY <1>7, <1>8, <2>1 DEF Announced
  <2>8. /\ m.ends = q.ends /\ (~got.ok => q.huge)
        /\ got.ok => got.table = q.table /\ got.max = q.max
    BY <1>7, <1>8, <2>1
  <2> QED
    BY <2>5, <2>6, <2>7, <2>8, Zenon DEF InBlock
<1>10. q.stage = (IF q.rest = <<>> THEN NextStage(q) ELSE "block") /\ (last <=> q.rest = <<>>)
  BY <1>6, <1>7 DEF NextStage
<1>11. Used(q.table) <= q.max /\ m.len = q.len
  BY <1>2, <1>4, <1>7, <1>8
<1>12. Together(conn', q)
  <2>1. conn' = Counted(c, IF Len(m.hblock) > HblockMax THEN Fails(c)
                           ELSE IF q.rest = <<>> THEN BlockEnds(m) ELSE m)
    <3> HIDE DEF last
    <3> QED
      BY <1>3, <1>8, <1>10
  <2>2. Together(Counted(c, IF Len(m.hblock) > HblockMax THEN Fails(c)
                            ELSE IF q.rest = <<>> THEN BlockEnds(m) ELSE m), q)
    BY <1>2, <1>3, <1>7, <1>8, <1>9, <1>10, <1>11, PartIsRead
  <2> QED
    BY <2>1, <2>2
<1> QED
  BY <1>12 DEF H2Inv, q

\* and a part of the body.
LEMMA DataKeeps ==
  ASSUME H2Inv, NEW n \in Nat, NEW endStream \in BOOLEAN, SendData(n, endStream)
  PROVE  H2Inv'
<1> DEFINE c == conn
           p == peer
           stage == IF endStream THEN "done" ELSE "body"
           len == p.len + n
           q == peer'
           next == ReadData(c, n, endStream)
<1>1. /\ c \in ConnSet /\ p \in PeerSet /\ Used(p.table) <= p.max /\ p.stage = "body"
      /\ c.result = "reading" /\ c.frames <= H2_MAX_FRAMES /\ c.len = p.len
      /\ InStep(c, p) /\ p.status # 0 /\ c.status = p.status
  BY DEF H2Inv, Together, Following, SendData, Reads, InStep
<1>2. conn' = Counted(c, next)
  BY DEF SendData, Reads, Counted
<1>3. c.len \in Nat /\ OutCap \in Nat /\ len \in Nat /\ stage \in {"body", "done"}
  BY <1>1, H2Constants DEF ConnSet
<1> DEFINE more == [c EXCEPT !.len = len, !.result = IF endStream THEN "done" ELSE c.result]
<1>4. next = IF n > OutCap - c.len THEN Fails(c) ELSE more
  BY <1>1 DEF ReadData, ConnSet
<1>5. q = [p EXCEPT !.len = len, !.stage = stage]
  BY <1>1 DEF SendData, PeerSet
<1> HIDE DEF c, p, q, len, stage, next
<1>6. /\ q \in PeerSet /\ q.len = len /\ q.stage = stage
      /\ \A fld \in {"rest", "ends", "table", "max", "status", "block", "huge", "gone"} :
            q[fld] = p[fld]
  BY <1>1, <1>3, <1>5 DEF PeerSet
<1>7. Used(q.table) <= q.max
  BY <1>1, <1>6
<1>8. CASE n > OutCap - c.len
  <2>1. next = Fails(c)
    BY <1>4, <1>8
  <2>2. next \in ConnSet /\ next.result = "failed" /\ next.frames = c.frames
    BY <1>1, <2>1, FailsIs
  <2>3. len > OutCap
    BY <1>1, <1>3, <1>8 DEF len
  <2>4. Whole(next, q)
    BY <1>6, <2>2, <2>3 DEF Whole
  <2> QED
    BY <1>1, <1>2, <1>6, <1>7, <2>2, <2>4, OneFrameMore DEF H2Inv, q
<1>9. CASE ~(n > OutCap - c.len)
  <2>1. next = more
    BY <1>4, <1>9
  <2>2. /\ next \in ConnSet /\ next.len = len
        /\ next.result = (IF endStream THEN "done" ELSE c.result)
    BY <1>1, <1>3, <2>1 DEF ConnSet
  <2>3. \A fld \in {"table", "max", "hblock", "ends", "status", "frames"} : next[fld] = c[fld]
    BY <2>1, <1>1 DEF ConnSet
  <2>4. next.result = "reading" => Following(next, q)
    BY <1>1, <1>6, <2>2, <2>3 DEF Following, InStep, stage
  <2>5. Whole(next, q)
    BY <1>1, <1>6, <2>2, <2>3 DEF Whole, stage
  <2> QED
    BY <1>1, <1>2, <1>6, <1>7, <2>2, <2>3, <2>4, <2>5, OneFrameMore DEF H2Inv, q
<1> QED
  BY <1>3, <1>8, <1>9

\* The two begin together
LEMMA H2InitInv == H2Init => H2Inv
<1> SUFFICES ASSUME H2Init PROVE H2Inv
  OBVIOUS
<1>1. conn \in ConnSet /\ peer \in PeerSet
  BY H2Constants DEF H2Init, ConnOpens, PeerOpens, ConnSet, PeerSet
<1>2. Used(peer.table) = 0
  BY UsedEmpty DEF H2Init, PeerOpens
<1>3. Used(peer.table) <= peer.max
  BY <1>2, H2Constants DEF H2Init, PeerOpens
<1>4. Following(conn, peer) /\ conn.frames <= H2_MAX_FRAMES
  BY H2Constants DEF H2Init, ConnOpens, PeerOpens, Following, InStep
<1>5. Whole(conn, peer)
  BY DEF H2Init, ConnOpens, PeerOpens, Whole
<1> QED
  BY <1>1, <1>3, <1>4, <1>5 DEF H2Inv, Together

\* and stay together.
LEMMA H2NextInv == H2Inv /\ [H2Next]_h2Vars => H2Inv'
<1> SUFFICES ASSUME H2Inv, [H2Next]_h2Vars PROVE H2Inv'
  OBVIOUS
<1>1. conn \in ConnSet /\ peer \in PeerSet /\ Used(peer.table) <= peer.max
  BY DEF H2Inv, Together
<1>2. CASE SendInterim
  <2>1. PICK fields \in Interim : peer.stage = "start" /\ SendHeaders(fields, FALSE, "start", 0)
    BY <1>2 DEF SendInterim
  <2>2. /\ InStep(conn, peer) /\ conn.len = peer.len /\ conn.status = 0
    BY <2>1 DEF H2Inv, Together, Following, SendHeaders, InStep
  <2> DEFINE no == FALSE
  <2>3. /\ fields \in Seq(Header) /\ no \in BOOLEAN /\ Says(fields, no, "start", 0)
        /\ SendHeaders(fields, no, "start", 0)
    BY <2>1, <2>2, HeaderLists DEF Says
  <2> HIDE DEF no
  <2> QED
    BY <2>2, <2>3, HeadersKeep
<1>3. CASE SendFinal
  <2>1. PICK fields \in Final : \E endStream \in BOOLEAN :
           /\ peer.stage = "start"
           /\ SendHeaders(fields, endStream, IF endStream THEN "done" ELSE "body",
                          fields[1].value)
    BY <1>3 DEF SendFinal
  <2>2. PICK endStream \in BOOLEAN :
           /\ peer.stage = "start"
           /\ SendHeaders(fields, endStream, IF endStream THEN "done" ELSE "body",
                          fields[1].value)
    BY <2>1
  <2> DEFINE stage == IF endStream THEN "done" ELSE "body"
             status == fields[1].value
  <2>3. /\ InStep(conn, peer) /\ conn.len = peer.len /\ conn.status = 0
    BY <2>2 DEF H2Inv, Together, Following, SendHeaders, InStep
  <2>4. fields \in Seq(Header) /\ StatusFirst(fields) /\ ~IsInterim(status) /\ status # 0
    BY HeaderLists
  <2>5. status \in Nat
    <3>1. fields[1] \in Header
      BY <2>4 DEF StatusFirst
    <3> QED
      BY <3>1, HeaderCosts
  <2>6. SendHeaders(fields, endStream, stage, status)
    BY <2>2
  <2> HIDE DEF stage
  <2>7. Says(fields, endStream, stage, status)
    BY <2>3, <2>4 DEF Says, stage
  <2> HIDE DEF status
  <2> QED
    BY <2>3, <2>4, <2>5, <2>6, <2>7, HeadersKeep
<1>4. CASE SendTrailers
  <2>1. PICK fields \in Trailers :
           peer.stage = "body" /\ SendHeaders(fields, TRUE, "done", peer.status)
    BY <1>4 DEF SendTrailers
  <2>2. /\ InStep(conn, peer) /\ conn.len = peer.len /\ conn.status = peer.status
        /\ peer.status # 0 /\ peer.status \in Nat
    BY <1>1, <2>1 DEF H2Inv, Together, Following, SendHeaders, InStep, PeerSet
  <2>3. fields \in Seq(Header) /\ Says(fields, TRUE, "done", peer.status)
    BY <2>2, HeaderLists DEF Says
  <2> QED
    BY <2>1, <2>2, <2>3, HeadersKeep
<1>5. CASE SendContinuation
  BY <1>5, ContinuationKeeps
<1>6. CASE \E n \in 0 .. OutCap + 1, endStream \in BOOLEAN : SendData(n, endStream)
  <2>1. PICK n \in 0 .. OutCap + 1 : \E endStream \in BOOLEAN : SendData(n, endStream)
    BY <1>6
  <2>2. PICK endStream \in BOOLEAN : SendData(n, endStream)
    BY <2>1
  <2>3. n \in Nat
    BY H2Constants
  <2> QED
    BY <2>2, <2>3, DataKeeps
<1>7. CASE SendOther
  <2>1. /\ conn.result = "reading" /\ conn.frames <= H2_MAX_FRAMES /\ Following(conn, peer)
        /\ Whole(conn, peer) /\ conn' = Counted(conn, conn) /\ peer' = peer
    BY <1>7 DEF SendOther, Reads, Counted, H2Inv, Together
  <2>2. Together(Counted(conn, conn), peer)
    BY <1>1, <2>1, OneFrameMore
  <2>3. Together(conn', peer')
    BY <2>1, <2>2
  <2> QED
    BY <2>3 DEF H2Inv
<1>8. CASE GoesAway
  <2> DEFINE c == conn'
             q == peer'
  <2>1. c \in ConnSet /\ c.result = "failed"
    BY <1>1, <1>8, FailsIs DEF GoesAway
  <2>2. q = [peer EXCEPT !.gone = TRUE]
    BY <1>8 DEF GoesAway
  <2> HIDE DEF c, q
  <2>3. q \in PeerSet /\ q.gone /\ q.table = peer.table /\ q.max = peer.max
    BY <1>1, <2>2 DEF PeerSet
  <2>4. Together(c, q)
    BY <1>1, <2>1, <2>3 DEF Together, Whole
  <2> QED
    BY <2>4 DEF H2Inv, c, q
<1>9. CASE H2Open
  <2>1. H2Init'
    BY <1>9 DEF H2Open, H2Init
  <2>2. (H2Init => H2Inv)'
    BY H2InitInv, PTL
  <2> QED
    BY <2>1, <2>2
<1>10. CASE UNCHANGED h2Vars
  <2>1. conn' = conn /\ peer' = peer
    BY <1>10 DEF h2Vars
  <2> QED
    BY <2>1 DEF H2Inv
<1> QED
  BY <1>2, <1>3, <1>4, <1>5, <1>6, <1>7, <1>8, <1>9, <1>10 DEF H2Next

\* h2.h's "Returns 0 when a complete response arrived": whatever the server's headers, the
\* way it compresses them and cuts their blocks, and the sizes of both tables, what the
\* client returns is the response, and it refuses one only for the reasons listed.
THEOREM ResponsesAreWhole == H2Spec => []WholeOrNothing
<1>1. H2Inv => WholeOrNothing
  BY DEF H2Inv, Together, Whole, WholeOrNothing
<1> QED
  BY H2InitInv, H2NextInv, <1>1, PTL DEF H2Spec
=============================================================================
