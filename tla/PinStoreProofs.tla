--------------------------- MODULE PinStoreProofs ---------------------------
(***************************************************************************)
(* Theorems about PinStore, for any number of endpoints, threads and       *)
(* certificates: it keeps its ledger (PinLedger) through failed writes and *)
(* restarts, renews no pin in a storm, and saves no early key on one       *)
(* sighting.                                                               *)
(***************************************************************************)
EXTENDS PinStore, CArithTheorems, SequenceTheorems

-----------------------------------------------------------------------------
(***************************************************************************)
(* The record of an endpoint.                                              *)
(***************************************************************************)

\* A few certificates that a CA has vouched for, each key once.
Records ==
    {s \in Seq(Certs) :
        /\ Len(s) <= PIN_STORE_MAX_SPKIS
        /\ \A i \in 1 .. Len(s) : s[i].vouched
        /\ \A i, j \in 1 .. Len(s) : s[i].key = s[j].key => i = j}

LEMMA PlaceIs ==
  ASSUME NEW s \in Seq(Certs), NEW c
  PROVE  /\ Place(s, c) \in 0 .. Len(s)
         /\ Place(s, c) # 0 => s[Place(s, c)].key = c.key
         /\ Place(s, c) = 0 <=> \A i \in 1 .. Len(s) : s[i].key # c.key
<1> DEFINE I == {i \in 1 .. Len(s) : s[i].key = c.key}
<1>1. Place(s, c) = IF I # {} THEN Min(I) ELSE 0
  BY DEF Place, SelectInSeq
<1>2. Len(s) \in Nat /\ I \in SUBSET (1 .. Len(s))
  OBVIOUS
<1>3. I # {} => Min(I) \in I
  <2> HIDE DEF I
  <2> QED
    BY <1>2, Least
<1> QED
  BY <1>1, <1>2, <1>3

\* A place is taken out of a sequence.
LEMMA RemoveAtIs ==
  ASSUME NEW S, NEW s \in Seq(S), NEW p \in 1 .. Len(s)
  PROVE  /\ RemoveAt(s, p) \in Seq(S) /\ Len(RemoveAt(s, p)) = Len(s) - 1
         /\ \A i \in 1 .. Len(s) - 1 :
                RemoveAt(s, p)[i] = IF i < p THEN s[i] ELSE s[i + 1]
<1> DEFINE a == SubSeq(s, 1, p - 1)
           b == SubSeq(s, p + 1, Len(s))
<1>1. /\ a \in Seq(S) /\ Len(a) = p - 1 /\ \A i \in 1 .. p - 1 : a[i] = s[i]
  OBVIOUS
<1>2. /\ b \in Seq(S) /\ Len(b) = Len(s) - p
      /\ \A i \in 1 .. Len(s) - p : b[i] = s[p + i]
  OBVIOUS
<1> HIDE DEF a, b
<1>3. /\ a \o b \in Seq(S) /\ Len(a \o b) = Len(s) - 1
      /\ \A i \in 1 .. Len(s) - 1 : (a \o b)[i] = IF i < p THEN a[i] ELSE b[i - (p - 1)]
  <2>1. /\ a \o b \in Seq(S) /\ Len(a \o b) = Len(a) + Len(b)
        /\ \A i \in 1 .. Len(a) + Len(b) :
               (a \o b)[i] = IF i <= Len(a) THEN a[i] ELSE b[i - Len(a)]
    BY <1>1, <1>2, ConcatProperties
  <2>2. Len(s) \in Nat /\ p \in Nat /\ p - 1 \in Nat /\ Len(a) + Len(b) = Len(s) - 1
    BY <1>1, <1>2
  <2>3. \A i \in 1 .. Len(s) - 1 : i <= p - 1 <=> i < p
    BY <2>2
  <2> QED
    BY <1>1, <2>1, <2>2, <2>3
<1>4. ASSUME NEW i \in 1 .. Len(s) - 1
      PROVE  (a \o b)[i] = IF i < p THEN s[i] ELSE s[i + 1]
  <2>1. CASE i < p
    BY <1>1, <1>3, <2>1
  <2>2. CASE ~(i < p)
    <3>1. i - (p - 1) \in 1 .. Len(s) - p /\ p + (i - (p - 1)) = i + 1
      BY <2>2
    <3> QED
      BY <1>2, <1>3, <2>2, <3>1
  <2> QED
    BY <2>1, <2>2
<1> QED
  BY <1>3, <1>4 DEF RemoveAt, a, b

LEMMA UpsertIsASeq ==
  ASSUME NEW s \in Seq(Certs), NEW c \in Certs
  PROVE  /\ Upsert(s, c) \in Seq(Certs)
         /\ Len(Upsert(s, c)) \in Nat \ {0} /\ Last(Upsert(s, c)) = c
<1> DEFINE p == Place(s, c)
<1>1. \A u \in Seq(Certs) : /\ Append(u, c) \in Seq(Certs)
                            /\ Len(Append(u, c)) \in Nat \ {0} /\ Last(Append(u, c)) = c
  BY DEF Last
<1>2. p \in 0 .. Len(s)
  BY PlaceIs
<1>3. CASE p # 0
  <2>1. RemoveAt(s, p) \in Seq(Certs)
    BY <1>2, <1>3, RemoveAtIs
  <2>2. Upsert(s, c) = Append(RemoveAt(s, p), c)
    BY <1>3 DEF Upsert
  <2> QED
    BY <1>1, <2>1, <2>2
<1>4. CASE p = 0 /\ Len(s) < PIN_STORE_MAX_SPKIS
  <2>1. Upsert(s, c) = Append(s, c)
    BY <1>4 DEF Upsert
  <2> QED
    BY <1>1, <2>1
<1>5. CASE p = 0 /\ ~(Len(s) < PIN_STORE_MAX_SPKIS)
  <2>1. Upsert(s, c) = Append(Tail(s), c)
    BY <1>5 DEF Upsert
  <2>2. s # <<>>
    BY <1>5, PinConstants
  <2>3. Tail(s) \in Seq(Certs)
    BY <2>2
  <2> QED
    BY <1>1, <2>1, <2>3
<1> QED
  BY <1>2, <1>3, <1>4, <1>5

\* What is known of the key gives way; a record that is full gives up its oldest.
Without(s, c) == Ledger!RemoveFirstMatch(s, LAMBDA d : d.key = c.key)

LEMMA WithoutIs ==
  ASSUME NEW s, NEW c
  PROVE  Without(s, c) = IF \E i \in 1 .. Len(s) : s[i].key = c.key
                         THEN RemoveAt(s, Place(s, c)) ELSE s
BY DEF Without, Place, RemoveAt, SelectInSeq, Min,
       Ledger!RemoveFirstMatch, Ledger!RemoveAt, Ledger!SelectInSeq, Ledger!Min

LEMMA UpsertIs ==
  ASSUME NEW s \in Records, NEW c \in Certs, c.vouched
  PROVE  /\ Upsert(s, c) \in Records
         /\ Upsert(s, c) = Ledger!Latest(Append(Without(s, c), c))
<1> DEFINE p == Place(s, c)
           n == Len(s)
           K == PIN_STORE_MAX_SPKIS
           left == Without(s, c)
<1>1. /\ s \in Seq(Certs) /\ n \in Nat /\ n <= K /\ K \in Nat \ {0}
      /\ \A i \in 1 .. n : s[i] \in Certs /\ s[i].vouched
      /\ \A i, j \in 1 .. n : s[i].key = s[j].key => i = j
  BY PinConstants DEF Records
<1>2. /\ p \in 0 .. n
      /\ p # 0 => s[p].key = c.key
      /\ p = 0 <=> \A i \in 1 .. n : s[i].key # c.key
  BY <1>1, PlaceIs
<1>3. left = IF p = 0 THEN s ELSE RemoveAt(s, p)
  BY <1>2, WithoutIs
<1>4. /\ left \in Seq(Certs) /\ Len(left) = IF p = 0 THEN n ELSE n - 1
      /\ \A i \in 1 .. Len(left) : \E j \in 1 .. n : j # p /\ left[i] = s[j]
                                     /\ j = (IF p = 0 \/ i < p THEN i ELSE i + 1)
  <2>1. CASE p = 0
    <3>1. left = s /\ \A i \in 1 .. n : i # p
      BY <1>3, <2>1
    <3> HIDE DEF left
    <3>2. ASSUME NEW i \in 1 .. Len(left)
          PROVE  i \in 1 .. n /\ i # p /\ left[i] = s[i]
      BY <3>1
    <3> HIDE DEF p, n
    <3>3. left \in Seq(Certs) /\ Len(left) = n
      BY <1>1, <3>1 DEF n
    <3> QED
      BY <2>1, <3>2, <3>3
  <2>2. CASE p # 0
    <3>1. /\ RemoveAt(s, p) \in Seq(Certs) /\ Len(RemoveAt(s, p)) = n - 1
          /\ \A i \in 1 .. n - 1 : RemoveAt(s, p)[i] = IF i < p THEN s[i] ELSE s[i + 1]
      <4>1. p \in 1 .. n
        BY <1>2, <2>2
      <4> HIDE DEF p
      <4> QED
        BY <1>1, <4>1, RemoveAtIs
    <3>2. left = RemoveAt(s, p)
      BY <1>3, <2>2
    <3> HIDE DEF left, p, n
    <3>3. ASSUME NEW i \in 1 .. n - 1
          PROVE  \E j \in 1 .. n : j # p /\ left[i] = s[j]
                                     /\ j = (IF p = 0 \/ i < p THEN i ELSE i + 1)
      <4>1. CASE i < p
        <5>1. i \in 1 .. n /\ i # p
          BY <1>1, <1>2, <4>1
        <5>2. left[i] = s[i]
          BY <3>1, <3>2, <4>1
        <5> QED
          BY <4>1, <5>1, <5>2
      <4>2. CASE ~(i < p)
        <5>1. i + 1 \in 1 .. n /\ i + 1 # p
          BY <1>1, <1>2, <4>2
        <5> QED
          BY <2>2, <3>1, <3>2, <4>2, <5>1
      <4> QED
        BY <4>1, <4>2
    <3> QED
      BY <2>2, <3>1, <3>2, <3>3
  <2> QED
    BY <2>1, <2>2
<1> HIDE DEF left, p, n
<1>5. \A i \in 1 .. Len(left) : left[i] \in Certs /\ left[i].vouched /\ left[i].key # c.key
  <2> SUFFICES ASSUME NEW i \in 1 .. Len(left)
               PROVE  left[i] \in Certs /\ left[i].vouched /\ left[i].key # c.key
    OBVIOUS
  <2>1. PICK j \in 1 .. n : j # p /\ left[i] = s[j]
    BY <1>4
  <2>2. s[j].key # c.key
    <3>1. CASE p = 0
      BY <1>2, <3>1
    <3>2. CASE p # 0
      <4>1. p \in 1 .. n /\ s[p].key = c.key
        BY <1>1, <1>2, <3>2
      <4> QED
        BY <1>1, <2>1, <4>1
    <3> QED
      BY <3>1, <3>2
  <2> QED
    BY <1>1, <2>1, <2>2
<1>6. \A i, j \in 1 .. Len(left) : left[i].key = left[j].key => i = j
  <2> SUFFICES ASSUME NEW i \in 1 .. Len(left), NEW j \in 1 .. Len(left),
                      left[i].key = left[j].key
               PROVE  i = j
    OBVIOUS
  <2>1. PICK a \in 1 .. n : left[i] = s[a] /\ a = (IF p = 0 \/ i < p THEN i ELSE i + 1)
    BY <1>4
  <2>2. PICK b \in 1 .. n : left[j] = s[b] /\ b = (IF p = 0 \/ j < p THEN j ELSE j + 1)
    BY <1>4
  <2>3. a = b
    BY <1>1, <2>1, <2>2
  <2>4. Len(left) \in Nat /\ i \in Int /\ j \in Int /\ p \in Int
    BY <1>2, <1>4
  <2> QED
    BY <2>1, <2>2, <2>3, <2>4
<1> DEFINE u == Append(left, c)
           m == Len(left)
<1>7. /\ u \in Seq(Certs) /\ Len(u) = m + 1 /\ m \in Nat
      /\ \A i \in 1 .. m : u[i] = left[i]
      /\ u[m + 1] = c
  BY <1>4, AppendProperties
<1> HIDE DEF u, m
<1>8. \A i, j \in 1 .. m + 1 : u[i].vouched /\ (u[i].key = u[j].key => i = j)
  <2> SUFFICES ASSUME NEW i \in 1 .. m + 1, NEW j \in 1 .. m + 1
               PROVE  u[i].vouched /\ (u[i].key = u[j].key => i = j)
    OBVIOUS
  <2>1. (i \in 1 .. m \/ i = m + 1) /\ (j \in 1 .. m \/ j = m + 1)
    BY <1>7
  <2> QED
    BY <1>5, <1>6, <1>7, <2>1 DEF m
<1>9. CASE m + 1 <= K
  <2>1. Upsert(s, c) = u
    <3>1. p = 0 => n < K
      BY <1>1, <1>4, <1>9 DEF m
    <3> QED
      BY <1>3, <3>1 DEF Upsert, u, p, n
  <2>2. Ledger!Latest(u) = u
    <3>1. Ledger!Latest(u) = SubSeq(u, 1, Len(u))
      BY <1>1, <1>7, <1>9 DEF Ledger!Latest
    <3> QED
      BY <1>7, <3>1, SubSeqFull
  <2>3. u \in Records
    BY <1>7, <1>8, <1>9 DEF Records
  <2> QED
    BY <2>1, <2>2, <2>3 DEF u, left
<1>10. CASE ~(m + 1 <= K)
  <2>1. p = 0 /\ n = K /\ m = K /\ left = s
    BY <1>1, <1>2, <1>3, <1>4, <1>10 DEF m
  <2>2. Upsert(s, c) = Append(Tail(s), c)
    BY <1>1, <2>1 DEF Upsert, p, n
  <2>3. s # <<>>
    BY <1>1, <2>1 DEF n
  <2>4. Append(Tail(s), c) = Tail(u)
    BY <1>1, <2>1, <2>3, HeadTailAppend DEF u
  <2>5. u # <<>> /\ Tail(u) \in Seq(Certs) /\ Len(Tail(u)) = m
        /\ \A i \in 1 .. m : Tail(u)[i] = u[i + 1]
    BY <1>7, HeadTailProperties
  <2>6. Ledger!Latest(u) = Tail(u)
    <3>1. Len(u) - K + 1 = 2 /\ Len(u) > K
      BY <1>1, <1>7, <2>1
    <3>2. Ledger!Latest(u) = SubSeq(u, 2, Len(u))
      BY <3>1 DEF Ledger!Latest
    <3> QED
      BY <1>7, <2>5, <3>2, TailIsSubSeq
  <2>7. Tail(u) \in Records
    <3>1. \A i, j \in 1 .. m : Tail(u)[i].vouched
                                 /\ (Tail(u)[i].key = Tail(u)[j].key => i = j)
      <4> SUFFICES ASSUME NEW i \in 1 .. m, NEW j \in 1 .. m
                   PROVE  Tail(u)[i].vouched /\ (Tail(u)[i].key = Tail(u)[j].key => i = j)
        OBVIOUS
      <4>1. i + 1 \in 1 .. m + 1 /\ j + 1 \in 1 .. m + 1
        BY <1>7
      <4>2. i + 1 = j + 1 => i = j
        BY <1>7
      <4> QED
        BY <1>8, <2>5, <4>1, <4>2
    <3> QED
      BY <1>1, <2>1, <2>5, <3>1 DEF Records
  <2> QED
    BY <2>2, <2>4, <2>6, <2>7 DEF u, left
<1> QED
  BY <1>9, <1>10

\* PinStore_Init finds what was written: the lines of a record, taken in one by one,
\* are the record.
LEMMA ParseIs ==
  ASSUME NEW s \in Records
  PROVE  FoldLeft(Upsert, <<>>, s) = s
<1> DEFINE n == Len(s)
           V == Seq(Certs)
           body(f, r) == IF r = {} THEN <<>> ELSE Upsert(f[r \ {Max(r)}], s[Max(r)])
           P(f) == f = [r \in SUBSET (DOMAIN s) |-> body(f, r)]
           F == CHOOSE f : P(f)
           step == [q \in V \X (1 .. n) |-> Upsert(q[1], s[q[2]])]
<1>1. /\ s \in Seq(Certs) /\ n \in Nat /\ n <= PIN_STORE_MAX_SPKIS /\ DOMAIN s = 1 .. n
      /\ \A i \in 1 .. n : s[i] \in Certs
      /\ \A i, j \in 1 .. n : s[i].key = s[j].key => i = j
  BY DEF Records
<1>2. FoldLeft(Upsert, <<>>, s) = F[1 .. n]
  BY <1>1 DEF FoldLeft, MapThenFoldSet
<1>3. P(F)
  <2>1. step \in [V \X (1 .. n) -> V] /\ <<>> \in V
    <3>1. ASSUME NEW v \in V, NEW k \in 1 .. n
          PROVE  Upsert(v, s[k]) \in V
      BY <1>1, UpsertIsASeq
    <3> QED
      BY <3>1
  <2>2. PICK f \in [SUBSET (1 .. n) -> V] : Folds(f, n, <<>>, step)
    <3> HIDE DEF V, step, n
    <3> QED
      BY <1>1, <2>1, FoldExists
  <2>3. ASSUME NEW r \in SUBSET (1 .. n), r # {}
        PROVE  step[<<f[r \ {Max(r)}], Max(r)>>] = Upsert(f[r \ {Max(r)}], s[Max(r)])
    <3>1. Max(r) \in 1 .. n
      BY <1>1, <2>3, Greatest
    <3>2. f[r \ {Max(r)}] \in V
      BY <2>2
    <3> HIDE DEF V
    <3> QED
      BY <3>1, <3>2
  <2>4. P(f)
    BY <1>1, <2>2, <2>3 DEF Folds
  <2> HIDE DEF P
  <2> QED
    BY <2>4, Zenon
<1> HIDE DEF F
<1> DEFINE S == {k \in Nat : k <= n => F[1 .. k] = SubSeq(s, 1, k)}
<1>4. 0 \in S
  <2>1. 1 .. 0 = {} /\ SubSeq(s, 1, 0) = <<>>
    OBVIOUS
  <2>2. F[{}] = <<>>
    BY <1>3
  <2> QED
    BY <2>1, <2>2
<1>5. ASSUME NEW k \in S
      PROVE  k + 1 \in S
  <2> SUFFICES ASSUME k + 1 <= n
               PROVE  F[1 .. k + 1] = SubSeq(s, 1, k + 1)
    OBVIOUS
  <2> DEFINE v == SubSeq(s, 1, k)
             c == s[k + 1]
  <2>1. k \in Nat /\ k <= n /\ k + 1 \in 1 .. n /\ F[1 .. k] = v /\ c \in Certs
    BY <1>1
  <2>2. Max(1 .. k + 1) = k + 1 /\ (1 .. k + 1) \ {k + 1} = 1 .. k /\ 1 .. k + 1 # {}
        /\ 1 .. k + 1 \in SUBSET (1 .. n)
    BY <1>1, <2>1, TopOfInterval
  <2>3. F[1 .. k + 1] = Upsert(v, c)
    <3>1. F[1 .. k + 1] = body(F, 1 .. k + 1)
      BY <1>1, <1>3, <2>2
    <3>2. body(F, 1 .. k + 1) = Upsert(F[(1 .. k + 1) \ {k + 1}], s[k + 1])
      BY <2>2
    <3> QED
      BY <2>1, <2>2, <3>1, <3>2
  <2>4. /\ v \in Seq(Certs) /\ Len(v) = k
        /\ \A i \in 1 .. k : v[i] = s[i]
    BY <1>1, <2>1
  <2> HIDE DEF v
  <2>5. Place(v, c) = 0
    <3>1. \A i \in 1 .. k : v[i].key # c.key
      BY <1>1, <2>1, <2>4
    <3> QED
      BY <2>4, <3>1, PlaceIs
  <2>6. Upsert(v, c) = Append(v, c)
    <3>1. Len(v) < PIN_STORE_MAX_SPKIS
      BY <1>1, <2>1, <2>4, PinConstants
    <3> QED
      BY <2>5, <3>1 DEF Upsert
  <2>7. SubSeq(s, 1, k + 1) = Append(v, c)
    <3>1. SubSeq(s, 1, k + 1) = v \o <<c>>
      BY <1>1, <2>1, SubSeqRecursiveSecond DEF v
    <3> QED
      BY <2>1, <2>4, <3>1, AppendIsConcat
  <2> QED
    BY <2>3, <2>6, <2>7
<1>6. S = Nat
  <2>1. S \in SUBSET Nat
    OBVIOUS
  <2> HIDE DEF S
  <2> QED
    BY <1>4, <1>5, <2>1, SetInduction
<1>7. F[1 .. n] = SubSeq(s, 1, n)
  BY <1>1, <1>6
<1> QED
  BY <1>1, <1>2, <1>7, SubSeqFull

-----------------------------------------------------------------------------
(***************************************************************************)
(* The inductive invariant.                                                *)
(***************************************************************************)
Keys == {c.key : c \in Certs}

WorkerSet ==
    [pc : {"idle", "handshake", "pending", "observe", "save", "write"}, host : Hosts,
     usable : SUBSET Keys, due : BOOLEAN, cert : Certs, ok : BOOLEAN, scheduled : BOOLEAN]

PinTypes ==
    /\ kind \in [Hosts -> {"nts", "doh"}]
    /\ utc \in Nat \ {0} /\ skew \in Int /\ disciplined \in BOOLEAN
    /\ leaf \in [Hosts -> Certs]
    /\ mem \in [Hosts -> [spkis : Records, stamp : Nat]]
    /\ file \in [Hosts -> Records]
    /\ cand \in [Hosts -> SUBSET [key : Keys, first : Nat]]
    /\ worker \in [Threads -> WorkerSet]
    /\ renewed \in [Hosts -> Nat] /\ sighted \in [Hosts -> Nat]

\* What an operator presents, a CA vouches for, today.
LeavesServe ==
    \A h \in Hosts : leaf[h].vouched /\ leaf[h].from <= utc /\ utc < leaf[h].until

Confirmed == {"pending", "observe", "save"}

CertsVouched == \A t \in Threads : worker[t].pc \in Confirmed => worker[t].cert.vouched

\* A candidate with the watched key was seen no sooner than the key was.
SightingsHold ==
    \A h \in Hosts :
        /\ sighted[h] <= utc
        /\ \A x \in cand[h] :
              x.key = WatchedKey => 0 < sighted[h] /\ sighted[h] <= x.first

\* The store remembers an attempt no older than the last renewal on schedule.
RenewalsKept ==
    \A h \in Hosts :
        /\ renewed[h] <= NowUnixSeconds
        /\ renewed[h] > 0 => mem[h].spkis # <<>> /\ renewed[h] <= mem[h].stamp

Rested(h) ==
    \/ renewed[h] = 0
    \/ NowUnixSeconds - renewed[h] >= PINSTORE_RENEWAL_RETRY_COOLDOWN_SECONDS

\* A worker that is about to renew a pin on schedule.
Renews(v) ==
    \/ v.pc = "handshake" /\ v.due /\ v.usable # {}
    \/ v.pc \in Confirmed /\ v.scheduled

WatchedRests == Renews(worker[WatchedThread]) => Rested(worker[WatchedThread].host)

PinInv ==
    /\ PinTypes /\ LeavesServe /\ CertsVouched /\ SightingsHold
    /\ RenewalsKept /\ WatchedRests

LEMMA NowIsNat == PinTypes => System \in Nat /\ NowUnixSeconds \in Nat
BY DEF PinTypes, System, NowUnixSeconds

LEMMA RestingIs ==
  /\ Resting \in WorkerSet /\ Resting.pc = "idle" /\ ~Resting.scheduled
  /\ NoRecord \in [spkis : Records, stamp : Nat] /\ NoRecord.spkis = <<>>
<1>1. (CHOOSE h \in Hosts : TRUE) \in Hosts /\ (CHOOSE c \in Certs : TRUE) \in Certs
  BY PinConstants
<1>2. Resting \in WorkerSet /\ Resting.pc = "idle" /\ ~Resting.scheduled
  BY <1>1 DEF Resting, WorkerSet
<1>3. <<>> \in Records
  BY PinConstants DEF Records
<1> QED
  BY <1>2, <1>3 DEF NoRecord

LEMMA PinInitInv == Init => PinInv
<1> SUFFICES ASSUME Init
             PROVE  PinInv
  OBVIOUS
<1>1. /\ kind \in [Hosts -> {"nts", "doh"}] /\ utc = Start /\ skew = 0 /\ disciplined = FALSE
      /\ leaf \in [Hosts -> {c \in Certs : c.vouched /\ c.from <= Start /\ Start < c.until}]
      /\ mem = [h \in Hosts |-> NoRecord] /\ file = Serialize
      /\ cand = [h \in Hosts |-> {}] /\ worker = [t \in Threads |-> Resting]
      /\ renewed = [h \in Hosts |-> 0] /\ sighted = [h \in Hosts |-> 0]
  BY DEF Init
<1>2. utc \in Nat \ {0} /\ skew \in Int /\ disciplined \in BOOLEAN
  BY <1>1, PinConstants
<1>3. /\ mem \in [Hosts -> [spkis : Records, stamp : Nat]]
      /\ \A h \in Hosts : mem[h].spkis = <<>>
  BY <1>1, RestingIs
<1>4. file \in [Hosts -> Records]
  BY <1>1, <1>3 DEF Serialize
<1>5. /\ worker \in [Threads -> WorkerSet]
      /\ \A t \in Threads : worker[t].pc = "idle"
  BY <1>1, RestingIs
<1>6. /\ renewed \in [Hosts -> Nat] /\ sighted \in [Hosts -> Nat]
      /\ cand \in [Hosts -> SUBSET [key : Keys, first : Nat]]
  BY <1>1
<1>7. leaf \in [Hosts -> Certs] /\ LeavesServe
  BY <1>1 DEF LeavesServe
<1>8. PinTypes
  BY <1>1, <1>2, <1>3, <1>4, <1>5, <1>6, <1>7 DEF PinTypes
<1>9. CertsVouched /\ WatchedRests
  BY <1>5, PinConstants DEF CertsVouched, WatchedRests, Renews, Confirmed
<1>10. SightingsHold
  BY <1>1, <1>2 DEF SightingsHold
<1>11. RenewalsKept
  BY <1>1, <1>8, NowIsNat DEF RenewalsKept
<1> QED
  BY <1>7, <1>8, <1>9, <1>10, <1>11 DEF PinInv

-----------------------------------------------------------------------------
(***************************************************************************)
(* The steps of a connection.                                              *)
(***************************************************************************)

\* A thread moves on, and changes nothing but itself.
LEMMA WorkerMoves ==
  ASSUME PinInv, NEW t \in Threads, NEW v \in WorkerSet,
         worker' = [worker EXCEPT ![t] = v],
         v.pc \in Confirmed => v.cert.vouched,
         t = WatchedThread /\ Renews(v) => Rested(v.host),
         UNCHANGED <<env, store, cand, ghost>>
  PROVE  PinInv'
<1>1. PinTypes /\ worker \in [Threads -> WorkerSet] /\ WatchedThread \in Threads
  BY PinConstants DEF PinInv, PinTypes
<1>2. UNCHANGED <<kind, utc, skew, disciplined, leaf, mem, file, cand, renewed, sighted>>
  BY DEF env, store, ghost
<1>3. /\ worker' \in [Threads -> WorkerSet] /\ worker'[t] = v
      /\ \A s \in Threads \ {t} : worker'[s] = worker[s]
  BY <1>1
<1>4. PinTypes'
  BY <1>1, <1>2, <1>3 DEF PinTypes
<1>5. NowUnixSeconds' = NowUnixSeconds /\ \A h : Rested(h)' <=> Rested(h)
  BY <1>2 DEF NowUnixSeconds, System, Rested
<1>6. (LeavesServe /\ SightingsHold /\ RenewalsKept)'
  BY <1>2, <1>5 DEF PinInv, LeavesServe, SightingsHold, RenewalsKept
<1>7. CertsVouched'
  BY <1>3 DEF PinInv, CertsVouched
<1>8. WatchedRests'
  <2>1. CASE t = WatchedThread
    BY <1>3, <1>5, <2>1 DEF WatchedRests
  <2>2. CASE t # WatchedThread
    BY <1>1, <1>3, <1>5, <2>2 DEF WatchedRests, PinInv
  <2> QED
    BY <2>1, <2>2
<1> QED
  BY <1>4, <1>6, <1>7, <1>8 DEF PinInv

\* The connection is over.
LEMMA FinishMoves ==
  ASSUME PinInv, NEW t \in Threads, NEW ok \in BOOLEAN, Finish(t, ok),
         UNCHANGED <<env, store, cand, ghost>>
  PROVE  PinInv'
<1> DEFINE v == [Resting EXCEPT !.host = worker[t].host, !.ok = ok]
<1>1. worker[t].host \in Hosts
  BY DEF PinInv, PinTypes, WorkerSet
<1>2. v \in WorkerSet /\ v.pc = "idle"
  BY <1>1, RestingIs DEF WorkerSet
<1>3. worker' = [worker EXCEPT ![t] = v]
  BY DEF Finish
<1> HIDE DEF v
<1>4. v.pc \notin Confirmed /\ ~Renews(v)
  BY <1>2 DEF Confirmed, Renews
<1> QED
  BY <1>2, <1>3, <1>4, WorkerMoves

\* What a record says is due is so long after the attempt it remembers.
LEMMA ReadKeeps ==
  ASSUME PinInv, NEW t \in Threads, NEW h \in Hosts, Read(t, h)
  PROVE  PinInv'
<1> DEFINE usable == CollectValidSpkis(mem[h])
           due == usable = {} \/ ShouldRenew(mem[h])
           v == [Resting EXCEPT !.pc = "handshake", !.host = h, !.usable = usable, !.due = due]
<1>1. /\ worker' = [worker EXCEPT ![t] = v]
      /\ UNCHANGED <<env, store, cand, ghost>>
  BY DEF Read
<1>2. /\ mem[h].spkis \in Records /\ mem[h].stamp \in Nat /\ renewed[h] \in Nat
      /\ NowUnixSeconds \in Nat
  BY NowIsNat DEF PinInv, PinTypes
<1>3. /\ mem[h].spkis \in Seq(Certs)
      /\ \A i \in 1 .. Len(mem[h].spkis) : mem[h].spkis[i].vouched
  BY <1>2 DEF Records
<1>4. usable \in SUBSET Keys /\ (usable # {} => mem[h].spkis # <<>>)
  <2>1. \A d \in Range(mem[h].spkis) : d \in Certs
    BY <1>3 DEF Range
  <2>2. mem[h].spkis = <<>> => Range(mem[h].spkis) = {}
    BY DEF Range
  <2> QED
    BY <2>1, <2>2 DEF CollectValidSpkis, Keys
<1>5. ASSUME usable # {}, due
      PROVE  Rested(h)
  <2>1. ShouldRenew(mem[h]) /\ mem[h].spkis # <<>>
    BY <1>4, <1>5
  <2>2. Last(mem[h].spkis) \in Certs /\ Last(mem[h].spkis).vouched
    BY <1>3, <2>1 DEF Last
  <2>3. RenewalDue(Last(mem[h].spkis)) > 0
    BY <2>2, RenewalsHaveDates
  <2>4. RenewalDue(Last(mem[h].spkis)) \in Int
    BY <2>2, PinConstants DEF RenewalDue, RenewalMarginSeconds
  <2>5. \/ NowUnixSeconds = 0
        \/ mem[h].stamp = 0
        \/ NowUnixSeconds - mem[h].stamp >= PINSTORE_RENEWAL_RETRY_COOLDOWN_SECONDS
    BY <1>2, <2>1, <2>3, <2>4, PinConstants DEF ShouldRenew
  <2>6. renewed[h] <= NowUnixSeconds /\ (renewed[h] > 0 => renewed[h] <= mem[h].stamp)
    BY DEF PinInv, RenewalsKept
  <2> QED
    BY <1>2, <2>5, <2>6, PinConstants DEF Rested
<1> HIDE DEF usable, due
<1>6. /\ v \in WorkerSet /\ v.pc = "handshake" /\ v.host = h
      /\ v.usable = usable /\ v.due = due
  <2>1. due \in BOOLEAN
    BY DEF due
  <2> QED
    BY <1>4, <2>1, RestingIs DEF WorkerSet
<1> HIDE DEF v
<1>7. v.pc \notin Confirmed /\ (Renews(v) => Rested(v.host))
  BY <1>5, <1>6 DEF Confirmed, Renews
<1> QED
  BY <1>1, <1>6, <1>7, WorkerMoves

LEMMA HandshakeKeeps ==
  ASSUME PinInv, NEW t \in Threads, NEW c \in Presented(t), NEW ca \in BOOLEAN,
         Handshake(t, c, ca)
  PROVE  PinInv'
<1>1. /\ worker[t] \in WorkerSet /\ worker[t].host \in Hosts /\ worker[t].due \in BOOLEAN
      /\ worker[t].pc = "handshake" /\ UNCHANGED <<env, store, cand, ghost>>
  BY DEF Handshake, PinInv, PinTypes, WorkerSet
<1>2. c \in Certs
  BY <1>1 DEF Presented, PinInv, PinTypes
<1>3. CASE ca
  <2> DEFINE pc == IF ~Early(t, c) THEN "save"
                   ELSE IF kind[worker[t].host] = "doh" THEN "observe" ELSE "pending"
             v == [Resting EXCEPT !.host = worker[t].host, !.cert = c, !.pc = pc,
                     !.scheduled = (worker[t].due /\ Matched(t, c))]
  <2>1. worker' = [worker EXCEPT ![t] = v]
    BY <1>3 DEF Handshake
  <2>2. pc \in Confirmed /\ (worker[t].due /\ Matched(t, c)) \in BOOLEAN
    BY DEF Confirmed
  <2> HIDE DEF pc
  <2>3. v \in WorkerSet
    BY <1>1, <1>2, <2>2, RestingIs DEF WorkerSet, Confirmed
  <2>4. /\ v.pc \in Confirmed /\ v.host = worker[t].host /\ v.cert = c
        /\ v.scheduled = (worker[t].due /\ Matched(t, c))
    BY <2>2, RestingIs DEF WorkerSet
  <2> HIDE DEF v
  <2>5. c.vouched
    BY <1>3 DEF Handshake, CaAccepts
  <2>6. ASSUME t = WatchedThread, Renews(v)
        PROVE  Rested(v.host)
    <3>1. worker[t].due /\ Matched(t, c)
      BY <2>4, <2>6 DEF Renews, Confirmed
    <3>2. Renews(worker[t])
      BY <1>1, <3>1 DEF Renews, Matched
    <3> QED
      BY <2>4, <2>6, <3>2 DEF PinInv, WatchedRests
  <2> QED
    BY <1>1, <2>1, <2>3, <2>4, <2>5, <2>6, WorkerMoves
<1>4. CASE ~ca
  <2>1. Finish(t, Matched(t, c)) /\ Matched(t, c) \in BOOLEAN
    BY <1>4 DEF Handshake, Matched
  <2> QED
    BY <1>1, <2>1, FinishMoves
<1> QED
  BY <1>3, <1>4

LEMMA PromoteKeeps ==
  ASSUME PinInv, NEW t \in Threads, Promote(t)
  PROVE  PinInv'
<1> DEFINE v == [worker[t] EXCEPT !.pc = "save"]
<1>1. /\ worker[t] \in WorkerSet /\ worker[t].pc = "pending"
      /\ worker' = [worker EXCEPT ![t] = v] /\ UNCHANGED <<env, store, cand, ghost>>
  BY DEF Promote, Goto, PinInv, PinTypes
<1>2. /\ v \in WorkerSet /\ v.pc = "save" /\ v.cert = worker[t].cert
      /\ v.host = worker[t].host /\ v.scheduled = worker[t].scheduled
  BY <1>1 DEF WorkerSet
<1> HIDE DEF v
<1>3. v.cert.vouched
  BY <1>1, <1>2 DEF PinInv, CertsVouched, Confirmed
<1>4. ASSUME t = WatchedThread, Renews(v)
      PROVE  Rested(v.host)
  BY <1>1, <1>2, <1>4 DEF PinInv, WatchedRests, Renews, Confirmed
<1> QED
  BY <1>1, <1>2, <1>3, <1>4, WorkerMoves

\* The oldest candidate gives up its slot, and no time to its successor.
LEMMA SightedIs ==
  ASSUME NEW cs, NEW c
  PROVE  \A x \in Sighted(cs, c) : x \in cs \/ x = [key |-> c.key, first |-> utc]
BY DEF Sighted

LEMMA ObserveKeeps ==
  ASSUME PinInv, NEW t \in Threads, Observe(t)
  PROVE  PinInv'
<1> DEFINE h == worker[t].host
           c == worker[t].cert
           known == {x \in cand[h] : x.key = c.key}
           new == [key |-> c.key, first |-> utc]
           v == [worker[t] EXCEPT !.pc = "save"]
           w == [Resting EXCEPT !.host = h, !.ok = TRUE]
<1>1. /\ worker[t] \in WorkerSet /\ worker[t].pc = "observe" /\ h \in Hosts /\ c \in Certs
      /\ worker \in [Threads -> WorkerSet] /\ utc \in Nat \ {0}
      /\ cand \in [Hosts -> SUBSET [key : Keys, first : Nat]]
      /\ sighted \in [Hosts -> Nat]
  BY DEF Observe, PinInv, PinTypes, WorkerSet
<1>2. UNCHANGED <<kind, utc, skew, disciplined, leaf, mem, file, renewed>>
  BY DEF Observe, env, store
<1>3. sighted' = IF c.key = WatchedKey /\ sighted[h] = 0
                 THEN [sighted EXCEPT ![h] = utc] ELSE sighted
  BY DEF Observe
<1>4. \/ cand' = [cand EXCEPT ![h] = @ \ known] /\ worker' = [worker EXCEPT ![t] = v]
      \/ /\ cand' = [cand EXCEPT ![h] = IF known = {} THEN Sighted(@, c) ELSE @]
         /\ worker' = [worker EXCEPT ![t] = w]
  BY DEF Observe, Goto, Finish
<1>5. /\ v \in WorkerSet /\ v.pc = "save" /\ v.cert = c /\ v.host = h
      /\ v.scheduled = worker[t].scheduled
  BY <1>1 DEF WorkerSet
<1>6. w \in WorkerSet /\ w.pc = "idle"
  BY <1>1, RestingIs DEF WorkerSet
<1> HIDE DEF v, w, known, h, c
<1>7. /\ sighted' \in [Hosts -> Nat]
      /\ \A g \in Hosts : sighted[g] > 0 => sighted'[g] = sighted[g]
      /\ \A g \in Hosts : sighted'[g] = sighted[g] \/ sighted'[g] = utc
      /\ c.key = WatchedKey => sighted'[h] > 0
  BY <1>1, <1>3
<1>8. ASSUME NEW g \in Hosts, NEW x \in cand'[g]
      PROVE  x \in cand[g] \/ (g = h /\ x = new)
  <2>1. CASE g = h
    BY <1>1, <1>4, <1>8, <2>1, SightedIs
  <2>2. CASE g # h
    BY <1>1, <1>4, <1>8, <2>2
  <2> QED
    BY <2>1, <2>2
<1>9. cand' \in [Hosts -> SUBSET [key : Keys, first : Nat]]
  <2>1. new \in [key : Keys, first : Nat]
    BY <1>1 DEF Keys
  <2>2. ASSUME NEW g \in Hosts
        PROVE  cand'[g] \in SUBSET [key : Keys, first : Nat]
    BY <1>1, <1>8, <2>1
  <2>3. cand' = [g \in Hosts |-> cand'[g]]
    BY <1>1, <1>4
  <2> QED
    BY <2>2, <2>3
<1>10. \/ worker' = [worker EXCEPT ![t] = v]
       \/ worker' = [worker EXCEPT ![t] = w]
  BY <1>4
<1>11. /\ worker' \in [Threads -> WorkerSet]
       /\ worker'[t] = v \/ worker'[t] = w
       /\ \A s \in Threads \ {t} : worker'[s] = worker[s]
  BY <1>1, <1>5, <1>6, <1>10
<1>12. PinTypes'
  BY <1>2, <1>7, <1>9, <1>11 DEF PinInv, PinTypes
<1>13. SightingsHold'
  <2>1. ASSUME NEW g \in Hosts
        PROVE  sighted'[g] <= utc
    BY <1>1, <1>7 DEF PinInv, SightingsHold
  <2>2. ASSUME NEW g \in Hosts, NEW x \in cand'[g], x.key = WatchedKey
        PROVE  0 < sighted'[g] /\ sighted'[g] <= x.first
    <3>1. CASE x \in cand[g]
      <4>1. 0 < sighted[g] /\ sighted[g] <= x.first
        BY <2>2, <3>1 DEF PinInv, SightingsHold
      <4>2. sighted'[g] = sighted[g]
        BY <1>1, <1>7, <4>1
      <4> QED
        BY <4>1, <4>2
    <3>2. CASE g = h /\ x = new
      <4>1. c.key = WatchedKey /\ x.first = utc
        BY <2>2, <3>2
      <4>2. sighted'[g] \in Nat /\ sighted'[g] > 0
        BY <1>7, <3>2, <4>1
      <4> QED
        BY <2>1, <4>1, <4>2
    <3> QED
      BY <1>8, <3>1, <3>2
  <2> QED
    BY <1>2, <2>1, <2>2 DEF SightingsHold
<1>14. NowUnixSeconds' = NowUnixSeconds /\ \A g : Rested(g)' <=> Rested(g)
  BY <1>2 DEF NowUnixSeconds, System, Rested
<1>15. (LeavesServe /\ RenewalsKept)'
  BY <1>2, <1>14 DEF PinInv, LeavesServe, RenewalsKept
<1>16. CertsVouched'
  <2>1. v.cert.vouched
    BY <1>1, <1>5 DEF PinInv, CertsVouched, Confirmed, c
  <2>2. w.pc \notin Confirmed
    BY <1>6 DEF Confirmed
  <2> QED
    BY <1>11, <2>1, <2>2 DEF PinInv, CertsVouched
<1>17. WatchedRests'
  <2>1. CASE t = WatchedThread
    <3>1. ~Renews(w)
      BY <1>6 DEF Renews, Confirmed
    <3>2. Renews(v) => Renews(worker[t]) /\ v.host = worker[t].host
      BY <1>1, <1>5 DEF Renews, Confirmed, h
    <3> QED
      BY <1>11, <1>14, <2>1, <3>1, <3>2 DEF PinInv, WatchedRests
  <2>2. CASE t # WatchedThread
    BY <1>11, <1>14, <2>2, PinConstants DEF PinInv, WatchedRests
  <2> QED
    BY <2>1, <2>2
<1> QED
  BY <1>12, <1>13, <1>15, <1>16, <1>17 DEF PinInv

LEMMA SaveKeeps ==
  ASSUME PinInv, NEW t \in Threads, Save(t)
  PROVE  PinInv'
<1> DEFINE h == worker[t].host
           c == worker[t].cert
           u == Upsert(mem[h].spkis, c)
           v == [Resting EXCEPT !.pc = "write", !.host = h]
<1>1. /\ worker[t] \in WorkerSet /\ worker[t].pc = "save" /\ h \in Hosts /\ c \in Certs
      /\ c.vouched /\ worker \in [Threads -> WorkerSet]
      /\ mem \in [Hosts -> [spkis : Records, stamp : Nat]]
      /\ mem[h].spkis \in Records /\ renewed \in [Hosts -> Nat]
      /\ NowUnixSeconds \in Nat
  BY NowIsNat DEF Save, PinInv, PinTypes, WorkerSet, CertsVouched, Confirmed
<1>2. UNCHANGED <<kind, utc, skew, disciplined, leaf, file, cand, sighted>>
  BY DEF Save, env
<1>3. /\ mem' = [mem EXCEPT ![h] = [spkis |-> u, stamp |-> NowUnixSeconds]]
      /\ renewed' = IF t = WatchedThread /\ worker[t].scheduled
                    THEN [renewed EXCEPT ![h] = NowUnixSeconds] ELSE renewed
      /\ worker' = [worker EXCEPT ![t] = v]
  BY DEF Save
<1>4. u \in Records /\ u # <<>>
  <2>1. mem[h].spkis \in Seq(Certs)
    BY <1>1 DEF Records
  <2> HIDE DEF h, c
  <2>2. u \in Seq(Certs) /\ Len(u) # 0
    BY <1>1, <2>1, UpsertIsASeq
  <2>3. u \in Records
    BY <1>1, UpsertIs
  <2> HIDE DEF u
  <2> QED
    BY <2>2, <2>3
<1>5. v \in WorkerSet /\ v.pc = "write"
  BY <1>1, RestingIs DEF WorkerSet
<1> HIDE DEF u, v, h, c
<1>6. NowUnixSeconds' = NowUnixSeconds
  BY <1>2 DEF NowUnixSeconds, System
<1>7. /\ mem' \in [Hosts -> [spkis : Records, stamp : Nat]]
      /\ mem'[h].spkis = u /\ mem'[h].stamp = NowUnixSeconds
      /\ \A g \in Hosts \ {h} : mem'[g] = mem[g]
  BY <1>1, <1>3, <1>4
<1>8. /\ renewed' \in [Hosts -> Nat]
      /\ renewed'[h] = renewed[h] \/ renewed'[h] = NowUnixSeconds
      /\ \A g \in Hosts \ {h} : renewed'[g] = renewed[g]
      /\ t # WatchedThread => renewed' = renewed
  BY <1>1, <1>3
<1>9. /\ worker' \in [Threads -> WorkerSet] /\ worker'[t] = v
      /\ \A s \in Threads \ {t} : worker'[s] = worker[s]
  BY <1>1, <1>3, <1>5
<1>10. PinTypes'
  BY <1>2, <1>7, <1>8, <1>9 DEF PinInv, PinTypes
<1>11. (LeavesServe /\ SightingsHold)'
  BY <1>2 DEF PinInv, LeavesServe, SightingsHold
<1>12. CertsVouched'
  BY <1>5, <1>9 DEF PinInv, CertsVouched, Confirmed
<1>13. RenewalsKept'
  <2>1. ASSUME NEW g \in Hosts
        PROVE  /\ renewed'[g] <= NowUnixSeconds
               /\ renewed'[g] > 0 => mem'[g].spkis # <<>> /\ renewed'[g] <= mem'[g].stamp
    <3>1. /\ renewed[g] <= NowUnixSeconds
          /\ renewed[g] > 0 => mem[g].spkis # <<>> /\ renewed[g] <= mem[g].stamp
      BY DEF PinInv, RenewalsKept
    <3>2. CASE g = h
      BY <1>1, <1>4, <1>7, <1>8, <3>1, <3>2
    <3>3. CASE g # h
      BY <1>7, <1>8, <3>1, <3>3
    <3> QED
      BY <3>2, <3>3
  <2> QED
    BY <1>6, <2>1 DEF RenewalsKept
<1>14. WatchedRests'
  <2>1. CASE t = WatchedThread
    BY <1>5, <1>9, <2>1 DEF WatchedRests, Renews, Confirmed
  <2>2. CASE t # WatchedThread
    <3>1. \A g : Rested(g)' <=> Rested(g)
      BY <1>6, <1>8, <2>2 DEF Rested
    <3> QED
      BY <1>9, <2>2, <3>1, PinConstants DEF PinInv, WatchedRests
  <2> QED
    BY <2>1, <2>2
<1> QED
  BY <1>10, <1>11, <1>12, <1>13, <1>14 DEF PinInv

LEMMA RenameKeeps ==
  ASSUME PinInv, NEW t \in Threads, Rename(t)
  PROVE  PinInv'
<1> DEFINE v == [Resting EXCEPT !.host = worker[t].host, !.ok = TRUE]
<1>1. /\ UNCHANGED <<kind, utc, skew, disciplined, leaf, mem, cand, renewed, sighted>>
      /\ worker' = [worker EXCEPT ![t] = v] /\ file' = Serialize
  BY DEF Rename, Finish, env, ghost
<1>2. /\ worker \in [Threads -> WorkerSet] /\ worker[t].host \in Hosts
      /\ mem \in [Hosts -> [spkis : Records, stamp : Nat]]
  BY DEF PinInv, PinTypes, WorkerSet
<1>3. v \in WorkerSet /\ v.pc = "idle"
  BY <1>2, RestingIs DEF WorkerSet
<1> HIDE DEF v
<1>4. /\ worker' \in [Threads -> WorkerSet] /\ worker'[t] = v
      /\ \A s \in Threads \ {t} : worker'[s] = worker[s]
  BY <1>1, <1>2, <1>3
<1>5. file' \in [Hosts -> Records]
  BY <1>1, <1>2 DEF Serialize
<1>6. PinTypes'
  BY <1>1, <1>4, <1>5 DEF PinInv, PinTypes
<1>7. NowUnixSeconds' = NowUnixSeconds /\ \A g : Rested(g)' <=> Rested(g)
  BY <1>1 DEF NowUnixSeconds, System, Rested
<1>8. (LeavesServe /\ SightingsHold /\ RenewalsKept)'
  BY <1>1, <1>7 DEF PinInv, LeavesServe, SightingsHold, RenewalsKept
<1>9. CertsVouched' /\ WatchedRests'
  <2>1. v.pc \notin Confirmed /\ ~Renews(v)
    BY <1>3 DEF Confirmed, Renews
  <2>2. CertsVouched'
    BY <1>4, <2>1 DEF PinInv, CertsVouched
  <2>3. WatchedRests'
    BY <1>4, <1>7, <2>1, PinConstants DEF PinInv, WatchedRests
  <2> QED
    BY <2>2, <2>3
<1> QED
  BY <1>6, <1>8, <1>9 DEF PinInv

LEMMA ConnectionKeeps ==
  ASSUME PinInv, NEW t \in Threads, Connection(t)
  PROVE  PinInv'
<1>1. CASE NetworkFails(t)
  BY <1>1, FinishMoves DEF NetworkFails
<1>2. CASE Discard(t)
  BY <1>2, FinishMoves DEF Discard
<1>3. CASE PersistFails(t)
  BY <1>3, FinishMoves DEF PersistFails
<1>4. CASE \E h \in Hosts : Read(t, h)
  BY <1>4, ReadKeeps
<1>5. CASE \E c \in Presented(t), ca \in BOOLEAN : Handshake(t, c, ca)
  BY <1>5, HandshakeKeeps
<1>6. CASE Promote(t) \/ Observe(t) \/ Save(t) \/ Rename(t)
  BY <1>6, PromoteKeeps, ObserveKeeps, SaveKeeps, RenameKeeps
<1> QED
  BY <1>1, <1>2, <1>3, <1>4, <1>5, <1>6 DEF Connection

-----------------------------------------------------------------------------
(***************************************************************************)
(* The steps of the world.                                                 *)
(***************************************************************************)

\* Time passes, on every clock.
LEMMA TickKeeps ==
  ASSUME PinInv, Tick
  PROVE  PinInv'
<1>1. /\ utc' = utc + 1 /\ \A h \in Hosts : utc + 1 < leaf[h].until
      /\ UNCHANGED <<kind, skew, disciplined, leaf, mem, file, cand, worker, renewed, sighted>>
  BY DEF Tick, store, ghost
<1>2. utc \in Nat \ {0} /\ skew \in Int /\ PinTypes
  BY DEF PinInv, PinTypes
<1>3. PinTypes'
  BY <1>1, <1>2 DEF PinTypes
<1>4. LeavesServe'
  <2>1. \A h \in Hosts : leaf[h].from \in Nat
    BY <1>2, PinConstants DEF PinTypes
  <2> QED
    BY <1>1, <1>2, <2>1 DEF PinInv, LeavesServe
<1>5. CertsVouched'
  BY <1>1 DEF PinInv, CertsVouched
<1>6. SightingsHold'
  <2>1. \A h \in Hosts : sighted[h] \in Nat /\ sighted[h] <= utc
    BY <1>2 DEF PinInv, PinTypes, SightingsHold
  <2>2. \A h \in Hosts : sighted[h] <= utc + 1
    BY <1>2, <2>1
  <2> QED
    BY <1>1, <2>2 DEF PinInv, SightingsHold
<1>7. /\ NowUnixSeconds \in Nat /\ NowUnixSeconds' \in Nat
      /\ NowUnixSeconds <= NowUnixSeconds'
  <2>1. NowUnixSeconds \in Nat /\ (PinTypes' => NowUnixSeconds' \in Nat)
    <3>1. (PinTypes => System \in Nat /\ NowUnixSeconds \in Nat)'
      BY NowIsNat, PTL
    <3> QED
      BY <1>2, <3>1, NowIsNat
  <2>2. NowUnixSeconds <= NowUnixSeconds'
    BY <1>1, <1>2 DEF NowUnixSeconds, System
  <2> QED
    BY <1>3, <2>1, <2>2
<1>8. RenewalsKept'
  <2>1. \A h \in Hosts : renewed[h] \in Nat /\ renewed[h] <= NowUnixSeconds
    BY <1>2 DEF PinInv, PinTypes, RenewalsKept
  <2>2. \A h \in Hosts : renewed[h] <= NowUnixSeconds'
    <3> DEFINE a == NowUnixSeconds
               b == NowUnixSeconds'
    <3>1. a \in Nat /\ b \in Nat /\ a <= b /\ \A h \in Hosts : renewed[h] \in Nat /\ renewed[h] <= a
      BY <1>7, <2>1
    <3> HIDE DEF a, b
    <3>2. \A h \in Hosts : renewed[h] <= b
      BY <3>1
    <3> QED
      BY <3>2 DEF b
  <2> QED
    BY <1>1, <2>2 DEF PinInv, RenewalsKept
<1>9. WatchedRests'
  <2>1. worker[WatchedThread].host \in Hosts
    BY <1>2, PinConstants DEF PinTypes, WorkerSet
  <2>2. ASSUME NEW h \in Hosts, Rested(h)
        PROVE  Rested(h)'
    <3> DEFINE a == NowUnixSeconds
               b == NowUnixSeconds'
    <3>1. a \in Nat /\ b \in Nat /\ a <= b /\ renewed[h] \in Nat /\ renewed'[h] = renewed[h]
      BY <1>1, <1>2, <1>7 DEF PinTypes
    <3>2. renewed[h] = 0 \/ a - renewed[h] >= PINSTORE_RENEWAL_RETRY_COOLDOWN_SECONDS
      BY <2>2 DEF Rested
    <3> HIDE DEF a, b
    <3>3. renewed[h] = 0 \/ b - renewed[h] >= PINSTORE_RENEWAL_RETRY_COOLDOWN_SECONDS
      BY <3>1, <3>2, PinConstants
    <3> QED
      BY <3>1, <3>3 DEF Rested, b
  <2> QED
    BY <1>1, <2>1, <2>2 DEF PinInv, WatchedRests
<1> QED
  BY <1>3, <1>4, <1>5, <1>6, <1>8, <1>9 DEF PinInv

LEMMA RotateKeeps ==
  ASSUME PinInv, NEW h \in Hosts, NEW c \in Certs, Rotate(h, c)
  PROVE  PinInv'
<1>1. /\ c.vouched /\ c.from <= utc /\ utc < c.until /\ leaf' = [leaf EXCEPT ![h] = c]
      /\ UNCHANGED <<kind, utc, skew, disciplined, mem, file, cand, worker, renewed, sighted>>
  BY DEF Rotate, store, ghost
<1>2. leaf \in [Hosts -> Certs]
  BY DEF PinInv, PinTypes
<1>3. PinTypes' /\ LeavesServe'
  BY <1>1, <1>2 DEF PinInv, PinTypes, LeavesServe
<1>4. NowUnixSeconds' = NowUnixSeconds /\ \A g : Rested(g)' <=> Rested(g)
  BY <1>1 DEF NowUnixSeconds, System, Rested
<1>5. (CertsVouched /\ SightingsHold /\ RenewalsKept /\ WatchedRests)'
  BY <1>1, <1>4 DEF PinInv, CertsVouched, SightingsHold, RenewalsKept, WatchedRests
<1> QED
  BY <1>3, <1>5 DEF PinInv

\* A ghost that is forgotten asks for nothing.
LEMMA Forgotten ==
  ASSUME PinTypes', renewed' = [h \in Hosts |-> 0]
  PROVE  RenewalsKept' /\ WatchedRests'
<1>1. (PinTypes => System \in Nat /\ NowUnixSeconds \in Nat)'
  BY NowIsNat, PTL
<1>2. worker'[WatchedThread].host \in Hosts
  BY PinConstants DEF PinTypes, WorkerSet
<1> QED
  BY <1>1, <1>2 DEF RenewalsKept, WatchedRests, Rested

LEMMA ClocksKeep ==
  ASSUME PinInv, SystemClockSet \/ (\E d \in BOOLEAN : Discipline(d))
  PROVE  PinInv'
<1>1. /\ renewed' = [h \in Hosts |-> 0] /\ skew' \in Int /\ disciplined' \in BOOLEAN
      /\ UNCHANGED <<kind, utc, leaf, mem, file, cand, worker, sighted>>
  <2>1. CASE SystemClockSet
    <3>1. /\ renewed' = [h \in Hosts |-> 0] /\ skew' = 0 /\ disciplined' = FALSE
          /\ UNCHANGED <<kind, utc, leaf, mem, file, cand, worker, sighted>>
      BY <2>1 DEF SystemClockSet, store
    <3>2. skew' \in Int
      BY <3>1
    <3> QED
      BY <3>1, <3>2, Zenon
  <2>2. CASE \E d \in BOOLEAN : Discipline(d)
    <3> PICK d \in BOOLEAN : Discipline(d)
      BY <2>2
    <3>1. /\ renewed' = [h \in Hosts |-> 0] /\ skew' = skew /\ disciplined' = d
          /\ UNCHANGED <<kind, utc, leaf, mem, file, cand, worker, sighted>>
      BY DEF Discipline, store
    <3> QED
      BY <3>1 DEF PinInv, PinTypes
  <2> QED
    BY <2>1, <2>2
<1>2. PinTypes'
  BY <1>1 DEF PinInv, PinTypes
<1>3. (LeavesServe /\ CertsVouched /\ SightingsHold)'
  BY <1>1 DEF PinInv, LeavesServe, CertsVouched, SightingsHold
<1> QED
  BY <1>1, <1>2, <1>3, Forgotten DEF PinInv

LEMMA RestartKeeps ==
  ASSUME PinInv, NEW r \in BOOLEAN, NEW s \in SystemSkews, Restart(r, s)
  PROVE  PinInv'
<1>1. /\ skew' = s /\ disciplined' = FALSE
      /\ mem' = IF r THEN Parse(file) ELSE [h \in Hosts |-> NoRecord]
      /\ cand' = [h \in Hosts |-> {}] /\ worker' = [t \in Threads |-> Resting]
      /\ renewed' = [h \in Hosts |-> 0] /\ sighted' = [h \in Hosts |-> 0]
      /\ UNCHANGED <<kind, utc, leaf, file>>
  BY DEF Restart
<1>2. skew' \in Int /\ file \in [Hosts -> Records] /\ utc \in Nat
  BY <1>1, PinConstants DEF PinInv, PinTypes
<1>3. mem' \in [Hosts -> [spkis : Records, stamp : Nat]]
  <2>1. \A h \in Hosts : FoldLeft(Upsert, <<>>, file[h]) \in Records
    BY <1>2, ParseIs
  <2>2. Parse(file) \in [Hosts -> [spkis : Records, stamp : Nat]]
    BY <2>1 DEF Parse
  <2> QED
    BY <1>1, <2>2, RestingIs
<1>4. PinTypes'
  BY <1>1, <1>2, <1>3, RestingIs DEF PinInv, PinTypes
<1>5. LeavesServe' /\ SightingsHold'
  BY <1>1, <1>2 DEF PinInv, LeavesServe, SightingsHold
<1>6. CertsVouched'
  BY <1>1, RestingIs DEF CertsVouched, Confirmed
<1> QED
  BY <1>1, <1>4, <1>5, <1>6, Forgotten DEF PinInv

LEMMA PinNextInv == PinInv /\ [Next]_vars => PinInv'
<1> SUFFICES ASSUME PinInv, [Next]_vars
             PROVE  PinInv'
  OBVIOUS
<1>1. CASE \E t \in Threads : Connection(t)
  BY <1>1, ConnectionKeeps
<1>2. CASE World
  BY <1>2, TickKeeps, RotateKeeps, ClocksKeep, RestartKeeps DEF World
<1>3. CASE UNCHANGED vars
  <2>1. UNCHANGED <<kind, utc, skew, disciplined, leaf, mem, file, cand, worker,
                    renewed, sighted>>
    BY <1>3 DEF vars, env, store, ghost
  <2>2. NowUnixSeconds' = NowUnixSeconds /\ \A g : Rested(g)' <=> Rested(g)
    BY <2>1 DEF NowUnixSeconds, System, Rested
  <2> QED
    BY <2>1, <2>2 DEF PinInv, PinTypes, LeavesServe, CertsVouched, SightingsHold,
                      RenewalsKept, WatchedRests
<1> QED
  BY <1>1, <1>2, <1>3 DEF Next

LEMMA PinAlways == Spec => []PinInv
BY PinInitInv, PinNextInv, PTL DEF Spec

-----------------------------------------------------------------------------
(***************************************************************************)
(* The store keeps its ledger.                                             *)
(***************************************************************************)
Shown == [h \in Hosts |-> mem[h].spkis]

LEMMA LedgerInit == Init => Ledger!Init
<1> SUFFICES ASSUME Init
             PROVE  Ledger!Init
  OBVIOUS
<1>1. mem = [h \in Hosts |-> NoRecord] /\ file = Serialize
  BY DEF Init
<1>2. Shown = [h \in Hosts |-> <<>>]
  BY <1>1, RestingIs DEF Shown
<1> QED
  BY <1>1, <1>2 DEF Shown, Serialize, Ledger!Init, Ledger!Nothing

\* A pin that is saved is the certificate the ledger learns.
LEMMA SaveLearns ==
  ASSUME PinInv, NEW t \in Threads, Save(t)
  PROVE  \E g \in Hosts, e \in Certs : Ledger!Learn(g, e)
<1>1. PICK h \in Hosts, c \in Certs :
        /\ c.vouched
        /\ mem \in [Hosts -> [spkis : Records, stamp : Nat]]
        /\ mem' = [mem EXCEPT ![h] = [spkis |-> Upsert(mem[h].spkis, c),
                                      stamp |-> NowUnixSeconds]]
        /\ file' = file
  <2>1. /\ worker[t].host \in Hosts /\ worker[t].cert \in Certs /\ worker[t].cert.vouched
        /\ mem \in [Hosts -> [spkis : Records, stamp : Nat]]
    BY DEF Save, PinInv, PinTypes, WorkerSet, CertsVouched, Confirmed
  <2> QED
    BY <2>1 DEF Save
<1> DEFINE u == Upsert(mem[h].spkis, c)
           l == Ledger!Latest(Append(Without(Shown[h], c), c))
<1>2. Shown[h] = mem[h].spkis
  BY DEF Shown
<1>3. u = l
  <2>1. mem[h].spkis \in Records
    BY <1>1
  <2> QED
    BY <1>1, <1>2, <2>1, UpsertIs
<1>4. Shown' = [Shown EXCEPT ![h] = l]
  <2>1. mem' = [mem EXCEPT ![h] = [spkis |-> u, stamp |-> NowUnixSeconds]]
    BY <1>1
  <2> HIDE DEF u, l
  <2>2. mem'[h].spkis = u /\ \A g \in Hosts \ {h} : mem'[g] = mem[g]
    BY <1>1, <2>1
  <2> QED
    BY <1>1, <1>3, <2>2 DEF Shown
<1>5. Ledger!Learn(h, c)
  BY <1>1, <1>4, Zenon DEF Ledger!Learn, Shown, Without
<1> QED
  BY <1>5

\* A run that starts finds the file, or nothing.
LEMMA RestartReopens ==
  ASSUME PinInv, NEW r \in BOOLEAN, NEW s \in SystemSkews, Restart(r, s)
  PROVE  Ledger!Reopen
<1>1. /\ mem' = IF r THEN Parse(file) ELSE [h \in Hosts |-> NoRecord]
      /\ file' = file /\ file \in [Hosts -> Records]
  BY DEF Restart, PinInv, PinTypes
<1>2. CASE r
  <2>1. \A h \in Hosts : FoldLeft(Upsert, <<>>, file[h]) = file[h]
    BY <1>1, ParseIs
  <2>2. \A h \in Hosts : mem'[h].spkis = file[h]
    BY <1>1, <1>2, <2>1 DEF Parse
  <2>3. Shown' = file
    BY <1>1, <2>2 DEF Shown
  <2> QED
    BY <1>1, <2>3 DEF Ledger!Reopen, Shown
<1>3. CASE ~r
  <2>1. Shown' = [h \in Hosts |-> <<>>]
    BY <1>1, <1>3, RestingIs DEF Shown
  <2> QED
    BY <1>1, <2>1 DEF Ledger!Reopen, Ledger!Nothing, Shown
<1> QED
  BY <1>2, <1>3

LEMMA LedgerStep ==
  PinInv /\ [Next]_vars => [Ledger!Next]_<<[h \in Hosts |-> mem[h].spkis], file>>
<1> SUFFICES ASSUME PinInv, [Next]_vars
             PROVE  Ledger!Next \/ UNCHANGED <<Shown, file>>
  BY DEF Shown
<1>1. CASE \E t \in Threads : Save(t)
  BY <1>1, SaveLearns DEF Ledger!Next
<1>2. CASE \E t \in Threads : Rename(t)
  BY <1>2 DEF Rename, Serialize, Ledger!Next, Ledger!Flush
<1>3. CASE \E r \in BOOLEAN, s \in SystemSkews : Restart(r, s)
  BY <1>3, RestartReopens DEF Ledger!Next
<1>4. CASE UNCHANGED store
  BY <1>4 DEF store, Shown
<1>5. ASSUME NEW t \in Threads, Connection(t)
      PROVE  Save(t) \/ Rename(t) \/ UNCHANGED store
  BY <1>5 DEF Connection, Read, NetworkFails, Handshake, Promote, Discard, Observe, PersistFails
<1>6. World => (\E r \in BOOLEAN, s \in SystemSkews : Restart(r, s)) \/ UNCHANGED store
  BY DEF World, Tick, SystemClockSet, Rotate, Discipline
<1> QED
  BY <1>1, <1>2, <1>3, <1>4, <1>5, <1>6 DEF Next, vars

\* pin_store.c keeps what PinLedger promises, for any number of endpoints and keys:
\* Upsert is the ledger's Learn, a completed write its Flush, and Parse, which takes the
\* lines of the file in one by one, gives back the very record that was written.
THEOREM StoreKeepsItsLedger == Spec => KeepsLedger
<1>1. Init => Ledger!Init
  BY LedgerInit
<1>2. PinInv /\ [Next]_vars => [Ledger!Next]_<<[h \in Hosts |-> mem[h].spkis], file>>
  BY LedgerStep
<1> QED
  BY <1>1, <1>2, PinAlways, PTL DEF Spec, KeepsLedger, Ledger!Spec
-----------------------------------------------------------------------------
(***************************************************************************)
(* What a single step may not do.                                          *)
(***************************************************************************)

\* pin_store.c, the cooldown of the renewal window: a thread decides on a copy of the
\* record that others may renew meanwhile, yet a renewal on schedule follows the last
\* one by the cooldown at least.
THEOREM RenewalsKeepTheirDistance == Spec => NoRenewalStorm
<1> DEFINE w == worker[WatchedThread]
           A == w.pc = "save" /\ w.scheduled /\ worker'[WatchedThread].pc = "write"
                  => LET last == renewed[w.host]
                     IN  \/ last = 0
                         \/ NowUnixSeconds - last >= PINSTORE_RENEWAL_RETRY_COOLDOWN_SECONDS
<1>1. PinInv => A
  BY DEF PinInv, WatchedRests, Renews, Rested, Confirmed
<1>2. PinInv /\ [Next]_vars => [A]_vars
  BY <1>1
<1> QED
  BY <1>2, PinAlways, PTL DEF Spec, NoRenewalStorm

LEMMA SavedOnSecondSighting ==
  ASSUME PinInv, [Next]_vars, NEW t \in Threads,
         worker[t].pc = "observe", worker'[t].pc = "save", worker[t].cert.key = WatchedKey
  PROVE  /\ sighted[worker[t].host] > 0
         /\ utc - sighted[worker[t].host] >= DOH_ROTATION_CORROBORATE_MS
<1>1. /\ worker \in [Threads -> WorkerSet] /\ worker[t].host \in Hosts
      /\ utc \in Nat /\ sighted[worker[t].host] \in Nat
      /\ cand[worker[t].host] \in SUBSET [key : Keys, first : Nat]
  BY DEF PinInv, PinTypes, WorkerSet
<1>2. Observe(t)
  <2>1. ASSUME NEW s \in Threads \ {t}, Connection(s)
        PROVE  worker'[t] = worker[t]
    BY <1>1, <2>1 DEF Connection, Read, NetworkFails, Handshake, Promote, Discard, Observe,
                      Save, Rename, PersistFails, Finish, Goto
  <2>2. Connection(t) => Observe(t)
    BY DEF Connection, Read, NetworkFails, Handshake, Promote, Discard, Save, Rename,
           PersistFails
  <2>3. ASSUME World
        PROVE  worker'[t] = worker[t] \/ worker'[t].pc = "idle"
    BY <2>3, RestingIs DEF World, Tick, SystemClockSet, Rotate, Discipline, Restart
  <2>4. worker'[t].pc # worker[t].pc /\ worker'[t].pc # "idle"
    OBVIOUS
  <2>5. CASE UNCHANGED vars
    BY <2>4, <2>5 DEF vars
  <2> QED
    BY <2>1, <2>2, <2>3, <2>4, <2>5 DEF Next
<1>3. ~(\A x \in cand[worker[t].host] : x.key = worker[t].cert.key
           => utc - x.first < DOH_ROTATION_CORROBORATE_MS)
  <2>1. Resting.pc = "idle"
    BY RestingIs
  <2>2. Finish(t, TRUE) => worker'[t].pc = "idle"
    BY <1>1, <2>1 DEF Finish, WorkerSet, Resting
  <2> DEFINE known == {x \in cand[worker[t].host] : x.key = worker[t].cert.key}
  <2>3. (\E x \in known : utc - x.first >= DOH_ROTATION_CORROBORATE_MS) \/ Finish(t, TRUE)
    BY <1>2, Zenon DEF Observe
  <2>4. PICK x \in known : utc - x.first >= DOH_ROTATION_CORROBORATE_MS
    BY <2>2, <2>3
  <2>5. x.first \in Nat
    BY <1>1
  <2> QED
    BY <1>1, <2>4, <2>5, PinConstants
<1>4. PICK x \in cand[worker[t].host] :
        x.key = WatchedKey /\ ~(utc - x.first < DOH_ROTATION_CORROBORATE_MS)
  BY <1>3
<1>5. 0 < sighted[worker[t].host] /\ sighted[worker[t].host] <= x.first /\ x.first \in Nat
  BY <1>1, <1>4 DEF PinInv, SightingsHold
<1> QED
  BY <1>1, <1>4, <1>5, PinConstants

\* dns.c: an early key of a resolver is saved only when it was seen again, the full
\* time after it was first seen, whatever other keys took the slots in between.
THEOREM EarlyKeysAreSeenTwice == Spec => SecondSighting
<1> DEFINE A == \A t \in Threads :
             worker[t].pc = "observe" /\ worker'[t].pc = "save"
                 /\ worker[t].cert.key = WatchedKey
               => /\ sighted[worker[t].host] > 0
                  /\ utc - sighted[worker[t].host] >= DOH_ROTATION_CORROBORATE_MS
<1>1. PinInv /\ [Next]_vars => [A]_vars
  BY SavedOnSecondSighting
<1> QED
  BY <1>1, PinAlways, PTL DEF Spec, SecondSighting
=============================================================================
