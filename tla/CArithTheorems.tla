-------------------------- MODULE CArithTheorems --------------------------
(***************************************************************************)
(* What the arithmetic of CArith returns and preserves, for the proofs     *)
(* about the modules built on it; the least and the greatest of a set of   *)
(* numbers; induction over numbers; what a fold returns, as the end of the *)
(* run that it sums up; and what a loop returns that ends.                 *)
(***************************************************************************)
EXTENDS CArith, FiniteSetTheorems, FiniteSetsExt, TLAPS

\* An absolute value is a natural number.
LEMMA AbsNat == ASSUME NEW n \in Int PROVE Abs(n) \in Nat
  BY DEF Abs

\* So is an age that cannot be negative.
LEMMA NonNegNat == ASSUME NEW n \in Int PROVE NonNeg(n) \in Nat
  BY DEF NonNeg

\* The larger of two integers is one of them and at least both.
LEMMA LargerInt ==
  ASSUME NEW m \in Int, NEW n \in Int
  PROVE  Larger(m, n) \in {m, n} /\ Larger(m, n) >= m /\ Larger(m, n) >= n
  BY DEF Larger

\* The smaller of two integers is one of them and at most both.
LEMMA SmallerInt ==
  ASSUME NEW m \in Int, NEW n \in Int
  PROVE  Smaller(m, n) \in {m, n} /\ Smaller(m, n) <= m /\ Smaller(m, n) <= n
  BY DEF Smaller

\* C's truncating division yields an integer.
LEMMA TruncDivInt ==
  ASSUME NEW m \in Int, NEW n \in Nat \ {0}
  PROVE  TruncDiv(m, n) \in Int
  BY DEF TruncDiv

\* So does its division rounded half away from zero.
LEMMA RoundDivInt ==
  ASSUME NEW m \in Int, NEW n \in Nat \ {0}
  PROVE  RoundDiv(m, n) \in Int
  BY DEF RoundDiv

\* A clamped integer lies within the limit on both sides.
LEMMA ClampRange ==
  ASSUME NEW n \in Int, NEW limit \in Nat
  PROVE  Clamp(n, limit) \in -limit .. limit
  BY DEF Clamp

\* What a quotient is: for the proofs, its two inequalities stand for it.
LEMMA Quotient ==
  ASSUME NEW n \in Nat, NEW m \in Nat \ {0}
  PROVE  /\ n \div m \in Nat
         /\ (n \div m) * m <= n /\ n < (n \div m) * m + m
  OBVIOUS

\* A positive factor is cancelled.
LEMMA Cancel ==
  ASSUME NEW m \in Int, NEW n \in Int, NEW k \in Nat \ {0}, m * k < n * k
  PROVE  m < n
  OBVIOUS

\* A quotient grows with its dividend.
LEMMA QuotientMonotone ==
  ASSUME NEW m \in Nat, NEW n \in Nat, NEW d \in Nat \ {0}, m <= n
  PROVE  m \div d <= n \div d
<1> DEFINE p == m \div d
           q == n \div d
<1>1. p \in Nat /\ p * d <= m /\ q \in Nat /\ n < q * d + d
  BY Quotient
<1> HIDE DEF p, q
<1>2. p * d < (q + 1) * d
  BY <1>1
<1>3. p < q + 1
  BY <1>1, <1>2, Cancel
<1> QED
  BY <1>1, <1>3 DEF p, q

\* So does a number rounded half away from zero, negative or not.
LEMMA RoundDivMonotone ==
  ASSUME NEW m \in Int, NEW n \in Int, NEW d \in Nat \ {0}, m <= n
  PROVE  RoundDiv(m, d) <= RoundDiv(n, d)
<1> DEFINE h == d \div 2
<1>1. h \in Nat
  OBVIOUS
<1> HIDE DEF h
<1>2. CASE m >= 0
  <2>1. (m + h) \div d <= (n + h) \div d
    BY <1>1, <1>2, QuotientMonotone
  <2> QED
    BY <1>2, <2>1 DEF RoundDiv, h
<1>3. CASE m < 0 /\ n >= 0
  <2>1. (-m + h) \div d \in Nat /\ (n + h) \div d \in Nat
    BY <1>1, <1>3, Quotient
  <2> QED
    BY <1>3, <2>1 DEF RoundDiv, h
<1>4. CASE n < 0
  <2>1. (-n + h) \div d <= (-m + h) \div d
    BY <1>1, <1>4, QuotientMonotone
  <2>2. (-m + h) \div d \in Nat /\ (-n + h) \div d \in Nat
    BY <1>1, <1>4, Quotient
  <2> QED
    BY <1>4, <2>1, <2>2 DEF RoundDiv, h
<1> QED
  BY <1>2, <1>3, <1>4

\* Half away from zero: the rounded quotient is within half the divisor of the number.
LEMMA RoundDivClose ==
  ASSUME NEW n \in Int, NEW d \in Nat \ {0}
  PROVE  /\ 2 * (RoundDiv(n, d) * d) <= 2 * n + d
         /\ 2 * n - d <= 2 * (RoundDiv(n, d) * d)
<1> DEFINE h == d \div 2
<1>1. h \in Nat /\ 2 * h <= d /\ d < 2 * h + 2
  OBVIOUS
<1> HIDE DEF h
<1>2. CASE n >= 0
  <2>1. n + h \in Nat /\ RoundDiv(n, d) = (n + h) \div d
    BY <1>1, <1>2 DEF RoundDiv, h
  <2>2. /\ RoundDiv(n, d) \in Nat
        /\ RoundDiv(n, d) * d <= n + h /\ n + h < RoundDiv(n, d) * d + d
    BY <2>1, Quotient
  <2> QED
    BY <1>1, <2>2
<1>3. CASE n < 0
  <2> DEFINE m == (-n + h) \div d
  <2>1. -n + h \in Nat /\ RoundDiv(n, d) = -m
    BY <1>1, <1>3 DEF RoundDiv, h
  <2>2. m \in Nat /\ m * d <= -n + h /\ -n + h < m * d + d
    BY <2>1, Quotient
  <2> HIDE DEF m
  <2>3. RoundDiv(n, d) * d = -(m * d)
    BY <2>1, <2>2
  <2> QED
    BY <1>1, <2>2, <2>3
<1> QED
  BY <1>2, <1>3

\* The quotient truncated toward zero is less than one from the number.
LEMMA TruncDivClose ==
  ASSUME NEW m \in Int, NEW n \in Nat \ {0}
  PROVE  /\ TruncDiv(m, n) * n < m + n
         /\ m < TruncDiv(m, n) * n + n
<1>1. CASE m >= 0
  BY <1>1, Quotient DEF TruncDiv
<1>2. CASE m < 0
  <2> DEFINE q == (-m) \div n
  <2>1. q \in Nat /\ q * n <= -m /\ -m < q * n + n
    BY <1>2, Quotient
  <2>2. TruncDiv(m, n) = -q
    BY <1>2 DEF TruncDiv
  <2> HIDE DEF q
  <2>3. TruncDiv(m, n) * n = -(q * n)
    BY <2>1, <2>2
  <2> QED
    BY <2>1, <2>3
<1> QED
  BY <1>1, <1>2

\* A set of numbers has a least one: of the intervals that end in it, one contains no
\* other.
LEMMA LeastNumber ==
  ASSUME NEW T, T \subseteq Nat, T # {}
  PROVE  \E n \in T : \A m \in T : n <= m
<1> DEFINE Below == {1 .. n : n \in T}
           R == StrictSubsetOrdering(Nat)
<1>1. Below \subseteq FiniteSubsetsOf(Nat) /\ Below # {}
  <2>1. \A n \in T : 1 .. n \in SUBSET Nat
    OBVIOUS
  <2>2. ASSUME NEW n \in T PROVE IsFiniteSet(1 .. n)
    <3>1. 1 \in Int /\ n \in Int
      OBVIOUS
    <3> QED
      BY <3>1, FS_Interval
  <2> QED
    BY <2>1, <2>2 DEF FiniteSubsetsOf
<1>2. IsWellFoundedOn(R, FiniteSubsetsOf(Nat))
  BY FS_StrictSubsetOrderingWellFounded
<1>3. PICK x \in Below : \A y \in Below : <<y, x>> \notin R
  <2> HIDE DEF R, Below
  <2> QED
    BY <1>1, <1>2, WFMin
<1>4. PICK n \in T : x = 1 .. n
  OBVIOUS
<1>5. ASSUME NEW m \in T, m < n PROVE FALSE
  <2>1. 1 .. m \in Below /\ <<1 .. m, 1 .. n>> \notin R
    BY <1>3, <1>4
  <2>2. 1 .. m \subseteq 1 .. n /\ n \in 1 .. n /\ n \notin 1 .. m
    BY <1>5
  <2>3. 1 .. m \in SUBSET Nat /\ 1 .. n \in SUBSET Nat
    OBVIOUS
  <2> QED
    BY <2>1, <2>2, <2>3 DEF StrictSubsetOrdering
<1> QED
  BY <1>5

\* Induction, on a set of numbers.
LEMMA SetInduction ==
  ASSUME NEW S \in SUBSET Nat, 0 \in S, \A n \in S : n + 1 \in S
  PROVE  S = Nat
<1>1. SUFFICES ASSUME Nat \ S # {}
               PROVE  FALSE
  OBVIOUS
<1>2. PICK n \in Nat \ S : \A m \in Nat \ S : n <= m
  BY <1>1, LeastNumber
<1>3. n - 1 \in Nat /\ n - 1 \notin Nat \ S
  BY <1>2
<1> QED
  BY <1>2, <1>3
-----------------------------------------------------------------------------
(***************************************************************************)
(* The greatest and the least of a few numbers.                            *)
(***************************************************************************)
\* A set of the numbers up to n has a greatest one.
LEMMA Greatest ==
  ASSUME NEW n \in Nat, NEW A \in SUBSET (1 .. n), A # {}
  PROVE  Max(A) \in A /\ \A x \in A : x <= Max(A)
<1> DEFINE has(B) == \E x \in B : \A y \in B : x >= y
           S == {m \in Nat : \A B \in SUBSET (1 .. m) : B # {} => has(B)}
<1>1. 0 \in S
  <2>1. \A B \in SUBSET (1 .. 0) : B = {}
    OBVIOUS
  <2> QED
    BY <2>1
<1>2. ASSUME NEW m \in S
      PROVE  m + 1 \in S
  <2> SUFFICES ASSUME NEW B \in SUBSET (1 .. m + 1), B # {}
               PROVE  has(B)
    OBVIOUS
  <2>1. CASE m + 1 \in B
    <3>1. \A y \in B : m + 1 >= y
      OBVIOUS
    <3> QED
      BY <2>1, <3>1
  <2>2. CASE m + 1 \notin B
    <3>1. B \in SUBSET (1 .. m)
      BY <2>2
    <3> QED
      BY <1>2, <3>1
  <2> QED
    BY <2>1, <2>2
<1>3. S = Nat
  <2>1. S \in SUBSET Nat
    OBVIOUS
  <2> HIDE DEF S
  <2> QED
    BY <1>1, <1>2, <2>1, SetInduction
<1>4. has(A)
  BY <1>3
<1>5. Max(A) \in A /\ \A y \in A : Max(A) >= y
  BY <1>4 DEF Max
<1> QED
  BY <1>5

LEMMA TopOfInterval ==
  ASSUME NEW k \in Nat
  PROVE  /\ Max(1 .. k + 1) = k + 1 /\ (1 .. k + 1) \ {k + 1} = 1 .. k
         /\ 1 .. k + 1 # {} /\ \A n \in Nat : k + 1 <= n => 1 .. k + 1 \in SUBSET (1 .. n)
<1>1. k + 1 \in Nat /\ k + 1 \in 1 .. k + 1 /\ 1 .. k + 1 # {}
  OBVIOUS
<1>2. /\ Max(1 .. k + 1) \in 1 .. k + 1
      /\ \A x \in 1 .. k + 1 : x <= Max(1 .. k + 1)
  BY <1>1, Greatest
<1>3. Max(1 .. k + 1) = k + 1
  BY <1>1, <1>2
<1> QED
  BY <1>1, <1>3

LEMMA Least ==
  ASSUME NEW n \in Nat, NEW A \in SUBSET (1 .. n), A # {}
  PROVE  Min(A) \in A /\ \A x \in A : Min(A) <= x
<1>1. A \subseteq Nat
  OBVIOUS
<1>2. \E x \in A : \A y \in A : x =< y
  BY <1>1, LeastNumber
<1> QED
  BY <1>2 DEF Min

-----------------------------------------------------------------------------
(***************************************************************************)
(* A fold from the left: it exists, when each step gives one more value.   *)
(***************************************************************************)

\* What a fold computes on subsets of the places 1 .. n of a sequence.
Folds(f, n, base, step) ==
    f = [r \in SUBSET (1 .. n) |->
           IF r = {} THEN base ELSE step[<<f[r \ {Max(r)}], Max(r)>>]]

LEMMA FoldExists ==
  ASSUME NEW n \in Nat, NEW V, NEW base \in V, NEW step \in [V \X (1 .. n) -> V]
  PROVE  \E f \in [SUBSET (1 .. n) -> V] : Folds(f, n, base, step)
<1> DEFINE Sub(k) == {r \in SUBSET (1 .. n) : Cardinality(r) <= k}
           next(g, r) == IF r = {} THEN base ELSE step[<<g[r \ {Max(r)}], Max(r)>>]
           S == {k \in Nat : \E g \in [Sub(k) -> V] : \A r \in Sub(k) : g[r] = next(g, r)}
<1>1. /\ \A r \in SUBSET (1 .. n) : IsFiniteSet(r) /\ Cardinality(r) \in Nat
      /\ \A r \in SUBSET (1 .. n) : Cardinality(r) <= n
  <2>1. 1 \in Int /\ n \in Int
    OBVIOUS
  <2>2. IsFiniteSet(1 .. n) /\ Cardinality(1 .. n) = IF 1 > n THEN 0 ELSE n - 1 + 1
    BY <2>1, FS_Interval
  <2>3. Cardinality(1 .. n) = n
    BY <2>2
  <2>4. ASSUME NEW r \in SUBSET (1 .. n)
        PROVE  IsFiniteSet(r) /\ Cardinality(r) \in Nat /\ Cardinality(r) <= n
    <3>1. IsFiniteSet(r) /\ Cardinality(r) <= Cardinality(1 .. n)
      BY <2>2, FS_Subset
    <3> QED
      BY <2>3, <3>1, FS_CardinalityType
  <2> QED
    BY <2>4
<1>2. ASSUME NEW r \in SUBSET (1 .. n), r # {}
      PROVE  /\ Max(r) \in 1 .. n /\ r \ {Max(r)} \in SUBSET (1 .. n)
             /\ Cardinality(r \ {Max(r)}) = Cardinality(r) - 1
  BY <1>1, <1>2, Greatest, FS_RemoveElement
<1>3. 0 \in S
  <2> DEFINE g == [r \in Sub(0) |-> base]
  <2>1. ASSUME NEW r \in Sub(0)
        PROVE  r = {}
    BY <1>1, <2>1, FS_EmptySet
  <2>2. g \in [Sub(0) -> V] /\ \A r \in Sub(0) : g[r] = next(g, r)
    BY <2>1
  <2> QED
    BY <2>2
<1>4. ASSUME NEW k \in S
      PROVE  k + 1 \in S
  <2>1. PICK g \in [Sub(k) -> V] : \A r \in Sub(k) : g[r] = next(g, r)
    BY <1>4
  <2> DEFINE h == [r \in Sub(k + 1) |-> next(g, r)]
  <2>2. ASSUME NEW r \in Sub(k + 1), r # {}
        PROVE  r \ {Max(r)} \in Sub(k) /\ <<g[r \ {Max(r)}], Max(r)>> \in V \X (1 .. n)
    <3>1. r \ {Max(r)} \in Sub(k)
      BY <1>1, <1>2, <2>2
    <3> QED
      BY <1>2, <2>2, <3>1
  <2>3. h \in [Sub(k + 1) -> V]
    <3>1. ASSUME NEW r \in Sub(k + 1)
          PROVE  next(g, r) \in V
      BY <2>2
    <3> QED
      BY <3>1
  <2>4. ASSUME NEW r \in Sub(k)
        PROVE  r \in Sub(k + 1) /\ h[r] = g[r]
    <3>1. k \in Nat /\ Cardinality(r) \in Nat /\ Cardinality(r) <= k
      BY <1>1
    <3>2. r \in Sub(k + 1)
      BY <3>1
    <3>3. g[r] = next(g, r)
      BY <2>1
    <3> QED
      BY <3>2, <3>3
  <2>5. ASSUME NEW r \in Sub(k + 1)
        PROVE  h[r] = next(h, r)
    <3>1. CASE r = {}
      BY <3>1
    <3>2. CASE r # {}
      <4>1. h[r \ {Max(r)}] = g[r \ {Max(r)}]
        BY <2>2, <2>4, <3>2
      <4> QED
        BY <3>2, <4>1
    <3> QED
      BY <3>1, <3>2
  <2>6. \E f \in [Sub(k + 1) -> V] : \A r \in Sub(k + 1) : f[r] = next(f, r)
    <3> HIDE DEF h, next, Sub
    <3> QED
      BY <2>3, <2>5
  <2> HIDE DEF next, Sub
  <2> QED
    BY <2>6
<1>5. S = Nat
  <2>1. S \in SUBSET Nat
    OBVIOUS
  <2> HIDE DEF S
  <2> QED
    BY <1>3, <1>4, <2>1, SetInduction
<1>6. PICK f \in [Sub(n) -> V] : \A r \in Sub(n) : f[r] = next(f, r)
  BY <1>5
<1>7. Sub(n) = SUBSET (1 .. n)
  BY <1>1
<1>8. f = [r \in SUBSET (1 .. n) |-> next(f, r)]
  BY <1>6, <1>7
<1> QED
  BY <1>6, <1>7, <1>8 DEF Folds

\* The values that a fold passes through, one place after the other,
Passes(h, n, base, step) ==
    h[0] = base /\ \A k \in 0 .. n - 1 : h[k + 1] = step[<<h[k], k + 1>>]

\* as a function on sets of places computes them.
Gathers(f, n, V, base, step) ==
    /\ f[{}] = base
    /\ \A r \in SUBSET (1 .. n) :
          r # {} /\ f[r \ {Max(r)}] \in V => f[r] = step[<<f[r \ {Max(r)}], Max(r)>>]

EndsLike(f, h, n) == f[1 .. n] = h[n]

LEMMA RunExists ==
  ASSUME NEW n \in Nat, NEW V, NEW base \in V, NEW step \in [V \X (1 .. n) -> V]
  PROVE  \E h \in [0 .. n -> V] : Passes(h, n, base, step)
<1>1. PICK f \in [SUBSET (1 .. n) -> V] : Folds(f, n, base, step)
  BY FoldExists
<1> DEFINE h == [k \in 0 .. n |-> f[1 .. k]]
<1>2. \A k \in 0 .. n : 1 .. k \in SUBSET (1 .. n)
  OBVIOUS
<1>3. h \in [0 .. n -> V]
  BY <1>2
<1>4. h[0] = base
  <2>1. 1 .. 0 = {} /\ h[0] = f[1 .. 0]
    OBVIOUS
  <2>2. {} \in SUBSET (1 .. n)
    OBVIOUS
  <2>3. f[{}] = base
    BY <1>1, <2>2 DEF Folds
  <2> QED
    BY <2>1, <2>3
<1>5. ASSUME NEW k \in 0 .. n - 1
      PROVE  h[k + 1] = step[<<h[k], k + 1>>]
  <2>1. /\ k \in Nat /\ k + 1 \in 0 .. n /\ k \in 0 .. n
        /\ h[k] = f[1 .. k] /\ h[k + 1] = f[1 .. k + 1]
    OBVIOUS
  <2> HIDE DEF h
  <2>2. /\ Max(1 .. k + 1) = k + 1 /\ (1 .. k + 1) \ {k + 1} = 1 .. k
        /\ 1 .. k + 1 # {}
    BY <2>1, TopOfInterval
  <2>3. 1 .. k + 1 \in SUBSET (1 .. n)
    BY <2>1
  <2>4. f[1 .. k + 1] = step[<<f[(1 .. k + 1) \ {k + 1}], k + 1>>]
    <3> DEFINE r == 1 .. k + 1
    <3>1. r \in SUBSET (1 .. n) /\ r # {} /\ Max(r) = k + 1
      BY <2>2, <2>3
    <3> HIDE DEF r
    <3>2. f[r] = step[<<f[r \ {Max(r)}], Max(r)>>]
      BY <1>1, <3>1 DEF Folds
    <3> QED
      BY <3>1, <3>2 DEF r
  <2> QED
    BY <2>1, <2>2, <2>4
<1> HIDE DEF h
<1> QED
  BY <1>3, <1>4, <1>5 DEF Passes

\* A fold ends where its run does.
LEMMA RunIsFold ==
  ASSUME NEW n \in Nat, NEW V, NEW base \in V, NEW step \in [V \X (1 .. n) -> V],
         NEW h \in [0 .. n -> V], Passes(h, n, base, step),
         NEW F, Gathers(F, n, V, base, step)
  PROVE  EndsLike(F, h, n)
<1> DEFINE S == {k \in Nat : k <= n => F[1 .. k] = h[k]}
<1>1. 0 \in S
  <2>1. 1 .. 0 = {}
    OBVIOUS
  <2> QED
    BY <2>1 DEF Passes, Gathers
<1>2. ASSUME NEW k \in S
      PROVE  k + 1 \in S
  <2> SUFFICES ASSUME k + 1 <= n
               PROVE  F[1 .. k + 1] = h[k + 1]
    OBVIOUS
  <2>1. k \in Nat /\ k \in 0 .. n - 1 /\ k \in 0 .. n /\ F[1 .. k] = h[k]
    OBVIOUS
  <2>2. /\ Max(1 .. k + 1) = k + 1 /\ (1 .. k + 1) \ {k + 1} = 1 .. k
        /\ 1 .. k + 1 # {} /\ 1 .. k + 1 \in SUBSET (1 .. n)
    BY <2>1, TopOfInterval
  <2>3. F[1 .. k] \in V
    BY <2>1
  <2>4. F[1 .. k + 1] = step[<<F[1 .. k], k + 1>>]
    <3> DEFINE r == 1 .. k + 1
    <3>1. /\ r \in SUBSET (1 .. n) /\ r # {} /\ Max(r) = k + 1
          /\ r \ {Max(r)} = 1 .. k /\ F[r \ {Max(r)}] \in V
      BY <2>2, <2>3
    <3> HIDE DEF r
    <3>2. F[r] = step[<<F[r \ {Max(r)}], Max(r)>>]
      BY <3>1 DEF Gathers
    <3> QED
      BY <3>1, <3>2 DEF r
  <2> QED
    BY <2>1, <2>4 DEF Passes
<1>3. S = Nat
  <2>1. S \in SUBSET Nat
    OBVIOUS
  <2> HIDE DEF S
  <2> QED
    BY <1>1, <1>2, <2>1, SetInduction
<1> QED
  BY <1>3 DEF EndsLike

-----------------------------------------------------------------------------
(***************************************************************************)
(* A loop, as a recursive function of its state: it stops with a value, or *)
(* goes on with the next state.                                            *)
(***************************************************************************)
\* In a loop that ends, something gets less.
Ends(D, stop, next, size) ==
    /\ \A x \in D : size[x] \in Nat
    /\ \A x \in D : ~stop[x] => next[x] \in D /\ size[next[x]] < size[x]

\* The function that a loop is.
Loops(f, D, stop, val, next) ==
    f = [x \in D |-> IF stop[x] THEN val[x] ELSE f[next[x]]]

\* f goes round that loop from the states in J.
Turns(f, J, stop, val, next) ==
    \A x \in J : f[x] = IF stop[x] THEN val[x] ELSE f[next[x]]

\* A loop that ends is a function,
LEMMA LoopExists ==
  ASSUME NEW D, NEW stop, NEW val, NEW next, NEW size, Ends(D, stop, next, size)
  PROVE  \E f : Loops(f, D, stop, val, next)
<1> DEFINE Sub(k) == {x \in D : size[x] < k}
           body(g, x) == IF stop[x] THEN val[x] ELSE g[next[x]]
           S == {k \in Nat : \E g : \A x \in Sub(k) : g[x] = body(g, x)}
<1>1. \A x \in D : size[x] \in Nat
  BY DEF Ends
<1>2. \A x \in D : ~stop[x] => next[x] \in D /\ size[next[x]] < size[x]
  BY DEF Ends
<1>3. 0 \in S
  <2>1. Sub(0) = {}
    BY <1>1
  <2> QED
    BY <2>1
<1>4. ASSUME NEW k \in S
      PROVE  k + 1 \in S
  <2>1. PICK g : \A x \in Sub(k) : g[x] = body(g, x)
    BY <1>4
  <2> DEFINE h == [x \in D |-> IF size[x] < k THEN g[x] ELSE body(g, x)]
  <2>2. ASSUME NEW x \in Sub(k + 1)
        PROVE  h[x] = body(h, x)
    <3>1. x \in D /\ size[x] \in Nat /\ k \in Nat /\ size[x] <= k
      BY <1>1
    <3>2. h[x] = body(g, x)
      <4>1. CASE size[x] < k
        BY <2>1, <3>1, <4>1
      <4>2. CASE ~(size[x] < k)
        BY <3>1, <4>2
      <4> QED
        BY <4>1, <4>2
    <3>3. CASE stop[x]
      BY <3>2, <3>3
    <3>4. CASE ~stop[x]
      <4>1. next[x] \in D /\ size[next[x]] < size[x] /\ size[next[x]] \in Nat
        BY <1>1, <1>2, <3>1, <3>4
      <4>2. size[next[x]] < k
        BY <3>1, <4>1
      <4>3. h[next[x]] = g[next[x]]
        BY <4>1, <4>2
      <4> HIDE DEF h
      <4> QED
        BY <3>2, <3>4, <4>3
    <3> QED
      BY <3>3, <3>4
  <2>3. \E f : \A x \in Sub(k + 1) : f[x] = body(f, x)
    <3> HIDE DEF h, Sub, body
    <3> QED
      BY <2>2
  <2> HIDE DEF Sub, body
  <2> QED
    BY <2>3
<1>5. S = Nat
  <2>1. S \in SUBSET Nat
    OBVIOUS
  <2> HIDE DEF S
  <2> QED
    BY <1>3, <1>4, <2>1, SetInduction
<1> DEFINE T == {k \in Nat : \A g, h : (\A x \in Sub(k) : g[x] = body(g, x) /\ h[x] = body(h, x))
                                          => \A x \in Sub(k) : g[x] = h[x]}
<1>6. 0 \in T
  <2>1. Sub(0) = {}
    BY <1>1
  <2> QED
    BY <2>1
<1>7. ASSUME NEW k \in T
      PROVE  k + 1 \in T
  <2> SUFFICES ASSUME NEW g, NEW h,
                      \A x \in Sub(k + 1) : g[x] = body(g, x) /\ h[x] = body(h, x),
                      NEW x \in Sub(k + 1)
               PROVE  g[x] = h[x]
    OBVIOUS
  <2>1. \A z \in Sub(k) : z \in Sub(k + 1)
    BY <1>1
  <2>2. \A z \in Sub(k) : g[z] = h[z]
    <3> HIDE DEF Sub, body
    <3> QED
      BY <1>7, <2>1
  <2>3. CASE stop[x]
    BY <2>3
  <2>4. CASE ~stop[x]
    <3>1. next[x] \in Sub(k)
      <4>1. x \in D /\ size[x] \in Nat /\ size[x] < k + 1 /\ k \in Nat
        BY <1>1
      <4>2. next[x] \in D /\ size[next[x]] < size[x] /\ size[next[x]] \in Nat
        BY <1>1, <1>2, <2>4, <4>1
      <4> QED
        BY <4>1, <4>2
    <3>2. g[next[x]] = h[next[x]]
      BY <2>2, <3>1
    <3> QED
      BY <2>4, <3>2
  <2> QED
    BY <2>3, <2>4
<1>8. T = Nat
  <2>1. T \in SUBSET Nat
    OBVIOUS
  <2> HIDE DEF T
  <2> QED
    BY <1>6, <1>7, <2>1, SetInduction
<1> DEFINE G(k) == CHOOSE g : \A x \in Sub(k) : g[x] = body(g, x)
           f == [x \in D |-> G(size[x] + 1)[x]]
<1>9. ASSUME NEW k \in Nat, NEW x \in Sub(k)
      PROVE  G(k)[x] = body(G(k), x)
  <2>1. \E g : \A z \in Sub(k) : g[z] = body(g, z)
    BY <1>5
  <2> HIDE DEF Sub, body
  <2> QED
    BY <2>1
<1>10. ASSUME NEW k \in Nat, NEW x \in Sub(k)
       PROVE  f[x] = G(k)[x]
  <2> DEFINE j == size[x] + 1
  <2>1. x \in D /\ j \in Nat /\ j <= k /\ x \in Sub(j)
    BY <1>1
  <2>2. \A z \in Sub(j) : z \in Sub(k)
    BY <1>1, <2>1
  <2> HIDE DEF j
  <2>3. \A z \in Sub(j) : G(j)[z] = body(G(j), z) /\ G(k)[z] = body(G(k), z)
    <3> HIDE DEF Sub, body, G
    <3> QED
      BY <1>9, <2>1, <2>2
  <2>4. j \in T
    BY <1>8, <2>1
  <2>5. \A z \in Sub(j) : G(j)[z] = G(k)[z]
    <3> HIDE DEF Sub, body, G
    <3> QED
      BY <2>3, <2>4
  <2>6. f[x] = G(j)[x]
    BY <2>1 DEF j
  <2> HIDE DEF Sub, body, G, f
  <2> QED
    BY <2>1, <2>5, <2>6
<1>11. ASSUME NEW x \in D
       PROVE  f[x] = body(f, x)
  <2> DEFINE j == size[x] + 1
  <2>1. j \in Nat /\ x \in Sub(j)
    BY <1>1
  <2>2. f[x] = G(j)[x] /\ G(j)[x] = body(G(j), x)
    <3> HIDE DEF j, Sub, body, G, f
    <3> QED
      BY <1>9, <1>10, <2>1
  <2>3. CASE stop[x]
    BY <2>2, <2>3
  <2>4. CASE ~stop[x]
    <3>1. next[x] \in Sub(j)
      <4>1. next[x] \in D /\ size[next[x]] < size[x] /\ size[next[x]] \in Nat /\ size[x] \in Nat
        BY <1>1, <1>2, <2>4
      <4> QED
        BY <4>1
    <3>2. f[next[x]] = G(j)[next[x]]
      <4> HIDE DEF j, Sub, body, G, f
      <4> QED
        BY <1>10, <2>1, <3>1
    <3> HIDE DEF f, G, j
    <3> QED
      BY <2>2, <2>4, <3>2
  <2> QED
    BY <2>3, <2>4
<1>12. f = [x \in D |-> body(f, x)]
  <2> HIDE DEF body, G
  <2>1. \A x \in D : f[x] = body(f, x)
    BY <1>11
  <2> QED
    BY <2>1
<1> HIDE DEF f
<1> QED
  BY <1>12 DEF Loops

\* and from states that it does not leave, it returns a value it stops with in one of them.
LEMMA LoopStopsIn ==
  ASSUME NEW D, NEW stop, NEW val, NEW next, NEW size, Ends(D, stop, next, size),
         NEW f, Turns(f, D, stop, val, next), NEW W, \A x \in D : stop[x] => val[x] \in W
  PROVE  \A x \in D : f[x] \in W
<1> DEFINE S == {k \in Nat : \A x \in D : size[x] < k => f[x] \in W}
<1>1. \A x \in D : size[x] \in Nat
  BY DEF Ends
<1>2. \A x \in D : ~stop[x] => next[x] \in D /\ size[next[x]] < size[x]
  BY DEF Ends
<1>3. 0 \in S
  BY <1>1
<1>4. ASSUME NEW k \in S
      PROVE  k + 1 \in S
  <2> SUFFICES ASSUME NEW x \in D, size[x] < k + 1
               PROVE  f[x] \in W
    OBVIOUS
  <2>1. x \in D /\ size[x] \in Nat /\ k \in Nat
    BY <1>1
  <2>2. f[x] = IF stop[x] THEN val[x] ELSE f[next[x]]
    BY <2>1 DEF Turns
  <2>3. CASE stop[x]
    BY <2>1, <2>2, <2>3
  <2>4. CASE ~stop[x]
    <3>1. next[x] \in D /\ size[next[x]] < size[x] /\ size[next[x]] \in Nat
      BY <1>1, <1>2, <2>1, <2>4
    <3>2. size[next[x]] < k
      BY <2>1, <3>1
    <3>3. f[next[x]] \in W
      BY <3>1, <3>2
    <3> QED
      BY <2>2, <2>4, <3>3
  <2> QED
    BY <2>3, <2>4
<1>5. S = Nat
  <2>1. S \in SUBSET Nat
    OBVIOUS
  <2> HIDE DEF S
  <2> QED
    BY <1>3, <1>4, <2>1, SetInduction
<1> QED
  <2> SUFFICES ASSUME NEW x \in D
               PROVE  f[x] \in W
    OBVIOUS
  <2>1. size[x] \in Nat /\ size[x] + 1 \in S
    BY <1>1, <1>5
  <2> QED
    BY <2>1
=============================================================================
