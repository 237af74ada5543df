------------------------------- MODULE CArith -------------------------------
(***************************************************************************)
(* The integer arithmetic of the C engine, where it differs from TLA+:     *)
(* division truncates toward zero, and QPC ticks become milliseconds by    *)
(* rounding half away from zero.                                           *)
(***************************************************************************)
EXTENDS Integers

Abs(n) == IF n < 0 THEN -n ELSE n

NonNeg(n) == IF n < 0 THEN 0 ELSE n

Larger(a, b) == IF a > b THEN a ELSE b

Smaller(a, b) == IF a < b THEN a ELSE b

\* C's a / b for b > 0.
TruncDiv(a, b) == IF a >= 0 THEN a \div b ELSE -((-a) \div b)

\* (a >= 0) ? (a + b/2) / b : (a - b/2) / b, for b > 0.
RoundDiv(a, b) ==
    IF a >= 0 THEN (a + b \div 2) \div b ELSE -((-a + b \div 2) \div b)

\* n brought into -limit .. limit.
Clamp(n, limit) == IF n > limit THEN limit ELSE IF n < -limit THEN -limit ELSE n
=============================================================================
