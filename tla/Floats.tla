------------------------------- MODULE Floats -------------------------------
(***************************************************************************)
(* The single-precision floats that timer.cc and pwm.cc compute with, as   *)
(* far as they are not negative: what the processor's +, -, *, / and the   *)
(* conversions of C make of numbers, rounding included.                    *)
(*                                                                         *)
(* A float is an integer number of units, of which the smallest float has  *)
(* one and 1.0f has Unit.  Neighbouring floats are a power of two apart,   *)
(* which is such that a float is a multiple of it below 2 * Lowest and,    *)
(* except near zero, not below Lowest.  With 24 bits Lowest is 2^23, Unit  *)
(* is 2^149, Ulps are the powers from 2^0 to 2^104 * Unit and numbers up   *)
(* to Largest, 2^128 * Unit - 1, do not overflow.                          *)
(***************************************************************************)
EXTENDS Integers

CONSTANTS Lowest, Unit, Ulps, Largest

\* u is the distance of the floats around the number n.
IsUlp(u, n) == n < 2 * Lowest * u /\ (u = 1 \/ Lowest * u <= n)

ASSUME FloatAssumption ==
  /\ Lowest \in Nat \ {0} /\ Unit \in Nat /\ 2 * Lowest < Unit
  /\ Ulps \subseteq Nat \ {0} /\ Unit \in Ulps
  /\ \A u, v \in Ulps : u <= v => v % u = 0
  /\ Largest \in Nat
  /\ \A n \in 0..Largest : \E u \in Ulps : IsUlp(u, n)

Ulp(n) == CHOOSE u \in Ulps : IsUlp(u, n)

InRange(n, d) == n \div d <= Largest

\* The integer that is nearest to n / w and, of two, the even one.
Nearest(n, w) ==
  LET m == n \div w
      rest == n % w
  IN  IF 2 * rest < w \/ (2 * rest = w /\ m % 2 = 0) THEN m ELSE m + 1

\* The float that is nearest to n / d.
Rounded(n, d) == LET u == Ulp(n \div d) IN u * Nearest(n, u * d)

\* Conversion of an unsigned integer, and back: it cuts off the fraction.
Float(n) == Rounded(n * Unit, 1)
Truncated(x) == x \div Unit

Difference(x, y) == Rounded(x - y, 1)
Product(x, y) == Rounded(x * y, Unit)
Quotient(x, y) == Rounded(x * Unit, y)
=============================================================================
