----------------------------- MODULE Fractions ------------------------------
(***************************************************************************)
(* Exact fractions, for the formulas of the domain that divide.  The code  *)
(* computes them in floats, whose rounding is not modelled.                *)
(***************************************************************************)
EXTENDS Integers

Fraction == [num : Int, den : Nat \ {0}]

Frac(num, den) == [num |-> num, den |-> den]

Zero == Frac(0, 1)

Plus(p, q) == Frac(p.num * q.den + q.num * p.den, p.den * q.den)
Minus(p, q) == Frac(p.num * q.den - q.num * p.den, p.den * q.den)
Times(p, q) == Frac(p.num * q.num, p.den * q.den)

Leq(p, q) == p.num * q.den <= q.num * p.den
Less(p, q) == p.num * q.den < q.num * p.den
Same(p, q) == p.num * q.den = q.num * p.den

(* A fraction that is a probability, and one that is 0 or 1.               *)
IsProbability(p) == p \in Fraction /\ 0 <= p.num /\ p.num <= p.den
IsCertain(p) == p.num = 0 \/ p.num = p.den

(* The greatest common divisor, by Euclid's algorithm.                     *)
Gcd[pair \in Nat \X Nat] ==
  IF pair[2] = 0 THEN pair[1] ELSE Gcd[<<pair[2], pair[1] % pair[2]>>]

(* Equal fractions become one.                                             *)
Reduced(p) ==
  LET divisor == Gcd[<<IF p.num < 0 THEN -p.num ELSE p.num, p.den>>]
  IN Frac(p.num \div divisor, p.den \div divisor)

============================================================================
