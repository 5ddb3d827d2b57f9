------------------------------ MODULE Fraction ------------------------------
(* Exact fractions in lowest terms, for the averages of the profit figures. *)
EXTENDS Integers

Divides(k, n) == n % k = 0

(* n / d, for d > 0. *)
Ratio(n, d) ==
  LET common == {k \in 1 .. d : Divides(k, n) /\ Divides(k, d)}
      gcd == CHOOSE k \in common : \A j \in common : j <= k
  IN [num |-> n \div gcd, den |-> d \div gcd]

Whole(n) == [num |-> n, den |-> 1]
Plus(x, y) == Ratio(x.num * y.den + y.num * x.den, x.den * y.den)
Times(x, k) == Ratio(x.num * k, x.den)
Over(x, k) == Ratio(x.num, x.den * k)
Minus(x, y) == Plus(x, Times(y, -1))
AtMost(x, y) == x.num * y.den <= y.num * x.den
Larger(x, y) == IF AtMost(x, y) THEN y ELSE x
=============================================================================
