-------------------------- MODULE PnLEngineProofs --------------------------
(***************************************************************************)
(* For every set of prices and positive quantities: the positions inside   *)
(* the profit figures are those the trading modules work with, the profit   *)
(* agrees with the money that changed hands, and the drawdown is the       *)
(* largest fall.                                                           *)
(***************************************************************************)
EXTENDS PnLEngine, SequenceFacts

(* Exact fractions: what the operators of Fraction compute, stated by       *)
(* multiplying out, since the numbers here are whole.                      *)
Fractions == [num : Int, den : Nat \ {0}]

(* x is n / d. *)
Equals(x, n, d) == x.num * d = n * x.den

-----------------------------------------------------------------------------
(* Whole numbers.                                                          *)

LEMMA Cancel ==
  ASSUME NEW a \in Int, NEW b \in Int, NEW k \in Int, k # 0, a * k = b * k
  PROVE  a = b
OBVIOUS

LEMMA CancelAtMost ==
  ASSUME NEW a \in Int, NEW b \in Int, NEW k \in Int, k > 0, a * k <= b * k
  PROVE  a <= b
OBVIOUS

LEMMA MultiplyAtMost ==
  ASSUME NEW a \in Int, NEW b \in Int, NEW k \in Nat, a <= b
  PROVE  a * k <= b * k
OBVIOUS

LEMMA PositiveProduct ==
  ASSUME NEW a \in Nat \ {0}, NEW b \in Nat \ {0}
  PROVE  a * b \in Nat \ {0}
OBVIOUS

LEMMA DivisionExact ==
  ASSUME NEW n \in Int, NEW g \in Nat \ {0}, n % g = 0
  PROVE  n \div g \in Int /\ n = (n \div g) * g
OBVIOUS

LEMMA MultipleDivides ==
  ASSUME NEW k \in Int, NEW g \in Nat \ {0}
  PROVE  (k * g) % g = 0 /\ (k * g) \div g = k
OBVIOUS

-----------------------------------------------------------------------------
(* Ratio reduces to lowest terms, and does not change the value.            *)

LEMMA RatioIs ==
  ASSUME NEW n \in Int, NEW d \in Nat \ {0}
  PROVE  /\ Ratio(n, d) \in Fractions /\ Equals(Ratio(n, d), n, d)
         /\ \A k \in Int : n = k * d => Ratio(n, d) = Whole(k)
<1> DEFINE common == {k \in 1 .. d : Divides(k, n) /\ Divides(k, d)}
           greatest(k) == \A j \in common : j <= k
           gcd == CHOOSE k \in common : greatest(k)
<1>1. /\ 1 \in common /\ common \subseteq 1 .. d
      /\ \A k \in common : n % k = 0 /\ d % k = 0
  BY DEF Divides
<1>2. \E k \in common : greatest(k)
  <2> DEFINE below == {d - k : k \in common}
  <2>1. below \in SUBSET Nat /\ below # {}
    BY <1>1
  <2>2. PICK m \in below : \A l \in below : m <= l
    BY <2>1, LeastElement
  <2>3. PICK k \in common : m = d - k
    BY <2>2
  <2>4. ASSUME NEW j \in common PROVE j <= k
    <3>1. d - k <= d - j
      BY <2>2, <2>3
    <3>2. j \in Int /\ k \in Int
      BY <1>1
    <3> HIDE DEF common
    <3> QED
      BY <3>1, <3>2
  <2> QED
    BY <2>4
<1>3. gcd \in common /\ greatest(gcd)
  <2> HIDE DEF common, greatest
  <2> QED
    BY <1>2
<1>4. Ratio(n, d) = [num |-> n \div gcd, den |-> d \div gcd]
  BY DEF Ratio
<1> HIDE DEF gcd
<1>5. gcd \in Nat \ {0} /\ n % gcd = 0 /\ d % gcd = 0
  BY <1>1, <1>3
<1>6. PICK a \in Int, b \in Int : a = n \div gcd /\ b = d \div gcd
  BY <1>5, DivisionExact
<1>7. n = a * gcd /\ d = b * gcd
  BY <1>5, <1>6, DivisionExact
<1>8. b > 0
  BY <1>5, <1>7
<1>9. Ratio(n, d) = [num |-> a, den |-> b]
  BY <1>4, <1>6
<1>10. Ratio(n, d) \in Fractions /\ Equals(Ratio(n, d), n, d)
  <2>1. a * (b * gcd) = (a * gcd) * b
    BY <1>5
  <2> QED
    BY <1>7, <1>8, <1>9, <2>1 DEF Fractions, Equals
<1>11. ASSUME NEW k \in Int, n = k * d PROVE Ratio(n, d) = Whole(k)
  <2>1. d \in common
    BY <1>11, MultipleDivides DEF Divides
  <2>2. gcd = d
    BY <1>1, <1>3, <2>1
  <2>3. n \div d = k /\ d \div d = 1
    BY <1>11, MultipleDivides
  <2> QED
    BY <1>4, <2>2, <2>3 DEF Whole
<1> QED
  BY <1>10, <1>11

LEMMA ItsOwnValue ==
  /\ \A x \in Fractions : /\ x.num \in Int /\ x.den \in Nat \ {0}
                          /\ Equals(x, x.num, x.den)
  /\ \A n \in Int : Whole(n) \in Fractions /\ Equals(Whole(n), n, 1)
BY DEF Fractions, Equals, Whole

LEMMA TimesIs ==
  ASSUME NEW x \in Fractions, NEW k \in Int,
         NEW n \in Int, NEW d \in Nat \ {0}, Equals(x, n, d)
  PROVE  Times(x, k) \in Fractions /\ Equals(Times(x, k), n * k, d)
<1>1. PICK a \in Int, b \in Nat \ {0} : a = x.num /\ b = x.den
  BY ItsOwnValue
<1>2. PICK r \in Fractions : r = Ratio(a * k, b) /\ Equals(r, a * k, b)
  BY RatioIs
<1>3. PICK p \in Int, q \in Nat \ {0} : p = r.num /\ q = r.den
  BY ItsOwnValue
<1>4. a * d = n * b /\ p * b = (a * k) * q
  BY <1>1, <1>2, <1>3 DEF Equals
<1>5. (p * d) * b = ((n * k) * q) * b
  <2>1. (p * d) * b = (p * b) * d
    OBVIOUS
  <2>2. ((a * k) * q) * d = (a * d) * (k * q)
    OBVIOUS
  <2>3. (n * b) * (k * q) = ((n * k) * q) * b
    OBVIOUS
  <2> QED
    BY <1>4, <2>1, <2>2, <2>3
<1>6. p * d = (n * k) * q
  BY <1>5, Cancel
<1> QED
  BY <1>1, <1>2, <1>3, <1>6 DEF Times, Equals

LEMMA OverIs ==
  ASSUME NEW x \in Fractions, NEW k \in Nat \ {0},
         NEW n \in Int, NEW d \in Nat \ {0}, Equals(x, n, d)
  PROVE  Over(x, k) \in Fractions /\ Equals(Over(x, k), n, d * k)
<1>1. PICK a \in Int, b \in Nat \ {0} : a = x.num /\ b = x.den
  BY ItsOwnValue
<1>2. b * k \in Nat \ {0}
  BY PositiveProduct
<1>3. PICK r \in Fractions : r = Ratio(a, b * k) /\ Equals(r, a, b * k)
  BY <1>2, RatioIs
<1>4. PICK p \in Int, q \in Nat \ {0} : p = r.num /\ q = r.den
  BY ItsOwnValue
<1>5. a * d = n * b /\ p * (b * k) = a * q
  BY <1>1, <1>3, <1>4 DEF Equals
<1>6. (p * (d * k)) * b = (n * q) * b
  <2>1. (p * (d * k)) * b = (p * (b * k)) * d
    OBVIOUS
  <2>2. (a * q) * d = (a * d) * q
    OBVIOUS
  <2>3. (n * b) * q = (n * q) * b
    OBVIOUS
  <2> QED
    BY <1>5, <2>1, <2>2, <2>3
<1>7. p * (d * k) = n * q
  BY <1>6, Cancel
<1> QED
  BY <1>1, <1>3, <1>4, <1>7 DEF Over, Equals

LEMMA PlusIs ==
  ASSUME NEW x \in Fractions, NEW y \in Fractions,
         NEW n \in Int, NEW d \in Nat \ {0}, Equals(x, n, d),
         NEW m \in Int, NEW e \in Nat \ {0}, Equals(y, m, e)
  PROVE  /\ Plus(x, y) \in Fractions
         /\ Equals(Plus(x, y), n * e + m * d, d * e)
<1>1. PICK a \in Int, b \in Nat \ {0} : a = x.num /\ b = x.den
  BY ItsOwnValue
<1>2. PICK f \in Int, g \in Nat \ {0} : f = y.num /\ g = y.den
  BY ItsOwnValue
<1>3. b * g \in Nat \ {0} /\ a * g + f * b \in Int
  BY PositiveProduct
<1>4. PICK r \in Fractions :
        r = Ratio(a * g + f * b, b * g) /\ Equals(r, a * g + f * b, b * g)
  BY <1>3, RatioIs
<1>5. PICK p \in Int, q \in Nat \ {0} : p = r.num /\ q = r.den
  BY ItsOwnValue
<1>6. a * d = n * b /\ f * e = m * g /\ p * (b * g) = (a * g + f * b) * q
  BY <1>1, <1>2, <1>4, <1>5 DEF Equals
<1>7. (p * (d * e)) * (b * g) = ((n * e + m * d) * q) * (b * g)
  <2>1. (p * (d * e)) * (b * g) = (p * (b * g)) * (d * e)
    OBVIOUS
  <2>2. ((a * g + f * b) * q) * (d * e)
          = (a * d) * (g * e * q) + (f * e) * (b * d * q)
    OBVIOUS
  <2>3. (n * b) * (g * e * q) + (m * g) * (b * d * q)
          = ((n * e + m * d) * q) * (b * g)
    OBVIOUS
  <2> QED
    BY <1>6, <2>1, <2>2, <2>3
<1>8. p * (d * e) = (n * e + m * d) * q
  <2>1. b * g # 0 /\ b * g \in Int
    BY <1>3
  <2> QED
    BY <1>7, <2>1, Cancel
<1> QED
  BY <1>1, <1>2, <1>4, <1>5, <1>8 DEF Plus, Equals

LEMMA MinusIs ==
  ASSUME NEW x \in Fractions, NEW y \in Fractions,
         NEW n \in Int, NEW d \in Nat \ {0}, Equals(x, n, d),
         NEW m \in Int, NEW e \in Nat \ {0}, Equals(y, m, e)
  PROVE  /\ Minus(x, y) \in Fractions
         /\ Equals(Minus(x, y), n * e - m * d, d * e)
<1>1. PICK z \in Fractions : z = Times(y, -1) /\ Equals(z, m * (-1), e)
  <2>1. PICK k \in Int : k = -1
    OBVIOUS
  <2>2. Times(y, k) \in Fractions /\ Equals(Times(y, k), m * k, e)
    BY TimesIs
  <2> QED
    BY <2>1, <2>2
<1>2. Plus(x, z) \in Fractions /\ Equals(Plus(x, z), n * e + (m * (-1)) * d, d * e)
  BY <1>1, PlusIs
<1>3. n * e + (m * (-1)) * d = n * e - m * d
  OBVIOUS
<1> QED
  BY <1>1, <1>2, <1>3 DEF Minus

(* In lowest terms a whole number has one form.                             *)
LEMMA PlusIsWhole ==
  ASSUME NEW x \in Fractions, NEW y \in Fractions, NEW k \in Int,
         Equals(Plus(x, y), k, 1)
  PROVE  Plus(x, y) = Whole(k)
<1>1. PICK a \in Int, b \in Nat \ {0} : a = x.num /\ b = x.den
  BY ItsOwnValue
<1>2. PICK f \in Int, g \in Nat \ {0} : f = y.num /\ g = y.den
  BY ItsOwnValue
<1>3. PICK n \in Int, d \in Nat \ {0} : n = a * g + f * b /\ d = b * g
  BY PositiveProduct
<1>4. PICK r \in Fractions : r = Ratio(n, d) /\ Equals(r, n, d)
  BY RatioIs
<1>5. PICK p \in Int, q \in Nat \ {0} : p = r.num /\ q = r.den
  BY ItsOwnValue
<1>6. r = Plus(x, y)
  BY <1>1, <1>2, <1>3, <1>4 DEF Plus
<1>7. p * d = n * q /\ p = k * q
  BY <1>4, <1>5, <1>6 DEF Equals
<1>8. n * q = (k * d) * q
  <2>1. (k * q) * d = (k * d) * q
    OBVIOUS
  <2> QED
    BY <1>7, <2>1
<1>9. n = k * d
  BY <1>8, Cancel
<1> QED
  BY <1>4, <1>6, <1>9, RatioIs

-----------------------------------------------------------------------------
(* The order of fractions.                                                  *)

LEMMA AtMostOrders ==
  /\ \A x \in Fractions : AtMost(x, x)
  /\ \A x, y \in Fractions : AtMost(x, y) \/ AtMost(y, x)
  /\ \A x, y, z \in Fractions : AtMost(x, y) /\ AtMost(y, z) => AtMost(x, z)
<1>1. \A x \in Fractions : AtMost(x, x)
  BY ItsOwnValue DEF AtMost
<1>2. ASSUME NEW x \in Fractions, NEW y \in Fractions
      PROVE  AtMost(x, y) \/ AtMost(y, x)
  BY ItsOwnValue DEF AtMost
<1>3. ASSUME NEW x \in Fractions, NEW y \in Fractions, NEW z \in Fractions,
             AtMost(x, y), AtMost(y, z)
      PROVE  AtMost(x, z)
  <2>1. PICK a \in Int, b \in Nat \ {0} : a = x.num /\ b = x.den
    BY ItsOwnValue
  <2>2. PICK f \in Int, g \in Nat \ {0} : f = y.num /\ g = y.den
    BY ItsOwnValue
  <2>3. PICK p \in Int, q \in Nat \ {0} : p = z.num /\ q = z.den
    BY ItsOwnValue
  <2>4. a * g <= f * b /\ f * q <= p * g
    BY <1>3, <2>1, <2>2, <2>3 DEF AtMost
  <2>5. (a * g) * q <= (f * b) * q /\ (f * q) * b <= (p * g) * b
    BY <2>4, MultiplyAtMost
  <2>6. /\ (a * g) * q = (a * q) * g /\ (f * b) * q = (f * q) * b
        /\ (p * g) * b = (p * b) * g
    OBVIOUS
  <2>7. (a * q) * g <= (p * b) * g
    BY <2>5, <2>6
  <2>8. a * q <= p * b
    BY <2>7, CancelAtMost
  <2> QED
    BY <2>1, <2>3, <2>8 DEF AtMost
<1> QED
  BY <1>1, <1>2, <1>3

LEMMA LargerIs ==
  ASSUME NEW x \in Fractions, NEW y \in Fractions
  PROVE  /\ Larger(x, y) \in {x, y}
         /\ AtMost(x, Larger(x, y)) /\ AtMost(y, Larger(x, y))
BY AtMostOrders DEF Larger

(* What is taken away from more leaves more.                                *)
LEMMA MinusAtMost ==
  ASSUME NEW x \in Fractions, NEW y \in Fractions, NEW z \in Fractions,
         AtMost(x, y)
  PROVE  AtMost(Minus(x, z), Minus(y, z))
<1>1. PICK a \in Int, b \in Nat \ {0} : a = x.num /\ b = x.den /\ Equals(x, a, b)
  BY ItsOwnValue
<1>2. PICK f \in Int, g \in Nat \ {0} : f = y.num /\ g = y.den /\ Equals(y, f, g)
  BY ItsOwnValue
<1>3. PICK m \in Int, e \in Nat \ {0} : m = z.num /\ e = z.den /\ Equals(z, m, e)
  BY ItsOwnValue
<1>4. PICK u \in Fractions :
        u = Minus(x, z) /\ Equals(u, a * e - m * b, b * e)
  BY <1>1, <1>3, MinusIs
<1>5. PICK v \in Fractions :
        v = Minus(y, z) /\ Equals(v, f * e - m * g, g * e)
  BY <1>2, <1>3, MinusIs
<1>6. PICK p \in Int, q \in Nat \ {0} : p = u.num /\ q = u.den
  BY ItsOwnValue
<1>7. PICK r \in Int, s \in Nat \ {0} : r = v.num /\ s = v.den
  BY ItsOwnValue
<1>8. /\ p * (b * e) = (a * e - m * b) * q
      /\ r * (g * e) = (f * e - m * g) * s
      /\ a * g <= f * b
  BY <1>1, <1>2, <1>4, <1>5, <1>6, <1>7 DEF Equals, AtMost
<1>9. PICK k \in Nat \ {0} : k = (q * s) * e
  BY PositiveProduct
<1>10. PICK h \in Nat \ {0} : h = (b * g) * e
  BY PositiveProduct
<1>11. (a * g) * k <= (f * b) * k
  BY <1>8, MultiplyAtMost
<1>12. (p * s) * h = (a * g) * k - (m * b * g) * (q * s)
  <2>1. (p * s) * h = (p * (b * e)) * (s * g)
    BY <1>10
  <2>2. ((a * e - m * b) * q) * (s * g) = (a * g) * k - (m * b * g) * (q * s)
    BY <1>9
  <2> QED
    BY <1>8, <2>1, <2>2
<1>13. (r * q) * h = (f * b) * k - (m * b * g) * (q * s)
  <2>1. (r * q) * h = (r * (g * e)) * (q * b)
    BY <1>10
  <2>2. ((f * e - m * g) * s) * (q * b) = (f * b) * k - (m * b * g) * (q * s)
    BY <1>9
  <2> QED
    BY <1>8, <2>1, <2>2
<1>14. (p * s) * h <= (r * q) * h
  BY <1>11, <1>12, <1>13
<1>15. p * s <= r * q
  BY <1>14, CancelAtMost
<1> QED
  BY <1>4, <1>5, <1>6, <1>7, <1>15 DEF AtMost

-----------------------------------------------------------------------------
(* Positions.                                                              *)

(* Each strategy has a record with the fields of StrategyStats, and a whole *)
(* number of lots as its position.                                         *)
Field == {"position", "avgPrice", "realized", "unrealized", "trades"}

StatsOK ==
  /\ stats = [s \in StrategyId |-> stats[s]]
  /\ \A s \in StrategyId :
       /\ stats[s] = [f \in Field |-> stats[s][f]]
       /\ stats[s].position \in Int

(* Both branches of on_fill move the position by the signed quantity.       *)
LEMMA BranchesMoveThePosition ==
  ASSUME NEW r, r = [f \in Field |-> r[f]],
         NEW price, NEW quantity, NEW fillQty
  PROVE  /\ Increased(r, price, quantity, fillQty)
              = [f \in Field |-> Increased(r, price, quantity, fillQty)[f]]
         /\ Decreased(r, price, quantity, fillQty)
              = [f \in Field |-> Decreased(r, price, quantity, fillQty)[f]]
         /\ Increased(r, price, quantity, fillQty).position
              = r.position + fillQty
         /\ Decreased(r, price, quantity, fillQty).position
              = r.position + fillQty
  BY DEF Increased, Decreased, Field

(* on_fill moves one position and leaves the other.                        *)
LEMMA OnFillMovesOne ==
  ASSUME StatsOK, NEW s \in StrategyId, NEW side \in OrderSide, NEW price,
         NEW quantity \in Quantities, OnFill(s, side, price, quantity)
  PROVE  /\ StatsOK'
         /\ Pos!OnFill(s, side, quantity)
<1> DEFINE fillQty == quantity * Sign(side)
<1>1. quantity \in Int /\ fillQty \in Int
  BY QuantityAssumption DEF Sign
<1>2. /\ stats'[s] = [f \in Field |-> stats'[s][f]]
      /\ stats'[s].position = stats[s].position + fillQty
  BY BranchesMoveThePosition DEF OnFill, StatsOK
<1>3. /\ stats' = [t \in StrategyId |-> stats'[t]]
      /\ \A t \in StrategyId \ {s} : stats'[t] = stats[t]
  BY DEF OnFill, StatsOK
<1>4. StatsOK'
  <2>1. stats'[s].position \in Int
    BY <1>1, <1>2 DEF StatsOK
  <2> QED
    BY <1>2, <1>3, <2>1 DEF StatsOK
<1>5. Pos!OnFill(s, side, quantity)
  BY <1>2, <1>3 DEF Pos!OnFill, Pos!Sign, Sign
<1> QED
  BY <1>4, <1>5

(* update_pnl leaves all positions.                                        *)
LEMMA UpdatePnLKeepsPositions ==
  ASSUME StatsOK, NEW price, UpdatePnL(price)
  PROVE  /\ StatsOK'
         /\ \A s \in StrategyId : stats'[s].position = stats[s].position
<1>1. \A s \in StrategyId : stats'[s] = Marked(stats[s], price)
  BY DEF UpdatePnL
<1>2. \A s \in StrategyId :
        /\ stats'[s] = [f \in Field |-> stats'[s][f]]
        /\ stats'[s].position = stats[s].position
  BY <1>1 DEF Marked, StatsOK, Field
<1>3. stats' = [s \in StrategyId |-> stats'[s]]
  BY DEF UpdatePnL
<1> QED
  BY <1>2, <1>3 DEF StatsOK

(* PnLEngine implements Positions: what HftMain assumes of on_fill is what  *)
(* the bookkeeping does, whichever branch a fill takes.                    *)
THEOREM PositionsKept == Spec => KeepsPositions
<1>1. Init => StatsOK /\ Pos!Init
  BY DEF Init, StatsOK, Field, Pos!Init, Pos!StrategyId, StrategyId
<1>2. StatsOK /\ [Next]_vars =>
        StatsOK' /\ [Pos!Next]_([s \in StrategyId |-> stats[s].position])
  <2> SUFFICES ASSUME StatsOK, [Next]_vars
               PROVE  /\ StatsOK'
                      /\ [Pos!Next]_([s \in StrategyId |-> stats[s].position])
    OBVIOUS
  <2>1. ASSUME NEW s \in StrategyId, NEW side \in OrderSide, NEW price \in Prices,
               NEW quantity \in Quantities,
               FillReport(s, side, price, quantity)
        PROVE  StatsOK' /\ Pos!Next
    BY <2>1, OnFillMovesOne DEF FillReport, Pos!Next, Pos!StrategyId, StrategyId,
                            Pos!OrderSide, OrderSide
  <2>2. ASSUME NEW price, OtherReport(price)
        PROVE  StatsOK' /\ UNCHANGED stats
    BY <2>2 DEF OtherReport, StatsOK
  <2>3. CASE Mark
    BY <2>3, UpdatePnLKeepsPositions DEF Mark
  <2>4. CASE UNCHANGED vars
    BY <2>4 DEF vars, StatsOK
  <2> QED
    BY <2>1, <2>2, <2>3, <2>4 DEF Next
<1> QED
  BY <1>1, <1>2, PTL DEF Spec, KeepsPositions, Pos!Spec

-----------------------------------------------------------------------------
(* Bookkeeping by average price, for every sequence of fills.               *)

(* What is realised, less the cost of what is held, is the cash: multiplied *)
(* out, since the figures are fractions.                                   *)
Balanced(r, c) ==
  r.realized.num * r.avgPrice.den
    - (r.avgPrice.num * r.position) * r.realized.den
  = c * (r.realized.den * r.avgPrice.den)

Figures(r) ==
  /\ r.position \in Int
  /\ r.avgPrice \in Fractions /\ r.realized \in Fractions

LEMMA BalancedIs ==
  ASSUME NEW r, Figures(r), NEW c \in Int,
         NEW n \in Int, NEW d \in Nat \ {0}, Equals(r.realized, n, d),
         NEW m \in Int, NEW e \in Nat \ {0}, Equals(r.avgPrice, m, e)
  PROVE  Balanced(r, c) <=> n * e - (m * r.position) * d = c * (d * e)
<1>1. PICK a \in Int, b \in Nat \ {0} : a = r.realized.num /\ b = r.realized.den
  BY ItsOwnValue DEF Figures
<1>2. PICK f \in Int, g \in Nat \ {0} : f = r.avgPrice.num /\ g = r.avgPrice.den
  BY ItsOwnValue DEF Figures
<1>3. PICK p \in Int : p = r.position
  BY DEF Figures
<1>4. a * d = n * b /\ f * e = m * g
  BY <1>1, <1>2 DEF Equals
<1>5. Balanced(r, c) <=> a * g - (f * p) * b = c * (b * g)
  BY <1>1, <1>2, <1>3 DEF Balanced
<1>6. (a * g - (f * p) * b) * (d * e) = (n * e - (m * p) * d) * (b * g)
  <2>1. (a * g - (f * p) * b) * (d * e)
          = (a * d) * (g * e) - (f * e) * (p * b * d)
    OBVIOUS
  <2>2. (n * e - (m * p) * d) * (b * g)
          = (n * b) * (g * e) - (m * g) * (p * b * d)
    OBVIOUS
  <2> QED
    BY <1>4, <2>1, <2>2
<1>7. (c * (b * g)) * (d * e) = (c * (d * e)) * (b * g)
  OBVIOUS
<1>8. PICK h \in Nat \ {0}, k \in Nat \ {0} : h = d * e /\ k = b * g
  BY PositiveProduct
<1>9. PICK u \in Int, v \in Int, x \in Int, y \in Int :
        /\ u = a * g - (f * p) * b /\ v = c * (b * g)
        /\ x = n * e - (m * p) * d /\ y = c * (d * e)
  OBVIOUS
<1>10. u * h = x * k /\ v * h = y * k
  BY <1>6, <1>7, <1>8, <1>9
<1>11. u = v <=> x = y
  <2>1. ASSUME u = v PROVE x = y
    BY <1>10, <2>1, Cancel
  <2>2. ASSUME x = y PROVE u = v
    BY <1>10, <2>2, Cancel
  <2> QED
    BY <2>1, <2>2
<1> QED
  BY <1>3, <1>5, <1>9, <1>11

(* Balanced books, in lowest terms, are what LedgerAgrees compares.         *)
LEMMA BalancedAgrees ==
  ASSUME NEW r, Figures(r), NEW c \in Int, Balanced(r, c)
  PROVE  Minus(r.realized, Times(r.avgPrice, r.position)) = Whole(c)
<1>1. PICK a \in Int, b \in Nat \ {0} :
        a = r.realized.num /\ b = r.realized.den /\ Equals(r.realized, a, b)
  BY ItsOwnValue DEF Figures
<1>2. PICK f \in Int, g \in Nat \ {0} :
        f = r.avgPrice.num /\ g = r.avgPrice.den /\ Equals(r.avgPrice, f, g)
  BY ItsOwnValue DEF Figures
<1>3. PICK p \in Int : p = r.position
  BY DEF Figures
<1>4. PICK t \in Fractions : t = Times(r.avgPrice, p) /\ Equals(t, f * p, g)
  BY <1>2, TimesIs DEF Figures
<1>5. PICK z \in Fractions :
        z = Times(t, -1) /\ Equals(z, (f * p) * (-1), g)
  <2>1. PICK k \in Int, l \in Int : k = -1 /\ l = f * p
    OBVIOUS
  <2>2. Times(t, k) \in Fractions /\ Equals(Times(t, k), l * k, g)
    BY <1>4, <2>1, TimesIs
  <2> QED
    BY <2>1, <2>2
<1>6. PICK l \in Int : l = (f * p) * (-1)
  OBVIOUS
<1>7. PICK s \in Fractions :
        s = Plus(r.realized, z) /\ Equals(s, a * g + l * b, b * g)
  BY <1>1, <1>5, <1>6, PlusIs DEF Figures
<1>8. PICK u \in Int, v \in Nat \ {0} : u = s.num /\ v = s.den
  BY ItsOwnValue
<1>9. a * g - (f * p) * b = c * (b * g)
  BY <1>1, <1>2, <1>3 DEF Balanced
<1>10. PICK k \in Nat \ {0} : k = b * g
  BY PositiveProduct
<1>11. u * k = (c * v) * k
  <2>1. a * g + l * b = c * k
    BY <1>6, <1>9, <1>10
  <2>2. u * k = (c * k) * v
    BY <1>7, <1>8, <1>10, <2>1 DEF Equals
  <2> QED
    BY <2>2
<1>12. u = c * v
  BY <1>11, Cancel
<1>13. Equals(Plus(r.realized, z), c, 1)
  BY <1>7, <1>8, <1>12 DEF Equals
<1>14. Plus(r.realized, z) = Whole(c)
  BY <1>13, PlusIsWhole DEF Figures
<1> QED
  BY <1>3, <1>4, <1>5, <1>14 DEF Minus

(* A position and a fill, with their sizes and their signs.                 *)
LEMMA AbsIs ==
  ASSUME NEW p \in Int, NEW q \in Nat \ {0}, NEW g \in {1, -1}
  PROVE  LET f == q * g IN
         /\ f \in Int /\ f # 0
         /\ p = 0 \/ p * f > 0 =>
              Abs(p) = p * g /\ Abs(p + f) = (p + f) * g /\ Abs(p + f) \in Nat \ {0}
         /\ ~(p = 0 \/ p * f > 0) =>
              /\ (p > 0 /\ g = -1) \/ (p < 0 /\ g = 1)
              /\ Abs(p) = - p * g
<1>1. CASE g = 1
  BY <1>1 DEF Abs
<1>2. CASE g = -1
  BY <1>2 DEF Abs
<1> QED
  BY <1>1, <1>2

(* A fill that opens or enlarges a position: the new average costs what the *)
(* old one and the fill did.                                               *)
LEMMA IncreasedBalances ==
  ASSUME NEW r, r = [f \in Field |-> r[f]], Figures(r),
         NEW c \in Int, Balanced(r, c),
         NEW price \in Int, NEW q \in Nat \ {0}, NEW g \in {1, -1},
         r.position = 0 \/ r.position * (q * g) > 0
  PROVE  LET s == Increased(r, price, q, q * g) IN
         Figures(s) /\ Balanced(s, c - price * q * g)
<1> DEFINE s == Increased(r, price, q, q * g)
<1>1. PICK p \in Int, f \in Int : p = r.position /\ f = q * g
  <2>1. q * g \in Int
    OBVIOUS
  <2> QED
    BY <2>1 DEF Figures
<1>2. /\ Abs(p) = p * g /\ Abs(p + f) = (p + f) * g
      /\ Abs(p + f) \in Nat \ {0}
  BY <1>1, AbsIs
<1>3. PICK h \in Int, k \in Nat \ {0} : h = Abs(p) /\ k = Abs(p + f)
  BY <1>2
<1>4. PICK m \in Int, e \in Nat \ {0} :
        m = r.avgPrice.num /\ e = r.avgPrice.den /\ Equals(r.avgPrice, m, e)
  BY ItsOwnValue DEF Figures
<1>5. PICK t \in Fractions : t = Times(r.avgPrice, h) /\ Equals(t, m * h, e)
  BY <1>4, TimesIs DEF Figures
<1>6. PICK w \in Int : w = price * q
  OBVIOUS
<1>7. PICK u \in Fractions :
        u = Plus(t, Whole(w)) /\ Equals(u, (m * h) * 1 + w * e, e * 1)
  <2>1. Whole(w) \in Fractions /\ Equals(Whole(w), w, 1)
    BY ItsOwnValue
  <2>2. m * h \in Int /\ 1 \in Nat \ {0}
    OBVIOUS
  <2> QED
    BY <1>5, <2>1, <2>2, PlusIs
<1>8. PICK x \in Int : x = m * h + w * e
  OBVIOUS
<1>9. PICK v \in Fractions : v = Over(u, k) /\ Equals(v, x, e * k)
  <2>1. Equals(u, x, e)
    BY <1>7, <1>8
  <2> QED
    BY <2>1, OverIs
<1>10. /\ s.position = p + f /\ s.avgPrice = v /\ s.realized = r.realized
       /\ Figures(s)
  <2>1. /\ s.position = r.position + q * g /\ s.realized = r.realized
        /\ s.avgPrice = Over(Plus(Times(r.avgPrice, Abs(r.position)),
                                  Whole(price * q)), Abs(r.position + q * g))
    BY DEF Increased, Field
  <2> QED
    BY <1>1, <1>3, <1>5, <1>6, <1>7, <1>9, <2>1 DEF Figures
<1>11. PICK a \in Int, b \in Nat \ {0} :
         a = r.realized.num /\ b = r.realized.den /\ Equals(r.realized, a, b)
  BY ItsOwnValue DEF Figures
<1>12. a * e - (m * p) * b = c * (b * e)
  BY <1>1, <1>4, <1>11 DEF Balanced
<1>13. PICK y \in Nat \ {0} : y = e * k
  BY PositiveProduct
<1>14. a * y - (x * (p + f)) * b = (c - price * q * g) * (b * y)
  <2>1. h * g = p /\ k * g = p + f /\ g * g = 1
    BY <1>2, <1>3
  <2>2. x * (p + f) = (m * p + price * f * e) * k
    <3>1. x * (p + f) = ((m * h + (price * q) * e) * g) * k
      BY <1>6, <1>8, <2>1
    <3>2. (m * h + (price * q) * e) * g = m * (h * g) + price * (q * g) * e
      OBVIOUS
    <3> QED
      BY <1>1, <2>1, <3>1, <3>2
  <2>3. a * y - (x * (p + f)) * b
          = (a * e - (m * p) * b) * k - (price * f * e * b) * k
    BY <1>13, <2>2
  <2>4. (c - price * q * g) * (b * y) = (c * (b * e)) * k - (price * f * e * b) * k
    BY <1>1, <1>13
  <2> QED
    BY <1>12, <2>3, <2>4
<1>15. Balanced(s, c - price * q * g)
  <2>1. PICK l \in Int : l = c - price * q * g
    OBVIOUS
  <2>2. Equals(s.realized, a, b) /\ Equals(s.avgPrice, x, y)
    BY <1>9, <1>10, <1>11, <1>13
  <2>3. Balanced(s, l) <=> a * y - (x * s.position) * b = l * (b * y)
    BY <1>10, <2>2, BalancedIs
  <2> QED
    BY <1>10, <1>14, <2>1, <2>3
<1> QED
  BY <1>10, <1>15

(* A fill that reduces, closes or turns a position: what it closes leaves    *)
(* at the fill's price, and the rest of the fill, if any, enters at it.     *)
LEMMA DecreasedBalances ==
  ASSUME NEW r, r = [f \in Field |-> r[f]], Figures(r),
         NEW c \in Int, Balanced(r, c),
         NEW price \in Int, NEW q \in Nat \ {0}, NEW g \in {1, -1},
         ~(r.position = 0 \/ r.position * (q * g) > 0)
  PROVE  LET s == Decreased(r, price, q, q * g) IN
         Figures(s) /\ Balanced(s, c - price * q * g)
<1> DEFINE s == Decreased(r, price, q, q * g)
<1>1. PICK p \in Int, f \in Int : p = r.position /\ f = q * g
  <2>1. q * g \in Int
    OBVIOUS
  <2> QED
    BY <2>1 DEF Figures
<1>2. /\ (p > 0 /\ g = -1) \/ (p < 0 /\ g = 1)
      /\ Abs(p) = - p * g
  BY <1>1, AbsIs
<1>3. PICK k \in Int :
        k = IF p > 0 THEN Lesser(Abs(p), q) ELSE -Lesser(Abs(p), q)
  BY <1>2 DEF Lesser
<1>4. IF q > Abs(p) THEN k = p ELSE k = -f
  BY <1>1, <1>2, <1>3 DEF Lesser
<1>5. PICK m \in Int, e \in Nat \ {0} :
        m = r.avgPrice.num /\ e = r.avgPrice.den /\ Equals(r.avgPrice, m, e)
  BY ItsOwnValue DEF Figures
<1>6. PICK a \in Int, b \in Nat \ {0} :
        a = r.realized.num /\ b = r.realized.den /\ Equals(r.realized, a, b)
  BY ItsOwnValue DEF Figures
<1>7. a * e - (m * p) * b = c * (b * e)
  BY <1>1, <1>5, <1>6 DEF Balanced
<1>8. Whole(price) \in Fractions /\ Equals(Whole(price), price, 1)
  BY ItsOwnValue
<1>9. PICK t \in Fractions :
        t = Minus(Whole(price), r.avgPrice) /\ Equals(t, price * e - m, e)
  <2>1. /\ Minus(Whole(price), r.avgPrice) \in Fractions
        /\ Equals(Minus(Whole(price), r.avgPrice), price * e - m * 1, 1 * e)
    BY <1>5, <1>8, MinusIs DEF Figures
  <2> QED
    BY <2>1
<1>10. PICK l \in Int : l = price * e - m
  OBVIOUS
<1>11. PICK u \in Fractions : u = Times(t, k) /\ Equals(u, l * k, e)
  BY <1>9, <1>10, TimesIs
<1>12. PICK w \in Fractions :
         w = Plus(r.realized, u) /\ Equals(w, a * e + (l * k) * b, b * e)
  BY <1>6, <1>11, PlusIs DEF Figures
<1>13. PICK x \in Int, y \in Nat \ {0} : x = a * e + (l * k) * b /\ y = b * e
  BY PositiveProduct
<1>14. /\ s.position = p + f /\ s.realized = w
       /\ s.avgPrice = IF q > Abs(p) THEN Whole(price) ELSE r.avgPrice
       /\ Figures(s)
  <2>1. /\ s.position = r.position + q * g
        /\ s.realized = Plus(r.realized,
             Times(Minus(Whole(price), r.avgPrice),
                   IF r.position > 0 THEN Lesser(Abs(r.position), q)
                                     ELSE -Lesser(Abs(r.position), q)))
        /\ s.avgPrice = IF q > Abs(r.position) THEN Whole(price)
                                               ELSE r.avgPrice
    BY DEF Decreased, Field
  <2> QED
    BY <1>1, <1>3, <1>8, <1>9, <1>11, <1>12, <2>1 DEF Figures
<1>15. PICK z \in Int : z = c - price * q * g
  OBVIOUS
<1>16. z = c - price * f
  BY <1>1, <1>15
<1> HIDE DEF s
<1>17. ASSUME q > Abs(p) PROVE Balanced(s, z)
  <2>1. Balanced(s, z) <=> x * 1 - (price * s.position) * y = z * (y * 1)
    BY <1>8, <1>12, <1>13, <1>14, <1>17, BalancedIs
  <2>2. x = a * e - (m * p) * b + (price * p) * (b * e)
    <3>1. k = p
      BY <1>4, <1>17
    <3> QED
      BY <1>10, <1>13, <3>1
  <2>3. x * 1 - (price * (p + f)) * y = z * (y * 1)
    <3>1. x = c * y + (price * p) * y
      BY <1>7, <1>13, <2>2
    <3> QED
      BY <1>16, <3>1
  <2> QED
    BY <1>14, <1>15, <2>1, <2>3
<1>18. ASSUME ~(q > Abs(p)) PROVE Balanced(s, z)
  <2>1. Balanced(s, z) <=> x * e - (m * s.position) * y = z * (y * e)
    <3>1. Figures(s) /\ Equals(s.realized, x, y)
      BY <1>12, <1>13, <1>14
    <3>2. Equals(s.avgPrice, m, e)
      BY <1>5, <1>14, <1>18
    <3> QED
      BY <1>5, <3>1, <3>2, BalancedIs
  <2>2. x = a * e - (l * f) * b
    <3>1. k = -f
      BY <1>4, <1>18
    <3> QED
      BY <1>13, <3>1
  <2>3. x * e - (m * (p + f)) * y = z * (y * e)
    <3>1. x * e - (m * (p + f)) * y
            = (a * e - (m * p) * b) * e - (l * f * b) * e - (m * f) * (b * e)
      BY <1>13, <2>2
    <3>2. (l * f * b) * e = (price * f) * (b * e * e) - (m * f) * (b * e)
      BY <1>10
    <3>3. z * (y * e) = (c * (b * e)) * e - (price * f) * (b * e * e)
      BY <1>13, <1>16
    <3> QED
      BY <1>7, <3>1, <3>2, <3>3
  <2> QED
    BY <1>14, <1>15, <2>1, <2>3
<1> QED
  BY <1>14, <1>15, <1>17, <1>18 DEF s

(* The figures of each strategy, and its ledger.                            *)
LedgerInv ==
  /\ StatsOK
  /\ cash \in [StrategyId -> Int]
  /\ \A s \in StrategyId :
       /\ Figures(stats[s]) /\ stats[s].unrealized \in Fractions
       /\ Balanced(stats[s], cash[s])
  /\ toMark # NoReport => toMark[1] \in Int /\ toMark[2] \in BOOLEAN

LEMMA FillKeepsLedger ==
  ASSUME LedgerInv, NEW s \in StrategyId, NEW side \in OrderSide,
         NEW price \in Prices, NEW q \in Quantities, FillReport(s, side, price, q)
  PROVE  LedgerInv'
<1>1. PICK g \in {1, -1} : g = Sign(side)
  BY DEF Sign
<1>2. q \in Nat \ {0} /\ price \in Int
  BY QuantityAssumption, PriceAssumption
<1>3. PICK r : r = stats[s]
  OBVIOUS
<1>4. /\ r = [f \in Field |-> r[f]] /\ Figures(r) /\ r.unrealized \in Fractions
      /\ cash[s] \in Int /\ Balanced(r, cash[s])
  BY <1>3 DEF LedgerInv, StatsOK
<1>5. stats'[s] = IF r.position = 0 \/ r.position * (q * g) > 0
                  THEN Increased(r, price, q, q * g)
                  ELSE Decreased(r, price, q, q * g)
  BY <1>1, <1>3 DEF FillReport, OnFill, LedgerInv, StatsOK
<1>6. PICK c \in Int : c = cash[s]
  BY <1>4
<1>7. Figures(stats'[s]) /\ Balanced(stats'[s], c - price * q * g)
  BY <1>2, <1>4, <1>5, <1>6, IncreasedBalances, DecreasedBalances
<1>8. stats'[s].unrealized \in Fractions
  BY <1>4, <1>5 DEF Increased, Decreased, Field
<1>9. PICK d \in Int : d = c - price * q * g
  BY <1>2
<1>10. cash' = [cash EXCEPT ![s] = d]
  BY <1>1, <1>6, <1>9 DEF FillReport
<1>11. cash' \in [StrategyId -> Int] /\ cash'[s] = d
  BY <1>10 DEF LedgerInv
<1>12. \A t \in StrategyId \ {s} : stats'[t] = stats[t] /\ cash'[t] = cash[t]
  BY <1>10 DEF FillReport, OnFill, LedgerInv, StatsOK
<1>13. StatsOK'
  BY OnFillMovesOne DEF FillReport, LedgerInv
<1>14. \A t \in StrategyId :
         /\ Figures(stats'[t]) /\ stats'[t].unrealized \in Fractions
         /\ Balanced(stats'[t], cash'[t])
  BY <1>7, <1>8, <1>9, <1>11, <1>12 DEF LedgerInv
<1>15. toMark'[1] \in Int /\ toMark'[2] \in BOOLEAN
  BY <1>2 DEF FillReport
<1> QED
  BY <1>11, <1>13, <1>14, <1>15 DEF LedgerInv, Figures, Balanced

LEMMA MarkKeepsLedger ==
  ASSUME LedgerInv, Mark
  PROVE  LedgerInv'
<1>1. PICK price \in Int : price = toMark[1] /\ UpdatePnL(price)
  BY DEF Mark, LedgerInv
<1>2. \A s \in StrategyId :
        /\ stats'[s].position = stats[s].position
        /\ stats'[s].avgPrice = stats[s].avgPrice
        /\ stats'[s].realized = stats[s].realized
        /\ stats'[s].unrealized =
             IF stats[s].position # 0
             THEN Times(Minus(Whole(price), stats[s].avgPrice), stats[s].position)
             ELSE Zero
  BY <1>1 DEF UpdatePnL, Marked, LedgerInv, StatsOK, Field
<1>3. \A s \in StrategyId : stats'[s].unrealized \in Fractions
  <2>1. ASSUME NEW s \in StrategyId
        PROVE  Times(Minus(Whole(price), stats[s].avgPrice), stats[s].position)
                 \in Fractions
    <3>1. PICK a \in Fractions, w \in Fractions, p \in Int :
            a = stats[s].avgPrice /\ w = Whole(price) /\ p = stats[s].position
      BY ItsOwnValue DEF LedgerInv, Figures
    <3>2. PICK t \in Fractions : t = Minus(w, a)
      BY ItsOwnValue, MinusIs
    <3>3. Times(t, p) \in Fractions
      BY ItsOwnValue, TimesIs
    <3> QED
      BY <3>1, <3>2, <3>3
  <2>2. Zero \in Fractions
    BY ItsOwnValue DEF Zero
  <2> QED
    BY <1>2, <2>1, <2>2
<1>4. StatsOK' /\ UNCHANGED cash /\ toMark' = NoReport
  BY <1>1, UpdatePnLKeepsPositions DEF Mark, LedgerInv
<1> QED
  BY <1>2, <1>3, <1>4 DEF LedgerInv, Figures, Balanced

LEMMA StepKeepsLedger ==
  ASSUME LedgerInv, [Next]_vars
  PROVE  LedgerInv'
<1>1. ASSUME NEW price \in OtherPrices, OtherReport(price) PROVE LedgerInv'
  <2>1. UNCHANGED <<stats, cash>> /\ toMark' = <<price, FALSE>> /\ price \in Int
    BY <1>1, PriceAssumption DEF OtherReport
  <2> QED
    BY <2>1 DEF LedgerInv, StatsOK, Figures, Balanced
<1>2. CASE UNCHANGED vars
  BY <1>2 DEF vars, LedgerInv, StatsOK, Figures, Balanced
<1> QED
  BY <1>1, <1>2, FillKeepsLedger, MarkKeepsLedger DEF Next

LEMMA LedgerHolds == Spec => []LedgerInv
<1>1. Init => LedgerInv
  <2> SUFFICES ASSUME Init PROVE LedgerInv
    OBVIOUS
  <2>1. Zero \in Fractions /\ Zero.num = 0
    BY ItsOwnValue DEF Zero, Whole
  <2>2. \A s \in StrategyId :
          /\ stats[s].position = 0 /\ stats[s].avgPrice = Zero
          /\ stats[s].realized = Zero /\ stats[s].unrealized = Zero
          /\ cash[s] = 0
    BY DEF Init
  <2>3. StatsOK
    BY DEF Init, StatsOK, Field
  <2>4. Zero.den \in Int
    BY DEF Zero, Whole
  <2>5. \A s \in StrategyId : Balanced(stats[s], cash[s])
    BY <2>1, <2>2, <2>4 DEF Balanced
  <2> QED
    BY <2>1, <2>2, <2>3, <2>5 DEF LedgerInv, Figures, Init
<1>2. LedgerInv /\ [Next]_vars => LedgerInv'
  BY StepKeepsLedger
<1> QED
  BY <1>1, <1>2, PTL DEF Spec

(* Whatever sequence of fills opened, enlarged, reduced, closed or turned a  *)
(* position, at whatever prices: the average price and the realised profit  *)
(* that on_fill keeps account for all the money that changed hands.         *)
THEOREM LedgerIsExact == Spec => []LedgerAgrees
<1>1. LedgerInv => LedgerAgrees
  BY BalancedAgrees DEF LedgerInv, LedgerAgrees
<1> QED
  BY <1>1, LedgerHolds, PTL

-----------------------------------------------------------------------------
(* The drawdown, for every sequence of reports.                             *)

Total == [total : Fractions, fill : BOOLEAN]

(* The totals, from the zero they start with. *)
Course(marks) == <<Zero>> \o [i \in DOMAIN marks |-> marks[i].total]

LEMMA ZeroIs == Zero \in Fractions /\ Minus(Zero, Zero) = Zero
<1>1. Zero \in Fractions /\ Zero.num = 0 /\ Zero.den = 1 /\ Equals(Zero, 0, 1)
  BY ItsOwnValue DEF Zero, Whole
<1>2. PICK z \in Fractions : z = Times(Zero, -1) /\ Equals(z, 0, 1)
  <2>1. PICK k \in Int : k = -1
    OBVIOUS
  <2>2. Times(Zero, k) \in Fractions /\ Equals(Times(Zero, k), 0 * k, 1)
    BY <1>1, TimesIs
  <2> QED
    BY <2>1, <2>2
<1>3. Equals(Plus(Zero, z), 0, 1)
  <2>1. Equals(Plus(Zero, z), 0 * 1 + 0 * 1, 1 * 1)
    BY <1>1, <1>2, PlusIs
  <2> QED
    BY <2>1
<1>4. Plus(Zero, z) = Whole(0)
  BY <1>1, <1>2, <1>3, PlusIsWhole
<1> QED
  BY <1>1, <1>2, <1>4 DEF Minus, Zero

LEMMA CourseIs ==
  ASSUME NEW marks \in Seq(Total)
  PROVE  /\ Course(marks) \in Seq(Fractions)
         /\ Len(Course(marks)) = Len(marks) + 1
         /\ Course(marks)[1] = Zero
         /\ \A i \in 1 .. Len(marks) : Course(marks)[i + 1] = marks[i].total
<1> DEFINE totals == [i \in 1 .. Len(marks) |-> marks[i].total]
<1>1. Course(marks) = <<Zero>> \o totals
  BY DEF Course
<1>2. totals \in Seq(Fractions) /\ Len(totals) = Len(marks)
  <2>1. \A i \in 1 .. Len(marks) : marks[i].total \in Fractions
    <3>1. \A i \in 1 .. Len(marks) : marks[i] \in Total
      OBVIOUS
    <3> QED
      BY <3>1 DEF Total
  <2>2. Len(marks) \in Nat
    OBVIOUS
  <2> QED
    BY <2>1, <2>2, SeqDef
<1>3. \A i \in 1 .. Len(marks) : totals[i] = marks[i].total
  OBVIOUS
<1>4. <<Zero>> \in Seq(Fractions) /\ Len(<<Zero>>) = 1
  BY ZeroIs
<1> HIDE DEF totals
<1>5. Course(marks) \in Seq(Fractions) /\ Len(Course(marks)) = Len(marks) + 1
  BY <1>1, <1>2, <1>4
<1>6. Course(marks)[1] = Zero
  BY <1>1, <1>2, <1>4
<1>7. ASSUME NEW i \in 1 .. Len(marks)
      PROVE  Course(marks)[i + 1] = marks[i].total
  <2>1. Course(marks)[i + 1] = totals[i]
    BY <1>1, <1>2, <1>4
  <2> QED
    BY <1>3, <2>1
<1> QED
  BY <1>5, <1>6, <1>7

LEMMA CourseGrows ==
  ASSUME NEW marks \in Seq(Total), NEW m \in Total
  PROVE  LET c == Course(marks)
             d == Course(Append(marks, m))
         IN /\ d \in Seq(Fractions) /\ Len(d) = Len(c) + 1
            /\ d[Len(d)] = m.total
            /\ \A i \in 1 .. Len(c) : d[i] = c[i]
<1> DEFINE n == Len(marks)
           grown == Append(marks, m)
<1>1. /\ grown \in Seq(Total) /\ Len(grown) = n + 1 /\ n \in Nat
      /\ grown[n + 1] = m
      /\ \A i \in 1 .. n : grown[i] = marks[i]
  OBVIOUS
<1>2. /\ Course(grown) \in Seq(Fractions) /\ Len(Course(grown)) = n + 2
      /\ Course(grown)[1] = Zero
      /\ \A i \in 1 .. n + 1 : Course(grown)[i + 1] = grown[i].total
  <2> HIDE DEF grown, n
  <2>1. /\ Course(grown) \in Seq(Fractions)
        /\ Len(Course(grown)) = Len(grown) + 1
        /\ Course(grown)[1] = Zero
        /\ \A i \in 1 .. Len(grown) : Course(grown)[i + 1] = grown[i].total
    BY <1>1, CourseIs
  <2> QED
    BY <1>1, <2>1
<1>3. /\ Len(Course(marks)) = n + 1 /\ Course(marks)[1] = Zero
      /\ \A i \in 1 .. n : Course(marks)[i + 1] = marks[i].total
  BY CourseIs
<1> HIDE DEF grown, n
<1>4. Course(grown)[n + 2] = m.total
  <2>1. n + 1 \in 1 .. n + 1 /\ (n + 1) + 1 = n + 2
    BY <1>1
  <2> QED
    BY <1>1, <1>2, <2>1
<1>5. ASSUME NEW i \in 1 .. n + 1 PROVE Course(grown)[i] = Course(marks)[i]
  <2>1. CASE i = 1
    BY <1>2, <1>3, <2>1
  <2>2. CASE i # 1
    <3>1. PICK k \in 1 .. n : i = k + 1
      <4>1. i - 1 \in 1 .. n /\ i = (i - 1) + 1
        BY <1>1, <2>2
      <4> QED
        BY <4>1
    <3>2. k \in 1 .. n + 1
      BY <1>1
    <3> QED
      BY <1>1, <1>2, <1>3, <3>1, <3>2
  <2> QED
    BY <2>1, <2>2
<1>6. /\ Len(Course(grown)) = Len(Course(marks)) + 1
      /\ Course(grown)[Len(Course(grown))] = m.total
  BY <1>1, <1>2, <1>3, <1>4
<1>7. \A i \in 1 .. Len(Course(marks)) : Course(grown)[i] = Course(marks)[i]
  BY <1>3, <1>5
<1> QED
  BY <1>2, <1>6, <1>7 DEF grown

(* A fall is from one total to itself or to a later one.                    *)
LEMMA WorstFallIs ==
  ASSUME NEW marks \in Seq(Total), NEW fall
  PROVE  LET c == Course(marks) IN
         IsWorstFall(fall, marks) <=>
           /\ \E j \in 1 .. Len(c) : \E i \in 1 .. j : fall = Minus(c[i], c[j])
           /\ \A j \in 1 .. Len(c) : \A i \in 1 .. j :
                AtMost(Minus(c[i], c[j]), fall)
<1> DEFINE c == Course(marks)
           falls == UNION {{Minus(c[i], c[j]) : i \in 1 .. j} : j \in DOMAIN c}
<1>1. DOMAIN c = 1 .. Len(c)
  BY CourseIs
<1>2. IsWorstFall(fall, marks) <=> fall \in falls /\ \A f \in falls : AtMost(f, fall)
  BY DEF IsWorstFall, Course
<1> HIDE DEF c
<1>3. \A f : f \in falls <=>
        \E j \in 1 .. Len(c) : \E i \in 1 .. j : f = Minus(c[i], c[j])
  BY <1>1
<1> HIDE DEF falls
<1> QED
  BY <1>2, <1>3 DEF c

(* The peak is one of the totals and no total is above it.                  *)
IsPeak(peak, marks) ==
  LET c == Course(marks)
  IN /\ \E i \in 1 .. Len(c) : peak = c[i]
     /\ \A i \in 1 .. Len(c) : AtMost(c[i], peak)

DrawdownInv ==
  /\ peakEquity \in Fractions /\ maxDrawdown \in Fractions
  /\ equities \in Seq(Total)
  /\ IsPeak(peakEquity, equities)
  /\ IsWorstFall(maxDrawdown, equities)

(* One more total: the fall to it from the peak is the largest to it, so    *)
(* the larger of that and the largest before is the largest of all.        *)
LEMMA OneMoreTotal ==
  ASSUME NEW marks \in Seq(Total), NEW m \in Total,
         NEW peak \in Fractions, NEW fall \in Fractions,
         IsPeak(peak, marks), IsWorstFall(fall, marks)
  PROVE  LET top == Larger(peak, m.total)
             worst == Larger(fall, Minus(top, m.total))
         IN /\ top \in Fractions /\ worst \in Fractions
            /\ IsPeak(top, Append(marks, m))
            /\ IsWorstFall(worst, Append(marks, m))
<1>1. PICK grown \in Seq(Total) : grown = Append(marks, m)
  <2>1. Append(marks, m) \in Seq(Total)
    OBVIOUS
  <2> QED
    BY <2>1
<1>2. PICK c : c = Course(marks)
  OBVIOUS
<1>3. PICK d : d = Course(grown)
  OBVIOUS
<1>4. PICK n \in Nat : n = Len(c) /\ c \in Seq(Fractions)
  BY <1>2, CourseIs
<1>5. /\ Len(d) = n + 1 /\ d \in Seq(Fractions) /\ d[n + 1] = m.total
      /\ \A i \in 1 .. n : d[i] = c[i]
  BY <1>1, <1>2, <1>3, <1>4, CourseGrows
<1>6. PICK E \in Fractions : E = m.total
  BY DEF Total
<1>7. PICK top \in {peak, E} :
        top = Larger(peak, E) /\ AtMost(peak, top) /\ AtMost(E, top)
  BY LargerIs
<1>8. PICK last \in Fractions : last = Minus(top, E)
  BY <1>7, ItsOwnValue, MinusIs
<1>9. PICK worst \in {fall, last} :
        worst = Larger(fall, last) /\ AtMost(fall, worst) /\ AtMost(last, worst)
  BY LargerIs
<1>10. /\ \A i \in 1 .. n : AtMost(c[i], peak)
       /\ \E i \in 1 .. n : peak = c[i]
  BY <1>2, <1>4 DEF IsPeak
<1>11. /\ \E j \in 1 .. n : \E i \in 1 .. j : fall = Minus(c[i], c[j])
       /\ \A j \in 1 .. n : \A i \in 1 .. j : AtMost(Minus(c[i], c[j]), fall)
  <2>1. IsWorstFall(fall, marks) /\ c = Course(marks) /\ n = Len(c)
    BY <1>2, <1>4
  <2> QED
    BY <2>1, WorstFallIs
<1>12. \A i \in 1 .. n + 1 : d[i] \in Fractions
  BY <1>4, <1>5
<1>13. ASSUME NEW i \in 1 .. n + 1 PROVE AtMost(d[i], top)
  <2>1. CASE i \in 1 .. n
    <3>1. d[i] = c[i] /\ AtMost(d[i], peak)
      BY <1>5, <1>10, <2>1
    <3> QED
      BY <1>7, <1>12, <3>1, AtMostOrders
  <2>2. CASE i = n + 1
    BY <1>5, <1>6, <1>7, <2>2
  <2> QED
    BY <2>1, <2>2
<1>14. \E i \in 1 .. n + 1 : top = d[i]
  <2>1. CASE top = E
    BY <1>5, <1>6, <2>1
  <2>2. CASE top = peak
    <3>1. PICK i \in 1 .. n : peak = c[i]
      BY <1>10
    <3>2. i \in 1 .. n + 1 /\ d[i] = c[i]
      BY <1>5
    <3> QED
      BY <2>2, <3>1, <3>2
  <2> QED
    BY <1>7, <2>1, <2>2
<1>15. IsPeak(top, grown)
  BY <1>3, <1>5, <1>13, <1>14 DEF IsPeak
<1>16. \E j \in 1 .. n + 1 : \E i \in 1 .. j : worst = Minus(d[i], d[j])
  <2>1. CASE worst = last
    <3>1. PICK i \in 1 .. n + 1 : top = d[i]
      BY <1>14
    <3>2. n + 1 \in 1 .. n + 1 /\ worst = Minus(d[i], d[n + 1])
      BY <1>5, <1>6, <1>8, <2>1, <3>1
    <3> QED
      BY <3>2
  <2>2. CASE worst = fall
    <3>1. PICK j \in 1 .. n : \E i \in 1 .. j : fall = Minus(c[i], c[j])
      BY <1>11
    <3>2. PICK i \in 1 .. j : fall = Minus(c[i], c[j])
      BY <3>1
    <3>3. j \in 1 .. n + 1 /\ i \in 1 .. n
      OBVIOUS
    <3>4. d[i] = c[i] /\ d[j] = c[j]
      BY <1>5, <3>3
    <3> QED
      BY <2>2, <3>2, <3>3, <3>4
  <2> QED
    BY <1>9, <2>1, <2>2
<1>17. ASSUME NEW j \in 1 .. n + 1, NEW i \in 1 .. j
       PROVE  AtMost(Minus(d[i], d[j]), worst)
  <2>1. i \in 1 .. n + 1
    OBVIOUS
  <2>2. Minus(d[i], d[j]) \in Fractions
    BY <1>12, <2>1, ItsOwnValue, MinusIs
  <2>3. CASE j \in 1 .. n
    <3>1. i \in 1 .. n
      BY <2>3
    <3>2. d[i] = c[i] /\ d[j] = c[j]
      BY <1>5, <2>3, <3>1
    <3>3. AtMost(Minus(d[i], d[j]), fall)
      BY <1>11, <2>3, <3>2
    <3> QED
      BY <1>9, <2>2, <3>3, AtMostOrders
  <2>4. CASE j = n + 1
    <3>1. d[j] = E /\ AtMost(d[i], top) /\ d[i] \in Fractions
      BY <1>5, <1>6, <1>12, <1>13, <2>1, <2>4
    <3>2. AtMost(Minus(d[i], d[j]), last)
      BY <1>7, <1>8, <3>1, MinusAtMost
    <3> QED
      BY <1>9, <2>2, <3>2, AtMostOrders
  <2> QED
    BY <2>3, <2>4
<1>18. IsWorstFall(worst, grown)
  BY <1>3, <1>5, <1>16, <1>17, WorstFallIs
<1> QED
  BY <1>1, <1>6, <1>7, <1>8, <1>9, <1>15, <1>18

LEMMA EquityIs ==
  ASSUME NEW st, \A s \in StrategyId : /\ st[s].realized \in Fractions
                                       /\ st[s].unrealized \in Fractions
  PROVE  Equity(st) \in Fractions
<1>1. 1 \in StrategyId /\ 2 \in StrategyId
  BY DEF StrategyId
<1>2. PICK a \in Fractions, b \in Fractions, c \in Fractions, d \in Fractions :
        /\ a = st[1].realized /\ b = st[1].unrealized
        /\ c = st[2].realized /\ d = st[2].unrealized
  BY <1>1
<1>3. PICK x \in Fractions, y \in Fractions : x = Plus(a, b) /\ y = Plus(c, d)
  BY ItsOwnValue, PlusIs
<1>4. Plus(x, y) \in Fractions
  BY ItsOwnValue, PlusIs
<1> QED
  BY <1>2, <1>3, <1>4 DEF Equity

LEMMA DrawdownHolds == Spec => []DrawdownInv
<1>1. Init => DrawdownInv
  <2> SUFFICES ASSUME Init PROVE DrawdownInv
    OBVIOUS
  <2>1. equities \in Seq(Total) /\ equities = <<>>
    BY DEF Init
  <2>2. PICK c : c = Course(equities)
    OBVIOUS
  <2>3. Len(c) = 1 /\ c[1] = Zero
    <3>1. Len(equities) = 0
      BY <2>1
    <3>2. Len(c) = Len(equities) + 1 /\ c[1] = Zero
      BY <2>1, <2>2, CourseIs
    <3> QED
      BY <3>1, <3>2
  <2>4. IsPeak(Zero, equities)
    BY <2>2, <2>3, ZeroIs, AtMostOrders DEF IsPeak
  <2>5. IsWorstFall(Zero, equities)
    <3>1. \A j \in 1 .. Len(c) : \A i \in 1 .. j : i = 1 /\ j = 1
      BY <2>3
    <3>2. 1 \in 1 .. Len(c) /\ 1 \in 1 .. 1 /\ Zero = Minus(c[1], c[1])
      BY <2>3, ZeroIs
    <3>3. AtMost(Minus(c[1], c[1]), Zero)
      BY <3>2, ZeroIs, AtMostOrders
    <3>4. \E j \in 1 .. Len(c) : \E i \in 1 .. j : Zero = Minus(c[i], c[j])
      BY <3>2
    <3>5. \A j \in 1 .. Len(c) : \A i \in 1 .. j : AtMost(Minus(c[i], c[j]), Zero)
      BY <3>1, <3>3
    <3> QED
      BY <2>1, <2>2, <3>4, <3>5, WorstFallIs
  <2> QED
    BY <2>1, <2>4, <2>5, ZeroIs DEF DrawdownInv, Init
<1>2. LedgerInv /\ LedgerInv' /\ DrawdownInv /\ [Next]_vars => DrawdownInv'
  <2> SUFFICES ASSUME LedgerInv, LedgerInv', DrawdownInv, [Next]_vars
               PROVE  DrawdownInv'
    OBVIOUS
  <2>1. CASE UNCHANGED <<peakEquity, maxDrawdown, equities>>
    BY <2>1 DEF DrawdownInv
  <2>2. CASE Mark
    <3>1. PICK E : E = Equity(stats')
      OBVIOUS
    <3>2. PICK m : m = [total |-> E, fill |-> toMark[2]]
      OBVIOUS
    <3>3. E \in Fractions
      <4>1. \A s \in StrategyId : /\ stats'[s].realized \in Fractions
                                  /\ stats'[s].unrealized \in Fractions
        BY DEF LedgerInv, Figures
      <4> QED
        BY <3>1, <4>1, EquityIs
    <3>4. m \in Total /\ m.total = E
      BY <2>2, <3>2, <3>3 DEF Mark, LedgerInv, Total
    <3>5. /\ peakEquity' = Larger(peakEquity, m.total)
          /\ maxDrawdown' = Larger(maxDrawdown, Minus(Larger(peakEquity, m.total), m.total))
          /\ equities' = Append(equities, m)
      BY <2>2, <3>1, <3>2, <3>4 DEF Mark, UpdatePnL
    <3>6. equities' \in Seq(Total)
      BY <3>4, <3>5 DEF DrawdownInv
    <3> QED
      BY <3>4, <3>5, <3>6, OneMoreTotal DEF DrawdownInv
  <2> QED
    BY <2>1, <2>2 DEF Next, FillReport, OtherReport, vars
<1> QED
  BY <1>1, <1>2, LedgerHolds, PTL DEF Spec

(* Whatever the reports, the drawdown that update_pnl keeps from the peak   *)
(* it remembers is the largest fall between any two totals, in order.      *)
THEOREM DrawdownIsExact == Spec => []DrawdownIsWorstFall
<1>1. DrawdownInv => DrawdownIsWorstFall
  BY DEF DrawdownInv, DrawdownIsWorstFall
<1> QED
  BY <1>1, DrawdownHolds, PTL
=============================================================================
