----------------------------- MODULE PnLEngine -----------------------------
(***************************************************************************)
(* pnl/pnl_engine.cpp: position, average price and profit of each strategy, *)
(* and the worst drawdown of their sum, as the ExecutionReport case of     *)
(* main.cpp drives it: on_fill for a fill, then update_pnl with the price  *)
(* of the report, whatever its status.  Amounts are exact fractions.       *)
(*                                                                         *)
(* cash and equities are no part of the code: they record the money that   *)
(* changed hands, and each total update_pnl computed with the kind of      *)
(* report it came with, for the properties to compare the figures with.    *)
(***************************************************************************)
EXTENDS Events, Sequences, Fraction

CONSTANTS
  Prices,       (* the prices of fills                                      *)
  OtherPrices,  (* the prices of the other reports                          *)
  Quantities,   (* the quantities of fills                                  *)
  MaxReports    (* bound: execution reports handled                         *)

ASSUME QuantityAssumption == Quantities \subseteq Nat \ {0}
ASSUME PriceAssumption == Prices \subseteq Int /\ OtherPrices \subseteq Int

VARIABLES
  stats,        (* strategy_stats_                                          *)
  peakEquity,   (* peak_equity_                                             *)
  maxDrawdown,  (* max_drawdown_                                            *)
  toMark,       (* the report update_pnl is still to be called for: its     *)
                (* price, and whether it is a fill; or NoReport             *)
  cash,         (* per strategy: received for sales less paid for purchases *)
  equities      (* the totals at the ends of update_pnl                     *)

vars == <<stats, peakEquity, maxDrawdown, toMark, cash, equities>>

StrategyId == {1, 2}
NoReport == <<>>
Zero == Whole(0)

Abs(n) == IF n < 0 THEN -n ELSE n
Lesser(a, b) == IF a < b THEN a ELSE b

Init ==
  /\ stats = [s \in StrategyId |->
                [position |-> 0, avgPrice |-> Zero, realized |-> Zero,
                 unrealized |-> Zero, trades |-> 0]]
  /\ peakEquity = Zero /\ maxDrawdown = Zero
  /\ toMark = NoReport
  /\ cash = [s \in StrategyId |-> 0]
  /\ equities = <<>>

-----------------------------------------------------------------------------

(* A fill on the side of the position, or from none: the average price is   *)
(* weighted by the quantities.                                             *)
Increased(r, price, quantity, fillQty) ==
  [r EXCEPT
     !.position = @ + fillQty,
     !.avgPrice = Over(Plus(Times(@, Abs(r.position)), Whole(price * quantity)),
                       Abs(r.position + fillQty))]

(* Mistakes: the whole fill is realised, not what it closes; a position     *)
(* turned around keeps its average price; only what is closed leaves.      *)
DecreasedWhole(r, price, quantity, fillQty) ==
  [r EXCEPT
     !.position = @ + fillQty,
     !.realized = Plus(@, Times(Minus(Whole(price), r.avgPrice), -fillQty)),
     !.trades = @ + 1,
     !.avgPrice = IF quantity > Abs(r.position) THEN Whole(price) ELSE @]

DecreasedToZero(r, price, quantity, fillQty) ==
  LET closing == Lesser(Abs(r.position), quantity)
  IN [r EXCEPT
        !.position = IF @ > 0 THEN @ - closing ELSE @ + closing,
        !.realized = Plus(@, Times(Minus(Whole(price), r.avgPrice),
                                   IF r.position > 0 THEN closing ELSE -closing)),
        !.trades = @ + 1]

(* A fill against the position: what it closes is realised, and when it     *)
(* does more than close the position, the rest starts at its own price.    *)
Decreased(r, price, quantity, fillQty) ==
  LET closing == Lesser(Abs(r.position), quantity)
  IN [r EXCEPT
        !.position = @ + fillQty,
        !.realized = Plus(@, Times(Minus(Whole(price), r.avgPrice),
                                   IF r.position > 0 THEN closing ELSE -closing)),
        !.trades = @ + 1,
        !.avgPrice = IF quantity > Abs(r.position) THEN Whole(price) ELSE @]

(* on_fill *)
OnFill(s, side, price, quantity) ==
  LET fillQty == quantity * Sign(side)
      p == stats[s].position
  IN stats' = [stats EXCEPT ![s] =
                 IF p = 0 \/ p * fillQty > 0
                 THEN Increased(@, price, quantity, fillQty)
                 ELSE Decreased(@, price, quantity, fillQty)]

Marked(r, price) ==
  [r EXCEPT !.unrealized =
     IF r.position # 0 THEN Times(Minus(Whole(price), r.avgPrice), r.position)
                       ELSE Zero]

Equity(st) ==
  Plus(Plus(st[1].realized, st[1].unrealized),
       Plus(st[2].realized, st[2].unrealized))

(* get_total_pnl *)
TotalPnL == Equity(stats)

(* Mistake: the latest total is taken for the highest. *)
UpdatePnLLast(price) ==
  /\ stats' = [s \in StrategyId |-> Marked(stats[s], price)]
  /\ peakEquity' = Equity(stats')
  /\ maxDrawdown' = Larger(maxDrawdown, Minus(peakEquity, Equity(stats')))

(* update_pnl *)
UpdatePnL(price) ==
  /\ stats' = [s \in StrategyId |-> Marked(stats[s], price)]
  /\ peakEquity' = Larger(peakEquity, Equity(stats'))
  /\ maxDrawdown' = Larger(maxDrawdown, Minus(peakEquity', Equity(stats')))

-----------------------------------------------------------------------------
(* The ExecutionReport case.                                               *)

Ready == toMark = NoReport /\ Len(equities) < MaxReports

FillReport(s, side, price, quantity) ==
  /\ Ready
  /\ OnFill(s, side, price, quantity)
  /\ toMark' = <<price, TRUE>>
  /\ cash' = [cash EXCEPT ![s] = @ - price * quantity * Sign(side)]
  /\ UNCHANGED <<peakEquity, maxDrawdown, equities>>

(* A resting order reports its limit price, a cancelled or rejected one 0. *)
OtherReport(price) ==
  /\ Ready
  /\ toMark' = <<price, FALSE>>
  /\ UNCHANGED <<stats, peakEquity, maxDrawdown, cash, equities>>

Mark ==
  /\ toMark # NoReport
  /\ UpdatePnL(toMark[1])
  /\ toMark' = NoReport
  /\ equities' = Append(equities, [total |-> Equity(stats'), fill |-> toMark[2]])
  /\ UNCHANGED cash

Next ==
  \/ \E s \in StrategyId, side \in OrderSide, price \in Prices,
        quantity \in Quantities : FillReport(s, side, price, quantity)
  \/ \E price \in OtherPrices : OtherReport(price)
  \/ Mark

Spec == Init /\ [][Next]_vars

-----------------------------------------------------------------------------
(* Properties.                                                             *)

(* Bookkeeping by average price agrees with the ledger: whatever sequence   *)
(* of fills opened, enlarged, reduced, closed or turned a position, what    *)
(* is realised less the cost of what is held is the money that changed      *)
(* hands.  A closed position has realised all of it.                       *)
LedgerAgrees ==
  \A s \in StrategyId :
    Minus(stats[s].realized, Times(stats[s].avgPrice, stats[s].position))
      = Whole(cash[s])

(* The largest fall of the totals of marks, counting from zero. *)
IsWorstFall(fall, marks) ==
  LET e == <<Zero>> \o [i \in DOMAIN marks |-> marks[i].total]
      Falls == UNION {{Minus(e[i], e[j]) : i \in 1 .. j} : j \in DOMAIN e}
  IN fall \in Falls /\ \A f \in Falls : AtMost(f, fall)

(* The drawdown kept by update_pnl is the largest fall of the total from     *)
(* any earlier total, counting from the zero it starts with.               *)
DrawdownIsWorstFall == IsWorstFall(maxDrawdown, equities)

(* The drawdown is one of the money that trading made: README.md:41         *)
(* "Computes PnL, drawdown, win rate, and performance stats."  main.cpp     *)
(* marks the positions also at the prices of reports that are no trades.    *)
DrawdownOfTrades ==
  toMark = NoReport =>
    IsWorstFall(maxDrawdown, SelectSeq(equities, LAMBDA m : m.fill))

(* The positions are those the trading modules work with. *)
Pos == INSTANCE Positions WITH
         position <- [s \in StrategyId |-> stats[s].position]
KeepsPositions == Pos!Spec
=============================================================================
