-------------------------- MODULE MCMatchingEngine --------------------------
(* Model-checking instances of MatchingEngine.  The limit prices lie         *)
(* between the best prices of the trades, so that each order can trade at   *)
(* once, rest and trade later, or never trade.                             *)
EXTENDS MatchingEngine

LimitOrder(i, side, price) ==
  [id |-> i, strategy |-> 1, side |-> side, type |-> "Limit",
   price |-> price, quantity |-> 1]

MarketOrder(i, side) == [LimitOrder(i, side, 0) EXCEPT !.type = "Market"]

(* Two buys at one price, a better buy, a sell, and a market order each way. *)
MCOrders ==
  {LimitOrder(1, "Buy", 10), LimitOrder(2, "Buy", 10),
   LimitOrder(3, "Buy", 12), LimitOrder(4, "Sell", 12),
   MarketOrder(5, "Buy"), MarketOrder(6, "Sell")}

MCPrices == {8, 10, 12, 14}
=============================================================================
