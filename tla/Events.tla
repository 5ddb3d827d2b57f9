------------------------------- MODULE Events -------------------------------
(***************************************************************************)
(* core/events.hpp: the orders and events that travel through the queue.   *)
(* Prices are whole numbers of quarter dollars (the finest step the code   *)
(* computes with is the exchange's half spread of 0.25) and quantities     *)
(* whole numbers of lots.  Symbols and time stamps are left out: nothing   *)
(* the modules describe branches on them.                                  *)
(***************************************************************************)
EXTENDS Integers

OrderSide == {"Buy", "Sell"}
OrderType == {"Limit", "Market"}
OrderStatus == {"New", "Partial", "Filled", "Cancelled", "Rejected"}

OrderRequest ==
  [id : Nat, strategy : Nat, side : OrderSide, type : OrderType,
   price : Int, quantity : Nat]

ExecutionReport ==
  [id : Nat, strategy : Nat, side : OrderSide, status : OrderStatus,
   price : Int, quantity : Nat]

(* Orders and reports as events. *)
MarketDataEvent(p, q, maker) ==
  [type |-> "MarketData", price |-> p, quantity |-> q, isBuyerMaker |-> maker]
RequestEvent(o) == [type |-> "OrderRequest", order |-> o]
ValidatedEvent(o) == [type |-> "ValidatedOrder", order |-> o]
CancelEvent(i) == [type |-> "CancelOrder", id |-> i]
ReportEvent(r) == [type |-> "ExecutionReport", report |-> r]

Event ==
  [type : {"MarketData"}, price : Int, quantity : Nat,
   isBuyerMaker : BOOLEAN]
    \cup [type : {"OrderRequest", "ValidatedOrder"}, order : OrderRequest]
    \cup [type : {"CancelOrder"}, id : Nat]
    \cup [type : {"ExecutionReport"}, report : ExecutionReport]

(* +1 for a buy, -1 for a sell: side_sign, side_multiplier. *)
Sign(side) == IF side = "Buy" THEN 1 ELSE -1
=============================================================================
