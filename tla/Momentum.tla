------------------------------ MODULE Momentum ------------------------------
(***************************************************************************)
(* strategy/momentum_strategy.hpp: buys when the short average rises above *)
(* the long one, sells when it falls below.  The two moving averages are   *)
(* abstracted to the relation the code tests, which any tick may change.   *)
(***************************************************************************)
EXTENDS Events, Sequences

CONSTANTS
  MoFirstId,     (* next_order_id_ starts here: 2000000                     *)
  MoQuantity,    (* lots per order: 0.5 BTC                                 *)
  Warmup         (* ticks before the first signal counts: 50                *)

VARIABLES
  moCount,       (* count_, which matters only up to Warmup                 *)
  moOpen,        (* position_open_                                          *)
  moNextId,      (* next_order_id_                                          *)
  outbox         (* events emitted by the running handler                   *)

moVars == <<moCount, moOpen, moNextId>>

Trend == {"bullish", "bearish", "flat"}

Init == moCount = 0 /\ moOpen = FALSE /\ moNextId = MoFirstId

(* One dollar: the distance from the trade price at which orders are sent. *)
Dollar == 4

(* submit_order *)
SubmitOrder(side, price) ==
  /\ outbox' = Append(outbox, RequestEvent(
       [id |-> moNextId, strategy |-> 2, side |-> side, type |-> "Limit",
        price |-> price, quantity |-> MoQuantity]))
  /\ moNextId' = moNextId + 1

(* Mistake: a signal is acted on whether or not a position is open. *)
OnMarketDataAgain(price, trend) ==
  LET warm == moCount + 1 >= Warmup
  IN /\ moCount' = IF warm THEN Warmup ELSE moCount + 1
     /\ \/ /\ warm /\ trend = "bullish"
           /\ SubmitOrder("Buy", price + Dollar) /\ moOpen' = TRUE
        \/ /\ warm /\ trend = "bearish"
           /\ SubmitOrder("Sell", price - Dollar) /\ moOpen' = FALSE
        \/ ~warm /\ UNCHANGED <<moOpen, moNextId, outbox>>

(* on_market_data: the flag changes when the order is sent, not when it is  *)
(* accepted or filled.                                                     *)
OnMarketData(price, trend) ==
  LET warm    == moCount + 1 >= Warmup
      bullish == warm /\ trend = "bullish" /\ ~moOpen
      bearish == warm /\ trend = "bearish" /\ moOpen
  IN /\ moCount' = IF warm THEN Warmup ELSE moCount + 1
     /\ \/ bullish /\ SubmitOrder("Buy", price + Dollar) /\ moOpen' = TRUE
        \/ bearish /\ SubmitOrder("Sell", price - Dollar) /\ moOpen' = FALSE
        \/ ~bullish /\ ~bearish /\ UNCHANGED <<moOpen, moNextId, outbox>>
=============================================================================
