---------------------------- MODULE MarketMaker ----------------------------
(***************************************************************************)
(* strategy/market_maker_strategy.hpp: quotes a bid and an ask around the  *)
(* middle of the order book, and replaces both when either target moves.   *)
(***************************************************************************)
EXTENDS Events, Sequences, SequencesExt

CONSTANTS
  MMFirstId,     (* next_order_id_ starts here: 1000000                     *)
  MMQuantity,    (* lots per quote: 0.1 BTC                                 *)
  MMMaxPosition, (* max_position_: 10 BTC                                   *)
  MaxLevels      (* the order book's MaxLevels                              *)

VARIABLES
  mmPosition,    (* current_position_, the total position at the last tick  *)
  mmQuotes,      (* <<last_bid_price_, last_ask_price_>>                    *)
  mmActive,      (* active_orders_: ids quoted since the last cancel_all    *)
  mmNextId,      (* next_order_id_                                          *)
  bidLevels, askLevels,  (* the order book, read only here                  *)
  outbox         (* events emitted by the running handler                   *)

mmVars == <<mmPosition, mmQuotes, mmActive, mmNextId>>

Book == INSTANCE OrderBook

Init ==
  /\ mmPosition = 0
  /\ mmQuotes = <<0, 0>>
  /\ mmActive = <<>>
  /\ mmNextId = MMFirstId

Lesser(a, b) == IF a < b THEN a ELSE b
Greater(a, b) == IF a > b THEN a ELSE b

(* The target prices, a dollar to either side of the middle price leaning    *)
(* with the imbalance of the top levels (beta_ = 1.0) and against the        *)
(* position (alpha_ = 0.01 per BTC, a thousandth of a dollar per lot).  They *)
(* do not cross the book, and are rounded outward to whole dollars, that is  *)
(* to 4 quarters.  Unit is a dollar in the unit of LeaningMiddle.           *)
TopSize == Book!TopBid.quantity + Book!TopAsk.quantity
Unit == 1000 * TopSize
LeaningMiddle(position) ==
  125 * TopSize * (Book!TopBid.price + Book!TopAsk.price)
    + 1000 * (Book!TopBid.quantity - Book!TopAsk.quantity)
    - TopSize * position
Down(price) == price \div Unit
Up(price) == -((-price) \div Unit)
InUnits(quarters) == (quarters * Unit) \div 4
TargetBid(position) ==
  4 * Down(Lesser(LeaningMiddle(position) - Unit, InUnits(Book!TopBid.price)))
TargetAsk(position) ==
  4 * Up(Greater(LeaningMiddle(position) + Unit, InUnits(Book!TopAsk.price)))

Quote(id, side, price) ==
  [id |-> id, strategy |-> 1, side |-> side, type |-> "Limit",
   price |-> price, quantity |-> MMQuantity]

(* Mistake: both quotes get the same id. *)
RequoteSharedId(position, bid, ask) ==
  LET sent == <<Quote(mmNextId, "Buy", bid), Quote(mmNextId, "Sell", ask)>>
  IN /\ outbox' = outbox \o [i \in DOMAIN mmActive |-> CancelEvent(mmActive[i])]
                         \o [i \in DOMAIN sent |-> RequestEvent(sent[i])]
     /\ mmActive' = [i \in DOMAIN sent |-> sent[i].id]
     /\ mmNextId' = mmNextId + 1
     /\ mmQuotes' = <<bid, ask>>

(* Mistake: cancel_all does not clear the list. *)
RequoteUncleared(position, bid, ask) ==
  LET sent == <<Quote(mmNextId, "Buy", bid), Quote(mmNextId + 1, "Sell", ask)>>
  IN /\ outbox' = outbox \o [i \in DOMAIN mmActive |-> CancelEvent(mmActive[i])]
                         \o [i \in DOMAIN sent |-> RequestEvent(sent[i])]
     /\ mmActive' = mmActive \o [i \in DOMAIN sent |-> sent[i].id]
     /\ mmNextId' = mmNextId + 2
     /\ mmQuotes' = <<bid, ask>>

(* Mistake: the quotes are forgotten, not cancelled. *)
RequoteUncancelled(position, bid, ask) ==
  LET sent == <<Quote(mmNextId, "Buy", bid), Quote(mmNextId + 1, "Sell", ask)>>
  IN /\ outbox' = outbox \o [i \in DOMAIN sent |-> RequestEvent(sent[i])]
     /\ mmActive' = [i \in DOMAIN sent |-> sent[i].id]
     /\ mmNextId' = mmNextId + 2
     /\ mmQuotes' = <<bid, ask>>

(* cancel_all, then submit_order for each side the position limit leaves    *)
(* open.                                                                   *)
Requote(position, bid, ask) ==
  LET buys  == IF position < MMMaxPosition
               THEN <<Quote(mmNextId, "Buy", bid)>> ELSE <<>>
      sells == IF position > -MMMaxPosition
               THEN <<Quote(mmNextId + Len(buys), "Sell", ask)>> ELSE <<>>
      sent  == buys \o sells
  IN /\ outbox' = outbox \o [i \in DOMAIN mmActive |-> CancelEvent(mmActive[i])]
                         \o [i \in DOMAIN sent |-> RequestEvent(sent[i])]
     /\ mmActive' = [i \in DOMAIN sent |-> sent[i].id]
     /\ mmNextId' = mmNextId + Len(sent)
     /\ mmQuotes' = <<bid, ask>>

(* update_position, then on_market_data: nothing without a two-sided book,  *)
(* within 50 ms of the last quotes, or when neither target moved.  With no   *)
(* quantity on top the targets are not numbers, which compare as unmoved.    *)
OnMarketData(position, throttled) ==
  /\ mmPosition' = position
  /\ IF /\ Book!TwoSided
        /\ ~throttled
        /\ TopSize > 0
        /\ mmQuotes # <<TargetBid(position), TargetAsk(position)>>
     THEN Requote(position, TargetBid(position), TargetAsk(position))
     ELSE UNCHANGED <<mmQuotes, mmActive, mmNextId, outbox>>
=============================================================================
