----------------------------- MODULE OrderBook -----------------------------
(***************************************************************************)
(* orderbook/order_book.cpp: an array of price levels per side, best price  *)
(* first.  A trade adds or refreshes the level at its price on the side its *)
(* maker was on; a level never goes away, and a full side takes no new one. *)
(* The imbalance and the spread it publishes are those of the two top       *)
(* levels, which the market maker computes for itself.                     *)
(***************************************************************************)
EXTENDS Integers, Sequences

CONSTANT MaxLevels   (* levels per side: 100 *)

VARIABLES bidLevels, askLevels

bookVars == <<bidLevels, askLevels>>

Level(price, quantity) == [price |-> price, quantity |-> quantity]

Init == bidLevels = <<>> /\ askLevels = <<>>

(* Mistake: the level of the price is not looked for. *)
WithTradeAppended(levels, level) ==
  IF Len(levels) < MaxLevels THEN Append(levels, level) ELSE levels

(* Find or replace. *)
WithTrade(levels, level) ==
  IF \E i \in DOMAIN levels : levels[i].price = level.price
  THEN [i \in DOMAIN levels |->
          IF levels[i].price = level.price THEN level ELSE levels[i]]
  ELSE IF Len(levels) < MaxLevels THEN Append(levels, level) ELSE levels

(* std::sort: the levels rearranged so that none comes before a better one. *)
Sorted(levels, Better(_, _)) ==
  LET Places == DOMAIN levels
      Rearranges(p) == \A i, j \in Places : p[i] = p[j] => i = j
      InOrderBy(p) ==
        \A i, j \in Places : i < j => ~Better(levels[p[j]], levels[p[i]])
      from == CHOOSE p \in [Places -> Places] : Rearranges(p) /\ InOrderBy(p)
  IN [i \in Places |-> levels[from[i]]]

HigherPrice(a, b) == a.price > b.price
LowerPrice(a, b) == a.price < b.price

(* apply_trade *)
ApplyTrade(price, quantity, isBuyerMaker) ==
  LET level == Level(price, quantity) IN
  IF isBuyerMaker
  THEN /\ bidLevels' = Sorted(WithTrade(bidLevels, level), HigherPrice)
       /\ UNCHANGED askLevels
  ELSE /\ askLevels' = Sorted(WithTrade(askLevels, level), LowerPrice)
       /\ UNCHANGED bidLevels

(* get_top_bids(1) and get_top_asks(1) return a level each. *)
TwoSided == bidLevels # <<>> /\ askLevels # <<>>
TopBid == Head(bidLevels)
TopAsk == Head(askLevels)

(* Each side holds each price once, the best first, and fits its array.     *)
InOrder ==
  /\ Len(bidLevels) <= MaxLevels /\ Len(askLevels) <= MaxLevels
  /\ \A i, j \in DOMAIN bidLevels :
       i < j => bidLevels[i].price > bidLevels[j].price
  /\ \A i, j \in DOMAIN askLevels :
       i < j => askLevels[i].price < askLevels[j].price
=============================================================================
