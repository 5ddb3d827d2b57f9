--------------------------- MODULE MatchingEngine ---------------------------
(***************************************************************************)
(* exchange/matching_engine.cpp, the simulated exchange.  It derives a     *)
(* best bid and ask from each trade price, fills an arriving order against *)
(* them or lets it rest, and looks through the resting orders whenever the *)
(* market moves.                                                           *)
(*                                                                         *)
(* Every execution report is one push on the queue the feed thread also    *)
(* pushes on.  outbox holds the reports emitted and not yet pushed; Deliver *)
(* is the push, so another thread can come between any two of them.        *)
(***************************************************************************)
EXTENDS Events, Sequences, SequencesExt

CONSTANTS
  Orders,      (* the orders the order manager may forward                 *)
  Prices,      (* the trade prices the feed may report                     *)
  HalfSpread   (* spread / 2.0: one quarter dollar                         *)

ASSUME ExchangeAssumption ==
  /\ Orders \subseteq OrderRequest
  /\ Prices \subseteq Int
  /\ HalfSpread \in Nat

VARIABLES
  bestBid,   (* current_best_bid_, 0 until the first trade                 *)
  bestAsk,   (* current_best_ask_                                          *)
  resting,   (* resting_orders_, in order of arrival                       *)
  cursor,    (* the iterator of the sweep over resting, 0 outside of it    *)
  outbox     (* events emitted by the running handler, still to be pushed  *)

bookOfOrders == <<bestBid, bestAsk, resting, cursor>>
exchangeVars == <<bestBid, bestAsk, resting, cursor, outbox>>

-----------------------------------------------------------------------------

(* The price an order trades at, and whether its limit allows a price. *)
Opposite(o) == IF o.side = "Buy" THEN bestAsk ELSE bestBid
Allows(o, price) ==
  IF o.side = "Buy" THEN price <= o.price ELSE price >= o.price

Report(o, price, quantity, status) ==
  [id |-> o.id, strategy |-> o.strategy, side |-> o.side, status |-> status,
   price |-> price, quantity |-> quantity]

(* emit_execution *)
Emit(o, price, quantity, status) ==
  outbox' = Append(outbox, ReportEvent(Report(o, price, quantity, status)))

(* The previous handler has returned and all it emitted was pushed. *)
Idle == cursor = 0 /\ outbox = <<>>

-----------------------------------------------------------------------------

Init ==
  /\ bestBid = 0 /\ bestAsk = 0
  /\ resting = <<>>
  /\ cursor = 0
  /\ outbox = <<>>

(* update_market_price: new best prices, then a sweep from begin(). *)
UpdateMarketPrice(price) ==
  /\ Idle
  /\ bestBid' = price - HalfSpread
  /\ bestAsk' = price + HalfSpread
  /\ cursor' = 1
  /\ UNCHANGED <<resting, outbox>>

Sweeping == cursor \in 1 .. Len(resting) /\ outbox = <<>>

(* A crossed order fills at the best price; erase returns the iterator to   *)
(* the order behind it.                                                    *)
(* Mistakes: the iterator advances past the order behind the erased one;    *)
(* the fill is at the limit; the filled order is not erased.               *)
SweepFillSkip ==
  /\ Sweeping
  /\ LET o == resting[cursor] IN
       /\ Allows(o, Opposite(o))
       /\ Emit(o, Opposite(o), o.quantity, "Filled")
  /\ resting' = RemoveAt(resting, cursor)
  /\ cursor' = IF cursor <= Len(resting') THEN cursor + 1 ELSE cursor
  /\ UNCHANGED <<bestBid, bestAsk>>

SweepFillAtLimit ==
  /\ Sweeping
  /\ LET o == resting[cursor] IN
       /\ Allows(o, Opposite(o))
       /\ Emit(o, o.price, o.quantity, "Filled")
  /\ resting' = RemoveAt(resting, cursor)
  /\ UNCHANGED <<bestBid, bestAsk, cursor>>

SweepFillStay ==
  /\ Sweeping
  /\ LET o == resting[cursor] IN
       /\ Allows(o, Opposite(o))
       /\ Emit(o, Opposite(o), o.quantity, "Filled")
  /\ cursor' = cursor + 1
  /\ UNCHANGED <<bestBid, bestAsk, resting>>

SweepFill ==
  /\ Sweeping
  /\ LET o == resting[cursor] IN
       /\ Allows(o, Opposite(o))
       /\ Emit(o, Opposite(o), o.quantity, "Filled")
  /\ resting' = RemoveAt(resting, cursor)
  /\ UNCHANGED <<bestBid, bestAsk, cursor>>

SweepKeep ==
  /\ Sweeping
  /\ ~Allows(resting[cursor], Opposite(resting[cursor]))
  /\ cursor' = cursor + 1
  /\ UNCHANGED <<bestBid, bestAsk, resting, outbox>>

SweepEnd ==
  /\ cursor = Len(resting) + 1 /\ outbox = <<>>
  /\ cursor' = 0
  /\ UNCHANGED <<bestBid, bestAsk, resting, outbox>>

(* match_market_order *)
MatchMarketOrder(o) ==
  /\ IF Opposite(o) <= 0
     THEN Emit(o, 0, 0, "Rejected")
     ELSE Emit(o, Opposite(o), o.quantity, "Filled")
  /\ UNCHANGED resting

(* Mistake: the limit is not compared. *)
CanMatchAny(o) == Opposite(o) > 0

CanMatch(o) == Opposite(o) > 0 /\ Allows(o, Opposite(o))

(* Mistakes: a resting order goes to the front; an order that cannot trade  *)
(* is queued again instead of resting.                                     *)
MatchLimitOrderFront(o) ==
  \/ /\ CanMatch(o)
     /\ Emit(o, Opposite(o), o.quantity, "Filled")
     /\ UNCHANGED resting
  \/ /\ ~CanMatch(o)
     /\ resting' = <<o>> \o resting
     /\ Emit(o, o.price, 0, "New")

MatchLimitOrderRetry(o) ==
  /\ IF CanMatch(o) THEN Emit(o, Opposite(o), o.quantity, "Filled")
     ELSE outbox' = Append(outbox, ValidatedEvent(o))
  /\ UNCHANGED resting

(* match_limit_order *)
MatchLimitOrder(o) ==
  \/ /\ CanMatch(o)
     /\ Emit(o, Opposite(o), o.quantity, "Filled")
     /\ UNCHANGED resting
  \/ /\ ~CanMatch(o)
     /\ resting' = Append(resting, o)
     /\ Emit(o, o.price, 0, "New")

ProcessOrder(o) ==
  /\ Idle
  /\ IF o.type = "Market" THEN MatchMarketOrder(o) ELSE MatchLimitOrder(o)
  /\ UNCHANGED <<bestBid, bestAsk, cursor>>

(* cancel_order reports the cancellation of a request that is blank but for *)
(* its id, and looks for no resting order.                                 *)
(* Mistake: the request is not blank, its fields are whatever they were. *)
UnsetRequest(i) ==
  [id |-> i, strategy |-> -1, side |-> "Buy", type |-> "Limit",
   price |-> 0, quantity |-> 0]

BlankRequest(i) ==
  [id |-> i, strategy |-> 0, side |-> "Buy", type |-> "Limit",
   price |-> 0, quantity |-> 0]

(* Mistake: a cancellation that finds no order is tried again. *)
CancelOrderRetry(i) ==
  /\ Idle
  /\ IF i \in {o.id : o \in ToSet(resting)}
     THEN Emit(BlankRequest(i), 0, 0, "Cancelled")
     ELSE outbox' = Append(outbox, CancelEvent(i))
  /\ UNCHANGED bookOfOrders

CancelOrder(i) ==
  /\ Idle
  /\ Emit(BlankRequest(i), 0, 0, "Cancelled")
  /\ UNCHANGED bookOfOrders

(* The push of the oldest emitted report. *)
Deliver ==
  /\ outbox # <<>>
  /\ outbox' = Tail(outbox)
  /\ UNCHANGED bookOfOrders

-----------------------------------------------------------------------------
(* The exchange on its own: trades, orders and cancellations in any order,  *)
(* each order sent again only when it no longer rests.                     *)

Ids == {o.id : o \in Orders}

Sweep == SweepFill \/ SweepKeep \/ SweepEnd

Next ==
  \/ \E price \in Prices : UpdateMarketPrice(price)
  \/ Sweep
  \/ \E o \in Orders \ ToSet(resting) : ProcessOrder(o)
  \/ \E i \in Ids : CancelOrder(i)
  \/ Deliver

Spec == Init /\ [][Next]_exchangeVars

-----------------------------------------------------------------------------

TypeOK ==
  /\ bestBid \in Int /\ bestAsk \in Int
  /\ resting \in Seq(Orders)
  /\ cursor \in 0 .. Len(resting) + 1
  /\ outbox \in Seq([type : {"ExecutionReport"}, report : ExecutionReport])

(* No order that could trade is left resting: outside a sweep none at all,  *)
(* inside one none that the iterator has passed (erasing must not skip one). *)
NoCrossedResting ==
  \A i \in DOMAIN resting :
    cursor = 0 \/ i < cursor => ~CanMatch(resting[i])

(* An order leaves the exchange in one way only: as one Filled report for   *)
(* its whole quantity at a price its limit allows.                         *)
LeavesByFill ==
  [][\A o \in ToSet(resting) \ ToSet(resting') :
       \E price \in {bestBid, bestAsk} :
         /\ Allows(o, price)
         /\ outbox' = <<ReportEvent(Report(o, price, o.quantity, "Filled"))>>
    ]_exchangeVars

(* A limit order never trades at a price worse than its limit, whether it    *)
(* trades at once or after resting.                                        *)
Worse(o, price) == o.type = "Limit" /\ ~Allows(o, price)
FillsWithinLimit ==
  [][\A o \in Orders, price \in {bestBid, bestAsk} :
       Worse(o, price) =>
         outbox' # Append(outbox, ReportEvent(
                     Report(o, price, o.quantity, "Filled")))]_exchangeVars

(* Of two limit orders on one side at one price, the one that came to rest  *)
(* first trades first: one that comes later queues behind it, stays behind  *)
(* it, and does not trade, on arrival or in a sweep, while it rests.        *)
Equal(o, q) == o.type = q.type /\ o.side = q.side /\ o.price = q.price
Ahead(s, o, q) == \E i, j \in DOMAIN s : i < j /\ s[i] = o /\ s[j] = q
Fills(q) ==
  \E price \in {bestBid, bestAsk} :
    outbox' = Append(outbox, ReportEvent(
                Report(q, price, q.quantity, "Filled")))
TimePriority ==
  [][\A o \in ToSet(resting) \cap ToSet(resting'), q \in Orders :
       o # q /\ Equal(o, q) /\ ~Ahead(resting, q, o) =>
         /\ q \in ToSet(resting') => Ahead(resting', o, q)
         /\ ~Fills(q)]_exchangeVars
=============================================================================
