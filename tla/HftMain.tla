------------------------------- MODULE HftMain -------------------------------
(***************************************************************************)
(* main.cpp: the threads of the program around the event queue.            *)
(*                                                                         *)
(*   feed threads      push a MarketData event per trade                   *)
(*   processor thread  pops up to BatchSize events, then handles each of   *)
(*                     them; handlers push follow-up events on the queue   *)
(*   main thread       the UI loop, then shutdown and the joins            *)
(*                                                                         *)
(* An order makes three round trips through the queue: OrderRequest to the *)
(* order manager, ValidatedOrder to the exchange, ExecutionReport back.    *)
(* A handler's changes are visible to its own thread only, except for its  *)
(* pushes: it fills outbox, and Flush performs one push at a time, before  *)
(* the thread does anything else.  No caller looks at the result of push,  *)
(* so an event that does not fit is lost.                                  *)
(*                                                                         *)
(* Here the queue is the first-in first-out queue that its callers rely on *)
(* (EventQueue); RingBuffer.tla says when the code behind it is that.      *)
(***************************************************************************)
EXTENDS Events, Sequences, SequencesExt, FiniteSets

CONSTANTS
  Modes,        (* the modes to choose from: LIVE, REPLAY, HYBRID           *)
  BookIsFed,    (* whether trades reach the order book.  FALSE is main.cpp, *)
                (* where nothing calls apply_trade; TRUE is README.md's     *)
                (* architecture, and what the market maker is written for   *)
  Prices,       (* the trade prices                                        *)
  ShortPrices,  (* what the price of an event may be that a line with too   *)
                (* few fields left uninitialised                           *)
  Sizes,        (* the quantities of trades                                 *)
  Makers,       (* the values is_buyer_maker takes                          *)
  Trends,       (* what the moving averages may say                        *)
  QuitKey,      (* whether the user may quit                               *)
  MaxTicks,     (* bound: lines of the file, trades sent by the live feed   *)
  WatchedIds,   (* bound: the order ids whose lives are compared            *)
  Capacity,     (* events that fit in the queue: DefaultSize - 1 = 1023    *)
  BatchSize,    (* events popped before any is handled: 4                  *)
  HistoryCap,   (* length of trade_history: 1000                           *)
  MaxPosition, MaxLevels, HalfSpread,
  MMFirstId, MMQuantity, MMMaxPosition,
  MoFirstId, MoQuantity, Warmup

ASSUME ConstantAssumption ==
  /\ Modes \subseteq {"LIVE", "REPLAY", "HYBRID"}
  /\ Prices \subseteq Int /\ ShortPrices \subseteq Int
  /\ Sizes \subseteq Nat /\ Makers \subseteq BOOLEAN
  /\ BookIsFed \in BOOLEAN
  /\ {MaxTicks, Capacity, BatchSize, HistoryCap, MaxLevels, HalfSpread, Warmup}
       \subseteq Nat
  /\ {MaxPosition, MMMaxPosition} \subseteq Int
  /\ {MMFirstId, MMQuantity, MoFirstId, MoQuantity} \subseteq Nat
  /\ MMFirstId <= MoFirstId
  /\ WatchedIds \subseteq Nat

VARIABLES
  queue,                                       (* the event queue          *)
  astray,                                      (* no part of the code: ids *)
              (* of orders refused, or with an event a full queue refused  *)
  mode, feedPc, feedRunning, feedFinished, ticks,             (* the feeds *)
  pc, batch, outbox,                           (* the processor thread     *)
  running, uiPc, completed,                    (* the main thread          *)
  bidLevels, askLevels,                        (* the order book           *)
  mmPosition, mmQuotes, mmActive, mmNextId,    (* the market maker         *)
  moCount, moOpen, moNextId,                   (* the momentum strategy    *)
  activeOrders, riskPosition,                  (* order manager and risk   *)
  bestBid, bestAsk, resting, cursor,           (* the exchange             *)
  position, tradeHistory                       (* profit and loss, trades  *)

queueVars == <<queue, astray>>
feedVars == <<mode, feedPc, feedRunning, feedFinished, ticks>>
loopVars == <<pc, batch>>
uiVars == <<running, uiPc, completed>>
bookVars == <<bidLevels, askLevels>>
mmVars == <<mmPosition, mmQuotes, mmActive, mmNextId>>
moVars == <<moCount, moOpen, moNextId>>
omVars == <<activeOrders, riskPosition>>
exVars == <<bestBid, bestAsk, resting, cursor>>
pnlVars == <<position, tradeHistory>>
tradingVars == <<bookVars, mmVars, moVars, omVars, exVars, pnlVars>>
vars == <<queueVars, feedVars, loopVars, outbox, uiVars, tradingVars>>

(* A popped event is at the end of the batch. *)
Queue == INSTANCE EventQueue WITH
           Item <- Event,
           popped <- IF batch = <<>> THEN <<>> ELSE Last(batch)
Feeds == INSTANCE Feeds
Book == INSTANCE OrderBook
MM == INSTANCE MarketMaker
Mo == INSTANCE Momentum
Risk == INSTANCE RiskEngine
OM == INSTANCE OrderManager
Exchange == INSTANCE MatchingEngine WITH Orders <- OrderRequest
PnL == INSTANCE Positions WITH Quantities <- {MMQuantity, MoQuantity}

-----------------------------------------------------------------------------

Init ==
  /\ queue = <<>> /\ astray = {}
  /\ Feeds!Init
  /\ pc = "loop" /\ batch = <<>>
  /\ running = TRUE /\ uiPc = "loop" /\ completed = FALSE
  /\ Book!Init /\ MM!Init /\ Mo!Init /\ Risk!Init /\ OM!Init
  /\ Exchange!Init
  /\ PnL!Init /\ tradeHistory = <<>>

-----------------------------------------------------------------------------

(* The orders an event is about. *)
Subject(e) ==
  CASE e.type \in {"OrderRequest", "ValidatedOrder"} -> {e.order.id}
    [] e.type = "CancelOrder" -> {e.id}
    [] e.type = "ExecutionReport" -> {e.report.id}
    [] OTHER -> {}

(* push, with its result ignored. *)
Push(e) ==
  \/ Queue!Enqueue(e) /\ UNCHANGED astray
  \/ ~Queue!HasRoom /\ astray' = astray \cup Subject(e) /\ UNCHANGED queue

-----------------------------------------------------------------------------
(* The feed threads. *)

FeedPush(f) ==
  /\ Feeds!Pushed(f)
  /\ \E price \in Prices \cup (IF f = "replay" THEN ShortPrices ELSE {}),
        size \in Sizes, maker \in Makers :
       Push(MarketDataEvent(price, size, maker))

FeedStep(f) ==
  /\ UNCHANGED <<loopVars, outbox, uiVars, tradingVars>>
  /\ \/ (Feeds!Start(f) \/ Feeds!Read(f) \/ Feeds!Throw(f) \/ Feeds!End(f))
          /\ UNCHANGED queueVars
     \/ FeedPush(f)

-----------------------------------------------------------------------------
(* The processor thread. *)

(* Mistake: a push that succeeded is taken for one that failed, and retried. *)
FlushRetry ==
  /\ outbox # <<>>
  /\ UNCHANGED <<feedVars, loopVars, uiVars, tradingVars>>
  /\ Push(Head(outbox))
  /\ outbox' = IF queue' = queue THEN Tail(outbox) ELSE outbox

Flush ==
  /\ outbox # <<>>
  /\ outbox' = Tail(outbox)
  /\ UNCHANGED <<feedVars, loopVars, uiVars, tradingVars>>
  /\ Push(Head(outbox))

(* The loop condition is read before each batch of pops. *)
LoopEnter ==
  /\ pc = "loop" /\ outbox = <<>>
  /\ running
  /\ pc' = "poll"
  /\ UNCHANGED <<batch, queueVars, feedVars, outbox, uiVars, tradingVars>>

PollPop ==
  /\ pc = "poll"
  /\ Len(batch) < BatchSize /\ queue # <<>>
  /\ batch' = Append(batch, Head(queue))
  /\ Queue!Dequeue
  /\ UNCHANGED <<astray, pc, feedVars, outbox, uiVars, tradingVars>>

PollDone ==
  /\ pc = "poll"
  /\ Len(batch) = BatchSize \/ queue = <<>>
  /\ pc' = IF batch = <<>> THEN "loop" ELSE "handle"
  /\ UNCHANGED <<batch, queueVars, feedVars, outbox, uiVars, tradingVars>>

(* Mistake: the loop is left between two events of a batch. *)
ProcessorExitEarly ==
  /\ pc \in {"loop", "handle"} /\ outbox = <<>>
  /\ ~running
  /\ pc' = "exited"
  /\ UNCHANGED <<batch, queueVars, feedVars, outbox, uiVars, tradingVars>>

ProcessorExit ==
  /\ pc = "loop" /\ outbox = <<>>
  /\ ~running
  /\ pc' = "exited"
  /\ UNCHANGED <<batch, queueVars, feedVars, outbox, uiVars, tradingVars>>

(* The event being handled, and the step to the next one. *)
Handling(step, type) ==
  pc = step /\ batch # <<>> /\ outbox = <<>> /\ Head(batch).type = type

(* Mistake: the loop never returns to polling. *)
EventDoneStay == batch' = Tail(batch) /\ pc' = "handle"

EventDone ==
  /\ batch' = Tail(batch)
  /\ pc' = IF Len(batch) = 1 THEN "loop" ELSE "handle"

(* The call main.cpp lacks: the trade reaches the book before the           *)
(* strategies look at it.                                                  *)
MarketDataToBook ==
  /\ BookIsFed
  /\ Handling("handle", "MarketData")
  /\ Book!ApplyTrade(Head(batch).price, Head(batch).quantity,
                     Head(batch).isBuyerMaker)
  /\ pc' = "quote"
  /\ UNCHANGED <<batch, outbox, mmVars, moVars, omVars, exVars, pnlVars,
                 queueVars, feedVars, uiVars>>

(* case MarketData: the strategies one after the other, then the exchange. *)
MarketDataToMarketMaker(throttled) ==
  /\ Handling(IF BookIsFed THEN "quote" ELSE "handle", "MarketData")
  /\ MM!OnMarketData(PnL!TotalPosition, throttled)
  /\ pc' = "momentum"
  /\ UNCHANGED <<batch, bookVars, moVars, omVars, exVars, pnlVars, queueVars,
                 feedVars, uiVars>>

MarketDataToMomentum(trend) ==
  /\ Handling("momentum", "MarketData")
  /\ Mo!OnMarketData(Head(batch).price, trend)
  /\ pc' = "exchange"
  /\ UNCHANGED <<batch, bookVars, mmVars, omVars, exVars, pnlVars, queueVars,
                 feedVars, uiVars>>

MarketDataToExchange ==
  /\ Handling("exchange", "MarketData")
  /\ Exchange!UpdateMarketPrice(Head(batch).price)
  /\ pc' = "sweep"
  /\ UNCHANGED <<batch, bookVars, mmVars, moVars, omVars, pnlVars, queueVars,
                 feedVars, uiVars>>

ExchangeSweep ==
  /\ Handling("sweep", "MarketData")
  /\ \/ (Exchange!SweepFill \/ Exchange!SweepKeep) /\ UNCHANGED loopVars
     \/ Exchange!SweepEnd /\ EventDone
  /\ UNCHANGED <<bookVars, mmVars, moVars, omVars, pnlVars, queueVars,
                 feedVars, uiVars>>

HandleOrderRequest ==
  /\ Handling("handle", "OrderRequest")
  /\ OM!HandleOrderRequest(Head(batch).order)
  /\ astray' = IF OM!ValidateOrder(Head(batch).order) THEN astray
               ELSE astray \cup {Head(batch).order.id}
  /\ EventDone
  /\ UNCHANGED <<riskPosition, bookVars, mmVars, moVars, exVars, pnlVars,
                 queue, feedVars, uiVars>>

HandleValidatedOrder ==
  /\ Handling("handle", "ValidatedOrder")
  /\ Exchange!ProcessOrder(Head(batch).order)
  /\ EventDone
  /\ UNCHANGED <<bookVars, mmVars, moVars, omVars, pnlVars, queueVars,
                 feedVars, uiVars>>

HandleCancelOrder ==
  /\ Handling("handle", "CancelOrder")
  /\ Exchange!CancelOrder(Head(batch).id)
  /\ EventDone
  /\ UNCHANGED <<bookVars, mmVars, moVars, omVars, pnlVars, queueVars,
                 feedVars, uiVars>>

(* Mistake: the trade history is never trimmed. *)
RememberAll(r) == tradeHistory' = Append(tradeHistory, r)

(* The newest HistoryCap fills, for the user interface. *)
Remember(r) ==
  LET trades == Append(tradeHistory, r)
  IN tradeHistory' = IF Len(trades) > HistoryCap THEN Tail(trades) ELSE trades

(* case ExecutionReport: the order manager, then for a fill the positions   *)
(* and the trade history.  The strategies ignore the report; the profit     *)
(* figures, which no handler reads, are PnLEngine's.                       *)
HandleExecutionReport ==
  /\ Handling("handle", "ExecutionReport")
  /\ LET r == Head(batch).report IN
       /\ OM!HandleExecutionReport(r)
       /\ IF r.status = "Filled"
          THEN /\ PnL!OnFill(r.strategy, r.side, r.quantity)
               /\ Risk!UpdatePosition(r.quantity * Sign(r.side))
               /\ Remember(r)
          ELSE UNCHANGED <<riskPosition, pnlVars>>
  /\ EventDone
  /\ UNCHANGED <<outbox, bookVars, mmVars, moVars, exVars, queueVars,
                 feedVars, uiVars>>

-----------------------------------------------------------------------------
(* The main thread: the UI loop until the backtest is complete or the user  *)
(* quits, then stop() on the feed, and the joins.                          *)

UiComplete ==
  /\ uiPc = "loop" /\ mode = "REPLAY" /\ Feeds!IsFinished
  /\ running' = FALSE /\ completed' = TRUE
  /\ uiPc' = "stop"
  /\ UNCHANGED <<queueVars, feedVars, loopVars, outbox, tradingVars>>

UiQuit ==
  /\ uiPc = "loop" /\ QuitKey
  /\ running' = FALSE
  /\ uiPc' = "stop"
  /\ UNCHANGED <<completed, queueVars, feedVars, loopVars, outbox, tradingVars>>

UiStopFeed ==
  /\ uiPc = "stop"
  /\ Feeds!Stop
  /\ uiPc' = "join"
  /\ UNCHANGED <<running, completed, queueVars, loopVars, outbox, tradingVars>>

UiJoin ==
  /\ uiPc = "join" /\ Feeds!Joinable /\ pc = "exited"
  /\ uiPc' = "summary"
  /\ UNCHANGED <<running, completed, queueVars, feedVars, loopVars, outbox,
                 tradingVars>>

-----------------------------------------------------------------------------

Processor ==
  \/ Flush
  \/ LoopEnter \/ PollPop \/ PollDone \/ ProcessorExit
  \/ MarketDataToBook
  \/ \E throttled \in BOOLEAN : MarketDataToMarketMaker(throttled)
  \/ \E trend \in Trends : MarketDataToMomentum(trend)
  \/ MarketDataToExchange
  \/ ExchangeSweep
  \/ HandleOrderRequest
  \/ HandleValidatedOrder
  \/ HandleCancelOrder
  \/ HandleExecutionReport

Main == UiComplete \/ UiQuit \/ UiStopFeed \/ UiJoin

(* An exception that leaves a thread ends all of them. *)
Next ==
  /\ ~Feeds!Aborted
  /\ \/ \E f \in Feeds!Feed : FeedStep(f)
     \/ Processor
     \/ Main

Spec == Init /\ [][Next]_vars

(* The threads of a program keep running: the processor polls without a     *)
(* pause, a replay reads on to the end of its file, a feed finishes what it *)
(* began, and the main thread wakes every 20 ms.  A user may never quit, a   *)
(* live feed never send.                                                   *)
Alive(A) == ~Feeds!Aborted /\ A
Fairness ==
  /\ WF_vars(Alive(Processor))
  /\ \A f \in Feeds!Feed : WF_vars(Alive(feedPc[f] # "loop" /\ FeedStep(f)))
  /\ WF_vars(Alive(feedPc["replay"] = "loop" /\ FeedStep("replay")))
  /\ WF_vars(Alive(~feedRunning["live"] /\ FeedStep("live")))
  /\ WF_vars(Alive(UiComplete \/ UiStopFeed \/ UiJoin))

FairSpec == Spec /\ Fairness

-----------------------------------------------------------------------------

QueueTypeOK ==
  /\ queue \in Seq(Event) /\ Len(queue) <= Capacity
  /\ astray \subseteq Nat
FeedTypeOK ==
  /\ mode \in Modes
  /\ feedPc \in [Feeds!Feed -> {"start", "loop", "read", "thrown", "exited"}]
  /\ feedRunning \in [Feeds!Feed -> BOOLEAN]
  /\ feedFinished \in [Feeds!Feed -> BOOLEAN]
  /\ ticks \in [Feeds!Feed -> 0 .. MaxTicks]
LoopTypeOK ==
  /\ pc \in {"loop", "poll", "handle", "quote", "momentum", "exchange",
             "sweep", "exited"}
  /\ batch \in Seq(Event) /\ Len(batch) <= BatchSize
OutboxTypeOK == outbox \in Seq(Event)
UiTypeOK ==
  /\ running \in BOOLEAN /\ completed \in BOOLEAN
  /\ uiPc \in {"loop", "stop", "join", "summary"}
BookTypeOK ==
  /\ bidLevels \in Seq([price : Int, quantity : Nat])
  /\ askLevels \in Seq([price : Int, quantity : Nat])
MMTypeOK ==
  /\ mmPosition \in Int /\ mmQuotes \in Int \X Int
  /\ mmActive \in Seq(Nat) /\ mmNextId \in Nat
MoTypeOK == moCount \in 0 .. Warmup /\ moOpen \in BOOLEAN /\ moNextId \in Nat
OmTypeOK == activeOrders \subseteq OrderRequest /\ riskPosition \in Int
ExTypeOK ==
  /\ bestBid \in Int /\ bestAsk \in Int
  /\ resting \in Seq(OrderRequest) /\ cursor \in 0 .. Len(resting) + 1
PnLTypeOK ==
  /\ position \in [PnL!StrategyId -> Int]
  /\ tradeHistory \in Seq(ExecutionReport)
  /\ Len(tradeHistory) <= HistoryCap

TypeOK ==
  /\ QueueTypeOK /\ FeedTypeOK /\ LoopTypeOK /\ OutboxTypeOK /\ UiTypeOK
  /\ BookTypeOK /\ MMTypeOK /\ MoTypeOK /\ OmTypeOK /\ ExTypeOK /\ PnLTypeOK

-----------------------------------------------------------------------------
(* Properties.                                                             *)

(* The events between their emission and their handling, oldest first. *)
InFlight == batch \o queue \o outbox

(* The events that stand for an order: on its way to the order manager or   *)
(* the exchange, or on its way back as a fill.                              *)
EventStage == [OrderRequest |-> "requested", ValidatedOrder |-> "validated",
               ExecutionReport |-> "filled"]
StandsFor(e, id) ==
  \/ e.type \in {"OrderRequest", "ValidatedOrder"} /\ e.order.id = id
  \/ e.type = "ExecutionReport"
       /\ e.report.status = "Filled" /\ e.report.id = id

Sent(id) == id \in (MMFirstId .. mmNextId - 1) \cup (MoFirstId .. moNextId - 1)

(* Where an order is: the events that stand for it, and its resting copies.  *)
Travels(id) ==
  LET row == InFlight IN {i \in DOMAIN row : StandsFor(row[i], id)}
Rests(id) == {i \in DOMAIN resting : resting[i].id = id}

Single(S) == \A x, y \in S : x = y
Doubled(id) ==
  \/ ~Single(Travels(id)) \/ ~Single(Rests(id))
  \/ Travels(id) # {} /\ Rests(id) # {}

StageOf(id) ==
  CASE Travels(id) = {} /\ Rests(id) = {} ->
         IF Sent(id) THEN "over" ELSE "unsent"
    [] Doubled(id) -> "doubled"
    [] OTHER ->
         IF Rests(id) # {} THEN "resting"
         ELSE EventStage[InFlight[CHOOSE i \in Travels(id) : TRUE].type]

(* Every order lives one life, stage after stage: whatever the queue drops   *)
(* and however events interleave, no order is requested, validated, resting *)
(* or filled twice, and none comes back after it was over.                 *)
Life == INSTANCE OrderLifecycle WITH
          Ids <- WatchedIds, stage <- [id \in WatchedIds |-> StageOf(id)]
FollowsLifecycle == Life!Spec

(* Every order the order manager believes active is on its way to the       *)
(* exchange, rests there, or its final report is on its way back, unless     *)
(* the queue refused one of its own events.                                *)
NothingStranded ==
  \A o \in activeOrders :
    \/ StageOf(o.id) \in {"validated", "resting"}
    \/ \E e \in ToSet(InFlight) :
         e.type = "ExecutionReport" /\ e.report.id = o.id
           /\ OM!Final(e.report.status)
    \/ o.id \in astray

(* Quotes the market maker no longer has among its own.                    *)
Replaced(id) == id \in (MMFirstId .. mmNextId - 1) /\ id \notin ToSet(mmActive)

(* The order manager never forgets an order that may still trade, although   *)
(* an order and its cancellation make their ways separately: it knows every *)
(* order on its way to the exchange, and of those that rest there it does   *)
(* not know none is a quote that still stands, or the momentum strategy's.  *)
TradeableIsTracked ==
  /\ \A e \in ToSet(InFlight) :
       e.type = "ValidatedOrder" => e.order \in activeOrders
  /\ \A o \in ToSet(resting) : o \in activeOrders \/ Replaced(o.id)

(* No replaced quote stays active: while the order manager holds it, its     *)
(* cancellation or a final report is on its way, unless an event of it was  *)
(* refused.  A cancellation must not arrive before its order is known.      *)
ReplacedAreCancelled ==
  \A o \in activeOrders : Replaced(o.id) =>
    \/ o.id \in astray
    \/ \E e \in ToSet(InFlight) :
         \/ e.type = "CancelOrder" /\ e.id = o.id
         \/ /\ e.type = "ExecutionReport" /\ e.report.id = o.id
            /\ OM!Final(e.report.status)

(* position_open_ changes when an order is sent.  Once all its orders have   *)
(* been reported, and none went astray, it says whether strategy 2 is long. *)
OfMomentum(o) == o.strategy = 2
FlagMeansPosition ==
  \/ \E id \in astray : id >= MoFirstId
  \/ \E e \in ToSet(InFlight) : Subject(e) \cap (MoFirstId .. moNextId) # {}
  \/ \E o \in ToSet(resting) : OfMomentum(o)
  \/ position[2] = IF moOpen THEN MoQuantity ELSE 0

(* The market maker cancels what it replaces, once, and nothing else: the    *)
(* cancellations on their way are of different orders, none of them current. *)
CancelsAreOfReplaced ==
  LET Cancels(i) == InFlight[i].type = "CancelOrder" IN
  \A i, j \in {k \in DOMAIN InFlight : Cancels(k)} :
    /\ InFlight[i].id \notin ToSet(mmActive)
    /\ InFlight[i].id = InFlight[j].id => i = j

(* Each side of the book holds each price once, the best first, and fits    *)
(* its array, whatever order the trades come in.                           *)
BookInOrder == Book!InOrder

(* main.cpp: "risk(100.0); // 100 BTC max pos". *)
RiskLimit == Risk!Abs(riskPosition) <= MaxPosition

(* When all threads are joined, no feed can push any more, and the processor *)
(* has handled every event it popped and pushed every event it emitted.     *)
ShutdownIsClean ==
  uiPc = "summary" =>
    /\ batch = <<>> /\ outbox = <<>>
    /\ \A f \in Feeds!Feed : feedPc[f] = "exited"

(* A backtest reported complete has handled every event it queued.          *)
ReplayComplete == uiPc = "summary" /\ completed => queue = <<>>

(* While the program runs, the queue drains again and again: no chain of    *)
(* follow-up events goes on for ever.                                      *)
Drained == queue = <<>> /\ batch = <<>> /\ outbox = <<>>
Quiesces == []<>(~running \/ Feeds!Aborted \/ Drained)

(* Once the loop is left, all threads end and the summary is reached.       *)
Terminates == uiPc = "stop" ~> (uiPc = "summary" \/ Feeds!Aborted)
=============================================================================
