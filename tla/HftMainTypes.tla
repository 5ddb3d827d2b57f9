---------------------------- MODULE HftMainTypes ----------------------------
(***************************************************************************)
(* The composed program, for every value of the constants: types, and a    *)
(* shutdown that leaves no thread running and nothing half done.           *)
(***************************************************************************)
EXTENDS HftMain, SequenceFacts

-----------------------------------------------------------------------------
(* The components, one at a time.                                          *)

(* A full queue refuses an event, and the ids it is about are recorded.     *)
LEMMA PushTypes ==
  ASSUME QueueTypeOK, NEW e \in Event, Push(e)
  PROVE  QueueTypeOK'
<1>1. CASE Queue!Enqueue(e) /\ UNCHANGED astray
  BY <1>1, ConstantAssumption
  DEF Queue!Enqueue, Queue!HasRoom, QueueTypeOK
<1>2. CASE ~Queue!HasRoom /\ astray' = astray \cup Subject(e) /\ UNCHANGED queue
  <2>1. Subject(e) \subseteq Nat
    BY DEF Subject, Event, OrderRequest, ExecutionReport
  <2> QED
    BY <1>2, <2>1 DEF QueueTypeOK
<1> QED
  BY <1>1, <1>2 DEF Push

(* The feeds' own steps.                                                    *)
LEMMA FeedTypes ==
  ASSUME FeedTypeOK, NEW f \in Feeds!Feed,
         Feeds!Start(f) \/ Feeds!Read(f) \/ Feeds!Throw(f) \/ Feeds!Pushed(f)
           \/ Feeds!End(f) \/ Feeds!Stop
  PROVE  FeedTypeOK'
<1> USE DEF FeedTypeOK
<1>1. ASSUME NEW from, NEW to \in {"loop", "read", "thrown", "exited"},
             Feeds!Goto(f, from, to)
      PROVE  feedPc' \in [Feeds!Feed ->
                            {"start", "loop", "read", "thrown", "exited"}]
  BY <1>1 DEF Feeds!Goto
<1>2. CASE Feeds!Start(f)
  <2>1. feedPc' \in [Feeds!Feed ->
                       {"start", "loop", "read", "thrown", "exited"}]
    BY <1>1, <1>2 DEF Feeds!Start
  <2>2. feedFinished' \in [Feeds!Feed -> BOOLEAN]
    BY <1>2 DEF Feeds!Start
  <2>3. feedRunning' \in [Feeds!Feed -> BOOLEAN]
    <3>1. (feedRunning[f] \/ f = "replay") \in BOOLEAN
      OBVIOUS
    <3> QED
      BY <1>2, <3>1, Zenon DEF Feeds!Start
  <2> QED
    BY <1>2, <2>1, <2>2, <2>3 DEF Feeds!Start
<1>3. CASE Feeds!Read(f)
  <2>1. MaxTicks \in Nat
    BY ConstantAssumption
  <2>2. ticks' \in [Feeds!Feed -> 0 .. MaxTicks]
    BY <1>3, <2>1 DEF Feeds!Read
  <2> QED
    BY <1>1, <1>3, <2>2 DEF Feeds!Read
<1>4. CASE Feeds!Throw(f)
  BY <1>1, <1>4 DEF Feeds!Throw
<1>5. CASE Feeds!Pushed(f)
  BY <1>1, <1>5 DEF Feeds!Pushed
<1>6. CASE Feeds!End(f)
  <2>1. feedPc' \in [Feeds!Feed ->
                       {"start", "loop", "read", "thrown", "exited"}]
    BY <1>1, <1>6 DEF Feeds!End
  <2>2. feedRunning' \in [Feeds!Feed -> BOOLEAN]
    BY <1>6 DEF Feeds!End
  <2>3. feedFinished' \in [Feeds!Feed -> BOOLEAN]
    <3>1. (f = "replay") \in BOOLEAN
      OBVIOUS
    <3> QED
      BY <1>6, <3>1, Zenon DEF Feeds!End
  <2> QED
    BY <1>6, <2>1, <2>2, <2>3 DEF Feeds!End
<1>7. CASE Feeds!Stop
  <2>1. feedRunning' \in [Feeds!Feed -> BOOLEAN]
    BY <1>7, Zenon DEF Feeds!Stop
  <2> QED
    BY <1>7, <2>1 DEF Feeds!Stop
<1> QED
  BY <1>2, <1>3, <1>4, <1>5, <1>6, <1>7

(* The quotes are whole prices whatever stands on top of the book.          *)
LEMMA TargetTypes ==
  ASSUME BookTypeOK, MM!Book!TwoSided, MM!TopSize > 0, NEW p \in Int
  PROVE  MM!TargetBid(p) \in Int /\ MM!TargetAsk(p) \in Int
<1>0. /\ Head(bidLevels) \in [price : Int, quantity : Nat]
      /\ Head(askLevels) \in [price : Int, quantity : Nat]
  BY HeadTailProperties DEF BookTypeOK, MM!Book!TwoSided
<1>1. /\ MM!Book!TopBid.price \in Int /\ MM!Book!TopBid.quantity \in Nat
      /\ MM!Book!TopAsk.price \in Int /\ MM!Book!TopAsk.quantity \in Nat
  BY <1>0 DEF MM!Book!TopBid, MM!Book!TopAsk
<1>2. MM!TopSize \in Int
  BY <1>1 DEF MM!TopSize
<1>3. MM!Unit \in Int /\ MM!Unit > 0
  BY <1>2 DEF MM!Unit
<1>4. MM!LeaningMiddle(p) \in Int
  BY <1>1, <1>2 DEF MM!LeaningMiddle
<1>5. ASSUME NEW q \in Int
      PROVE  MM!Down(q) \in Int /\ MM!Up(q) \in Int /\ MM!InUnits(q) \in Int
  BY <1>3 DEF MM!Down, MM!Up, MM!InUnits
<1>6. /\ MM!InUnits(MM!Book!TopBid.price) \in Int
      /\ MM!InUnits(MM!Book!TopAsk.price) \in Int
  BY <1>1, <1>5
<1>7. ASSUME NEW a \in Int, NEW b \in Int
      PROVE  MM!Lesser(a, b) \in Int /\ MM!Greater(a, b) \in Int
  BY DEF MM!Lesser, MM!Greater
<1> DEFINE low  == MM!Lesser(MM!LeaningMiddle(p) - MM!Unit,
                              MM!InUnits(MM!Book!TopBid.price))
           high == MM!Greater(MM!LeaningMiddle(p) + MM!Unit,
                              MM!InUnits(MM!Book!TopAsk.price))
<1>8. low \in Int /\ high \in Int
  <2>1. /\ MM!LeaningMiddle(p) - MM!Unit \in Int
        /\ MM!LeaningMiddle(p) + MM!Unit \in Int
    BY <1>3, <1>4
  <2> QED
    BY <1>6, <1>7, <2>1, Zenon
<1>9. MM!Down(low) \in Int /\ MM!Up(high) \in Int
  BY <1>5, <1>8
<1>10. 4 * MM!Down(low) \in Int /\ 4 * MM!Up(high) \in Int
  <2> HIDE DEF low, high
  <2> QED
    BY <1>9
<1> QED
  BY <1>10 DEF MM!TargetBid, MM!TargetAsk

(* What cancel_all and submit_order send: a cancellation of each order that  *)
(* stood, then at most two limit orders with the next ids.                  *)
LEMMA RequoteSends ==
  ASSUME MMTypeOK, OutboxTypeOK, NEW p \in Int, NEW bid \in Int, NEW ask \in Int,
         MM!Requote(p, bid, ask)
  PROVE  \E sent \in Seq(OrderRequest) :
           /\ Len(sent) <= 2
           /\ \A i \in DOMAIN sent :
                /\ sent[i].id = mmNextId + i - 1
                /\ sent[i].type = "Limit" /\ sent[i].strategy = 1
           /\ mmActive' = [i \in DOMAIN sent |-> sent[i].id]
           /\ mmNextId' = mmNextId + Len(sent)
           /\ mmQuotes' = <<bid, ask>>
           /\ outbox' =
                outbox \o [i \in DOMAIN mmActive |-> CancelEvent(mmActive[i])]
                       \o [i \in DOMAIN sent |-> RequestEvent(sent[i])]
<1> DEFINE b == MM!Quote(mmNextId, "Buy", bid)
           buys == IF p < MMMaxPosition THEN <<b>> ELSE <<>>
           s == MM!Quote(mmNextId + Len(buys), "Sell", ask)
           sells == IF p > -MMMaxPosition THEN <<s>> ELSE <<>>
           sent == buys \o sells
<1>1. ASSUME NEW id \in Nat, NEW side \in OrderSide, NEW price \in Int
      PROVE  /\ MM!Quote(id, side, price) \in OrderRequest
             /\ MM!Quote(id, side, price).id = id
             /\ MM!Quote(id, side, price).type = "Limit"
             /\ MM!Quote(id, side, price).strategy = 1
  BY ConstantAssumption DEF MM!Quote, OrderRequest, OrderType
<1>2. b \in OrderRequest /\ b.id = mmNextId /\ b.type = "Limit" /\ b.strategy = 1
  BY <1>1 DEF OrderSide, MMTypeOK
<1>3. Len(buys) \in {0, 1} /\ mmNextId + Len(buys) \in Nat
  BY DEF MMTypeOK
<1>4. /\ s \in OrderRequest /\ s.id = mmNextId + Len(buys)
      /\ s.type = "Limit" /\ s.strategy = 1
  <2> HIDE DEF buys
  <2> QED
    BY <1>1, <1>3 DEF OrderSide
<1> HIDE DEF b, s
<1>5. /\ buys \in Seq(OrderRequest)
      /\ \A i \in 1 .. Len(buys) : i = 1 /\ buys[i] = b
  BY <1>2
<1>6. /\ sells \in Seq(OrderRequest) /\ Len(sells) \in {0, 1}
      /\ \A i \in 1 .. Len(sells) : i = 1 /\ sells[i] = s
  BY <1>4
<1> HIDE DEF buys, sells
<1>7. /\ sent \in Seq(OrderRequest) /\ Len(sent) = Len(buys) + Len(sells)
      /\ \A i \in 1 .. Len(buys) + Len(sells) :
           sent[i] = IF i <= Len(buys) THEN buys[i] ELSE sells[i - Len(buys)]
  BY <1>5, <1>6, ConcatProperties
<1> HIDE DEF sent
<1>8. ASSUME NEW i \in DOMAIN sent
      PROVE  /\ sent[i].id = mmNextId + i - 1
             /\ sent[i].type = "Limit" /\ sent[i].strategy = 1
  <2>1. i \in 1 .. Len(buys) + Len(sells)
    BY <1>7
  <2>2. CASE i <= Len(buys)
    <3>1. i \in 1 .. Len(buys) /\ sent[i] = buys[i]
      BY <1>3, <1>6, <1>7, <2>1, <2>2
    <3>2. i = 1 /\ sent[i] = b
      BY <1>5, <3>1
    <3> QED
      BY <1>2, <3>2 DEF MMTypeOK
  <2>3. CASE ~(i <= Len(buys))
    <3>1. i - Len(buys) \in 1 .. Len(sells) /\ sent[i] = sells[i - Len(buys)]
      BY <1>3, <1>6, <1>7, <2>1, <2>3
    <3>2. i - Len(buys) = 1 /\ sent[i] = s
      BY <1>6, <3>1
    <3> QED
      BY <1>3, <1>4, <2>1, <3>2 DEF MMTypeOK
  <2> QED
    BY <2>2, <2>3
<1>9. /\ mmActive' = [i \in DOMAIN sent |-> sent[i].id]
      /\ mmNextId' = mmNextId + Len(sent)
      /\ mmQuotes' = <<bid, ask>>
      /\ outbox' =
           outbox \o [i \in DOMAIN mmActive |-> CancelEvent(mmActive[i])]
                  \o [i \in DOMAIN sent |-> RequestEvent(sent[i])]
  BY DEF MM!Requote, MM!CancelEvent, MM!RequestEvent, CancelEvent, RequestEvent,
         sent, buys, sells, b, s
<1>10. sent \in Seq(OrderRequest) /\ Len(sent) <= 2
  BY <1>3, <1>6, <1>7
<1> QED
  BY <1>8, <1>9, <1>10, Zenon

(* The market maker does nothing but note the position, or quotes again at  *)
(* whole prices.                                                           *)
LEMMA QuotesOrNot ==
  ASSUME BookTypeOK, NEW p \in Int, NEW throttled, MM!OnMarketData(p, throttled)
  PROVE  /\ mmPosition' = p
         /\ \/ UNCHANGED <<mmQuotes, mmActive, mmNextId, outbox>>
            \/ /\ MM!Book!TwoSided
               /\ \E bid, ask \in Int : MM!Requote(p, bid, ask)
<1>1. CASE MM!Book!TwoSided /\ MM!TopSize > 0
  BY <1>1, TargetTypes DEF MM!OnMarketData
<1>2. CASE ~(MM!Book!TwoSided /\ MM!TopSize > 0)
  BY <1>2 DEF MM!OnMarketData
<1> QED
  BY <1>1, <1>2

(* Cancellations and order requests are events.                             *)
LEMMA SentAreEvents ==
  /\ \A s \in Seq(Nat) : [i \in DOMAIN s |-> CancelEvent(s[i])] \in Seq(Event)
  /\ \A s \in Seq(OrderRequest) :
       [i \in DOMAIN s |-> RequestEvent(s[i])] \in Seq(Event)
<1>1. /\ \A n \in Nat : CancelEvent(n) \in Event
      /\ \A o \in OrderRequest : RequestEvent(o) \in Event
  BY DEF CancelEvent, RequestEvent, Event
<1> QED
  BY <1>1

LEMMA MMTypes ==
  ASSUME BookTypeOK, MMTypeOK, OutboxTypeOK, NEW p \in Int, NEW throttled,
         MM!OnMarketData(p, throttled)
  PROVE  MMTypeOK' /\ OutboxTypeOK'
<1>1. CASE UNCHANGED <<mmQuotes, mmActive, mmNextId, outbox>>
  BY <1>1, QuotesOrNot DEF MMTypeOK, OutboxTypeOK
<1>2. ASSUME NEW bid \in Int, NEW ask \in Int, MM!Requote(p, bid, ask)
      PROVE  MMTypeOK' /\ OutboxTypeOK'
  <2>1. PICK sent \in Seq(OrderRequest) :
          /\ mmActive' = [i \in DOMAIN sent |-> sent[i].id]
          /\ mmNextId' = mmNextId + Len(sent)
          /\ mmQuotes' = <<bid, ask>>
          /\ outbox' =
               outbox \o [i \in DOMAIN mmActive |-> CancelEvent(mmActive[i])]
                      \o [i \in DOMAIN sent |-> RequestEvent(sent[i])]
    BY <1>2, RequoteSends
  <2> DEFINE cancels  == [i \in DOMAIN mmActive |-> CancelEvent(mmActive[i])]
             requests == [i \in DOMAIN sent |-> RequestEvent(sent[i])]
  <2>2. cancels \in Seq(Event) /\ requests \in Seq(Event)
    BY SentAreEvents DEF MMTypeOK
  <2>3. outbox' \in Seq(Event)
    <3> HIDE DEF cancels, requests
    <3>1. outbox \o cancels \o requests \in Seq(Event)
      BY <2>2 DEF OutboxTypeOK
    <3> QED
      BY <2>1, <3>1 DEF cancels, requests
  <2>4. mmActive' \in Seq(Nat)
    <3>1. DOMAIN sent = 1 .. Len(sent) /\ Len(sent) \in Nat
      OBVIOUS
    <3>2. ASSUME NEW i \in DOMAIN sent PROVE sent[i].id \in Nat
      <4>1. sent[i] \in OrderRequest
        OBVIOUS
      <4> QED
        BY <4>1 DEF OrderRequest
    <3>3. [i \in 1 .. Len(sent) |-> sent[i].id] \in Seq(Nat)
      BY <3>1, <3>2
    <3> QED
      BY <2>1, <3>1, <3>3
  <2>5. mmNextId' \in Nat
    BY <2>1 DEF MMTypeOK
  <2>6. mmQuotes' \in Int \X Int /\ mmPosition' \in Int
    BY <2>1, QuotesOrNot
  <2> QED
    BY <2>3, <2>4, <2>5, <2>6 DEF MMTypeOK, OutboxTypeOK
<1> QED
  BY <1>1, <1>2, QuotesOrNot

(* A momentum order is a limit order a dollar from the trade.               *)
LEMMA MoTypes ==
  ASSUME MoTypeOK, OutboxTypeOK, NEW price \in Int, NEW trend,
         Mo!OnMarketData(price, trend)
  PROVE  MoTypeOK' /\ OutboxTypeOK'
<1>1. Warmup \in Nat /\ MoQuantity \in Nat
  BY ConstantAssumption
<1>2. ASSUME NEW side \in OrderSide, NEW at \in Int, Mo!SubmitOrder(side, at)
      PROVE  outbox' \in Seq(Event) /\ moNextId' \in Nat
  <2> DEFINE o == [id |-> moNextId, strategy |-> 2, side |-> side,
                   type |-> "Limit", price |-> at, quantity |-> MoQuantity]
  <2>1. o \in OrderRequest
    BY <1>1 DEF MoTypeOK, OrderRequest, OrderType
  <2>2. Mo!RequestEvent(o) \in Event
    BY <2>1 DEF Mo!RequestEvent, Event
  <2> QED
    BY <1>2, <2>2 DEF Mo!SubmitOrder, MoTypeOK, OutboxTypeOK
<1>3. price + Mo!Dollar \in Int /\ price - Mo!Dollar \in Int
  BY DEF Mo!Dollar
<1>4. moCount' \in 0 .. Warmup
  BY <1>1 DEF Mo!OnMarketData, MoTypeOK
<1> QED
  BY <1>2, <1>3, <1>4
  DEF Mo!OnMarketData, MoTypeOK, OutboxTypeOK, OrderSide

(* The order manager stores requests it was sent.                           *)
LEMMA OmTypes ==
  ASSUME OmTypeOK, OutboxTypeOK, NEW o \in OrderRequest,
         OM!HandleOrderRequest(o)
  PROVE  activeOrders' \subseteq OrderRequest /\ OutboxTypeOK'
<1>1. OM!ValidatedEvent(o) \in Event
  BY DEF OM!ValidatedEvent, Event
<1> QED
  BY <1>1 DEF OM!HandleOrderRequest, OmTypeOK, OutboxTypeOK

-----------------------------------------------------------------------------
(* The order book.                                                         *)

PriceLevel == [price : Int, quantity : Nat]

(* A level that was found is refreshed where it stands; a new one goes to    *)
(* the end, if there is room.                                              *)
LEMMA WithTradeFacts ==
  ASSUME NEW levels \in Seq(PriceLevel), NEW level \in PriceLevel,
         Len(levels) <= MaxLevels,
         \A i, j \in DOMAIN levels : levels[i].price = levels[j].price => i = j
  PROVE  LET w == Book!WithTrade(levels, level) IN
         /\ w \in Seq(PriceLevel) /\ Len(w) <= MaxLevels
         /\ \A i \in 1 .. Len(levels) : w[i].price = levels[i].price
         /\ \/ Len(w) = Len(levels)
            \/ /\ Len(w) = Len(levels) + 1
               /\ \A i \in 1 .. Len(levels) :
                    levels[i].price # w[Len(levels) + 1].price
<1> DEFINE w == Book!WithTrade(levels, level)
           n == Len(levels)
<1>1. n \in Nat /\ DOMAIN levels = 1 .. n /\ MaxLevels \in Nat
  BY ConstantAssumption
<1>2. CASE \E i \in DOMAIN levels : levels[i].price = level.price
  <2> DEFINE new == [i \in 1 .. n |->
                      IF levels[i].price = level.price THEN level ELSE levels[i]]
  <2>1. w = new
    BY <1>1, <1>2 DEF Book!WithTrade
  <2>2. new \in Seq(PriceLevel) /\ Len(new) = n
    BY <1>1
  <2>3. \A i \in 1 .. n : new[i].price = levels[i].price
    OBVIOUS
  <2> HIDE DEF new
  <2> QED
    BY <2>1, <2>2, <2>3
<1>3. CASE ~\E i \in DOMAIN levels : levels[i].price = level.price
  <2>1. CASE n < MaxLevels
    <3>1. w = Append(levels, level)
      BY <1>3, <2>1 DEF Book!WithTrade
    <3>2. /\ w \in Seq(PriceLevel) /\ Len(w) = n + 1
          /\ \A i \in 1 .. n : w[i] = levels[i]
          /\ w[n + 1] = level
      BY <3>1
    <3>3. \A i \in 1 .. n : levels[i].price # w[n + 1].price
      BY <1>1, <1>3, <3>2
    <3>4. \A i \in 1 .. n : w[i].price = levels[i].price
      BY <3>2
    <3>5. Len(w) <= MaxLevels
      BY <1>1, <2>1, <3>2
    <3> HIDE DEF w
    <3> QED
      BY <3>2, <3>3, <3>4, <3>5 DEF w
  <2>2. CASE ~(n < MaxLevels)
    <3>1. w = levels
      BY <1>3, <2>2 DEF Book!WithTrade
    <3> QED
      BY <1>1, <3>1
  <2> QED
    BY <2>1, <2>2
<1> QED
  BY <1>2, <1>3

(* Sorting what find or replace left: some rearrangement puts it in order,   *)
(* and no price was there twice, so that the order is strict.  key is the   *)
(* price on the side of the bids, its negative on the side of the asks.     *)
LEMMA Arranged ==
  ASSUME NEW n \in Nat, NEW w \in Seq(PriceLevel), NEW key \in [DOMAIN w -> Int],
         \/ Len(w) = n
         \/ Len(w) = n + 1 /\ \A i \in 1 .. n : key[i] # key[n + 1],
         \A i, j \in 1 .. n : i < j => key[i] > key[j]
  PROVE  /\ \E p \in [DOMAIN w -> DOMAIN w] :
              /\ \A i, j \in DOMAIN w : p[i] = p[j] => i = j
              /\ \A i, j \in DOMAIN w : i < j => key[p[i]] >= key[p[j]]
         /\ \A i, j \in DOMAIN w : key[i] = key[j] => i = j
<1>0. DOMAIN w = 1 .. Len(w)
  OBVIOUS
<1>1. CASE Len(w) = n
  <2>1. \A i, j \in 1 .. n : key[i] = key[j] => i = j
    <3>1. ASSUME NEW i \in 1 .. n, NEW j \in 1 .. n, key[i] = key[j] PROVE i = j
      <4>1. key[i] \in Int /\ key[j] \in Int
        BY <1>0, <1>1
      <4>2. ~(i < j) /\ ~(j < i)
        BY <3>1, <4>1
      <4> QED
        BY <4>2
    <3> QED
      BY <3>1
  <2> DEFINE p == [i \in 1 .. n |-> i]
  <2>2. /\ p \in [1 .. n -> 1 .. n]
        /\ \A i, j \in 1 .. n : p[i] = p[j] => i = j
    OBVIOUS
  <2>3. \A i, j \in 1 .. n : i < j => key[p[i]] >= key[p[j]]
    <3>1. ASSUME NEW i \in 1 .. n, NEW j \in 1 .. n, i < j
          PROVE  key[p[i]] >= key[p[j]]
      <4>1. key[i] \in Int /\ key[j] \in Int /\ key[i] > key[j]
        BY <1>0, <1>1, <3>1
      <4> QED
        BY <4>1
    <3> QED
      BY <3>1
  <2> HIDE DEF p
  <2> QED
    BY <1>0, <1>1, <2>1, <2>2, <2>3
<1>2. CASE Len(w) = n + 1 /\ \A i \in 1 .. n : key[i] # key[n + 1]
  <2>1. key \in [1 .. n + 1 -> Int] /\ DOMAIN w = 1 .. n + 1
    BY <1>0, <1>2
  <2>2. \E p \in [1 .. n + 1 -> 1 .. n + 1] :
          /\ \A i, j \in 1 .. n + 1 : p[i] = p[j] => i = j
          /\ \A i, j \in 1 .. n + 1 : i < j => key[p[i]] >= key[p[j]]
    BY <1>2, <2>1, InsertionSorts
  <2>3. ASSUME NEW i \in 1 .. n + 1, NEW j \in 1 .. n + 1, key[i] = key[j]
        PROVE  i = j
    <3>1. CASE i \in 1 .. n /\ j \in 1 .. n
      <4>1. key[i] \in Int /\ key[j] \in Int
        BY <2>1
      <4>2. ~(i < j) /\ ~(j < i)
        BY <2>3, <3>1, <4>1
      <4> QED
        BY <4>2
    <3>2. CASE i = n + 1 \/ j = n + 1
      BY <1>2, <2>3, <3>2
    <3> QED
      BY <3>1, <3>2
  <2> QED
    BY <2>1, <2>2, <2>3
<1> QED
  BY <1>1, <1>2

(* p takes the levels of w, in the order of their prices or, with a sign of  *)
(* -1, in the opposite order.                                              *)
Arranges(p, w, sign) ==
  /\ \A i, j \in DOMAIN w : p[i] = p[j] => i = j
  /\ \A i, j \in DOMAIN w :
       i < j => ~(sign * w[p[j]].price > sign * w[p[i]].price)

(* One side of the book, where sign is 1 for the bids and -1 for the asks:   *)
(* after find or replace some rearrangement is in order, and every one that *)
(* is has each price once.                                                 *)
LEMMA SortedSide ==
  ASSUME NEW levels \in Seq(PriceLevel), NEW level \in PriceLevel,
         NEW sign \in {1, -1},
         Len(levels) <= MaxLevels,
         \A i, j \in DOMAIN levels :
           i < j => sign * levels[i].price > sign * levels[j].price
  PROVE  LET w == Book!WithTrade(levels, level)
         IN  /\ w \in Seq(PriceLevel) /\ Len(w) <= MaxLevels
             /\ \E p \in [DOMAIN w -> DOMAIN w] : Arranges(p, w, sign)
             /\ \A p \in [DOMAIN w -> DOMAIN w] : Arranges(p, w, sign) =>
                  \A i, j \in DOMAIN w :
                    i < j => sign * w[p[i]].price > sign * w[p[j]].price
<1> DEFINE w == Book!WithTrade(levels, level)
           n == Len(levels)
           Key(price) == sign * price
           key == [i \in DOMAIN w |-> Key(w[i].price)]
<1>1. /\ \A a \in Int : Key(a) \in Int
      /\ \A a, b \in Int : Key(a) = Key(b) <=> a = b
  <2>1. CASE sign = 1
    BY <2>1
  <2>2. CASE sign = -1
    BY <2>2
  <2> QED
    BY <2>1, <2>2
<1>2. \A i, j \in DOMAIN levels : i < j => Key(levels[i].price) > Key(levels[j].price)
  OBVIOUS
<1> HIDE DEF Key
<1>3. \A i \in DOMAIN levels : levels[i].price \in Int
  <2>1. ASSUME NEW i \in DOMAIN levels PROVE levels[i].price \in Int
    <3>1. levels[i] \in PriceLevel
      OBVIOUS
    <3> QED
      BY <3>1 DEF PriceLevel
  <2> QED
    BY <2>1
<1>4. \A i, j \in DOMAIN levels : levels[i].price = levels[j].price => i = j
  <2>1. ASSUME NEW i \in DOMAIN levels, NEW j \in DOMAIN levels,
               levels[i].price = levels[j].price
        PROVE  i = j
    <3>1. Key(levels[i].price) \in Int /\ Key(levels[j].price) \in Int
      BY <1>1, <1>3
    <3>2. ~(i < j) /\ ~(j < i)
      BY <1>2, <2>1, <3>1
    <3> QED
      BY <3>2
  <2> QED
    BY <2>1
<1>5. /\ w \in Seq(PriceLevel) /\ Len(w) <= MaxLevels
      /\ \A i \in 1 .. Len(levels) : w[i].price = levels[i].price
      /\ \/ Len(w) = Len(levels)
         \/ /\ Len(w) = Len(levels) + 1
            /\ \A i \in 1 .. Len(levels) :
                 levels[i].price # w[Len(levels) + 1].price
  BY <1>4, WithTradeFacts
<1> HIDE DEF w
<1>6. \A i \in DOMAIN w : w[i].price \in Int /\ key[i] = Key(w[i].price)
  <2>1. ASSUME NEW i \in DOMAIN w PROVE w[i].price \in Int
    <3>1. w[i] \in PriceLevel
      BY <1>5
    <3> QED
      BY <3>1 DEF PriceLevel
  <2> QED
    BY <2>1
<1>7. key \in [DOMAIN w -> Int]
  BY <1>1, <1>6
<1>8. /\ n \in Nat /\ DOMAIN levels = 1 .. n /\ DOMAIN w = 1 .. Len(w)
      /\ \A i \in 1 .. n : i \in DOMAIN w
  BY <1>5
<1> HIDE DEF key
<1>9. \A i \in 1 .. n : key[i] = Key(levels[i].price)
  BY <1>5, <1>6, <1>8
<1>10. \A i, j \in 1 .. n : i < j => key[i] > key[j]
  BY <1>2, <1>8, <1>9
<1>11. \/ Len(w) = n
       \/ Len(w) = n + 1 /\ \A i \in 1 .. n : key[i] # key[n + 1]
  <2>1. ASSUME Len(w) = n + 1, NEW i \in 1 .. n,
               levels[i].price # w[n + 1].price
        PROVE  key[i] # key[n + 1]
    <3>1. n + 1 \in DOMAIN w /\ w[n + 1].price \in Int
      BY <1>6, <1>8, <2>1
    <3>2. key[n + 1] = Key(w[n + 1].price)
      BY <1>6, <3>1
    <3>3. Key(levels[i].price) # Key(w[n + 1].price)
      BY <1>1, <1>3, <1>8, <2>1, <3>1
    <3> QED
      BY <1>9, <3>2, <3>3
  <2> QED
    BY <1>5, <2>1
<1>12. /\ \E p \in [DOMAIN w -> DOMAIN w] :
            /\ \A i, j \in DOMAIN w : p[i] = p[j] => i = j
            /\ \A i, j \in DOMAIN w : i < j => key[p[i]] >= key[p[j]]
       /\ \A i, j \in DOMAIN w : key[i] = key[j] => i = j
  <2>1. w \in Seq(PriceLevel) /\ n \in Nat
    BY <1>5, <1>8
  <2>2. ASSUME NEW m \in Nat, m = n
        PROVE  /\ \E p \in [DOMAIN w -> DOMAIN w] :
                    /\ \A i, j \in DOMAIN w : p[i] = p[j] => i = j
                    /\ \A i, j \in DOMAIN w : i < j => key[p[i]] >= key[p[j]]
               /\ \A i, j \in DOMAIN w : key[i] = key[j] => i = j
    <3>1. \/ Len(w) = m
          \/ Len(w) = m + 1 /\ \A i \in 1 .. m : key[i] # key[m + 1]
      BY <1>11, <2>2
    <3>2. \A i, j \in 1 .. m : i < j => key[i] > key[j]
      BY <1>10, <2>2
    <3> HIDE DEF n
    <3> QED
      BY <1>7, <2>1, <3>1, <3>2, Arranged
  <2> QED
    BY <2>1, <2>2
<1> DEFINE Fits(p) ==
             /\ \A i, j \in DOMAIN w : p[i] = p[j] => i = j
             /\ \A i, j \in DOMAIN w :
                  i < j => ~(Key(w[p[j]].price) > Key(w[p[i]].price))
<1>13. \A p \in [DOMAIN w -> DOMAIN w] : \A i \in DOMAIN w :
         /\ p[i] \in DOMAIN w /\ key[p[i]] = Key(w[p[i]].price)
         /\ key[p[i]] \in Int
  BY <1>6, <1>7
<1>14. \E p \in [DOMAIN w -> DOMAIN w] : Fits(p)
  <2>1. PICK p \in [DOMAIN w -> DOMAIN w] :
          /\ \A i, j \in DOMAIN w : p[i] = p[j] => i = j
          /\ \A i, j \in DOMAIN w : i < j => key[p[i]] >= key[p[j]]
    BY <1>12
  <2>2. ASSUME NEW i \in DOMAIN w, NEW j \in DOMAIN w, i < j
        PROVE  ~(Key(w[p[j]].price) > Key(w[p[i]].price))
    <3>1. key[p[i]] \in Int /\ key[p[j]] \in Int /\ key[p[i]] >= key[p[j]]
      BY <1>13, <2>1, <2>2
    <3> QED
      BY <1>13, <3>1
  <2> QED
    BY <2>1, <2>2
<1>15. ASSUME NEW p \in [DOMAIN w -> DOMAIN w], Fits(p),
              NEW i \in DOMAIN w, NEW j \in DOMAIN w, i < j
       PROVE  Key(w[p[i]].price) > Key(w[p[j]].price)
  <2>1. p[i] # p[j]
    BY <1>8, <1>15
  <2>2. key[p[i]] # key[p[j]]
    BY <1>12, <1>13, <2>1
  <2>3. ~(key[p[j]] > key[p[i]])
    BY <1>13, <1>15
  <2>4. key[p[i]] > key[p[j]]
    BY <1>13, <2>2, <2>3
  <2> QED
    BY <1>13, <2>4
<1>16. \A p \in [DOMAIN w -> DOMAIN w] : Fits(p) =>
         \A i, j \in DOMAIN w :
           i < j => Key(w[p[i]].price) > Key(w[p[j]].price)
  <2> HIDE DEF Fits
  <2> QED
    BY <1>15
<1> QED
  BY <1>5, <1>14, <1>16 DEF w, Key, Arranges

LEMMA SortedBids ==
  ASSUME NEW levels \in Seq(PriceLevel), NEW level \in PriceLevel,
         Len(levels) <= MaxLevels,
         \A i, j \in DOMAIN levels : i < j => levels[i].price > levels[j].price
  PROVE  LET new == Book!Sorted(Book!WithTrade(levels, level), Book!HigherPrice)
         IN  /\ new \in Seq(PriceLevel) /\ Len(new) <= MaxLevels
             /\ \A i, j \in DOMAIN new : i < j => new[i].price > new[j].price
<1> DEFINE w == Book!WithTrade(levels, level)
           Fits(p) ==
             /\ \A i, j \in DOMAIN w : p[i] = p[j] => i = j
             /\ \A i, j \in DOMAIN w :
                  i < j => ~Book!HigherPrice(w[p[j]], w[p[i]])
           FitsKey(p) == Arranges(p, w, 1)
           from == CHOOSE p \in [DOMAIN w -> DOMAIN w] : Fits(p)
           new == [i \in DOMAIN w |-> w[from[i]]]
<1>1. \A i \in DOMAIN levels : levels[i].price \in Int
  <2>1. ASSUME NEW i \in DOMAIN levels PROVE levels[i].price \in Int
    <3>1. levels[i] \in PriceLevel
      OBVIOUS
    <3> QED
      BY <3>1 DEF PriceLevel
  <2> QED
    BY <2>1
<1>2. \A i, j \in DOMAIN levels :
        i < j => 1 * levels[i].price > 1 * levels[j].price
  BY <1>1
<1>3. /\ w \in Seq(PriceLevel) /\ Len(w) <= MaxLevels
      /\ \E p \in [DOMAIN w -> DOMAIN w] : FitsKey(p)
      /\ \A p \in [DOMAIN w -> DOMAIN w] : FitsKey(p) =>
           \A i, j \in DOMAIN w :
             i < j => 1 * w[p[i]].price > 1 * w[p[j]].price
  BY <1>2, SortedSide
<1> HIDE DEF w
<1>4. \A i \in DOMAIN w : w[i] \in PriceLevel /\ w[i].price \in Int
  <2>1. ASSUME NEW i \in DOMAIN w PROVE w[i] \in PriceLevel
    BY <1>3
  <2> QED
    BY <2>1 DEF PriceLevel
<1>5. ASSUME NEW p \in [DOMAIN w -> DOMAIN w]
      PROVE  Fits(p) <=> FitsKey(p)
  <2>1. ASSUME NEW i \in DOMAIN w, NEW j \in DOMAIN w
        PROVE  Book!HigherPrice(w[p[j]], w[p[i]])
                 <=> 1 * w[p[j]].price > 1 * w[p[i]].price
    <3>1. w[p[j]].price \in Int /\ w[p[i]].price \in Int
      BY <1>4
    <3> QED
      BY <3>1 DEF Book!HigherPrice
  <2> QED
    BY <2>1 DEF Arranges
<1>6. from \in [DOMAIN w -> DOMAIN w] /\ Fits(from)
  <2>1. \E p \in [DOMAIN w -> DOMAIN w] : Fits(p)
    <3> HIDE DEF Fits, FitsKey
    <3> QED
      BY <1>3, <1>5
  <2> HIDE DEF Fits
  <2> QED
    BY <2>1
<1>7. new = Book!Sorted(w, Book!HigherPrice)
  BY DEF Book!Sorted
<1> HIDE DEF from
<1>8. \A i, j \in DOMAIN w :
        i < j => 1 * w[from[i]].price > 1 * w[from[j]].price
  <2>1. FitsKey(from)
    <3> HIDE DEF Fits, FitsKey
    <3> QED
      BY <1>5, <1>6
  <2> HIDE DEF FitsKey
  <2> QED
    BY <1>3, <1>6, <2>1
<1>9. DOMAIN w = 1 .. Len(w) /\ Len(w) \in Nat
  BY <1>3
<1>10. \A i \in 1 .. Len(w) : w[from[i]] \in PriceLevel
  BY <1>4, <1>6, <1>9
<1>11. new \in Seq(PriceLevel) /\ Len(new) = Len(w) /\ DOMAIN new = DOMAIN w
  BY <1>9, <1>10
<1>12. ASSUME NEW i \in DOMAIN w, NEW j \in DOMAIN w, i < j
       PROVE  new[i].price > new[j].price
  <2>1. w[from[i]].price \in Int /\ w[from[j]].price \in Int
    BY <1>4, <1>6
  <2>2. 1 * w[from[i]].price > 1 * w[from[j]].price
    BY <1>8, <1>12
  <2>3. w[from[i]].price > w[from[j]].price
    BY <2>1, <2>2
  <2> QED
    BY <2>3
<1> HIDE DEF new
<1> QED
  BY <1>3, <1>7, <1>11, <1>12 DEF w

LEMMA SortedAsks ==
  ASSUME NEW levels \in Seq(PriceLevel), NEW level \in PriceLevel,
         Len(levels) <= MaxLevels,
         \A i, j \in DOMAIN levels : i < j => levels[i].price < levels[j].price
  PROVE  LET new == Book!Sorted(Book!WithTrade(levels, level), Book!LowerPrice)
         IN  /\ new \in Seq(PriceLevel) /\ Len(new) <= MaxLevels
             /\ \A i, j \in DOMAIN new : i < j => new[i].price < new[j].price
<1>0. PICK sign \in {1, -1} : sign = -1
  OBVIOUS
<1> DEFINE w == Book!WithTrade(levels, level)
           Fits(p) ==
             /\ \A i, j \in DOMAIN w : p[i] = p[j] => i = j
             /\ \A i, j \in DOMAIN w :
                  i < j => ~Book!LowerPrice(w[p[j]], w[p[i]])
           FitsKey(p) == Arranges(p, w, sign)
           from == CHOOSE p \in [DOMAIN w -> DOMAIN w] : Fits(p)
           new == [i \in DOMAIN w |-> w[from[i]]]
<1>1. \A i \in DOMAIN levels : levels[i].price \in Int
  <2>1. ASSUME NEW i \in DOMAIN levels PROVE levels[i].price \in Int
    <3>1. levels[i] \in PriceLevel
      OBVIOUS
    <3> QED
      BY <3>1 DEF PriceLevel
  <2> QED
    BY <2>1
<1>2. \A i, j \in DOMAIN levels :
        i < j => sign * levels[i].price > sign * levels[j].price
  BY <1>0, <1>1
<1>3. /\ w \in Seq(PriceLevel) /\ Len(w) <= MaxLevels
      /\ \E p \in [DOMAIN w -> DOMAIN w] : FitsKey(p)
      /\ \A p \in [DOMAIN w -> DOMAIN w] : FitsKey(p) =>
           \A i, j \in DOMAIN w :
             i < j => sign * w[p[i]].price > sign * w[p[j]].price
  BY <1>2, SortedSide
<1> HIDE DEF w
<1>4. \A i \in DOMAIN w : w[i] \in PriceLevel /\ w[i].price \in Int
  <2>1. ASSUME NEW i \in DOMAIN w PROVE w[i] \in PriceLevel
    BY <1>3
  <2> QED
    BY <2>1 DEF PriceLevel
<1>5. ASSUME NEW p \in [DOMAIN w -> DOMAIN w]
      PROVE  Fits(p) <=> FitsKey(p)
  <2>1. ASSUME NEW i \in DOMAIN w, NEW j \in DOMAIN w
        PROVE  Book!LowerPrice(w[p[j]], w[p[i]])
                 <=> sign * w[p[j]].price > sign * w[p[i]].price
    <3>1. w[p[j]].price \in Int /\ w[p[i]].price \in Int
      BY <1>4
    <3> QED
      BY <1>0, <3>1 DEF Book!LowerPrice
  <2> QED
    BY <2>1 DEF Arranges
<1>6. from \in [DOMAIN w -> DOMAIN w] /\ Fits(from)
  <2>1. \E p \in [DOMAIN w -> DOMAIN w] : Fits(p)
    <3> HIDE DEF Fits, FitsKey
    <3> QED
      BY <1>3, <1>5
  <2> HIDE DEF Fits
  <2> QED
    BY <2>1
<1>7. new = Book!Sorted(w, Book!LowerPrice)
  BY DEF Book!Sorted
<1> HIDE DEF from
<1>8. \A i, j \in DOMAIN w :
        i < j => sign * w[from[i]].price > sign * w[from[j]].price
  <2>1. FitsKey(from)
    <3> HIDE DEF Fits, FitsKey
    <3> QED
      BY <1>5, <1>6
  <2> HIDE DEF FitsKey
  <2> QED
    BY <1>3, <1>6, <2>1
<1>9. DOMAIN w = 1 .. Len(w) /\ Len(w) \in Nat
  BY <1>3
<1>10. \A i \in 1 .. Len(w) : w[from[i]] \in PriceLevel
  BY <1>4, <1>6, <1>9
<1>11. new \in Seq(PriceLevel) /\ Len(new) = Len(w) /\ DOMAIN new = DOMAIN w
  BY <1>9, <1>10
<1>12. ASSUME NEW i \in DOMAIN w, NEW j \in DOMAIN w, i < j
       PROVE  new[i].price < new[j].price
  <2>1. w[from[i]].price \in Int /\ w[from[j]].price \in Int
    BY <1>4, <1>6
  <2>2. sign * w[from[i]].price > sign * w[from[j]].price
    BY <1>8, <1>12
  <2>3. w[from[i]].price < w[from[j]].price
    BY <1>0, <2>1, <2>2
  <2> QED
    BY <2>3
<1> HIDE DEF new
<1> QED
  BY <1>3, <1>7, <1>11, <1>12 DEF w

(* A trade keeps both sides in order and within their arrays.               *)
LEMMA TradeKeepsOrder ==
  ASSUME BookTypeOK, BookInOrder,
         NEW price \in Int, NEW quantity \in Nat, NEW maker \in BOOLEAN,
         Book!ApplyTrade(price, quantity, maker)
  PROVE  BookTypeOK' /\ BookInOrder'
<1> DEFINE level == Book!Level(price, quantity)
<1>1. level \in PriceLevel
  BY DEF Book!Level, PriceLevel
<1>2. bidLevels \in Seq(PriceLevel) /\ askLevels \in Seq(PriceLevel)
  BY DEF BookTypeOK, PriceLevel
<1> HIDE DEF level
<1>3. CASE maker
  <2>1. /\ bidLevels' = Book!Sorted(Book!WithTrade(bidLevels, level),
                                    Book!HigherPrice)
        /\ askLevels' = askLevels
    BY <1>3 DEF Book!ApplyTrade, level
  <2>2. /\ bidLevels' \in Seq(PriceLevel) /\ Len(bidLevels') <= MaxLevels
        /\ \A i, j \in DOMAIN bidLevels' :
             i < j => bidLevels'[i].price > bidLevels'[j].price
    BY <1>1, <1>2, <2>1, SortedBids DEF BookInOrder, Book!InOrder
  <2> QED
    BY <2>1, <2>2 DEF BookTypeOK, BookInOrder, Book!InOrder, PriceLevel
<1>4. CASE ~maker
  <2>1. /\ askLevels' = Book!Sorted(Book!WithTrade(askLevels, level),
                                    Book!LowerPrice)
        /\ bidLevels' = bidLevels
    BY <1>4 DEF Book!ApplyTrade, level
  <2>2. /\ askLevels' \in Seq(PriceLevel) /\ Len(askLevels') <= MaxLevels
        /\ \A i, j \in DOMAIN askLevels' :
             i < j => askLevels'[i].price < askLevels'[j].price
    BY <1>1, <1>2, <2>1, SortedAsks DEF BookInOrder, Book!InOrder
  <2> QED
    BY <2>1, <2>2 DEF BookTypeOK, BookInOrder, Book!InOrder, PriceLevel
<1> QED
  BY <1>3, <1>4

-----------------------------------------------------------------------------
(* The exchange.                                                           *)

LEMMA EmitTypes ==
  ASSUME OutboxTypeOK, NEW o \in OrderRequest, NEW price \in Int,
         NEW quantity \in Nat, NEW status \in OrderStatus,
         Exchange!Emit(o, price, quantity, status)
  PROVE  OutboxTypeOK'
<1> DEFINE r == Exchange!Report(o, price, quantity, status)
<1>1. r \in ExecutionReport
  BY DEF Exchange!Report, OrderRequest, ExecutionReport
<1>2. Exchange!ReportEvent(r) \in Event
  <2> HIDE DEF r
  <2> QED
    BY <1>1 DEF Exchange!ReportEvent, Event
<1> QED
  BY <1>2 DEF Exchange!Emit, OutboxTypeOK

LEMMA OppositeTypes ==
  ASSUME ExTypeOK, NEW o PROVE Exchange!Opposite(o) \in Int
BY DEF ExTypeOK, Exchange!Opposite

LEMMA SweepTypes ==
  ASSUME ExTypeOK, OutboxTypeOK,
         Exchange!SweepFill \/ Exchange!SweepKeep \/ Exchange!SweepEnd
  PROVE  ExTypeOK' /\ OutboxTypeOK'
<1>1. CASE Exchange!SweepFill
  <2>1. /\ cursor \in 1 .. Len(resting) /\ resting \in Seq(OrderRequest)
        /\ resting' = RemoveAt(resting, cursor)
        /\ UNCHANGED <<bestBid, bestAsk, cursor>>
    BY <1>1
    DEF Exchange!SweepFill, Exchange!Sweeping, ExTypeOK, Exchange!RemoveAt,
        RemoveAt
  <2>2. /\ RemoveAt(resting, cursor) \in Seq(OrderRequest)
        /\ Len(RemoveAt(resting, cursor)) = Len(resting) - 1
    BY <2>1, RemoveAtFacts
  <2>3. ExTypeOK'
    BY <2>1, <2>2 DEF ExTypeOK
  <2>4. PICK o \in OrderRequest : o = resting[cursor]
    BY <2>1
  <2>5. o.quantity \in Nat /\ "Filled" \in OrderStatus
    BY DEF OrderRequest, OrderStatus
  <2>6. PICK price \in Int : price = Exchange!Opposite(o)
    BY OppositeTypes
  <2>7. Exchange!Emit(o, price, o.quantity, "Filled")
    BY <1>1, <2>4, <2>6 DEF Exchange!SweepFill
  <2>8. OutboxTypeOK'
    BY <2>5, <2>7, EmitTypes
  <2> QED
    BY <2>3, <2>8
<1>2. CASE Exchange!SweepKeep
  BY <1>2 DEF Exchange!SweepKeep, Exchange!Sweeping, ExTypeOK, OutboxTypeOK
<1>3. CASE Exchange!SweepEnd
  BY <1>3 DEF Exchange!SweepEnd, ExTypeOK, OutboxTypeOK
<1> QED
  BY <1>1, <1>2, <1>3

LEMMA MatchTypes ==
  ASSUME ExTypeOK, OutboxTypeOK, NEW o \in OrderRequest,
         Exchange!ProcessOrder(o)
  PROVE  ExTypeOK' /\ OutboxTypeOK'
<1>1. /\ o.quantity \in Nat /\ o.price \in Int
      /\ {"Filled", "New", "Rejected"} \subseteq OrderStatus
  BY DEF OrderRequest, OrderStatus
<1>2. PICK price \in Int : price = Exchange!Opposite(o)
  BY OppositeTypes
<1>3. OutboxTypeOK'
  <2>1. \/ Exchange!Emit(o, price, o.quantity, "Filled")
        \/ Exchange!Emit(o, 0, 0, "Rejected")
        \/ Exchange!Emit(o, o.price, 0, "New")
    BY <1>2 DEF Exchange!ProcessOrder, Exchange!MatchMarketOrder,
                Exchange!MatchLimitOrder
  <2>2. 0 \in Int /\ 0 \in Nat
    OBVIOUS
  <2> QED
    BY <1>1, <2>1, <2>2, EmitTypes
<1>4. ExTypeOK'
  <2>1. /\ cursor = 0 /\ cursor' = 0
        /\ UNCHANGED <<bestBid, bestAsk>>
        /\ UNCHANGED resting \/ resting' = Append(resting, o)
    BY DEF Exchange!ProcessOrder, Exchange!Idle, Exchange!MatchMarketOrder,
           Exchange!MatchLimitOrder
  <2> QED
    BY <2>1 DEF ExTypeOK
<1> QED
  BY <1>3, <1>4

LEMMA CancelTypes ==
  ASSUME OutboxTypeOK, NEW i \in Nat, Exchange!CancelOrder(i)
  PROVE  OutboxTypeOK'
<1> DEFINE o == Exchange!BlankRequest(i)
<1>1. o \in OrderRequest
  BY DEF Exchange!BlankRequest, OrderRequest, OrderSide, OrderType
<1>2. 0 \in Int /\ 0 \in Nat /\ "Cancelled" \in OrderStatus
  BY DEF OrderStatus
<1>3. Exchange!Emit(o, 0, 0, "Cancelled")
  BY DEF Exchange!CancelOrder
<1> HIDE DEF o
<1> QED
  BY <1>1, <1>2, <1>3, EmitTypes

-----------------------------------------------------------------------------
(* The processor's steps from event to event.                              *)

(* What the payload of the event at hand is.                                *)
LEMMA HeadTypes ==
  ASSUME LoopTypeOK, NEW step, NEW type, Handling(step, type)
  PROVE  LET e == Head(batch) IN
         /\ e \in Event /\ e.type = type
         /\ type = "MarketData" =>
              e.price \in Int /\ e.quantity \in Nat /\ e.isBuyerMaker \in BOOLEAN
         /\ type \in {"OrderRequest", "ValidatedOrder"} =>
              e.order \in OrderRequest
         /\ type = "CancelOrder" => e.id \in Nat
         /\ type = "ExecutionReport" => e.report \in ExecutionReport
<1> DEFINE e == Head(batch)
<1>1. e \in Event /\ e.type = type
  BY DEF Handling, LoopTypeOK
<1> HIDE DEF e
<1> QED
  BY <1>1 DEF Event, e

LEMMA EventDoneTypes ==
  ASSUME LoopTypeOK, batch # <<>>, EventDone
  PROVE  LoopTypeOK'
BY ConstantAssumption DEF LoopTypeOK, EventDone

LEMMA PollTypes ==
  ASSUME QueueTypeOK, LoopTypeOK, PollPop
  PROVE  QueueTypeOK' /\ LoopTypeOK'
<1>1. /\ Len(batch) < BatchSize /\ queue # <<>> /\ BatchSize \in Nat
      /\ batch' = Append(batch, Head(queue)) /\ queue' = Tail(queue)
      /\ UNCHANGED <<astray, pc>>
  BY ConstantAssumption DEF PollPop, Queue!Dequeue
<1>2. /\ Head(queue) \in Event /\ Tail(queue) \in Seq(Event)
      /\ Len(Tail(queue)) = Len(queue) - 1
      /\ Len(queue) \in Nat /\ Capacity \in Nat
  <2>1. PICK q \in Seq(Event) : q = queue /\ q # <<>>
    BY <1>1 DEF QueueTypeOK
  <2>2. Head(q) \in Event /\ Tail(q) \in Seq(Event) /\ Len(q) \in Nat
    BY <2>1
  <2>3. Len(Tail(q)) = Len(q) - 1
    BY <2>1
  <2> QED
    BY <2>1, <2>2, <2>3, ConstantAssumption
<1>3. QueueTypeOK'
  BY <1>1, <1>2 DEF QueueTypeOK
<1>4. LoopTypeOK'
  BY <1>1, <1>2 DEF LoopTypeOK
<1> QED
  BY <1>3, <1>4

(* A fill moves the positions by its quantity, whichever strategy sent it.  *)
LEMMA ReportTypes ==
  ASSUME OmTypeOK, PnLTypeOK, NEW r \in ExecutionReport,
         OM!HandleExecutionReport(r),
         \/ /\ PnL!OnFill(r.strategy, r.side, r.quantity)
            /\ Risk!UpdatePosition(r.quantity * Sign(r.side))
            /\ Remember(r)
         \/ UNCHANGED <<riskPosition, pnlVars>>
  PROVE  OmTypeOK' /\ PnLTypeOK'
<1>1. activeOrders' \subseteq OrderRequest
  BY DEF OM!HandleExecutionReport, OmTypeOK
<1>2. CASE UNCHANGED <<riskPosition, pnlVars>>
  BY <1>1, <1>2 DEF pnlVars, OmTypeOK, PnLTypeOK
<1>3. CASE /\ PnL!OnFill(r.strategy, r.side, r.quantity)
           /\ Risk!UpdatePosition(r.quantity * Sign(r.side))
           /\ Remember(r)
  <2>1. r.quantity * Sign(r.side) \in Int
    BY DEF Sign, ExecutionReport
  <2>2. riskPosition' \in Int
    BY <1>3, <2>1 DEF Risk!UpdatePosition, OmTypeOK
  <2>3. r.quantity * PnL!Sign(r.side) \in Int
    BY DEF PnL!Sign, ExecutionReport
  <2>4. position' \in [PnL!StrategyId -> Int]
    <3>1. PICK change \in Int : change = r.quantity * PnL!Sign(r.side)
      BY <2>3
    <3>2. position' = [position EXCEPT ![r.strategy] = @ + change]
      BY <1>3, <3>1 DEF PnL!OnFill
    <3>3. CASE r.strategy \in PnL!StrategyId
      BY <3>2, <3>3 DEF PnLTypeOK
    <3>4. CASE r.strategy \notin PnL!StrategyId
      BY <3>2, <3>4 DEF PnLTypeOK
    <3> QED
      BY <3>3, <3>4
  <2>5. /\ tradeHistory' \in Seq(ExecutionReport)
        /\ Len(tradeHistory') <= HistoryCap
    <3>1. PICK h \in Seq(ExecutionReport) : h = tradeHistory /\ Len(h) <= HistoryCap
      BY DEF PnLTypeOK
    <3>2. PICK trades \in Seq(ExecutionReport) : trades = Append(h, r)
      BY AppendProperties
    <3>3. /\ trades # <<>> /\ Len(trades) = Len(h) + 1
          /\ Len(h) \in Nat /\ HistoryCap \in Nat
      <4>1. Append(h, r) # <<>> /\ Len(Append(h, r)) = Len(h) + 1
        BY AppendProperties
      <4>2. Len(h) \in Nat
        OBVIOUS
      <4> QED
        BY <3>2, <4>1, <4>2, ConstantAssumption
    <3>4. tradeHistory' = IF Len(trades) > HistoryCap THEN Tail(trades)
                                                      ELSE trades
      BY <1>3, <3>1, <3>2 DEF Remember
    <3> QED
      BY <3>1, <3>3, <3>4
  <2> QED
    BY <1>1, <2>2, <2>4, <2>5 DEF OmTypeOK, PnLTypeOK
<1> QED
  BY <1>2, <1>3

-----------------------------------------------------------------------------
(* Every variable stays in its type, and the book in order: the two are one  *)
(* induction, since std::sort needs levels that can be ordered, and the      *)
(* market maker prices that are numbers.                                    *)

LEMMA Untouched ==
  ASSUME TypeOK, BookInOrder
  PROVE  /\ UNCHANGED queueVars => QueueTypeOK'
         /\ UNCHANGED feedVars => FeedTypeOK'
         /\ UNCHANGED loopVars => LoopTypeOK'
         /\ UNCHANGED outbox => OutboxTypeOK'
         /\ UNCHANGED uiVars => UiTypeOK'
         /\ UNCHANGED bookVars => BookTypeOK' /\ BookInOrder'
         /\ UNCHANGED mmVars => MMTypeOK'
         /\ UNCHANGED moVars => MoTypeOK'
         /\ UNCHANGED omVars => OmTypeOK'
         /\ UNCHANGED exVars => ExTypeOK'
         /\ UNCHANGED pnlVars => PnLTypeOK'
<1> USE DEF TypeOK
<1>1. UNCHANGED queueVars => QueueTypeOK'
  BY DEF queueVars, QueueTypeOK
<1>2. UNCHANGED feedVars => FeedTypeOK'
  BY DEF feedVars, FeedTypeOK
<1>3. UNCHANGED loopVars => LoopTypeOK'
  BY DEF loopVars, LoopTypeOK
<1>4. UNCHANGED outbox => OutboxTypeOK'
  BY DEF OutboxTypeOK
<1>5. UNCHANGED uiVars => UiTypeOK'
  BY DEF uiVars, UiTypeOK
<1>6. UNCHANGED bookVars => BookTypeOK' /\ BookInOrder'
  BY DEF bookVars, BookTypeOK, BookInOrder, Book!InOrder
<1>7. UNCHANGED mmVars => MMTypeOK'
  BY DEF mmVars, MMTypeOK
<1>8. UNCHANGED moVars => MoTypeOK'
  BY DEF moVars, MoTypeOK
<1>9. UNCHANGED omVars => OmTypeOK'
  BY DEF omVars, OmTypeOK
<1>10. UNCHANGED exVars => ExTypeOK'
  BY DEF exVars, ExTypeOK
<1>11. UNCHANGED pnlVars => PnLTypeOK'
  BY DEF pnlVars, PnLTypeOK
<1> QED
  BY <1>1, <1>2, <1>3, <1>4, <1>5, <1>6, <1>7, <1>8, <1>9, <1>10, <1>11

LEMMA InitTypes == Init => TypeOK /\ BookInOrder
<1> SUFFICES ASSUME Init PROVE TypeOK /\ BookInOrder
  OBVIOUS
<1> USE ConstantAssumption DEF Init
<1>1. QueueTypeOK
  BY DEF QueueTypeOK
<1>2. FeedTypeOK
  BY DEF FeedTypeOK, Feeds!Init
<1>3. LoopTypeOK /\ UiTypeOK
  <2>1. LoopTypeOK
    BY DEF LoopTypeOK
  <2>2. running \in BOOLEAN /\ completed \in BOOLEAN
    BY Zenon
  <2> QED
    BY <2>1, <2>2 DEF UiTypeOK
<1>4. OutboxTypeOK /\ ExTypeOK
  BY DEF OutboxTypeOK, ExTypeOK, Exchange!Init
<1>5. BookTypeOK /\ BookInOrder
  BY DEF BookTypeOK, BookInOrder, Book!InOrder, Book!Init
<1>6. MMTypeOK
  BY DEF MMTypeOK, MM!Init
<1>7. MoTypeOK
  <2>1. moOpen \in BOOLEAN
    BY Zenon DEF Mo!Init
  <2>2. moCount \in 0 .. Warmup /\ moNextId \in Nat
    BY DEF Mo!Init
  <2> QED
    BY <2>1, <2>2 DEF MoTypeOK
<1>8. OmTypeOK
  BY DEF OmTypeOK, OM!Init, Risk!Init
<1>9. PnLTypeOK
  BY DEF PnLTypeOK, PnL!Init
<1> QED
  BY <1>1, <1>2, <1>3, <1>4, <1>5, <1>6, <1>7, <1>8, <1>9 DEF TypeOK

LEMMA FeedStepTypes ==
  ASSUME TypeOK, BookInOrder, NEW f \in Feeds!Feed, FeedStep(f)
  PROVE  TypeOK' /\ BookInOrder'
<1>1. /\ LoopTypeOK' /\ OutboxTypeOK' /\ UiTypeOK'
      /\ BookTypeOK' /\ BookInOrder' /\ MMTypeOK' /\ MoTypeOK' /\ OmTypeOK'
      /\ ExTypeOK' /\ PnLTypeOK'
  BY Untouched DEF FeedStep, tradingVars
<1>2. FeedTypeOK'
  BY FeedTypes DEF FeedStep, FeedPush, TypeOK
<1>3. QueueTypeOK'
  <2>1. CASE UNCHANGED queueVars
    BY <2>1, Untouched
  <2>2. CASE FeedPush(f)
    <3>1. PICK price \in Prices \cup ShortPrices, size \in Sizes,
               maker \in Makers : Push(MarketDataEvent(price, size, maker))
      BY <2>2 DEF FeedPush
    <3>2. MarketDataEvent(price, size, maker) \in Event
      BY ConstantAssumption DEF MarketDataEvent, Event
    <3> QED
      BY <3>1, <3>2, PushTypes DEF TypeOK
  <2> QED
    BY <2>1, <2>2 DEF FeedStep
<1> QED
  BY <1>1, <1>2, <1>3 DEF TypeOK

LEMMA ProcessorTypes ==
  ASSUME TypeOK, BookInOrder, Processor
  PROVE  TypeOK' /\ BookInOrder'
<1> USE DEF tradingVars
<1>1. CASE Flush
  <2>1. Head(outbox) \in Event /\ OutboxTypeOK'
    BY <1>1 DEF Flush, TypeOK, OutboxTypeOK
  <2>2. QueueTypeOK'
    BY <1>1, <2>1, PushTypes DEF Flush, TypeOK
  <2> QED
    BY <1>1, <2>1, <2>2, Untouched DEF Flush, TypeOK
<1>2. CASE LoopEnter \/ PollDone \/ ProcessorExit
  <2>1. LoopTypeOK'
    BY <1>2 DEF LoopEnter, PollDone, ProcessorExit, TypeOK, LoopTypeOK
  <2> QED
    BY <1>2, <2>1, Untouched DEF LoopEnter, PollDone, ProcessorExit, TypeOK
<1>3. CASE PollPop
  <2>1. QueueTypeOK' /\ LoopTypeOK'
    BY <1>3, PollTypes DEF TypeOK
  <2> QED
    BY <1>3, <2>1, Untouched DEF PollPop, TypeOK
<1>4. CASE MarketDataToBook
  <2>1. /\ Head(batch).price \in Int /\ Head(batch).quantity \in Nat
        /\ Head(batch).isBuyerMaker \in BOOLEAN
    BY <1>4, HeadTypes DEF MarketDataToBook, TypeOK
  <2>2. BookTypeOK' /\ BookInOrder'
    BY <1>4, <2>1, TradeKeepsOrder DEF MarketDataToBook, TypeOK
  <2>3. LoopTypeOK'
    BY <1>4 DEF MarketDataToBook, TypeOK, LoopTypeOK
  <2> QED
    BY <1>4, <2>2, <2>3, Untouched DEF MarketDataToBook, TypeOK
<1>5. ASSUME NEW throttled \in BOOLEAN, MarketDataToMarketMaker(throttled)
      PROVE  TypeOK' /\ BookInOrder'
  <2>1. PICK p \in Int : p = PnL!TotalPosition
    BY DEF PnL!TotalPosition, PnL!StrategyId, TypeOK, PnLTypeOK
  <2>2. MMTypeOK' /\ OutboxTypeOK'
    BY <1>5, <2>1, MMTypes DEF MarketDataToMarketMaker, TypeOK
  <2>3. LoopTypeOK'
    BY <1>5 DEF MarketDataToMarketMaker, TypeOK, LoopTypeOK
  <2> QED
    BY <1>5, <2>2, <2>3, Untouched DEF MarketDataToMarketMaker, TypeOK
<1>6. ASSUME NEW trend \in Trends, MarketDataToMomentum(trend)
      PROVE  TypeOK' /\ BookInOrder'
  <2>1. PICK price \in Int : price = Head(batch).price
    BY <1>6, HeadTypes DEF MarketDataToMomentum, TypeOK
  <2>2. MoTypeOK' /\ OutboxTypeOK'
    BY <1>6, <2>1, MoTypes DEF MarketDataToMomentum, TypeOK
  <2>3. LoopTypeOK'
    BY <1>6 DEF MarketDataToMomentum, TypeOK, LoopTypeOK
  <2> QED
    BY <1>6, <2>2, <2>3, Untouched DEF MarketDataToMomentum, TypeOK
<1>7. CASE MarketDataToExchange
  <2>1. PICK price \in Int : price = Head(batch).price
    BY <1>7, HeadTypes DEF MarketDataToExchange, TypeOK
  <2>2. /\ bestBid' = price - HalfSpread /\ bestAsk' = price + HalfSpread
        /\ cursor' = 1 /\ UNCHANGED <<resting, outbox>>
        /\ HalfSpread \in Int
    BY <1>7, <2>1, ConstantAssumption
    DEF MarketDataToExchange, Exchange!UpdateMarketPrice
  <2>3. ExTypeOK' /\ UNCHANGED outbox
    BY <2>2 DEF TypeOK, ExTypeOK
  <2>4. LoopTypeOK'
    BY <1>7 DEF MarketDataToExchange, TypeOK, LoopTypeOK
  <2> QED
    BY <1>7, <2>3, <2>4, Untouched DEF MarketDataToExchange, TypeOK
<1>8. CASE ExchangeSweep
  <2>1. ExTypeOK' /\ OutboxTypeOK'
    BY <1>8, SweepTypes DEF ExchangeSweep, TypeOK
  <2>2. LoopTypeOK'
    BY <1>8, Untouched, EventDoneTypes DEF ExchangeSweep, TypeOK, Handling
  <2> QED
    BY <1>8, <2>1, <2>2, Untouched DEF ExchangeSweep, TypeOK
<1>9. CASE HandleOrderRequest
  <2>1. PICK o \in OrderRequest : o = Head(batch).order
    BY <1>9, HeadTypes DEF HandleOrderRequest, TypeOK
  <2>2. activeOrders' \subseteq OrderRequest /\ OutboxTypeOK'
    BY <1>9, <2>1, OmTypes DEF HandleOrderRequest, TypeOK
  <2>3. OmTypeOK'
    BY <1>9, <2>2 DEF HandleOrderRequest, OmTypeOK, TypeOK
  <2>4. LoopTypeOK'
    BY <1>9, EventDoneTypes DEF HandleOrderRequest, TypeOK, Handling
  <2>5. QueueTypeOK'
    <3>1. o.id \in Nat
      BY DEF OrderRequest
    <3> QED
      BY <1>9, <2>1, <3>1 DEF HandleOrderRequest, TypeOK, QueueTypeOK
  <2> QED
    BY <1>9, <2>2, <2>3, <2>4, <2>5, Untouched DEF HandleOrderRequest, TypeOK
<1>10. CASE HandleValidatedOrder
  <2>1. PICK o \in OrderRequest : o = Head(batch).order
    BY <1>10, HeadTypes DEF HandleValidatedOrder, TypeOK
  <2>2. ExTypeOK' /\ OutboxTypeOK'
    BY <1>10, <2>1, MatchTypes DEF HandleValidatedOrder, TypeOK
  <2>3. LoopTypeOK'
    BY <1>10, EventDoneTypes DEF HandleValidatedOrder, TypeOK, Handling
  <2> QED
    BY <1>10, <2>2, <2>3, Untouched DEF HandleValidatedOrder, TypeOK
<1>11. CASE HandleCancelOrder
  <2>1. PICK i \in Nat : i = Head(batch).id
    BY <1>11, HeadTypes DEF HandleCancelOrder, TypeOK
  <2>2. OutboxTypeOK' /\ ExTypeOK'
    BY <1>11, <2>1, CancelTypes, Untouched
    DEF HandleCancelOrder, TypeOK, Exchange!CancelOrder,
        Exchange!bookOfOrders, exVars
  <2>3. LoopTypeOK'
    BY <1>11, EventDoneTypes DEF HandleCancelOrder, TypeOK, Handling
  <2> QED
    BY <1>11, <2>2, <2>3, Untouched DEF HandleCancelOrder, TypeOK
<1>12. CASE HandleExecutionReport
  <2>1. PICK r \in ExecutionReport : r = Head(batch).report
    BY <1>12, HeadTypes DEF HandleExecutionReport, TypeOK
  <2>2. OmTypeOK' /\ PnLTypeOK'
    BY <1>12, <2>1, ReportTypes DEF HandleExecutionReport, TypeOK
  <2>3. LoopTypeOK'
    BY <1>12, EventDoneTypes DEF HandleExecutionReport, TypeOK, Handling
  <2> QED
    BY <1>12, <2>2, <2>3, Untouched DEF HandleExecutionReport, TypeOK
<1> QED
  BY <1>1, <1>2, <1>3, <1>4, <1>5, <1>6, <1>7, <1>8, <1>9, <1>10, <1>11, <1>12
  DEF Processor

LEMMA MainTypes ==
  ASSUME TypeOK, BookInOrder, Main
  PROVE  TypeOK' /\ BookInOrder'
<1> USE DEF tradingVars
<1>1. UiTypeOK'
  BY DEF Main, UiComplete, UiQuit, UiStopFeed, UiJoin, TypeOK, UiTypeOK
<1>2. FeedTypeOK'
  <2>1. CASE UiStopFeed
    <3>1. "live" \in Feeds!Feed
      BY DEF Feeds!Feed
    <3> QED
      BY <2>1, <3>1, FeedTypes DEF UiStopFeed, TypeOK
  <2> QED
    BY <2>1, Untouched DEF Main, UiComplete, UiQuit, UiJoin
<1> QED
  BY <1>1, <1>2, Untouched
  DEF Main, UiComplete, UiQuit, UiStopFeed, UiJoin, TypeOK

LEMMA StepTypes ==
  TypeOK /\ BookInOrder /\ [Next]_vars => TypeOK' /\ BookInOrder'
<1> SUFFICES ASSUME TypeOK, BookInOrder, [Next]_vars
             PROVE  TypeOK' /\ BookInOrder'
  OBVIOUS
<1>1. CASE UNCHANGED vars
  BY <1>1, Untouched DEF vars, tradingVars, TypeOK
<1> QED
  BY <1>1, FeedStepTypes, ProcessorTypes, MainTypes DEF Next

(* Every variable of the program stays in its type, whatever the threads do: *)
(* no queue, history or batch outgrows its bound.                           *)
THEOREM TypeCorrect == Spec => []TypeOK
BY InitTypes, StepTypes, PTL DEF Spec

(* Each side of the book keeps each price once, the best first, and fits its *)
(* array, whatever order the trades come in.                                *)
THEOREM BookStaysInOrder == Spec => []BookInOrder
BY InitTypes, StepTypes, PTL DEF Spec

-----------------------------------------------------------------------------
(* Shutdown.                                                               *)

(* The processor's loop begins and ends with an empty batch, and polls with  *)
(* everything pushed.                                                      *)
LoopInv ==
  /\ pc \in {"loop", "exited"} => batch = <<>>
  /\ pc \in {"poll", "exited"} => outbox = <<>>

(* A feed the mode does not use never runs, and the summary comes after the  *)
(* joins.                                                                  *)
JoinInv ==
  /\ \A f \in Feeds!Feed \ Feeds!Active : feedPc[f] = "exited"
  /\ uiPc = "summary" =>
       pc = "exited" /\ \A f \in Feeds!Active : feedPc[f] = "exited"

LEMMA FeedsKeepExit ==
  ASSUME FeedTypeOK, JoinInv, NEW f \in Feeds!Feed, FeedStep(f)
  PROVE  JoinInv'
<1>1. \E from \in {"start", "loop", "read"} : \E to : Feeds!Goto(f, from, to)
  BY DEF FeedStep, FeedPush, Feeds!Start, Feeds!Read, Feeds!Throw, Feeds!End,
         Feeds!Pushed
<1>2. UNCHANGED <<mode, pc, uiPc>>
  BY DEF FeedStep, FeedPush, Feeds!Start, Feeds!Read, Feeds!Throw, Feeds!End,
         Feeds!Pushed, loopVars, uiVars
<1>3. \A g \in Feeds!Feed : feedPc[g] = "exited" => feedPc'[g] = "exited"
  BY <1>1 DEF Feeds!Goto, FeedTypeOK
<1>4. Feeds!Active \subseteq Feeds!Feed /\ Feeds!Active' = Feeds!Active
  <2>1. mode \in {"LIVE", "REPLAY", "HYBRID"}
    BY ConstantAssumption DEF FeedTypeOK
  <2> QED
    BY <1>2, <2>1 DEF Feeds!Active, Feeds!Members, Feeds!Feed
<1> QED
  BY <1>2, <1>3, <1>4 DEF JoinInv

LEMMA ProcessorKeepsLoop ==
  ASSUME LoopTypeOK, LoopInv, Processor
  PROVE  LoopInv' /\ (pc = "exited" => pc' = "exited")
<1> USE DEF LoopInv, LoopTypeOK
<1>1. ASSUME batch # <<>>, EventDone, pc \notin {"poll", "exited"}
      PROVE  LoopInv' /\ pc # "exited"
  BY <1>1 DEF EventDone
<1>2. CASE Flush
  BY <1>2 DEF Flush, loopVars
<1>3. CASE LoopEnter \/ PollPop \/ PollDone \/ ProcessorExit
  BY <1>3 DEF LoopEnter, PollPop, PollDone, ProcessorExit
<1>4. CASE MarketDataToBook \/ MarketDataToExchange
  BY <1>4 DEF MarketDataToBook, MarketDataToExchange, Handling
<1>5. CASE \/ \E throttled \in BOOLEAN : MarketDataToMarketMaker(throttled)
           \/ \E trend \in Trends : MarketDataToMomentum(trend)
  BY <1>5 DEF MarketDataToMarketMaker, MarketDataToMomentum, Handling
<1>6. CASE ExchangeSweep
  BY <1>1, <1>6 DEF ExchangeSweep, Handling, loopVars
<1>7. CASE \/ HandleOrderRequest \/ HandleValidatedOrder
           \/ HandleCancelOrder \/ HandleExecutionReport
  BY <1>1, <1>7
  DEF HandleOrderRequest, HandleValidatedOrder, HandleCancelOrder,
      HandleExecutionReport, Handling
<1> QED
  BY <1>2, <1>3, <1>4, <1>5, <1>6, <1>7 DEF Processor

LEMMA ProcessorMovesItself ==
  Processor => UNCHANGED <<feedVars, uiVars>>
BY DEF Processor, Flush, LoopEnter, PollPop, PollDone, ProcessorExit,
       MarketDataToBook, MarketDataToMarketMaker, MarketDataToMomentum,
       MarketDataToExchange, ExchangeSweep, HandleOrderRequest,
       HandleValidatedOrder, HandleCancelOrder, HandleExecutionReport

(* When all threads are joined, no feed can push any more, and the processor *)
(* has handled every event it popped and pushed every event it emitted.     *)
THEOREM CleanShutdown == Spec => []ShutdownIsClean
<1> DEFINE Inv == LoopInv /\ JoinInv
<1>1. Init => Inv
  BY DEF Init, LoopInv, JoinInv, Feeds!Init
<1>2. TypeOK /\ Inv /\ [Next]_vars => Inv'
  <2> SUFFICES ASSUME TypeOK, Inv, [Next]_vars PROVE Inv'
    OBVIOUS
  <2>1. CASE UNCHANGED vars
    BY <2>1
    DEF vars, LoopInv, JoinInv, loopVars, uiVars, feedVars, Feeds!Active
  <2>2. ASSUME NEW f \in Feeds!Feed, FeedStep(f) PROVE Inv'
    <3>1. JoinInv'
      BY <2>2, FeedsKeepExit DEF TypeOK
    <3>2. LoopInv'
      BY <2>2 DEF FeedStep, LoopInv, loopVars
    <3> QED
      BY <3>1, <3>2
  <2>3. CASE Processor
    <3>1. LoopInv' /\ (pc = "exited" => pc' = "exited")
      BY <2>3, ProcessorKeepsLoop DEF TypeOK
    <3>2. UNCHANGED <<feedPc, mode, uiPc>>
      BY <2>3, ProcessorMovesItself DEF feedVars, uiVars
    <3> QED
      BY <3>1, <3>2 DEF JoinInv, Feeds!Active
  <2>4. CASE Main
    <3>1. /\ UNCHANGED <<pc, batch, outbox, feedPc, mode>>
          /\ uiPc' = "summary" => /\ pc = "exited"
                                  /\ \A f \in Feeds!Active : feedPc[f] = "exited"
      BY <2>4
      DEF Main, UiComplete, UiQuit, UiStopFeed, UiJoin, Feeds!Joinable,
          Feeds!Stop, loopVars, feedVars
    <3> QED
      BY <3>1 DEF LoopInv, JoinInv, Feeds!Active
  <2> QED
    BY <2>1, <2>2, <2>3, <2>4 DEF Next
<1>3. Inv => ShutdownIsClean
  BY DEF LoopInv, JoinInv, ShutdownIsClean
<1> HIDE DEF Inv
<1> QED
  BY <1>1, <1>2, <1>3, TypeCorrect, PTL DEF Spec
=============================================================================
