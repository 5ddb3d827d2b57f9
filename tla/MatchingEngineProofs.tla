------------------------ MODULE MatchingEngineProofs ------------------------
(***************************************************************************)
(* The exchange of MatchingEngine.tla for every set of orders, every set   *)
(* of trade prices and every half spread: types, no crossed order left     *)
(* resting, orders that leave only as fills their limits allow; and, when   *)
(* order ids are unique, no fill worse than a limit, and time priority.    *)
(***************************************************************************)
EXTENDS MatchingEngine, SequenceFacts, TLAPS

(* Types.                                                                  *)
THEOREM TypeCorrect == Spec => []TypeOK
<1>1. Init => TypeOK
  BY DEF Init, TypeOK
<1>2. TypeOK /\ [Next]_exchangeVars => TypeOK'
  <2> SUFFICES ASSUME TypeOK, [Next]_exchangeVars PROVE TypeOK'
    OBVIOUS
  <2> DEFINE Reports ==
        [type : {"ExecutionReport"}, report : ExecutionReport]
  <2>1. ASSUME NEW o \in OrderRequest, NEW p \in Int, NEW q \in Nat,
               NEW status \in OrderStatus
        PROVE  ReportEvent(Report(o, p, q, status)) \in Reports
    BY DEF ReportEvent, Report, OrderRequest, ExecutionReport
  <2>2. outbox \in Seq(Reports) /\ resting \in Seq(Orders)
        /\ Orders \subseteq OrderRequest
    BY ExchangeAssumption DEF TypeOK
  <2> HIDE DEF Reports
  <2>3. ASSUME NEW o \in OrderRequest, NEW p \in Int, NEW q \in Nat,
               NEW status \in OrderStatus, Emit(o, p, q, status)
        PROVE  outbox' \in Seq(Reports)
    BY <2>1, <2>2, <2>3 DEF Emit
  <2>4. ASSUME NEW o \in OrderRequest
        PROVE  Opposite(o) \in Int /\ o.price \in Int /\ o.quantity \in Nat
    BY DEF TypeOK, Opposite, OrderRequest
  <2>5. ASSUME NEW price \in Prices, UpdateMarketPrice(price) PROVE TypeOK'
    BY <2>5, ExchangeAssumption DEF UpdateMarketPrice, TypeOK
  <2>6. CASE SweepFill
    <3> DEFINE o == resting[cursor]
    <3>1. cursor \in 1 .. Len(resting) /\ o \in OrderRequest
      BY <2>2, <2>6 DEF SweepFill, Sweeping
    <3>2. outbox' \in Seq(Reports)
      BY <2>3, <2>4, <2>6, <3>1 DEF SweepFill, OrderStatus
    <3>3. resting' \in Seq(Orders) /\ Len(resting') = Len(resting) - 1
      BY <2>2, <2>6, <3>1, RemoveAtFacts DEF SweepFill
    <3> QED
      BY <2>6, <3>1, <3>2, <3>3 DEF SweepFill, TypeOK, Reports
  <2>7. CASE SweepKeep
    BY <2>7 DEF SweepKeep, Sweeping, TypeOK
  <2>8. CASE SweepEnd
    BY <2>8 DEF SweepEnd, TypeOK
  <2>9. ASSUME NEW o \in Orders, ProcessOrder(o) PROVE TypeOK'
    <3>1. o \in OrderRequest
      BY <2>2
    <3>2. outbox' \in Seq(Reports)
      BY <2>3, <2>4, <2>9, <3>1
      DEF ProcessOrder, MatchMarketOrder, MatchLimitOrder, OrderStatus
    <3>3. resting' \in Seq(Orders) /\ Len(resting') >= Len(resting)
      BY <2>2, <2>9 DEF ProcessOrder, MatchMarketOrder, MatchLimitOrder
    <3> QED
      BY <2>9, <3>2, <3>3 DEF ProcessOrder, Idle, TypeOK, Reports
  <2>10. ASSUME NEW i \in Ids, CancelOrder(i) PROVE TypeOK'
    <3>1. BlankRequest(i) \in OrderRequest
      BY <2>2 DEF Ids, BlankRequest, OrderRequest, OrderSide, OrderType
    <3>2. outbox' \in Seq(Reports)
      BY <2>3, <2>10, <3>1 DEF CancelOrder, OrderStatus
    <3> QED
      BY <2>10, <3>2 DEF CancelOrder, bookOfOrders, TypeOK, Reports
  <2>11. CASE Deliver
    BY <2>11, <2>2 DEF Deliver, bookOfOrders, TypeOK, Reports
  <2>12. CASE UNCHANGED exchangeVars
    BY <2>12 DEF exchangeVars, TypeOK
  <2> QED
    BY <2>5, <2>6, <2>7, <2>8, <2>9, <2>10, <2>11, <2>12, ExchangeAssumption
    DEF Next, Sweep
<1> QED
  BY <1>1, <1>2, PTL DEF Spec

-----------------------------------------------------------------------------

(* Outside a sweep no resting order can trade at the best prices, and a     *)
(* sweep leaves none behind that can: erasing while iterating skips none.   *)
THEOREM NothingCrossed == Spec => []NoCrossedResting
<1>1. Init => NoCrossedResting
  BY DEF Init, NoCrossedResting
<1>2. TypeOK /\ NoCrossedResting /\ [Next]_exchangeVars => NoCrossedResting'
  <2> SUFFICES ASSUME TypeOK, NoCrossedResting, [Next]_exchangeVars
               PROVE  NoCrossedResting'
    OBVIOUS
  <2>1. resting \in Seq(Orders) /\ DOMAIN resting = 1 .. Len(resting)
        /\ cursor \in 0 .. Len(resting) + 1
    BY DEF TypeOK
  <2>2. ASSUME UNCHANGED <<bestBid, bestAsk>>, NEW o
        PROVE  CanMatch(o)' <=> CanMatch(o)
    BY <2>2 DEF CanMatch, Opposite, Allows
  <2>3. ASSUME NEW price \in Prices, UpdateMarketPrice(price)
        PROVE  NoCrossedResting'
    BY <2>1, <2>3 DEF UpdateMarketPrice, NoCrossedResting
  <2>4. CASE SweepFill
    <3>1. /\ cursor \in 1 .. Len(resting) /\ cursor' = cursor
          /\ resting' = RemoveAt(resting, cursor)
          /\ UNCHANGED <<bestBid, bestAsk>>
      BY <2>4 DEF SweepFill, Sweeping
    <3>2. /\ resting' \in Seq(Orders) /\ Len(resting') = Len(resting) - 1
          /\ \A i \in 1 .. Len(resting) - 1 :
               i < cursor => resting'[i] = resting[i]
      BY <2>1, <3>1, RemoveAtFacts
    <3>3. SUFFICES ASSUME NEW i \in DOMAIN resting', i < cursor
                   PROVE  ~CanMatch(resting[i])'
      BY <2>1, <3>1 DEF NoCrossedResting
    <3>4. i \in DOMAIN resting /\ resting'[i] = resting[i]
      BY <2>1, <3>2, <3>3
    <3>5. ~CanMatch(resting[i])
      BY <3>3, <3>4 DEF NoCrossedResting
    <3> QED
      BY <3>1, <3>4, <3>5 DEF CanMatch, Opposite, Allows
  <2>5. CASE SweepKeep
    BY <2>1, <2>5
    DEF SweepKeep, Sweeping, NoCrossedResting, CanMatch, Opposite, Allows
  <2>6. CASE SweepEnd
    BY <2>1, <2>6
    DEF SweepEnd, NoCrossedResting, CanMatch, Opposite, Allows
  <2>7. ASSUME NEW o \in Orders, ProcessOrder(o) PROVE NoCrossedResting'
    <3>1. /\ cursor = 0 /\ cursor' = 0
          /\ UNCHANGED <<bestBid, bestAsk>>
          /\ \/ resting' = resting
             \/ resting' = Append(resting, o) /\ ~CanMatch(o)
      BY <2>7
      DEF ProcessOrder, Idle, MatchMarketOrder, MatchLimitOrder
    <3>2. ASSUME NEW i \in DOMAIN resting' PROVE ~CanMatch(resting'[i])
      <4>1. CASE i \in DOMAIN resting
        <5>1. resting'[i] = resting[i]
          BY <2>1, <3>1, <4>1
        <5> QED
          BY <3>1, <4>1, <5>1 DEF NoCrossedResting
      <4>2. CASE i \notin DOMAIN resting
        <5>1. resting'[i] = o /\ ~CanMatch(o)
          BY <2>1, <3>1, <3>2, <4>2
        <5> QED
          BY <5>1
      <4> QED
        BY <4>1, <4>2
    <3> QED
      BY <3>1, <3>2 DEF NoCrossedResting, CanMatch, Opposite, Allows
  <2>8. ASSUME NEW i \in Ids, CancelOrder(i) PROVE NoCrossedResting'
    BY <2>8 DEF CancelOrder, bookOfOrders, NoCrossedResting, CanMatch,
                Opposite, Allows
  <2>9. CASE Deliver
    BY <2>9 DEF Deliver, bookOfOrders, NoCrossedResting, CanMatch, Opposite,
                Allows
  <2>10. CASE UNCHANGED exchangeVars
    BY <2>10 DEF exchangeVars, NoCrossedResting, CanMatch, Opposite, Allows
  <2> QED
    BY <2>3, <2>4, <2>5, <2>6, <2>7, <2>8, <2>9, <2>10 DEF Next, Sweep
<1> QED
  BY <1>1, <1>2, TypeCorrect, PTL DEF Spec

-----------------------------------------------------------------------------

(* An order that stops resting was filled, once, in full, and at a best     *)
(* price its limit allows.                                                 *)
THEOREM LeavingIsFilling == Spec => LeavesByFill
<1> DEFINE Left(o) ==
      \E price \in {bestBid, bestAsk} :
        /\ Allows(o, price)
        /\ outbox' = <<ReportEvent(Report(o, price, o.quantity, "Filled"))>>
<1>1. ASSUME TypeOK, [Next]_exchangeVars,
             NEW o \in ToSet(resting) \ ToSet(resting')
      PROVE  Left(o)
  <2>1. resting \in Seq(Orders) /\ DOMAIN resting = 1 .. Len(resting)
    BY <1>1 DEF TypeOK
  <2>2. PICK i \in DOMAIN resting : resting[i] = o
    BY <1>1 DEF ToSet
  <2>3. resting' # resting /\ \A j \in DOMAIN resting' : resting'[j] # o
    BY <1>1 DEF ToSet
  <2>4. ASSUME NEW q PROVE resting' # Append(resting, q)
    BY <2>1, <2>2, <2>3
  <2>5. SweepFill
    BY <1>1, <2>3, <2>4
    DEF Next, UpdateMarketPrice, Sweep, SweepKeep, SweepEnd, ProcessOrder,
        MatchMarketOrder, MatchLimitOrder, CancelOrder, bookOfOrders, Deliver,
        exchangeVars
  <2>6. cursor \in 1 .. Len(resting) /\ outbox = <<>>
        /\ resting' = RemoveAt(resting, cursor)
    BY <2>5 DEF SweepFill, Sweeping
  <2>7. i = cursor
    <3> SUFFICES ASSUME i # cursor PROVE FALSE
      OBVIOUS
    <3>1. /\ Len(resting') = Len(resting) - 1 /\ resting' \in Seq(Orders)
          /\ \A j \in 1 .. Len(resting) - 1 :
               resting'[j] = IF j < cursor THEN resting[j] ELSE resting[j + 1]
      BY <2>1, <2>6, RemoveAtFacts
    <3>2. CASE i < cursor
      BY <2>1, <2>2, <2>3, <2>6, <3>1, <3>2
    <3>3. CASE i > cursor
      <4>1. i - 1 \in 1 .. Len(resting) - 1 /\ ~(i - 1 < cursor)
        BY <2>1, <2>6, <3>3
      <4>2. resting'[i - 1] = resting[i]
        BY <2>1, <3>1, <4>1
      <4> QED
        BY <2>2, <2>3, <3>1, <4>1, <4>2
    <3> QED
      BY <2>1, <2>6, <3>2, <3>3
  <2>8. /\ Allows(o, Opposite(o))
        /\ outbox' = Append(<<>>,
             ReportEvent(Report(o, Opposite(o), o.quantity, "Filled")))
    BY <2>2, <2>5, <2>6, <2>7 DEF SweepFill, Emit
  <2>9. Opposite(o) \in {bestBid, bestAsk}
    BY DEF Opposite
  <2> QED
    BY <2>8, <2>9
<1>2. TypeOK /\ [Next]_exchangeVars =>
        [\A o \in ToSet(resting) \ ToSet(resting') : Left(o)]_exchangeVars
  BY <1>1
<1> QED
  BY <1>2, TypeCorrect, PTL DEF Spec, LeavesByFill

-----------------------------------------------------------------------------

(* Both strategies number their orders, so that an execution report names   *)
(* the order it is about.                                                  *)
UniqueIds == \A o, q \in Orders : o.id = q.id => o = q

(* The report of a fill says which order was filled.                        *)
LEMMA FillNamesOrder ==
  ASSUME UniqueIds, TypeOK, NEW o \in Orders, NEW q \in Orders,
         NEW price, NEW status, NEW quantity, NEW other,
         Emit(o, price, quantity, status),
         outbox' = Append(outbox, ReportEvent(
                     Report(q, other, q.quantity, "Filled")))
  PROVE  q = o /\ price = other /\ status = "Filled"
<1> DEFINE sent == ReportEvent(Report(o, price, quantity, status))
           seen == ReportEvent(Report(q, other, q.quantity, "Filled"))
<1>1. outbox' = Append(outbox, sent) /\ outbox' = Append(outbox, seen)
  BY DEF Emit
<1>2. outbox \in Seq([type : {"ExecutionReport"}, report : ExecutionReport])
  BY DEF TypeOK
<1>3. sent = seen
  <2> HIDE DEF sent, seen
  <2>1. Append(outbox, sent)[Len(outbox) + 1] = sent
    BY <1>2
  <2>2. Append(outbox, seen)[Len(outbox) + 1] = seen
    BY <1>2
  <2> QED
    BY <1>1, <2>1, <2>2
<1>4. sent.report = seen.report
  BY <1>3
<1>5. o.id = q.id /\ price = other /\ status = "Filled"
  BY <1>4 DEF ReportEvent, Report
<1> QED
  BY <1>5 DEF UniqueIds

(* What a step that fills an order of its own had to find: the order can    *)
(* trade at the best price on the other side.                              *)
LEMMA FilledCouldTrade ==
  ASSUME UniqueIds, TypeOK, [Next]_exchangeVars, NEW q \in Orders, NEW price,
         outbox' = Append(outbox, ReportEvent(
                     Report(q, price, q.quantity, "Filled")))
  PROVE  /\ price = Opposite(q)
         /\ \/ SweepFill /\ resting[cursor] = q /\ Allows(q, price)
            \/ ProcessOrder(q) /\ (q.type = "Market" \/ CanMatch(q))
<1>1. outbox \in Seq([type : {"ExecutionReport"}, report : ExecutionReport])
      /\ resting \in Seq(Orders)
  BY DEF TypeOK
<1>2. outbox' # outbox /\ outbox' # <<>> /\ Len(outbox') = Len(outbox) + 1
  BY <1>1
<1>3. CASE SweepFill
  <2>1. PICK o \in Orders : o = resting[cursor]
    BY <1>1, <1>3 DEF SweepFill, Sweeping
  <2>2. Allows(o, Opposite(o)) /\ Emit(o, Opposite(o), o.quantity, "Filled")
    BY <1>3, <2>1 DEF SweepFill
  <2>3. q = o /\ Opposite(o) = price
    BY <2>2, FillNamesOrder
  <2> QED
    BY <1>3, <2>1, <2>2, <2>3
<1>4. ASSUME NEW o \in Orders, ProcessOrder(o)
      PROVE  price = Opposite(q) /\ ProcessOrder(q)
             /\ (q.type = "Market" \/ CanMatch(q))
  <2>1. CASE o.type = "Market"
    <3>1. \/ Emit(o, 0, 0, "Rejected")
          \/ Emit(o, Opposite(o), o.quantity, "Filled")
      BY <1>4, <2>1 DEF ProcessOrder, MatchMarketOrder
    <3>2. ~Emit(o, 0, 0, "Rejected")
      BY FillNamesOrder
    <3>3. q = o /\ Opposite(o) = price
      BY <3>1, <3>2, FillNamesOrder
    <3> QED
      BY <1>4, <2>1, <3>3
  <2>2. CASE o.type # "Market"
    <3>1. \/ CanMatch(o) /\ Emit(o, Opposite(o), o.quantity, "Filled")
          \/ Emit(o, o.price, 0, "New")
      BY <1>4, <2>2 DEF ProcessOrder, MatchLimitOrder
    <3>2. ~Emit(o, o.price, 0, "New")
      BY FillNamesOrder
    <3>3. CanMatch(o) /\ q = o /\ Opposite(o) = price
      BY <3>1, <3>2, FillNamesOrder
    <3> QED
      BY <1>4, <3>3
  <2> QED
    BY <2>1, <2>2
<1>5. ASSUME NEW i \in Ids, CancelOrder(i) PROVE FALSE
  <2>1. Emit(BlankRequest(i), 0, 0, "Cancelled")
    BY <1>5 DEF CancelOrder
  <2> DEFINE sent == ReportEvent(Report(BlankRequest(i), 0, 0, "Cancelled"))
             seen == ReportEvent(Report(q, price, q.quantity, "Filled"))
  <2>2. sent.report.status # seen.report.status
    BY DEF ReportEvent, Report
  <2> HIDE DEF sent, seen
  <2>3. Append(outbox, sent) = Append(outbox, seen)
    BY <2>1 DEF Emit, sent, seen
  <2>4. Append(outbox, sent)[Len(outbox) + 1] = sent
        /\ Append(outbox, seen)[Len(outbox) + 1] = seen
    BY <1>1
  <2> QED
    BY <2>2, <2>3, <2>4
<1>6. ASSUME Deliver PROVE FALSE
  BY <1>1, <1>2, <1>6 DEF Deliver
<1> QED
  BY <1>2, <1>3, <1>4, <1>5, <1>6
  DEF Next, Sweep, UpdateMarketPrice, SweepKeep, SweepEnd, exchangeVars

(* No fill, at once or after resting, is worse than the order's limit.      *)
THEOREM NoFillWorse ==
  ASSUME UniqueIds PROVE Spec => FillsWithinLimit
<1>1. ASSUME TypeOK, [Next]_exchangeVars, NEW o \in Orders,
             NEW price \in {bestBid, bestAsk}, Worse(o, price)
      PROVE  outbox' # Append(outbox, ReportEvent(
                         Report(o, price, o.quantity, "Filled")))
  <2> SUFFICES ASSUME outbox' = Append(outbox, ReportEvent(
                                  Report(o, price, o.quantity, "Filled")))
               PROVE  FALSE
    OBVIOUS
  <2>1. price = Opposite(o) /\ (Allows(o, price) \/ o.type = "Market"
                                 \/ CanMatch(o))
    BY <1>1, FilledCouldTrade
  <2> QED
    BY <1>1, <2>1 DEF Worse, CanMatch
<1> DEFINE Within ==
      \A o \in Orders, price \in {bestBid, bestAsk} :
        Worse(o, price) =>
          outbox' # Append(outbox, ReportEvent(
                      Report(o, price, o.quantity, "Filled")))
<1>2. TypeOK /\ [Next]_exchangeVars => [Within]_exchangeVars
  BY <1>1
<1> QED
  BY <1>2, TypeCorrect, PTL DEF Spec, FillsWithinLimit

-----------------------------------------------------------------------------

(* What time priority rests on: an order rests once, no market order rests, *)
(* and the sweep leaves nothing behind that it could have traded.           *)
RestsOnce ==
  \A i, j \in DOMAIN resting : resting[i] = resting[j] => i = j
OnlyLimitsRest == \A i \in DOMAIN resting : resting[i].type # "Market"
SweptCannotTrade ==
  \A i \in DOMAIN resting :
    i < cursor => ~Allows(resting[i], Opposite(resting[i]))
RestInv == RestsOnce /\ OnlyLimitsRest /\ SweptCannotTrade

LEMMA RestInvHolds == Spec => []RestInv
<1>1. Init => RestInv
  BY DEF Init, RestInv, RestsOnce, OnlyLimitsRest, SweptCannotTrade
<1>2. TypeOK /\ RestInv /\ [Next]_exchangeVars => RestInv'
  <2> SUFFICES ASSUME TypeOK, RestInv, [Next]_exchangeVars PROVE RestInv'
    OBVIOUS
  <2> USE DEF RestInv
  <2>1. resting \in Seq(Orders) /\ DOMAIN resting = 1 .. Len(resting)
        /\ cursor \in 0 .. Len(resting) + 1
    BY DEF TypeOK
  <2>2. CASE SweepFill
    <3>1. /\ cursor \in 1 .. Len(resting) /\ cursor' = cursor
          /\ resting' = RemoveAt(resting, cursor)
          /\ UNCHANGED <<bestBid, bestAsk>>
      BY <2>2 DEF SweepFill, Sweeping
    <3>2. /\ resting' \in Seq(Orders) /\ Len(resting') = Len(resting) - 1
          /\ \A i \in 1 .. Len(resting) - 1 :
               resting'[i] = IF i < cursor THEN resting[i] ELSE resting[i + 1]
      BY <2>1, <3>1, RemoveAtFacts
    <3> DEFINE was(i) == IF i < cursor THEN i ELSE i + 1
    <3>3. ASSUME NEW i \in DOMAIN resting'
          PROVE  was(i) \in DOMAIN resting /\ resting'[i] = resting[was(i)]
      BY <2>1, <3>1, <3>2
    <3>4. RestsOnce'
      <4>1. SUFFICES ASSUME NEW i \in DOMAIN resting', NEW j \in DOMAIN resting',
                            resting'[i] = resting'[j]
                     PROVE  i = j
        BY DEF RestsOnce
      <4>2. was(i) = was(j)
        BY <3>3, <4>1 DEF RestsOnce
      <4>3. i \in Int /\ j \in Int /\ cursor \in Int
        BY <2>1, <3>2
      <4> QED
        BY <4>2, <4>3
    <3>5. OnlyLimitsRest'
      BY <3>3 DEF OnlyLimitsRest
    <3>6. SweptCannotTrade'
      <4>1. SUFFICES ASSUME NEW i \in DOMAIN resting', i < cursor
                     PROVE  ~Allows(resting'[i], Opposite(resting'[i]))
        BY <3>1 DEF SweptCannotTrade, Allows, Opposite
      <4>2. was(i) = i
        BY <4>1
      <4> QED
        BY <3>3, <4>1, <4>2 DEF SweptCannotTrade
    <3> QED
      BY <3>4, <3>5, <3>6
  <2>3. CASE SweepKeep
    BY <2>1, <2>3 DEF SweepKeep, Sweeping, RestsOnce, OnlyLimitsRest,
                      SweptCannotTrade, Allows, Opposite
  <2>4. CASE SweepEnd
    BY <2>1, <2>4 DEF SweepEnd, RestsOnce, OnlyLimitsRest, SweptCannotTrade
  <2>5. ASSUME NEW price \in Prices, UpdateMarketPrice(price) PROVE RestInv'
    BY <2>1, <2>5 DEF UpdateMarketPrice, RestsOnce, OnlyLimitsRest,
                      SweptCannotTrade
  <2>6. ASSUME NEW o \in Orders \ ToSet(resting), ProcessOrder(o) PROVE RestInv'
    <3>1. /\ cursor = 0 /\ cursor' = 0
          /\ \/ resting' = resting
             \/ resting' = Append(resting, o) /\ o.type # "Market"
      BY <2>6 DEF ProcessOrder, Idle, MatchMarketOrder, MatchLimitOrder
    <3>2. CASE resting' = resting
      BY <2>1, <3>1, <3>2 DEF RestsOnce, OnlyLimitsRest, SweptCannotTrade
    <3>3. CASE resting' = Append(resting, o) /\ o.type # "Market"
      <4>1. \A i \in DOMAIN resting : resting[i] # o
        BY <2>6 DEF ToSet
      <4>2. /\ DOMAIN resting' = 1 .. Len(resting) + 1
            /\ \A i \in 1 .. Len(resting) : resting'[i] = resting[i]
            /\ resting'[Len(resting) + 1] = o
        BY <2>1, <3>3
      <4>3. RestsOnce'
        BY <2>1, <4>1, <4>2 DEF RestsOnce
      <4>4. OnlyLimitsRest'
        BY <2>1, <3>3, <4>2 DEF OnlyLimitsRest
      <4>5. SweptCannotTrade'
        BY <3>1, <4>2 DEF SweptCannotTrade
      <4> QED
        BY <4>3, <4>4, <4>5
    <3> QED
      BY <3>1, <3>2, <3>3
  <2>7. ASSUME NEW i \in Ids, CancelOrder(i) PROVE RestInv'
    BY <2>7 DEF CancelOrder, bookOfOrders, RestsOnce, OnlyLimitsRest,
                SweptCannotTrade, Allows, Opposite
  <2>8. CASE Deliver
    BY <2>8 DEF Deliver, bookOfOrders, RestsOnce, OnlyLimitsRest,
                SweptCannotTrade, Allows, Opposite
  <2>9. CASE UNCHANGED exchangeVars
    BY <2>9 DEF exchangeVars, RestsOnce, OnlyLimitsRest, SweptCannotTrade,
                Allows, Opposite
  <2> QED
    BY <2>2, <2>3, <2>4, <2>5, <2>6, <2>7, <2>8, <2>9 DEF Next, Sweep
<1> QED
  BY <1>1, <1>2, TypeCorrect, PTL DEF Spec

(* How a step may change the queue of resting orders: one leaves, and the    *)
(* others keep their order, or one that does not rest is added at the end.   *)
LEMMA QueueMoves ==
  ASSUME TypeOK, [Next]_exchangeVars
  PROVE  \/ resting' = resting
         \/ /\ SweepFill
            /\ \A i \in DOMAIN resting : i # cursor =>
                 LET now == IF i < cursor THEN i ELSE i - 1
                 IN now \in DOMAIN resting' /\ resting'[now] = resting[i]
            /\ \A i \in DOMAIN resting' : \E j \in DOMAIN resting :
                 resting'[i] = resting[j]
         \/ \E o \in Orders \ ToSet(resting) :
              ProcessOrder(o) /\ resting' = Append(resting, o)
<1>1. resting \in Seq(Orders) /\ DOMAIN resting = 1 .. Len(resting)
  BY DEF TypeOK
<1>2. ASSUME SweepFill
      PROVE  /\ \A i \in DOMAIN resting : i # cursor =>
                  LET now == IF i < cursor THEN i ELSE i - 1
                  IN now \in DOMAIN resting' /\ resting'[now] = resting[i]
             /\ \A i \in DOMAIN resting' : \E j \in DOMAIN resting :
                  resting'[i] = resting[j]
  <2>1. cursor \in 1 .. Len(resting) /\ resting' = RemoveAt(resting, cursor)
    BY <1>2 DEF SweepFill, Sweeping
  <2>2. /\ resting' \in Seq(Orders) /\ Len(resting') = Len(resting) - 1
        /\ \A i \in 1 .. Len(resting) - 1 :
             resting'[i] = IF i < cursor THEN resting[i] ELSE resting[i + 1]
    BY <1>1, <2>1, RemoveAtFacts
  <2>3. DOMAIN resting' = 1 .. Len(resting) - 1
    BY <2>2
  <2>4. ASSUME NEW i \in DOMAIN resting, i # cursor
        PROVE  LET now == IF i < cursor THEN i ELSE i - 1
               IN now \in DOMAIN resting' /\ resting'[now] = resting[i]
    <3>1. CASE i < cursor
      BY <1>1, <2>1, <2>2, <2>3, <3>1
    <3>2. CASE ~(i < cursor)
      <4>1. i - 1 \in 1 .. Len(resting) - 1 /\ ~(i - 1 < cursor)
        BY <1>1, <2>1, <2>4, <3>2
      <4>2. resting'[i - 1] = resting[(i - 1) + 1] /\ (i - 1) + 1 = i
        BY <1>1, <2>2, <4>1
      <4> QED
        BY <2>3, <3>2, <4>1, <4>2
    <3> QED
      BY <3>1, <3>2
  <2>5. ASSUME NEW i \in DOMAIN resting'
        PROVE  \E j \in DOMAIN resting : resting'[i] = resting[j]
    <3>1. i \in 1 .. Len(resting) - 1
      BY <2>3
    <3>2. i \in DOMAIN resting /\ i + 1 \in DOMAIN resting
      BY <1>1, <3>1
    <3>3. resting'[i] = resting[i] \/ resting'[i] = resting[i + 1]
      BY <2>2, <3>1
    <3> QED
      BY <3>2, <3>3
  <2> QED
    BY <2>4, <2>5
<1>3. ASSUME NEW o \in Orders \ ToSet(resting), ProcessOrder(o)
      PROVE  resting' = resting \/ resting' = Append(resting, o)
  BY <1>3 DEF ProcessOrder, MatchMarketOrder, MatchLimitOrder
<1> QED
  BY <1>2, <1>3 DEF Next, Sweep, UpdateMarketPrice, SweepKeep, SweepEnd,
     CancelOrder, bookOfOrders, Deliver, exchangeVars

(* Of two orders with one price, the one that rested first trades first.    *)
THEOREM FirstComeFirstServed ==
  ASSUME UniqueIds PROVE Spec => TimePriority
<1> DEFINE Kept(o, q) ==
      /\ q \in ToSet(resting') => Ahead(resting', o, q)
      /\ ~Fills(q)
<1>1. ASSUME TypeOK, NoCrossedResting, RestInv, [Next]_exchangeVars,
             NEW o \in ToSet(resting) \cap ToSet(resting'), NEW q \in Orders,
             o # q, Equal(o, q), ~Ahead(resting, q, o)
      PROVE  Kept(o, q)
  <2>1. resting \in Seq(Orders) /\ DOMAIN resting = 1 .. Len(resting)
    BY <1>1 DEF TypeOK
  <2>2. PICK i \in DOMAIN resting : resting[i] = o
    BY <1>1 DEF ToSet
  <2>3. ASSUME NEW j \in DOMAIN resting, resting[j] = q PROVE i < j
    <3>1. i # j /\ ~(j < i)
      BY <1>1, <2>2, <2>3 DEF Ahead
    <3> QED
      BY <2>1, <3>1
  <2>4. ASSUME q \in ToSet(resting') PROVE Ahead(resting', o, q)
    <3>1. PICK k \in DOMAIN resting' : resting'[k] = q
      BY <2>4 DEF ToSet
    <3>2. CASE resting' = resting
      BY <2>2, <2>3, <3>1, <3>2 DEF Ahead
    <3>3. ASSUME SweepFill,
                 \A n \in DOMAIN resting : n # cursor =>
                   LET now == IF n < cursor THEN n ELSE n - 1
                   IN now \in DOMAIN resting' /\ resting'[now] = resting[n],
                 \A n \in DOMAIN resting' : \E j \in DOMAIN resting :
                   resting'[n] = resting[j]
          PROVE  Ahead(resting', o, q)
      <4> DEFINE now(n) == IF n < cursor THEN n ELSE n - 1
      <4>1. /\ cursor \in 1 .. Len(resting)
            /\ resting' = RemoveAt(resting, cursor)
        BY <3>3 DEF SweepFill, Sweeping
      <4>2. /\ resting' \in Seq(Orders) /\ Len(resting') = Len(resting) - 1
            /\ \A n \in 1 .. Len(resting) - 1 :
                 resting'[n] = IF n < cursor THEN resting[n] ELSE resting[n + 1]
        BY <2>1, <4>1, RemoveAtFacts
      <4>3. ASSUME NEW n \in DOMAIN resting, resting[n] \in ToSet(resting')
            PROVE  n # cursor
        <5>1. PICK m \in DOMAIN resting' : resting'[m] = resting[n]
          BY <4>3 DEF ToSet
        <5>2. m \in 1 .. Len(resting) - 1
          BY <4>2
        <5>3. CASE m < cursor
          <6>1. resting[m] = resting[n] /\ m \in DOMAIN resting
            BY <2>1, <4>2, <5>1, <5>2, <5>3
          <6>2. m = n
            BY <1>1, <6>1 DEF RestInv, RestsOnce
          <6> QED
            BY <4>1, <5>2, <5>3, <6>2
        <5>4. CASE ~(m < cursor)
          <6>1. resting[m + 1] = resting[n] /\ m + 1 \in DOMAIN resting
            BY <2>1, <4>2, <5>1, <5>2, <5>4
          <6>2. m + 1 = n
            BY <1>1, <6>1 DEF RestInv, RestsOnce
          <6> QED
            BY <4>1, <5>2, <5>4, <6>2
        <5> QED
          BY <5>3, <5>4
      <4>4. i # cursor
        BY <1>1, <2>2, <4>3
      <4>5. PICK j \in DOMAIN resting : resting[j] = q
        BY <3>1, <3>3
      <4>6. i < j /\ j # cursor
        BY <2>3, <2>4, <4>3, <4>5
      <4>7. /\ now(i) \in DOMAIN resting' /\ resting'[now(i)] = o
            /\ now(j) \in DOMAIN resting' /\ resting'[now(j)] = q
        BY <2>2, <3>3, <4>4, <4>5, <4>6
      <4>8. now(i) < now(j)
        BY <2>1, <4>1, <4>4, <4>6
      <4> QED
        BY <4>7, <4>8 DEF Ahead
    <3>4. ASSUME NEW p \in Orders \ ToSet(resting), resting' = Append(resting, p)
          PROVE  Ahead(resting', o, q)
      <4>1. /\ DOMAIN resting' = 1 .. Len(resting) + 1
            /\ \A n \in 1 .. Len(resting) : resting'[n] = resting[n]
            /\ i \in DOMAIN resting' /\ resting'[i] = o
        BY <2>1, <2>2, <3>4
      <4>2. i < k
        <5>1. CASE k \in DOMAIN resting
          BY <2>1, <2>3, <3>1, <4>1, <5>1
        <5>2. CASE k \notin DOMAIN resting
          BY <2>1, <4>1, <5>2
        <5> QED
          BY <5>1, <5>2
      <4> QED
        BY <3>1, <4>1, <4>2 DEF Ahead
    <3> QED
      BY <1>1, <3>2, <3>3, <3>4, QueueMoves
  <2>5. ASSUME Fills(q) PROVE FALSE
    <3>1. PICK price \in {bestBid, bestAsk} :
            outbox' = Append(outbox, ReportEvent(
                        Report(q, price, q.quantity, "Filled")))
      BY <2>5 DEF Fills
    <3>2. price = Opposite(q) /\ Opposite(q) = Opposite(o)
          /\ \A n : Allows(q, n) <=> Allows(o, n)
      BY <1>1, <3>1, FilledCouldTrade DEF Equal, Opposite, Allows
    <3>3. CASE SweepFill /\ resting[cursor] = q /\ Allows(q, price)
      <4>1. cursor \in DOMAIN resting
        BY <2>1, <3>3 DEF SweepFill, Sweeping
      <4>2. i < cursor
        BY <2>3, <3>3, <4>1
      <4>3. ~Allows(o, Opposite(o))
        BY <1>1, <2>2, <4>2 DEF RestInv, SweptCannotTrade
      <4> QED
        BY <3>2, <3>3, <4>3
    <3>4. CASE ProcessOrder(q) /\ (q.type = "Market" \/ CanMatch(q))
      <4>1. o.type # "Market" /\ o.type = q.type
        BY <1>1, <2>2 DEF RestInv, OnlyLimitsRest, Equal
      <4>2. cursor = 0 /\ CanMatch(q)
        BY <3>4, <4>1 DEF ProcessOrder, Idle
      <4>3. ~CanMatch(o)
        BY <1>1, <2>2, <4>2 DEF NoCrossedResting
      <4> QED
        BY <3>2, <4>2, <4>3 DEF CanMatch
    <3> QED
      BY <1>1, <3>1, <3>3, <3>4, FilledCouldTrade
  <2> QED
    BY <2>4, <2>5
<1> DEFINE Served ==
      \A o \in ToSet(resting) \cap ToSet(resting'), q \in Orders :
        o # q /\ Equal(o, q) /\ ~Ahead(resting, q, o) => Kept(o, q)
<1>2. TypeOK /\ NoCrossedResting /\ RestInv /\ [Next]_exchangeVars =>
        [Served]_exchangeVars
  BY <1>1
<1> QED
  BY <1>2, TypeCorrect, NothingCrossed, RestInvHolds, PTL
  DEF Spec, TimePriority
=============================================================================
