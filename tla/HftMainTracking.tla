--------------------------- MODULE HftMainTracking ---------------------------
(***************************************************************************)
(* What the components know of the orders under way, for every value of    *)
(* the constants: the order manager, the market maker, and the momentum    *)
(* strategy's flag against the position.                                   *)
(***************************************************************************)
EXTENDS HftMainOrders

-----------------------------------------------------------------------------
(* The steps that matter here, and all the others.                          *)

Quiet ==
  \/ UNCHANGED vars
  \/ \E f \in Feeds!Feed : FeedStep(f)
  \/ Main
  \/ Flush \/ LoopEnter \/ PollPop \/ PollDone \/ ProcessorExit
  \/ MarketDataToBook \/ MarketDataToExchange
  \/ ExchangeSweep /\ Exchange!SweepKeep /\ UNCHANGED loopVars
  \/ ExchangeSweep /\ Exchange!SweepEnd /\ EventDone
SweepFills == ExchangeSweep /\ Exchange!SweepFill /\ UNCHANGED loopVars

LEMMA StepKinds ==
  ASSUME [Next]_vars
  PROVE  \/ Quiet \/ SweepFills
         \/ \E throttled \in BOOLEAN : MarketDataToMarketMaker(throttled)
         \/ \E trend \in Trends : MarketDataToMomentum(trend)
         \/ HandleOrderRequest \/ HandleValidatedOrder
         \/ HandleCancelOrder \/ HandleExecutionReport
<1>1. CASE Processor
  BY <1>1 DEF Processor, Quiet, SweepFills, ExchangeSweep
<1> QED
  BY <1>1 DEF Next, Quiet

LEMMA PushAstray ==
  ASSUME NEW e, Push(e) PROVE astray \subseteq astray'
BY DEF Push

(* A quiet step loses an event or none, and touches no order.               *)
LEMMA QuietFlow ==
  ASSUME TypeOK, TypeOK', Quiet
  PROVE  /\ astray \subseteq astray'
         /\ UNCHANGED <<resting, mmVars, moVars, omVars, pnlVars>>
         /\ \E gone \in SUBSET {e \in Event : e.type = "MarketData"} :
              Flow(gone, <<>>)
<1>0. {} \in SUBSET {e \in Event : e.type = "MarketData"}
  OBVIOUS
<1>1. CASE UNCHANGED vars
  BY <1>0, <1>1, SameFlow
  DEF vars, queueVars, loopVars, tradingVars, exVars
<1>2. ASSUME NEW f \in Feeds!Feed, FeedStep(f)
      PROVE  /\ astray \subseteq astray'
             /\ UNCHANGED <<resting, mmVars, moVars, omVars, pnlVars>>
             /\ Flow({}, <<>>)
  BY <1>2, FeedFlow, PushAstray
  DEF FeedStep, FeedPush, queueVars, tradingVars, exVars
<1>3. CASE Main
  <2>1. /\ UNCHANGED <<batch, queue, outbox, astray>>
        /\ UNCHANGED <<resting, mmVars, moVars, omVars, pnlVars>>
    BY <1>3
    DEF Main, UiComplete, UiQuit, UiStopFeed, UiJoin, queueVars, loopVars,
        tradingVars, exVars
  <2> QED
    BY <1>0, <2>1, SameFlow
<1>4. CASE Flush
  BY <1>0, <1>4, FlushFlow, PushAstray DEF Flush, tradingVars, exVars
<1>5. CASE PollPop
  BY <1>0, <1>5, PopFlow DEF PollPop, tradingVars, exVars
<1>6. CASE LoopEnter \/ PollDone \/ ProcessorExit
  BY <1>0, <1>6, SameFlow
  DEF LoopEnter, PollDone, ProcessorExit, queueVars, tradingVars, exVars
<1>7. CASE MarketDataToBook
  BY <1>0, <1>7, SameFlow DEF MarketDataToBook, queueVars, exVars
<1>8. CASE MarketDataToExchange
  BY <1>0, <1>8, SameFlow
  DEF MarketDataToExchange, Exchange!UpdateMarketPrice, queueVars
<1>9. CASE ExchangeSweep /\ Exchange!SweepKeep /\ UNCHANGED loopVars
  BY <1>0, <1>9, SameFlow
  DEF ExchangeSweep, Exchange!SweepKeep, queueVars, loopVars
<1>10. CASE ExchangeSweep /\ Exchange!SweepEnd /\ EventDone
  <2>1. /\ outbox' = <<>> /\ Handling("sweep", "MarketData")
        /\ UNCHANGED <<queue, astray, resting, mmVars, moVars, omVars, pnlVars>>
    BY <1>10 DEF ExchangeSweep, Exchange!SweepEnd, queueVars
  <2>2. Flow({Head(batch)}, <<>>)
    BY <1>10, <2>1, DoneFlow
  <2>3. {Head(batch)} \in SUBSET {e \in Event : e.type = "MarketData"}
    BY <2>1, HeadStands
  <2> QED
    BY <2>1, <2>2, <2>3
<1> QED
  BY <1>0, <1>1, <1>2, <1>3, <1>4, <1>5, <1>6, <1>7, <1>8, <1>9, <1>10 DEF Quiet

-----------------------------------------------------------------------------
(* No order is stranded.                                                   *)

(* The events that will end an order, and where the order is to be found.   *)
Evidence(id) ==
  {e \in Event :
     \/ e.type = "ValidatedOrder" /\ e.order.id = id
     \/ /\ e.type = "ExecutionReport" /\ e.report.id = id
        /\ OM!Final(e.report.status)}
Traced(id) ==
  \/ ToSet(InFlight) \cap Evidence(id) # {}
  \/ Laid(id) # {}
  \/ id \in astray
TraceInv == \A o \in activeOrders : Traced(o.id)

LEMMA NextTraced ==
  \A id : Traced(id)' <=> \/ ToSet(InFlight') \cap Evidence(id) # {}
                          \/ Laid(id)' # {}
                          \/ id \in astray'
BY DEF Traced, Evidence, Event, OM!Final

LEMMA KeepTraced ==
  ASSUME NEW id, Traced(id), NEW gone, NEW new, Flow(gone, new),
         gone \cap Evidence(id) = {}, astray \subseteq astray',
         Laid(id) # {} => Laid(id)' # {}
  PROVE  Traced(id)'
<1>1. CASE ToSet(InFlight) \cap Evidence(id) # {}
  <2>1. PICK e \in ToSet(InFlight) \cap Evidence(id) : TRUE
    BY <1>1
  <2>2. e \in ToSet(InFlight') \/ Subject(e) \subseteq astray'
    BY <2>1 DEF Flow
  <2>3. Subject(e) = {id}
    BY <2>1 DEF Evidence, Subject
  <2> QED
    BY <2>1, <2>2, <2>3, NextTraced
<1> QED
  BY <1>1, NextTraced DEF Traced

(* A step that takes away no evidence of an order that stays active.        *)
LEMMA AllTraced ==
  ASSUME TraceInv, NEW gone, NEW new, Flow(gone, new), astray \subseteq astray',
         activeOrders' \subseteq activeOrders,
         \A o \in activeOrders' : gone \cap Evidence(o.id) = {},
         \A o \in activeOrders' : Laid(o.id) # {} => Laid(o.id)' # {}
  PROVE  TraceInv'
<1>1. ASSUME NEW o \in activeOrders' PROVE Traced(o.id)'
  <2>1. Traced(o.id)
    BY DEF TraceInv
  <2> QED
    BY <2>1, KeepTraced
<1> QED
  BY <1>1 DEF TraceInv

LEMMA StepTraced ==
  ASSUME TypeOK, TypeOK', TraceInv, [Next]_vars
  PROVE  TraceInv'
<1>1. CASE Quiet
  <2>1. PICK gone \in SUBSET {e \in Event : e.type = "MarketData"} :
          Flow(gone, <<>>)
    BY <1>1, QuietFlow
  <2>2. \A o \in activeOrders' : gone \cap Evidence(o.id) = {}
    BY DEF Evidence
  <2>3. astray \subseteq astray' /\ UNCHANGED <<resting, activeOrders>>
    BY <1>1, QuietFlow DEF omVars
  <2>4. \A o \in activeOrders' : Laid(o.id) # {} => Laid(o.id)' # {}
    BY <2>3, NextAfoot DEF Laid
  <2> QED
    BY <2>1, <2>2, <2>3, <2>4, AllTraced
<1>2. CASE \/ \E throttled \in BOOLEAN : MarketDataToMarketMaker(throttled)
           \/ \E trend \in Trends : MarketDataToMomentum(trend)
  <2>1. /\ outbox = <<>>
        /\ UNCHANGED <<batch, queue, astray, resting, activeOrders>>
    BY <1>2
    DEF MarketDataToMarketMaker, MarketDataToMomentum, Handling, queueVars,
        omVars, exVars
  <2>2. Flow({}, outbox')
    BY <2>1, EmitFlow
  <2>3. \A o \in activeOrders' : Laid(o.id) # {} => Laid(o.id)' # {}
    BY <2>1, NextAfoot DEF Laid
  <2> QED
    BY <2>1, <2>2, <2>3, AllTraced
<1>3. CASE SweepFills
  <2>1. PICK k \in 1 .. Len(resting), o \in OrderRequest, r \in ExecutionReport :
          /\ o = resting[k] /\ resting' = RemoveAt(resting, k)
          /\ r.id = o.id /\ r.status = "Filled" /\ outbox' = <<ReportEvent(r)>>
    BY <1>3, FillSends DEF SweepFills
  <2>2. /\ outbox = <<>> /\ UNCHANGED <<batch, queue, astray, activeOrders>>
    BY <1>3, FillSends DEF SweepFills, ExchangeSweep, queueVars, omVars
  <2>3. Flow({}, outbox') /\ ToSet(outbox') \subseteq ToSet(InFlight')
    BY <2>2, EmitFlow, RowPartsNext
  <2>4. ASSUME NEW a \in activeOrders, a.id = o.id PROVE Traced(a.id)'
    <3>1. ReportEvent(r) \in Evidence(a.id)
      BY <2>1, <2>4 DEF Evidence, ReportEvent, Event, OM!Final
    <3>2. ReportEvent(r) \in ToSet(InFlight')
      BY <2>1, <2>3, SingleOnce
    <3> QED
      BY <3>1, <3>2, NextTraced
  <2>5. ASSUME NEW a \in activeOrders, a.id # o.id PROVE Traced(a.id)'
    <3>1. PICK s \in Seq(OrderRequest) : s = resting
      BY DEF TypeOK, ExTypeOK
    <3>2. ToSet(s) = {s[k]} \cup ToSet(RemoveAt(s, k))
      BY <3>1, RemoveOnce
    <3>3. Laid(a.id) = Laid(a.id)'
      BY <2>1, <2>5, <3>1, <3>2, NextAfoot DEF Laid, OfId
    <3>4. Traced(a.id)
      BY DEF TraceInv
    <3> QED
      BY <2>2, <2>3, <3>3, <3>4, KeepTraced
  <2> QED
    BY <2>2, <2>4, <2>5 DEF TraceInv
<1>4. CASE HandleOrderRequest
  <2>1. PICK e \in Event, o \in OrderRequest :
          e = Head(batch) /\ o = e.order /\ e.type = "OrderRequest"
    BY <1>4, HeadStands DEF HandleOrderRequest
  <2>2. /\ Flow({e}, outbox') /\ ToSet(outbox') \subseteq ToSet(InFlight')
        /\ outbox = <<>> /\ UNCHANGED resting /\ astray \subseteq astray'
    BY <1>4, <2>1, DoneFlow DEF HandleOrderRequest, Handling, exVars
  <2>3. \A id : {e} \cap Evidence(id) = {}
    BY <2>1 DEF Evidence
  <2>4. ASSUME NEW a \in activeOrders PROVE Traced(a.id)'
    <3>1. Laid(a.id)' = Laid(a.id) /\ Traced(a.id)
      BY <2>2, NextAfoot DEF Laid, TraceInv
    <3> QED
      BY <2>2, <2>3, <3>1, KeepTraced
  <2>5. \/ UNCHANGED activeOrders
        \/ /\ outbox' = <<ValidatedEvent(o)>>
           /\ activeOrders' \subseteq activeOrders \cup {o}
    BY <1>4, <2>1, RequestSends
  <2>6. ASSUME outbox' = <<ValidatedEvent(o)>> PROVE Traced(o.id)'
    <3>1. ValidatedEvent(o) \in Evidence(o.id)
      BY DEF Evidence, ValidatedEvent, Event
    <3>2. ValidatedEvent(o) \in ToSet(InFlight')
      BY <2>2, <2>6, SingleOnce
    <3> QED
      BY <3>1, <3>2, NextTraced
  <2> QED
    BY <2>4, <2>5, <2>6 DEF TraceInv
<1>5. CASE HandleValidatedOrder
  <2>1. PICK e \in Event, o \in OrderRequest :
          e = Head(batch) /\ o = e.order /\ e.type = "ValidatedOrder"
    BY <1>5, HeadStands DEF HandleValidatedOrder
  <2>2. /\ Flow({e}, outbox') /\ ToSet(outbox') \subseteq ToSet(InFlight')
        /\ UNCHANGED <<activeOrders, astray>>
    BY <1>5, <2>1, DoneFlow DEF HandleValidatedOrder, omVars, queueVars
  <2>3. PICK r \in ExecutionReport :
          /\ r.id = o.id /\ outbox' = <<ReportEvent(r)>>
          /\ \/ r.status \in {"Filled", "Rejected"} /\ UNCHANGED resting
             \/ resting' = Append(resting, o)
    BY <1>5, <2>1, MatchSends
  <2>4. PICK s \in Seq(OrderRequest) : s = resting
    BY DEF TypeOK, ExTypeOK
  <2>5. ToSet(Append(s, o)) = ToSet(s) \cup {o}
    BY AppendOnce
  <2>6. ASSUME NEW a \in activeOrders, a.id = o.id PROVE Traced(a.id)'
    <3>1. CASE r.status \in {"Filled", "Rejected"}
      <4>1. ReportEvent(r) \in Evidence(a.id)
        BY <2>3, <2>6, <3>1 DEF Evidence, ReportEvent, Event, OM!Final
      <4>2. ReportEvent(r) \in ToSet(InFlight')
        BY <2>2, <2>3, SingleOnce
      <4> QED
        BY <4>1, <4>2, NextTraced
    <3>2. CASE resting' = Append(resting, o)
      <4>1. Laid(a.id)' # {}
        BY <2>4, <2>5, <2>6, <3>2, NextAfoot DEF OfId
      <4> QED
        BY <4>1, NextTraced
    <3> QED
      BY <2>3, <3>1, <3>2
  <2>7. ASSUME NEW a \in activeOrders, a.id # o.id PROVE Traced(a.id)'
    <3>1. Laid(a.id) # {} => Laid(a.id)' # {}
      BY <2>3, <2>4, <2>5, NextAfoot DEF Laid
    <3>2. {e} \cap Evidence(a.id) = {}
      BY <2>1, <2>7 DEF Evidence
    <3>3. Traced(a.id)
      BY DEF TraceInv
    <3> QED
      BY <2>2, <3>1, <3>2, <3>3, KeepTraced
  <2> QED
    BY <2>2, <2>6, <2>7 DEF TraceInv
<1>6. CASE HandleCancelOrder
  <2>1. PICK e \in Event : e = Head(batch) /\ e.type = "CancelOrder"
    BY <1>6, HeadStands DEF HandleCancelOrder
  <2>2. /\ Flow({e}, outbox') /\ UNCHANGED <<activeOrders, astray, resting>>
    BY <1>6, <2>1, DoneFlow, CancelSends DEF HandleCancelOrder, omVars, queueVars
  <2>3. \A o \in activeOrders' :
          /\ {e} \cap Evidence(o.id) = {}
          /\ Laid(o.id) # {} => Laid(o.id)' # {}
    BY <2>1, <2>2, NextAfoot DEF Evidence, Laid
  <2> QED
    BY <2>2, <2>3, AllTraced
<1>7. CASE HandleExecutionReport
  <2>1. PICK e \in Event, r \in ExecutionReport :
          e = Head(batch) /\ r = e.report /\ e.type = "ExecutionReport"
    BY <1>7, HeadStands DEF HandleExecutionReport
  <2>2. /\ Flow({e}, outbox') /\ UNCHANGED <<astray, resting>>
        /\ activeOrders' = {a \in activeOrders : a.id = r.id => ~OM!Final(r.status)}
    BY <1>7, <2>1, DoneFlow
    DEF HandleExecutionReport, OM!HandleExecutionReport, exVars, queueVars
  <2>3. \A o \in activeOrders' :
          /\ {e} \cap Evidence(o.id) = {}
          /\ Laid(o.id) # {} => Laid(o.id)' # {}
    BY <2>1, <2>2, NextAfoot DEF Evidence, Laid
  <2> QED
    BY <2>2, <2>3, AllTraced
<1> QED
  BY <1>1, <1>2, <1>3, <1>4, <1>5, <1>6, <1>7, StepKinds

(* While the strategies' ids do not meet, every order the order manager      *)
(* holds is on its way to the exchange, rests there, has its final report    *)
(* under way, or lost one of its events to a full queue.                    *)
THEOREM NoneStranded == Spec /\ []IdsApart => []NothingStranded
<1>1. Init => TraceInv
  BY DEF Init, OM!Init, TraceInv
<1>2. TypeOK /\ TypeOK' /\ TraceInv /\ [Next]_vars => TraceInv'
  BY StepTraced
<1>3. TypeOK /\ LifeInv /\ TraceInv => NothingStranded
  <2> SUFFICES ASSUME TypeOK, LifeInv, TraceInv, NEW o \in activeOrders
      PROVE  \/ StageOf(o.id) \in {"validated", "resting"}
             \/ \E e \in ToSet(InFlight) :
                  e.type = "ExecutionReport" /\ e.report.id = o.id
                    /\ OM!Final(e.report.status)
             \/ o.id \in astray
    BY DEF NothingStranded
  <2>1. o.id \in Nat /\ Traced(o.id)
    BY DEF TypeOK, OmTypeOK, OrderRequest, TraceInv
  <2>2. ASSUME NEW e \in ToSet(InFlight) \cap Evidence(o.id), e.type = "ValidatedOrder"
        PROVE  StageOf(o.id) = "validated"
    <3>1. e \in Afoot(o.id)
      BY <2>2 DEF Afoot, Standing, StandsFor, Evidence
    <3>2. StageOf(o.id) = EventStage[e.type]
      BY <2>1, <3>1, StageIs
    <3> QED
      BY <2>2, <3>2 DEF EventStage
  <2>3. Laid(o.id) # {} => StageOf(o.id) = "resting"
    BY <2>1, StageIs
  <2> QED
    BY <2>1, <2>2, <2>3 DEF Traced, Evidence
<1> QED
  BY <1>1, <1>2, <1>3, TypeCorrect, LifeInvHolds, PTL DEF Spec

-----------------------------------------------------------------------------
(* The cancellations under way.                                            *)

CancelsOf(id) == {e \in Event : e.type = "CancelOrder" /\ e.id = id}
CancelInv ==
  /\ \A id \in Nat :
       /\ Once(InFlight, CancelsOf(id))
       /\ ToSet(InFlight) \cap CancelsOf(id) # {} =>
            id < mmNextId /\ id \notin ToSet(mmActive)
  /\ \A i \in DOMAIN mmActive : mmActive[i] < mmNextId
  /\ \A i, j \in DOMAIN mmActive : mmActive[i] = mmActive[j] => i = j

LEMMA NextCancelsOf == \A id : CancelsOf(id)' = CancelsOf(id)
BY DEF CancelsOf, Event

LEMMA FlowCancels ==
  ASSUME CancelInv, NEW gone, NEW new, Flow(gone, new), NEW id \in Nat
  PROVE  /\ ToSet(InFlight') \cap CancelsOf(id) \subseteq
              (ToSet(InFlight) \cup ToSet(new)) \cap CancelsOf(id)
         /\ /\ Once(new, CancelsOf(id))
            /\ None(new, CancelsOf(id)) \/ ToSet(InFlight) \cap CancelsOf(id) = {}
            => Once(InFlight', CancelsOf(id))
<1>1. CancelsOf(id) \in SUBSET OrderEvent /\ Once(InFlight, CancelsOf(id))
  BY DEF CancelsOf, OrderEvent, CancelInv
<1> QED
  BY <1>1 DEF Flow

(* A step that cancels nothing.                                            *)
LEMMA KeepCancels ==
  ASSUME CancelInv, NEW gone, NEW new, Flow(gone, new), UNCHANGED mmVars,
         \A e \in ToSet(new) : e.type # "CancelOrder"
  PROVE  CancelInv'
<1>1. ASSUME NEW id \in Nat
      PROVE  /\ Once(InFlight', CancelsOf(id))
             /\ ToSet(InFlight') \cap CancelsOf(id) # {} =>
                  id < mmNextId /\ id \notin ToSet(mmActive)
  <2>1. None(new, CancelsOf(id)) /\ Once(new, CancelsOf(id))
    BY DEF None, Once, ToSet, CancelsOf
  <2> QED
    BY <2>1, FlowCancels DEF CancelInv, None
<1> QED
  BY <1>1, NextCancelsOf DEF CancelInv, mmVars

(* The cancellations of a round of quotes: one of each order that stood.    *)
LEMMA RoundCancels ==
  ASSUME NEW old \in Seq(Nat), \A i, j \in DOMAIN old : old[i] = old[j] => i = j,
         NEW sent \in Seq(OrderRequest), NEW id \in Nat
  PROVE  LET all == [i \in DOMAIN old |-> CancelEvent(old[i])]
                      \o [i \in DOMAIN sent |-> RequestEvent(sent[i])]
         IN  /\ Once(all, CancelsOf(id))
             /\ ~None(all, CancelsOf(id)) => id \in ToSet(old)
<1> DEFINE cancels == [i \in DOMAIN old |-> CancelEvent(old[i])]
           requests == [i \in DOMAIN sent |-> RequestEvent(sent[i])]
<1>1. cancels \in Seq(Event) /\ requests \in Seq(Event)
  BY SentAreEvents
<1>2. \A i \in DOMAIN cancels : cancels[i] \in CancelsOf(id) => old[i] = id
  BY DEF CancelEvent, CancelsOf
<1>3. None(requests, CancelsOf(id)) /\ Once(requests, CancelsOf(id))
  BY DEF RequestEvent, CancelsOf, None, Once, ToSet
<1>4. Once(cancels, CancelsOf(id))
  BY <1>2 DEF Once
<1>5. ~None(cancels, CancelsOf(id)) => id \in ToSet(old)
  BY <1>2 DEF None, ToSet
<1> HIDE DEF cancels, requests
<1>6. /\ ToSet(cancels \o requests) = ToSet(cancels) \cup ToSet(requests)
      /\ Once(cancels \o requests, CancelsOf(id)) <=>
           /\ Once(cancels, CancelsOf(id)) /\ Once(requests, CancelsOf(id))
           /\ None(cancels, CancelsOf(id)) \/ None(requests, CancelsOf(id))
  BY <1>1, ConcatOnce
<1> QED
  BY <1>3, <1>4, <1>5, <1>6 DEF None, cancels, requests

LEMMA RoundKeepsCancels ==
  ASSUME TypeOK, TypeOK', CancelInv, outbox = <<>>, UNCHANGED <<batch, queue>>,
         NEW sent \in Seq(OrderRequest), QuoteRound(sent)
  PROVE  CancelInv'
<1>1. PICK old \in Seq(Nat), first \in Nat : old = mmActive /\ first = mmNextId
  BY DEF TypeOK, MMTypeOK
<1>2. /\ \A i, j \in DOMAIN old : old[i] = old[j] => i = j
      /\ \A i \in DOMAIN old : old[i] < first
  BY <1>1 DEF CancelInv
<1>3. /\ outbox' = [i \in DOMAIN old |-> CancelEvent(old[i])]
                     \o [i \in DOMAIN sent |-> RequestEvent(sent[i])]
      /\ \A i \in DOMAIN sent : sent[i].id = first + i - 1
      /\ mmActive' = [i \in DOMAIN sent |-> sent[i].id]
      /\ mmNextId' = first + Len(sent)
  BY <1>1 DEF QuoteRound
<1>4. Flow({}, outbox')
  BY EmitFlow
<1>5. /\ DOMAIN sent = 1 .. Len(sent) /\ Len(sent) \in Nat
      /\ DOMAIN mmActive' = DOMAIN sent
      /\ \A i \in DOMAIN sent : mmActive'[i] = first + i - 1
  BY <1>3
<1>6. /\ \A i \in DOMAIN mmActive' : mmActive'[i] < mmNextId'
      /\ \A i, j \in DOMAIN mmActive' : mmActive'[i] = mmActive'[j] => i = j
      /\ \A id \in ToSet(mmActive') : first <= id
  BY <1>3, <1>5 DEF ToSet
<1>7. ASSUME NEW id \in Nat
      PROVE  /\ Once(InFlight', CancelsOf(id))
             /\ ToSet(InFlight') \cap CancelsOf(id) # {} =>
                  id < mmNextId' /\ id \notin ToSet(mmActive')
  <2>1. /\ Once(outbox', CancelsOf(id))
        /\ ~None(outbox', CancelsOf(id)) => id \in ToSet(old)
    BY <1>2, <1>3, RoundCancels
  <2>2. ToSet(InFlight) \cap CancelsOf(id) # {} => id < first /\ id \notin ToSet(old)
    BY <1>1 DEF CancelInv
  <2>3. id \in ToSet(old) => id < first
    BY <1>2 DEF ToSet
  <2>4. id < first => id < mmNextId' /\ id \notin ToSet(mmActive')
    BY <1>3, <1>5, <1>6
  <2> QED
    BY <1>4, <2>1, <2>2, <2>3, <2>4, FlowCancels DEF None
<1> QED
  BY <1>6, <1>7, NextCancelsOf DEF CancelInv

LEMMA StepCancels ==
  ASSUME TypeOK, TypeOK', CancelInv, [Next]_vars
  PROVE  CancelInv'
<1>1. CASE Quiet
  BY <1>1, QuietFlow, KeepCancels, EmptyOnce
<1>2. ASSUME NEW throttled \in BOOLEAN, MarketDataToMarketMaker(throttled)
      PROVE  CancelInv'
  <2>1. /\ outbox = <<>> /\ UNCHANGED <<batch, queue>>
        /\ \/ UNCHANGED <<mmActive, mmNextId, outbox>>
           \/ \E sent \in Seq(OrderRequest) : QuoteRound(sent)
    BY <1>2, QuoteSends
  <2>2. CASE UNCHANGED <<mmActive, mmNextId, outbox>>
    <3>1. InFlight' = InFlight
      BY <2>1, <2>2 DEF InFlight
    <3> QED
      BY <2>2, <3>1, NextCancelsOf DEF CancelInv
  <2> QED
    BY <2>1, <2>2, RoundKeepsCancels
<1>3. ASSUME NEW trend \in Trends, MarketDataToMomentum(trend)
      PROVE  CancelInv'
  <2>1. /\ outbox = <<>> /\ UNCHANGED <<batch, queue, mmVars>>
        /\ \/ outbox' = <<>>
           \/ \E o \in OrderRequest : outbox' = <<RequestEvent(o)>>
    BY <1>3, MomentumSends DEF MarketDataToMomentum
  <2>2. \A e \in ToSet(outbox') : e.type # "CancelOrder"
    BY <2>1, EmptyOnce, SingleOnce DEF RequestEvent
  <2> QED
    BY <2>1, <2>2, EmitFlow, KeepCancels
<1>4. CASE SweepFills
  <2>1. /\ outbox = <<>> /\ UNCHANGED <<batch, queue, mmVars>>
        /\ \E r \in ExecutionReport : outbox' = <<ReportEvent(r)>>
    BY <1>4, FillSends DEF SweepFills, ExchangeSweep
  <2>2. \A e \in ToSet(outbox') : e.type # "CancelOrder"
    BY <2>1, SingleOnce DEF ReportEvent
  <2> QED
    BY <2>1, <2>2, EmitFlow, KeepCancels
<1>5. CASE \/ HandleOrderRequest \/ HandleValidatedOrder
           \/ HandleCancelOrder \/ HandleExecutionReport
  <2>1. Flow({Head(batch)}, outbox') /\ UNCHANGED mmVars
    BY <1>5, DoneFlow
    DEF HandleOrderRequest, HandleValidatedOrder, HandleCancelOrder,
        HandleExecutionReport, queueVars
  <2>2. \/ outbox' = <<>>
        \/ \E o \in OrderRequest : outbox' = <<ValidatedEvent(o)>>
        \/ \E r \in ExecutionReport : outbox' = <<ReportEvent(r)>>
    <3>1. CASE HandleOrderRequest
      BY <3>1, HeadStands, RequestSends DEF HandleOrderRequest
    <3>2. CASE HandleExecutionReport
      BY <3>2 DEF HandleExecutionReport, Handling
    <3> QED
      BY <1>5, <3>1, <3>2, MatchSends, CancelSends
  <2>3. \A e \in ToSet(outbox') : e.type # "CancelOrder"
    BY <2>2, EmptyOnce, SingleOnce DEF ValidatedEvent, ReportEvent
  <2> QED
    BY <2>1, <2>3, KeepCancels
<1> QED
  BY <1>1, <1>2, <1>3, <1>4, <1>5, StepKinds

(* The cancellations under way are of different orders, none of them the    *)
(* market maker's current ones: it cancels what it replaces, once.          *)
THEOREM CancelsReplaced == Spec => []CancelsAreOfReplaced
<1>1. Init => CancelInv
  <2>1. Init => InFlight = <<>> \o <<>> \o <<>> /\ mmActive = <<>>
    BY DEF Init, InFlight, MM!Init, Exchange!Init
  <2> QED
    BY <2>1, EmptyOnce DEF CancelInv
<1>2. TypeOK /\ TypeOK' /\ CancelInv /\ [Next]_vars => CancelInv'
  BY StepCancels
<1>3. TypeOK /\ CancelInv => CancelsAreOfReplaced
  <2> SUFFICES ASSUME TypeOK, CancelInv,
                      NEW i \in DOMAIN InFlight, NEW j \in DOMAIN InFlight,
                      InFlight[i].type = "CancelOrder",
                      InFlight[j].type = "CancelOrder"
               PROVE  /\ InFlight[i].id \notin ToSet(mmActive)
                      /\ InFlight[i].id = InFlight[j].id => i = j
    BY DEF CancelsAreOfReplaced
  <2>1. InFlight[i] \in Event /\ InFlight[j] \in Event
    BY RowParts
  <2>2. InFlight[i].id \in Nat /\ InFlight[i] \in CancelsOf(InFlight[i].id)
    BY <2>1 DEF Event, CancelsOf
  <2>3. InFlight[j] \in CancelsOf(InFlight[j].id)
    BY <2>1 DEF CancelsOf
  <2>4. InFlight[i] \in ToSet(InFlight)
    BY DEF ToSet
  <2> QED
    BY <2>2, <2>3, <2>4 DEF CancelInv, Once
<1> QED
  BY <1>1, <1>2, <1>3, TypeCorrect, PTL DEF Spec

-----------------------------------------------------------------------------
(* What the events and the resting copies of an order say of it.            *)

(* The order or the report of an event.                                     *)
Details(e) == IF e.type = "ExecutionReport" THEN e.report ELSE e.order

(* Momentum orders are those from MoFirstId on: of strategy 2, limit orders   *)
(* of MoQuantity lots.                                                     *)
Marked(id, d) ==
  /\ d.strategy = 2 <=> id >= MoFirstId
  /\ id >= MoFirstId => d.quantity = MoQuantity
MarkedEvent(id, e) ==
  /\ Marked(id, Details(e))
  /\ e.type \in {"OrderRequest", "ValidatedOrder"} => e.order.type = "Limit"
MarkInv ==
  \A id \in Nat :
    /\ \A e \in Afoot(id) : MarkedEvent(id, e)
    /\ \A o \in Laid(id) : Marked(id, o)

(* One event, or one resting copy, and no other.                            *)
LEMMA AloneAfoot ==
  ASSUME LifeInv, NEW id \in Nat, NEW e \in Afoot(id)
  PROVE  Afoot(id) = {e} /\ Laid(id) = {}
BY DEF LifeInv, LifeOf, Afoot, Once, ToSet

LEMMA AloneLaid ==
  ASSUME LifeInv, NEW id \in Nat, NEW o \in Laid(id)
  PROVE  Laid(id) = {o} /\ Afoot(id) = {}
BY DEF LifeInv, LifeOf, Laid, Once, ToSet

LEMMA LaidRemoved ==
  ASSUME TypeOK, LifeInv, NEW k \in 1 .. Len(resting), NEW o \in OrderRequest,
         o = resting[k], resting' = RemoveAt(resting, k)
  PROVE  /\ o \in Laid(o.id)
         /\ \A id \in Nat : Laid(id)' = IF o.id = id THEN {} ELSE Laid(id)
<1>1. PICK s \in Seq(OrderRequest) : s = resting
  BY DEF TypeOK, ExTypeOK
<1>2. /\ ToSet(s) = {s[k]} \cup ToSet(RemoveAt(s, k))
      /\ \A P : Once(s, P) =>
           Once(RemoveAt(s, k), P) /\ (None(RemoveAt(s, k), P) \/ s[k] \notin P)
  BY <1>1, RemoveOnce
<1>3. o \in Laid(o.id)
  BY <1>1, <1>2 DEF Laid, OfId
<1>4. ASSUME NEW id \in Nat
      PROVE  Laid(id)' = IF o.id = id THEN {} ELSE Laid(id)
  <2>1. CASE o.id = id
    <3>1. Once(s, OfId(id)) /\ s[k] \in OfId(id)
      BY <1>1, <2>1 DEF LifeInv, LifeOf, OfId
    <3> QED
      BY <1>1, <1>2, <2>1, <3>1, NextAfoot DEF None
  <2>2. CASE o.id # id
    BY <1>1, <1>2, <2>2, NextAfoot DEF Laid, OfId
  <2> QED
    BY <2>1, <2>2
<1> QED
  BY <1>3, <1>4

LEMMA LaidAdded ==
  ASSUME TypeOK, NEW o \in OrderRequest, resting' = Append(resting, o)
  PROVE  \A id \in Nat :
           Laid(id)' = IF o.id = id THEN Laid(id) \cup {o} ELSE Laid(id)
<1>1. PICK s \in Seq(OrderRequest) : s = resting
  BY DEF TypeOK, ExTypeOK
<1>2. ToSet(Append(s, o)) = ToSet(s) \cup {o}
  BY AppendOnce
<1> QED
  BY <1>1, <1>2, NextAfoot DEF Laid, OfId

LEMMA LaidSame ==
  ASSUME UNCHANGED resting
  PROVE  \A id \in Nat : Laid(id)' = Laid(id)
BY NextAfoot DEF Laid

LEMMA NextMarkInv ==
  MarkInv' <=> \A id \in Nat :
                 /\ \A e \in Afoot(id)' : MarkedEvent(id, e)
                 /\ \A o \in Laid(id)' : Marked(id, o)
BY DEF MarkInv, MarkedEvent, Marked, Details

LEMMA KeepMarks ==
  ASSUME LifeInv, MarkInv, NEW gone, NEW new, Flow(gone, new),
         \A id \in Nat :
           /\ \A e \in ToSet(new) \cap Standing(id) : MarkedEvent(id, e)
           /\ \A o \in Laid(id)' : o \in Laid(id) \/ Marked(id, o)
  PROVE  MarkInv'
<1>1. ASSUME NEW id \in Nat
      PROVE  /\ \A e \in Afoot(id)' : MarkedEvent(id, e)
             /\ \A o \in Laid(id)' : Marked(id, o)
  <2>1. Afoot(id)' \subseteq Afoot(id) \cup (ToSet(new) \cap Standing(id))
    BY FlowLife
  <2> QED
    BY <2>1 DEF MarkInv
<1> QED
  BY <1>1, NextMarkInv

(* The events of a round of quotes are cancellations, which stand for no    *)
(* order, and requests of the market maker's orders.                        *)
LEMMA RoundEvents ==
  ASSUME TypeOK, NEW sent \in Seq(OrderRequest), QuoteRound(sent)
  PROVE  \A id \in Nat : \A e \in ToSet(outbox') \cap Standing(id) :
           \E o \in OrderRequest :
             /\ e = RequestEvent(o) /\ o.id = id /\ id < mmNextId'
             /\ o.strategy = 1 /\ o.type = "Limit"
<1> DEFINE cancels == [i \in DOMAIN mmActive |-> CancelEvent(mmActive[i])]
           requests == [i \in DOMAIN sent |-> RequestEvent(sent[i])]
<1>1. cancels \in Seq(Event) /\ requests \in Seq(Event)
  BY SentAreEvents DEF TypeOK, MMTypeOK
<1>2. /\ DOMAIN sent = 1 .. Len(sent) /\ Len(sent) \in Nat
      /\ \A i \in DOMAIN sent :
           /\ sent[i] \in OrderRequest
           /\ sent[i].id = mmNextId + i - 1
           /\ sent[i].type = "Limit" /\ sent[i].strategy = 1
      /\ mmNextId' = mmNextId + Len(sent) /\ mmNextId \in Nat
      /\ outbox' = cancels \o requests
  BY DEF QuoteRound, TypeOK, MMTypeOK
<1>3. \A i \in DOMAIN sent : sent[i].id < mmNextId'
  BY <1>2
<1>4. ASSUME NEW id \in Nat, NEW e \in ToSet(cancels) PROVE e \notin Standing(id)
  <2>1. PICK i \in DOMAIN mmActive : e = CancelEvent(mmActive[i])
    BY <1>4 DEF ToSet
  <2>2. mmActive[i] \in Nat
    BY DEF TypeOK, MMTypeOK
  <2> QED
    BY <2>1, <2>2, StandFacts
<1>5. ASSUME NEW id \in Nat, NEW e \in ToSet(requests), e \in Standing(id)
      PROVE  \E o \in OrderRequest :
               /\ e = RequestEvent(o) /\ o.id = id /\ id < mmNextId'
               /\ o.strategy = 1 /\ o.type = "Limit"
  <2>1. PICK i \in DOMAIN sent : e = RequestEvent(sent[i])
    BY <1>5 DEF ToSet
  <2>2. sent[i] \in OrderRequest
    BY <1>2
  <2>3. sent[i].id = id
    BY <1>5, <2>1, <2>2, StandFacts
  <2> QED
    BY <1>2, <1>3, <2>1, <2>2, <2>3
<1> HIDE DEF cancels, requests
<1>6. ToSet(cancels \o requests) = ToSet(cancels) \cup ToSet(requests)
  BY <1>1, ConcatOnce
<1> QED
  BY <1>2, <1>4, <1>5, <1>6

LEMMA StepMarks ==
  ASSUME TypeOK, TypeOK', LifeInv, MarkInv, IdsApart', [Next]_vars
  PROVE  MarkInv'
<1>1. CASE Quiet
  <2>1. UNCHANGED resting /\ \E gone : Flow(gone, <<>>)
    BY <1>1, QuietFlow
  <2>2. \A id \in Nat : Laid(id)' = Laid(id)
    BY <2>1, LaidSame
  <2> QED
    BY <2>1, <2>2, KeepMarks, EmptyOnce
<1>2. ASSUME NEW throttled \in BOOLEAN, MarketDataToMarketMaker(throttled)
      PROVE  MarkInv'
  <2>1. /\ outbox = <<>> /\ UNCHANGED <<batch, queue, resting>>
        /\ \/ outbox' = <<>>
           \/ \E sent \in Seq(OrderRequest) : QuoteRound(sent)
    BY <1>2, QuoteSends
  <2>2. \A id \in Nat : \A e \in ToSet(outbox') \cap Standing(id) :
          MarkedEvent(id, e)
    <3>1. CASE outbox' = <<>>
      BY <3>1, EmptyOnce
    <3>2. ASSUME NEW sent \in Seq(OrderRequest), QuoteRound(sent),
                 NEW id \in Nat, NEW e \in ToSet(outbox') \cap Standing(id)
          PROVE  MarkedEvent(id, e)
      <4>1. PICK o \in OrderRequest :
              /\ e = RequestEvent(o) /\ o.id = id /\ id < mmNextId'
              /\ o.strategy = 1 /\ o.type = "Limit"
        BY <3>2, RoundEvents
      <4>2. ~(id >= MoFirstId)
        <5>1. mmNextId' \in Nat /\ {MoFirstId} \subseteq Nat
          BY ConstantAssumption DEF TypeOK, MMTypeOK
        <5>2. mmNextId' <= MoFirstId
          BY DEF IdsApart
        <5> QED
          BY <4>1, <5>1, <5>2
      <4>3. e.type = "OrderRequest" /\ e.order = o
        BY <4>1 DEF RequestEvent
      <4> QED
        BY <4>1, <4>2, <4>3 DEF MarkedEvent, Marked, Details
    <3> QED
      BY <2>1, <3>1, <3>2
  <2>3. Flow({}, outbox')
    BY <2>1, EmitFlow
  <2> QED
    BY <2>1, <2>2, <2>3, LaidSame, KeepMarks
<1>3. ASSUME NEW trend \in Trends, MarketDataToMomentum(trend)
      PROVE  MarkInv'
  <2>1. /\ outbox = <<>> /\ UNCHANGED <<batch, queue, resting>>
        /\ \/ outbox' = <<>>
           \/ \E o \in OrderRequest :
                /\ o.id = moNextId /\ o.strategy = 2 /\ o.type = "Limit"
                /\ o.quantity = MoQuantity /\ outbox' = <<RequestEvent(o)>>
    BY <1>3, MomentumSends
  <2>2. ASSUME NEW o \in OrderRequest, o.id = moNextId, o.strategy = 2,
               o.type = "Limit", o.quantity = MoQuantity,
               outbox' = <<RequestEvent(o)>>,
               NEW id \in Nat, NEW e \in ToSet(outbox') \cap Standing(id)
        PROVE  MarkedEvent(id, e)
    <3>1. e = RequestEvent(o) /\ e \in Standing(id)
      BY <2>2, SingleOnce
    <3>2. o.id = id
      BY <3>1, StandFacts
    <3>3. id >= MoFirstId
      BY <2>2, <3>2 DEF LifeInv
    <3>4. e.type = "OrderRequest" /\ e.order = o
      BY <3>1 DEF RequestEvent
    <3> QED
      BY <2>2, <3>3, <3>4 DEF MarkedEvent, Marked, Details
  <2>3. Flow({}, outbox')
    BY <2>1, EmitFlow
  <2>4. \A id \in Nat : \A e \in ToSet(outbox') \cap Standing(id) :
          MarkedEvent(id, e)
    BY <2>1, <2>2, EmptyOnce
  <2> QED
    BY <2>1, <2>3, <2>4, LaidSame, KeepMarks
<1>4. CASE SweepFills
  <2>1. PICK k \in 1 .. Len(resting), o \in OrderRequest, r \in ExecutionReport :
          /\ o = resting[k] /\ resting' = RemoveAt(resting, k)
          /\ r.id = o.id /\ r.strategy = o.strategy /\ r.quantity = o.quantity
          /\ outbox' = <<ReportEvent(r)>>
    BY <1>4, FillSends DEF SweepFills
  <2>2. outbox = <<>> /\ UNCHANGED <<batch, queue>>
    BY <1>4, FillSends DEF SweepFills
  <2>3. Flow({}, outbox')
    BY <2>2, EmitFlow
  <2>4. /\ o \in Laid(o.id) /\ o.id \in Nat
        /\ \A id \in Nat : Laid(id)' \subseteq Laid(id)
    BY <2>1, LaidRemoved DEF OrderRequest
  <2>5. ASSUME NEW id \in Nat, NEW e \in ToSet(outbox') \cap Standing(id)
        PROVE  MarkedEvent(id, e)
    <3>1. e = ReportEvent(r) /\ e \in Standing(id)
      BY <2>1, SingleOnce
    <3>2. id = o.id
      BY <2>1, <3>1, StandFacts
    <3>3. Marked(id, o)
      BY <2>4, <3>2 DEF MarkInv
    <3>4. e.type = "ExecutionReport" /\ e.report = r
      BY <3>1 DEF ReportEvent
    <3> QED
      BY <2>1, <3>3, <3>4 DEF MarkedEvent, Marked, Details
  <2> QED
    BY <2>3, <2>4, <2>5, KeepMarks
<1>5. CASE HandleOrderRequest
  <2>1. PICK e \in Event, o \in OrderRequest :
          /\ e = Head(batch) /\ o = e.order /\ e.type = "OrderRequest"
          /\ e \in Afoot(o.id) /\ o.id \in Nat
    BY <1>5, HeadStands DEF HandleOrderRequest, OrderRequest
  <2>2. Flow({e}, outbox') /\ UNCHANGED resting
    BY <1>5, <2>1, DoneFlow DEF HandleOrderRequest, exVars
  <2>3. outbox' = <<>> \/ outbox' = <<ValidatedEvent(o)>>
    BY <1>5, <2>1, RequestSends
  <2>4. Marked(o.id, o) /\ o.type = "Limit"
    BY <2>1 DEF MarkInv, MarkedEvent, Details
  <2>5. ASSUME NEW id \in Nat, NEW n \in ToSet(outbox') \cap Standing(id)
        PROVE  MarkedEvent(id, n)
    <3>1. n = ValidatedEvent(o) /\ n \in Standing(id)
      BY <2>3, EmptyOnce, SingleOnce
    <3>2. id = o.id
      BY <3>1, StandFacts
    <3>3. n.type = "ValidatedOrder" /\ n.order = o
      BY <3>1 DEF ValidatedEvent
    <3> QED
      BY <2>4, <3>2, <3>3 DEF MarkedEvent, Details
  <2> QED
    BY <2>2, <2>5, LaidSame, KeepMarks
<1>6. CASE HandleValidatedOrder
  <2>1. PICK e \in Event, o \in OrderRequest :
          /\ e = Head(batch) /\ o = e.order /\ e.type = "ValidatedOrder"
          /\ e \in Afoot(o.id) /\ o.id \in Nat
    BY <1>6, HeadStands DEF HandleValidatedOrder, OrderRequest
  <2>2. Flow({e}, outbox')
    BY <1>6, <2>1, DoneFlow DEF HandleValidatedOrder, queueVars
  <2>3. PICK r \in ExecutionReport :
          /\ r.id = o.id /\ r.strategy = o.strategy
          /\ outbox' = <<ReportEvent(r)>>
          /\ r.status = "Filled" => r.quantity = o.quantity
          /\ UNCHANGED resting \/ resting' = Append(resting, o)
    BY <1>6, <2>1, MatchSends
  <2>4. Marked(o.id, o)
    BY <2>1 DEF MarkInv, MarkedEvent, Details
  <2>5. ASSUME NEW id \in Nat, NEW n \in ToSet(outbox') \cap Standing(id)
        PROVE  MarkedEvent(id, n)
    <3>1. n = ReportEvent(r) /\ n \in Standing(id)
      BY <2>3, SingleOnce
    <3>2. id = o.id /\ r.status = "Filled"
      BY <2>3, <3>1, StandFacts
    <3>3. n.type = "ExecutionReport" /\ n.report = r
      BY <3>1 DEF ReportEvent
    <3> QED
      BY <2>3, <2>4, <3>2, <3>3 DEF MarkedEvent, Marked, Details
  <2>6. ASSUME NEW id \in Nat, NEW a \in Laid(id)'
        PROVE  a \in Laid(id) \/ Marked(id, a)
    BY <2>3, <2>4, LaidSame, LaidAdded
  <2> QED
    BY <2>2, <2>5, <2>6, KeepMarks
<1>7. CASE HandleCancelOrder
  <2>1. Flow({Head(batch)}, outbox') /\ UNCHANGED resting
    BY <1>7, DoneFlow, CancelSends DEF HandleCancelOrder, queueVars
  <2>2. PICK r \in ExecutionReport :
          r.status = "Cancelled" /\ outbox' = <<ReportEvent(r)>>
    BY <1>7, CancelSends
  <2>3. \A id \in Nat : ToSet(outbox') \cap Standing(id) = {}
    BY <2>2, SingleOnce, StandFacts
  <2> QED
    BY <2>1, <2>3, LaidSame, KeepMarks
<1>8. CASE HandleExecutionReport
  <2>1. Flow({Head(batch)}, outbox') /\ UNCHANGED resting /\ outbox' = <<>>
    BY <1>8, DoneFlow DEF HandleExecutionReport, Handling, exVars, queueVars
  <2> QED
    BY <2>1, EmptyOnce, LaidSame, KeepMarks
<1> QED
  BY <1>1, <1>2, <1>3, <1>4, <1>5, <1>6, <1>7, <1>8, StepKinds

(* As long as the two strategies' ids do not meet.                          *)
LEMMA MarksHold == Spec /\ []IdsApart => []MarkInv
<1>1. Init => MarkInv
  <2>1. Init => InFlight = <<>> \o <<>> \o <<>> /\ resting = <<>>
    BY DEF Init, InFlight, Exchange!Init
  <2> QED
    BY <2>1, EmptyOnce DEF MarkInv, Afoot, Laid
<1>2. TypeOK /\ TypeOK' /\ LifeInv /\ MarkInv /\ IdsApart' /\ [Next]_vars
      => MarkInv'
  BY StepMarks
<1> QED
  BY <1>1, <1>2, TypeCorrect, LifeInvHolds, PTL DEF Spec

-----------------------------------------------------------------------------
(* The momentum strategy's flag, its orders under way, and its position.    *)

(* The momentum orders on one side that were sent and are not reported, and  *)
(* the account they keep with the position, unless one went astray.          *)
On(id, side) ==
  \/ \E e \in Afoot(id) : Details(e).side = side
  \/ \E o \in Laid(id) : o.side = side
Under(side) == {id \in MoFirstId .. moNextId - 1 : On(id, side)}
Lost == \E id \in astray : id >= MoFirstId
Balanced ==
  position[2] + MoQuantity * (Cardinality(Under("Buy")) - Cardinality(Under("Sell")))
    = IF moOpen THEN MoQuantity ELSE 0
FlagInv == Lost \/ Balanced

LEMMA NextOn ==
  \A id, side : On(id, side)' <=> \/ \E e \in Afoot(id)' : Details(e).side = side
                                  \/ \E o \in Laid(id)' : o.side = side
BY DEF On, Details

LEMMA UnderFinite ==
  ASSUME TypeOK
  PROVE  /\ IsFiniteSet(Under("Buy")) /\ IsFiniteSet(Under("Sell"))
         /\ Cardinality(Under("Buy")) \in Nat /\ Cardinality(Under("Sell")) \in Nat
<1>1. PICK a \in Int, b \in Int : a = MoFirstId /\ b = moNextId - 1
  BY ConstantAssumption DEF TypeOK, MoTypeOK
<1>2. IsFiniteSet(a .. b)
  BY FS_Interval
<1>3. ASSUME NEW side
      PROVE  IsFiniteSet(Under(side)) /\ Cardinality(Under(side)) \in Nat
  <2>1. Under(side) \in SUBSET (a .. b)
    BY <1>1 DEF Under
  <2>2. IsFiniteSet(Under(side))
    BY <1>2, <2>1, FS_Subset
  <2> QED
    BY <2>2, FS_CardinalityType
<1> QED
  BY <1>3

(* When nothing of the momentum strategy is lost, its events stay.          *)
LEMMA FlowOn ==
  ASSUME LifeInv, NEW gone, NEW new, Flow(gone, new), ~Lost',
         NEW id \in Nat, id >= MoFirstId
  PROVE  Afoot(id)' = (Afoot(id) \ gone) \cup (ToSet(new) \cap Standing(id))
<1>1. Afoot(id)' \subseteq (Afoot(id) \ gone) \cup (ToSet(new) \cap Standing(id))
  BY FlowLife
<1>2. ASSUME NEW e \in (Afoot(id) \ gone) \cup (ToSet(new) \cap Standing(id))
      PROVE  e \in Afoot(id)'
  <2>1. e \in (ToSet(InFlight) \ gone) \cup ToSet(new) /\ e \in Standing(id)
    BY <1>2 DEF Afoot
  <2>2. e \in ToSet(InFlight') \/ Subject(e) \subseteq astray'
    BY <2>1 DEF Flow
  <2>3. Subject(e) = {id}
    BY <2>1 DEF Standing, StandsFor, Subject
  <2>4. e \in ToSet(InFlight')
    BY <2>2, <2>3 DEF Lost
  <2> QED
    BY <2>1, <2>4, NextAfoot
<1> QED
  BY <1>1, <1>2

(* An order nothing happens to.                                            *)
LEMMA OnKept ==
  ASSUME LifeInv, NEW gone, NEW new, Flow(gone, new), ~Lost',
         NEW id \in Nat, id >= MoFirstId, gone \cap Standing(id) = {},
         None(new, Standing(id)), Laid(id)' = Laid(id)
  PROVE  \A side : On(id, side)' <=> On(id, side)
<1>1. Afoot(id)' = Afoot(id)
  BY FlowOn DEF None, Afoot
<1> QED
  BY <1>1, NextOn DEF On

(* An order that moves on, on the same side.                                *)
LEMMA OnMoves ==
  ASSUME LifeInv, NEW id \in Nat, NEW side,
         \/ \E e \in Afoot(id) : Details(e).side = side
         \/ \E o \in Laid(id) : o.side = side,
         \/ Laid(id)' = {} /\ \E e : Afoot(id)' = {e} /\ Details(e).side = side
         \/ Afoot(id)' = {} /\ \E o : Laid(id)' = {o} /\ o.side = side
  PROVE  \A s : On(id, s)' <=> On(id, s)
<1>1. \A s : On(id, s) <=> s = side
  BY AloneAfoot, AloneLaid DEF On
<1>2. \A s : On(id, s)' <=> s = side
  BY NextOn
<1> QED
  BY <1>1, <1>2

LEMMA SameUnder ==
  ASSUME TypeOK, FlagInv, ~Lost, UNCHANGED <<moNextId, moOpen>>,
         position'[2] = position[2],
         \A id \in Nat : id >= MoFirstId => \A side : On(id, side)' <=> On(id, side)
  PROVE  FlagInv'
<1>1. \A side : Under(side)' = {id \in MoFirstId .. moNextId' - 1 : On(id, side)'}
  BY DEF Under
<1>2. MoFirstId .. moNextId - 1 \subseteq {id \in Nat : id >= MoFirstId}
  BY ConstantAssumption DEF TypeOK, MoTypeOK
<1>3. Under("Buy")' = Under("Buy") /\ Under("Sell")' = Under("Sell")
  BY <1>1, <1>2 DEF Under
<1> QED
  BY <1>3 DEF FlagInv, Balanced

LEMMA AstrayGrows ==
  ASSUME TypeOK, TypeOK', [Next]_vars PROVE astray \subseteq astray'
<1>1. CASE Quiet
  BY <1>1, QuietFlow
<1>2. CASE HandleOrderRequest
  BY <1>2 DEF HandleOrderRequest
<1>3. CASE \/ SweepFills \/ HandleValidatedOrder
           \/ HandleCancelOrder \/ HandleExecutionReport
  BY <1>3
  DEF SweepFills, ExchangeSweep, HandleValidatedOrder, HandleCancelOrder,
      HandleExecutionReport, queueVars
<1>4. CASE \/ \E throttled \in BOOLEAN : MarketDataToMarketMaker(throttled)
           \/ \E trend \in Trends : MarketDataToMomentum(trend)
  BY <1>4 DEF MarketDataToMarketMaker, MarketDataToMomentum, queueVars
<1> QED
  BY <1>1, <1>2, <1>3, <1>4, StepKinds

(* Buying before the flag is up, selling before it is down.                 *)
LEMMA SendFlag ==
  ASSUME TypeOK, TypeOK', LifeInv, IdsApart, FlagInv, ~Lost, ~Lost',
         outbox = <<>>, UNCHANGED <<batch, queue, resting, position>>,
         NEW o \in OrderRequest, o.id = moNextId, outbox' = <<RequestEvent(o)>>,
         moNextId' = moNextId + 1,
         \/ ~moOpen /\ o.side = "Buy" /\ moOpen' = TRUE
         \/ moOpen /\ o.side = "Sell" /\ moOpen' = FALSE
  PROVE  FlagInv'
<1>1. Flow({}, outbox') /\ ToSet(outbox') = {RequestEvent(o)}
  BY EmitFlow, SingleOnce
<1>2. /\ moNextId \in Nat /\ moNextId >= MoFirstId /\ mmNextId <= MoFirstId
      /\ mmNextId \in Nat /\ {MMFirstId, MoFirstId} \subseteq Nat
  BY ConstantAssumption DEF LifeInv, TypeOK, MoTypeOK, MMTypeOK, IdsApart
<1>3. PICK n \in Nat : n = moNextId
  BY <1>2
<1>4. ASSUME NEW id \in Nat, id >= MoFirstId, id # n
      PROVE  \A side : On(id, side)' <=> On(id, side)
  <2>1. None(outbox', Standing(id))
    BY <1>1, <1>3, <1>4, StandFacts DEF None
  <2> QED
    BY <1>1, <1>4, <2>1, LaidSame, OnKept
<1>5. \A side : On(n, side)' <=> side = o.side
  <2>1. ~Sent(n)
    BY <1>2, <1>3 DEF Sent
  <2>2. Laid(n) = {} /\ Afoot(n) = {}
    BY <2>1 DEF LifeInv, LifeOf
  <2>3. Afoot(n)' = {RequestEvent(o)} /\ Laid(n)' = {}
    BY <1>1, <1>2, <1>3, <2>2, FlowOn, LaidSame, StandFacts
  <2>4. Details(RequestEvent(o)) = o
    BY DEF Details, RequestEvent
  <2> QED
    BY <2>3, <2>4, NextOn
<1>6. ASSUME NEW side
      PROVE  /\ Under(side)' = IF side = o.side THEN Under(side) \cup {n}
                                                ELSE Under(side)
             /\ n \notin Under(side)
  <2>1. MoFirstId .. moNextId' - 1 = (MoFirstId .. n - 1) \cup {n}
    BY <1>2, <1>3
  <2>2. \A id \in MoFirstId .. n - 1 : id \in Nat /\ id >= MoFirstId /\ id # n
    BY <1>2
  <2>3. Under(side)' = {id \in MoFirstId .. moNextId' - 1 : On(id, side)'}
    BY DEF Under
  <2>4. Under(side) = {id \in MoFirstId .. n - 1 : On(id, side)}
    BY <1>3 DEF Under
  <2> QED
    BY <1>4, <1>5, <2>1, <2>2, <2>3, <2>4
<1>7. /\ Cardinality(Under(o.side)') = Cardinality(Under(o.side)) + 1
      /\ \A side : side # o.side => Under(side)' = Under(side)
  <2>1. IsFiniteSet(Under(o.side))
    BY UnderFinite DEF OrderRequest, OrderSide
  <2>2. PICK S : S = Under(o.side)
    OBVIOUS
  <2>3. Cardinality(S \cup {n}) = Cardinality(S) + 1
    BY <1>6, <2>1, <2>2, FS_AddElement
  <2> QED
    BY <1>6, <2>2, <2>3
<1>8. PICK b \in Nat, s \in Nat, q \in Nat :
        b = Cardinality(Under("Buy")) /\ s = Cardinality(Under("Sell"))
          /\ q = MoQuantity
  BY UnderFinite, ConstantAssumption
<1>9. position[2] \in Int
  BY DEF TypeOK, PnLTypeOK, PnL!StrategyId
<1>10. /\ q * ((b + 1) - s) = q * (b - s) + q
       /\ q * (b - (s + 1)) = q * (b - s) - q
       /\ q * (b - s) \in Int
  OBVIOUS
<1>11. position[2] + q * (b - s) = IF moOpen THEN q ELSE 0
  BY <1>8 DEF FlagInv, Balanced
<1>12. CASE ~moOpen /\ o.side = "Buy" /\ moOpen' = TRUE
  <2>1. /\ Cardinality(Under("Buy"))' = b + 1
        /\ Cardinality(Under("Sell"))' = s
    BY <1>7, <1>8, <1>12
  <2>2. position[2] + q * ((b + 1) - s) = q
    BY <1>9, <1>10, <1>11, <1>12
  <2> QED
    BY <1>8, <1>12, <2>1, <2>2 DEF FlagInv, Balanced
<1>13. CASE moOpen /\ o.side = "Sell" /\ moOpen' = FALSE
  <2>1. /\ Cardinality(Under("Sell"))' = s + 1
        /\ Cardinality(Under("Buy"))' = b
    BY <1>7, <1>8, <1>13
  <2>2. position[2] + q * (b - (s + 1)) = 0
    BY <1>9, <1>10, <1>11, <1>13
  <2> QED
    BY <1>8, <1>13, <2>1, <2>2 DEF FlagInv, Balanced
<1> QED
  BY <1>12, <1>13, Zenon

(* A fill of a momentum order moves the position by what the order was       *)
(* carried with.                                                           *)
LEMMA FillFlag ==
  ASSUME TypeOK, TypeOK', LifeInv, MarkInv, IdsApart, FlagInv, ~Lost, ~Lost',
         UNCHANGED <<resting, moNextId, moOpen>>,
         NEW e \in Event, NEW r \in ExecutionReport, e.type = "ExecutionReport",
         e.report = r, e \in Afoot(r.id), Flow({e}, <<>>), r.id >= MoFirstId,
         position' = [position EXCEPT ![r.strategy] = @ + r.quantity * Sign(r.side)]
  PROVE  FlagInv'
<1>1. PICK n \in Nat : n = r.id
  BY DEF ExecutionReport
<1>2. r.strategy = 2 /\ r.quantity = MoQuantity /\ Details(e) = r
  <2>1. MarkedEvent(n, e)
    BY <1>1 DEF MarkInv
  <2> QED
    BY <1>1, <2>1 DEF MarkedEvent, Marked, Details
<1>3. Afoot(n) = {e} /\ Laid(n) = {}
  BY <1>1, AloneAfoot
<1>4. n \in MoFirstId .. moNextId - 1
  <2>1. Sent(n)
    BY <1>1 DEF LifeInv, LifeOf
  <2>2. /\ mmNextId <= MoFirstId /\ mmNextId \in Nat /\ moNextId \in Nat
        /\ {MMFirstId, MoFirstId} \subseteq Nat
    BY ConstantAssumption DEF IdsApart, TypeOK, MMTypeOK, MoTypeOK
  <2> QED
    BY <1>1, <2>1, <2>2 DEF Sent
<1>5. ASSUME NEW id \in Nat, id >= MoFirstId, id # n
      PROVE  \A side : On(id, side)' <=> On(id, side)
  <2>1. e \notin Standing(id)
    BY <1>1, <1>5 DEF Standing, StandsFor
  <2> QED
    BY <1>5, <2>1, LaidSame, OnKept, EmptyOnce
<1>6. \A side : /\ On(n, side) <=> side = r.side
                /\ ~On(n, side)'
  <2>1. Afoot(n)' = {} /\ Laid(n)' = {}
    BY <1>1, <1>3, FlowOn, LaidSame, EmptyOnce
  <2> QED
    BY <1>2, <1>3, <2>1, NextOn DEF On
<1>7. ASSUME NEW side
      PROVE  /\ Under(side)' = IF side = r.side THEN Under(side) \ {n}
                                                ELSE Under(side)
             /\ n \in Under(side) <=> side = r.side
  <2>1. \A id \in MoFirstId .. moNextId - 1 : id \in Nat /\ id >= MoFirstId
    <3>1. MoFirstId \in Nat /\ moNextId \in Nat
      BY ConstantAssumption DEF TypeOK, MoTypeOK
    <3> QED
      BY <3>1
  <2>2. Under(side)' = {id \in MoFirstId .. moNextId - 1 : On(id, side)'}
    BY DEF Under
  <2> QED
    BY <1>4, <1>5, <1>6, <2>1, <2>2 DEF Under
<1>8. /\ Cardinality(Under(r.side)') = Cardinality(Under(r.side)) - 1
      /\ \A side : side # r.side => Under(side)' = Under(side)
  <2>1. IsFiniteSet(Under(r.side))
    BY UnderFinite DEF ExecutionReport, OrderSide
  <2>2. PICK S : S = Under(r.side)
    OBVIOUS
  <2>3. Cardinality(S \ {n}) = Cardinality(S) - 1
    BY <1>7, <2>1, <2>2, FS_RemoveElement
  <2> QED
    BY <1>7, <2>2, <2>3
<1>9. PICK b \in Nat, s \in Nat, q \in Nat :
        b = Cardinality(Under("Buy")) /\ s = Cardinality(Under("Sell"))
          /\ q = MoQuantity
  BY UnderFinite, ConstantAssumption
<1>10. /\ q * ((b - 1) - s) = q * (b - s) - q
       /\ q * (b - (s - 1)) = q * (b - s) + q
       /\ q * (b - s) \in Int /\ q * 1 = q /\ q * (-1) = -q
  OBVIOUS
<1>11. position[2] + q * (b - s) = IF moOpen THEN q ELSE 0
  BY <1>9 DEF FlagInv, Balanced
<1>12. position[2] \in Int /\ position'[2] = position[2] + q * Sign(r.side)
  BY <1>2, <1>9 DEF TypeOK, PnLTypeOK, PnL!StrategyId
<1>13. CASE r.side = "Buy"
  <2>1. /\ Cardinality(Under("Buy"))' = b - 1
        /\ Cardinality(Under("Sell"))' = s
    BY <1>8, <1>9, <1>13
  <2>2. position'[2] + q * ((b - 1) - s) = position[2] + q * (b - s)
    BY <1>10, <1>12, <1>13 DEF Sign
  <2> QED
    BY <1>9, <1>11, <2>1, <2>2 DEF FlagInv, Balanced
<1>14. CASE r.side = "Sell"
  <2>1. /\ Cardinality(Under("Sell"))' = s - 1
        /\ Cardinality(Under("Buy"))' = b
    BY <1>8, <1>9, <1>14
  <2>2. position'[2] + q * (b - (s - 1)) = position[2] + q * (b - s)
    BY <1>10, <1>12, <1>14 DEF Sign
  <2> QED
    BY <1>9, <1>11, <2>1, <2>2 DEF FlagInv, Balanced
<1> QED
  BY <1>13, <1>14 DEF ExecutionReport, OrderSide

LEMMA ReportFlag ==
  ASSUME TypeOK, TypeOK', LifeInv, MarkInv, IdsApart, FlagInv, ~Lost, ~Lost',
         HandleExecutionReport
  PROVE  FlagInv'
<1>1. PICK e \in Event, r \in ExecutionReport :
        /\ e = Head(batch) /\ e.type = "ExecutionReport" /\ r = e.report
        /\ r.status = "Filled" => e \in Afoot(r.id)
  BY HeadStands DEF HandleExecutionReport
<1>2. /\ Flow({e}, <<>>) /\ UNCHANGED <<resting, moNextId, moOpen>>
      /\ IF r.status = "Filled"
         THEN PnL!OnFill(r.strategy, r.side, r.quantity)
         ELSE UNCHANGED position
  <2>1. Flow({e}, outbox') /\ outbox' = <<>>
    BY <1>1, DoneFlow DEF HandleExecutionReport, Handling, queueVars
  <2> QED
    BY <1>1, <2>1 DEF HandleExecutionReport, exVars, moVars, pnlVars
<1>3. r.id \in Nat /\ {MoFirstId} \subseteq Nat
  BY ConstantAssumption DEF ExecutionReport
<1>4. CASE r.status = "Filled" /\ r.id >= MoFirstId
  BY <1>1, <1>2, <1>4, FillFlag DEF PnL!OnFill, PnL!Sign, Sign
<1>5. CASE ~(r.status = "Filled" /\ r.id >= MoFirstId)
  <2>1. position'[2] = position[2]
    <3>1. CASE r.status # "Filled"
      BY <1>2, <3>1
    <3>2. CASE r.status = "Filled" /\ ~(r.id >= MoFirstId)
      <4>1. MarkedEvent(r.id, e)
        BY <1>1, <1>3, <3>2 DEF MarkInv
      <4>2. r.strategy # 2
        BY <1>1, <3>2, <4>1 DEF MarkedEvent, Marked, Details
      <4>3. position' = [position EXCEPT ![r.strategy] =
                           @ + r.quantity * PnL!Sign(r.side)]
        BY <1>2, <3>2 DEF PnL!OnFill
      <4> QED
        BY <4>2, <4>3 DEF TypeOK, PnLTypeOK, PnL!StrategyId
    <3> QED
      BY <1>5, <3>1, <3>2
  <2>2. ASSUME NEW id \in Nat, id >= MoFirstId
        PROVE  \A side : On(id, side)' <=> On(id, side)
    <3>1. e \notin Standing(id)
      BY <1>1, <1>5, <2>2 DEF Standing, StandsFor
    <3> QED
      BY <1>2, <2>2, <3>1, LaidSame, OnKept, EmptyOnce
  <2> QED
    BY <1>2, <2>1, <2>2, SameUnder
<1> QED
  BY <1>4, <1>5

(* A step that the momentum orders under way do not notice, or by which one  *)
(* moves on.                                                               *)
LEMMA SweepFlag ==
  ASSUME TypeOK, TypeOK', LifeInv, FlagInv, ~Lost, ~Lost', SweepFills
  PROVE  FlagInv'
<1>1. PICK k \in 1 .. Len(resting), o \in OrderRequest, r \in ExecutionReport :
        /\ o = resting[k] /\ resting' = RemoveAt(resting, k)
        /\ r.id = o.id /\ r.side = o.side /\ r.status = "Filled"
        /\ outbox' = <<ReportEvent(r)>>
  BY FillSends DEF SweepFills
<1>2. /\ outbox = <<>> /\ UNCHANGED <<batch, queue>>
      /\ UNCHANGED <<moNextId, moOpen, position>>
  BY FillSends DEF SweepFills, ExchangeSweep, moVars, pnlVars
<1>3. Flow({}, outbox') /\ ToSet(outbox') = {ReportEvent(r)}
  BY <1>1, <1>2, EmitFlow, SingleOnce
<1>4. /\ o \in Laid(o.id) /\ o.id \in Nat
      /\ \A id \in Nat : Laid(id)' = IF o.id = id THEN {} ELSE Laid(id)
  BY <1>1, LaidRemoved DEF OrderRequest
<1>5. ASSUME NEW id \in Nat, id >= MoFirstId
      PROVE  \A side : On(id, side)' <=> On(id, side)
  <2>1. CASE id = o.id
    <3>1. Afoot(id) = {} /\ Laid(id)' = {}
      BY <1>4, <2>1, AloneLaid
    <3>2. Afoot(id)' = {ReportEvent(r)}
      BY <1>1, <1>3, <1>5, <2>1, <3>1, FlowOn, StandFacts
    <3>3. Details(ReportEvent(r)).side = o.side
      BY <1>1 DEF Details, ReportEvent
    <3> QED
      BY <1>4, <2>1, <3>1, <3>2, <3>3, OnMoves
  <2>2. CASE id # o.id
    <3>1. None(outbox', Standing(id))
      BY <1>1, <1>3, <2>2, StandFacts DEF None
    <3> QED
      BY <1>3, <1>4, <1>5, <2>2, <3>1, OnKept
  <2> QED
    BY <2>1, <2>2
<1> QED
  BY <1>2, <1>5, SameUnder

LEMMA RequestFlag ==
  ASSUME TypeOK, TypeOK', LifeInv, FlagInv, ~Lost, ~Lost', HandleOrderRequest
  PROVE  FlagInv'
<1>1. PICK e \in Event, o \in OrderRequest :
        /\ e = Head(batch) /\ o = e.order /\ e.type = "OrderRequest"
        /\ e \in Afoot(o.id) /\ o.id \in Nat
  BY HeadStands DEF HandleOrderRequest, OrderRequest
<1>2. /\ Flow({e}, outbox')
      /\ UNCHANGED <<resting, moNextId, moOpen, position>>
  BY <1>1, DoneFlow DEF HandleOrderRequest, exVars, moVars, pnlVars
<1>3. \/ outbox' = <<ValidatedEvent(o)>>
      \/ outbox' = <<>> /\ o.id \in astray'
  BY <1>1, RequestSends
<1>4. ASSUME NEW id \in Nat, id >= MoFirstId
      PROVE  \A side : On(id, side)' <=> On(id, side)
  <2>1. CASE id = o.id
    <3>1. outbox' = <<ValidatedEvent(o)>>
      BY <1>3, <1>4, <2>1 DEF Lost
    <3>2. Afoot(id) = {e} /\ Laid(id)' = {}
      BY <1>1, <1>2, <2>1, AloneAfoot, LaidSame
    <3>3. Afoot(id)' = {ValidatedEvent(o)}
      BY <1>2, <1>4, <2>1, <3>1, <3>2, FlowOn, SingleOnce, StandFacts
    <3>4. Details(ValidatedEvent(o)).side = o.side /\ Details(e).side = o.side
      BY <1>1 DEF Details, ValidatedEvent
    <3> QED
      BY <1>4, <3>2, <3>3, <3>4, OnMoves
  <2>2. CASE id # o.id
    <3>1. None(outbox', Standing(id))
      BY <1>3, <2>2, EmptyOnce, SingleOnce, StandFacts DEF None
    <3>2. e \notin Standing(id)
      BY <1>1, <2>2 DEF Standing, StandsFor
    <3> QED
      BY <1>2, <1>4, <3>1, <3>2, LaidSame, OnKept
  <2> QED
    BY <2>1, <2>2
<1> QED
  BY <1>2, <1>4, SameUnder

LEMMA MatchFlag ==
  ASSUME TypeOK, TypeOK', LifeInv, MarkInv, FlagInv, ~Lost, ~Lost',
         HandleValidatedOrder
  PROVE  FlagInv'
<1>1. PICK e \in Event, o \in OrderRequest :
        /\ e = Head(batch) /\ o = e.order /\ e.type = "ValidatedOrder"
        /\ e \in Afoot(o.id) /\ o.id \in Nat
  BY HeadStands DEF HandleValidatedOrder, OrderRequest
<1>2. /\ Flow({e}, outbox') /\ UNCHANGED <<moNextId, moOpen, position>>
  BY <1>1, DoneFlow DEF HandleValidatedOrder, queueVars, moVars, pnlVars
<1>3. PICK r \in ExecutionReport :
        /\ r.id = o.id /\ r.side = o.side /\ outbox' = <<ReportEvent(r)>>
        /\ \/ r.status = "Filled" /\ UNCHANGED resting
           \/ o.type = "Market" /\ UNCHANGED resting
           \/ r.status = "New" /\ resting' = Append(resting, o)
  BY <1>1, MatchSends
<1>4. ToSet(outbox') = {ReportEvent(r)} /\ o.type = "Limit"
  <2>1. MarkedEvent(o.id, e)
    BY <1>1 DEF MarkInv
  <2> QED
    BY <1>1, <1>3, <2>1, SingleOnce DEF MarkedEvent
<1>5. ASSUME NEW id \in Nat, id >= MoFirstId
      PROVE  \A side : On(id, side)' <=> On(id, side)
  <2>1. CASE id = o.id
    <3>1. Afoot(id) = {e} /\ Laid(id) = {} /\ Details(e).side = o.side
      BY <1>1, <2>1, AloneAfoot DEF Details
    <3>2. Afoot(id)' = ToSet(outbox') \cap Standing(id)
      BY <1>2, <1>5, <3>1, FlowOn
    <3>3. CASE r.status = "Filled" /\ UNCHANGED resting
      <4>1. Afoot(id)' = {ReportEvent(r)} /\ Laid(id)' = {}
        BY <1>3, <1>4, <2>1, <3>1, <3>2, <3>3, LaidSame, StandFacts
      <4>2. Details(ReportEvent(r)).side = o.side
        BY <1>3 DEF Details, ReportEvent
      <4> QED
        BY <3>1, <4>1, <4>2, OnMoves
    <3>4. CASE r.status = "New" /\ resting' = Append(resting, o)
      <4>1. Afoot(id)' = {} /\ Laid(id)' = {o}
        BY <1>4, <2>1, <3>1, <3>2, <3>4, LaidAdded, StandFacts
      <4> QED
        BY <3>1, <4>1, OnMoves
    <3> QED
      BY <1>3, <1>4, <3>3, <3>4
  <2>2. CASE id # o.id
    <3>1. None(outbox', Standing(id))
      BY <1>3, <1>4, <2>2, StandFacts DEF None
    <3>2. e \notin Standing(id)
      BY <1>1, <2>2 DEF Standing, StandsFor
    <3>3. Laid(id)' = Laid(id)
      BY <1>3, <2>2, LaidSame, LaidAdded
    <3> QED
      BY <1>2, <1>5, <3>1, <3>2, <3>3, OnKept
  <2> QED
    BY <2>1, <2>2
<1> QED
  BY <1>2, <1>5, SameUnder

LEMMA StepFlag ==
  ASSUME TypeOK, TypeOK', LifeInv, MarkInv, IdsApart, IdsApart', FlagInv,
         [Next]_vars
  PROVE  FlagInv'
<1>1. CASE Lost'
  BY <1>1 DEF FlagInv
<1>2. CASE ~Lost'
  <2>1. ~Lost
    BY <1>2, AstrayGrows DEF Lost
  <2>2. CASE Quiet
    <3>1. /\ UNCHANGED <<resting, moNextId, moOpen, position>>
          /\ \E gone \in SUBSET {e \in Event : e.type = "MarketData"} :
               Flow(gone, <<>>)
      BY <2>2, QuietFlow DEF moVars, pnlVars
    <3>2. PICK gone \in SUBSET {e \in Event : e.type = "MarketData"} :
            Flow(gone, <<>>)
      BY <3>1
    <3>3. \A id : gone \cap Standing(id) = {}
      BY DEF Standing, StandsFor
    <3>4. \A id \in Nat : id >= MoFirstId =>
            \A side : On(id, side)' <=> On(id, side)
      BY <1>2, <3>1, <3>2, <3>3, LaidSame, EmptyOnce, OnKept
    <3> QED
      BY <2>1, <3>1, <3>4, SameUnder
  <2>3. ASSUME NEW throttled \in BOOLEAN, MarketDataToMarketMaker(throttled)
        PROVE  FlagInv'
    <3>1. /\ outbox = <<>>
          /\ UNCHANGED <<batch, queue, resting, moNextId, moOpen, position>>
          /\ \/ UNCHANGED outbox
             \/ \E sent \in Seq(OrderRequest) : QuoteRound(sent)
      BY <2>3, QuoteSends DEF MarketDataToMarketMaker, moVars, pnlVars
    <3>2. Flow({}, outbox')
      BY <3>1, EmitFlow
    <3>3. ASSUME NEW id \in Nat, id >= MoFirstId
          PROVE  None(outbox', Standing(id))
      <4>1. CASE outbox' = <<>>
        BY <4>1, EmptyOnce
      <4>2. ASSUME NEW sent \in Seq(OrderRequest), QuoteRound(sent)
            PROVE  None(outbox', Standing(id))
        <5>1. mmNextId' <= MoFirstId /\ mmNextId' \in Nat /\ {MoFirstId} \subseteq Nat
          BY ConstantAssumption DEF IdsApart, TypeOK, MMTypeOK
        <5>2. ~(id < mmNextId')
          BY <3>3, <5>1
        <5> QED
          BY <4>2, <5>2, RoundEvents DEF None
      <4> QED
        BY <3>1, <4>1, <4>2
    <3>4. \A id \in Nat : id >= MoFirstId =>
            \A side : On(id, side)' <=> On(id, side)
      BY <1>2, <3>1, <3>2, <3>3, LaidSame, OnKept
    <3> QED
      BY <2>1, <3>1, <3>4, SameUnder
  <2>4. ASSUME NEW trend \in Trends, MarketDataToMomentum(trend)
        PROVE  FlagInv'
    <3>1. /\ outbox = <<>> /\ UNCHANGED <<batch, queue, resting, position>>
          /\ \/ UNCHANGED <<outbox, moNextId, moOpen>>
             \/ \E o \in OrderRequest :
                  /\ o.id = moNextId /\ outbox' = <<RequestEvent(o)>>
                  /\ moNextId' = moNextId + 1
                  /\ \/ ~moOpen /\ o.side = "Buy" /\ moOpen' = TRUE
                     \/ moOpen /\ o.side = "Sell" /\ moOpen' = FALSE
      <4>1. UNCHANGED position
        BY <2>4 DEF MarketDataToMomentum, pnlVars
      <4> QED
        BY <2>4, <4>1, MomentumSends, Zenon
    <3>2. CASE UNCHANGED <<outbox, moNextId, moOpen>>
      <4>1. Flow({}, <<>>)
        BY <3>1, <3>2, SameFlow
      <4>2. \A id \in Nat : id >= MoFirstId =>
              \A side : On(id, side)' <=> On(id, side)
        BY <1>2, <3>1, <4>1, LaidSame, EmptyOnce, OnKept
      <4> QED
        BY <2>1, <3>1, <3>2, <4>2, SameUnder
    <3>3. ASSUME NEW o \in OrderRequest, o.id = moNextId,
                 outbox' = <<RequestEvent(o)>>, moNextId' = moNextId + 1,
                 \/ ~moOpen /\ o.side = "Buy" /\ moOpen' = TRUE
                 \/ moOpen /\ o.side = "Sell" /\ moOpen' = FALSE
          PROVE  FlagInv'
      BY <1>2, <2>1, <3>1, <3>3, SendFlag
    <3> QED
      BY <3>1, <3>2, <3>3, Zenon
  <2>5. CASE HandleCancelOrder
    <3>1. PICK e \in Event : e = Head(batch) /\ e.type = "CancelOrder"
      BY <2>5, HeadStands DEF HandleCancelOrder
    <3>2. /\ Flow({e}, outbox')
          /\ UNCHANGED <<resting, moNextId, moOpen, position>>
      BY <2>5, <3>1, DoneFlow, CancelSends
      DEF HandleCancelOrder, moVars, pnlVars, queueVars
    <3>3. PICK r \in ExecutionReport :
            r.status = "Cancelled" /\ outbox' = <<ReportEvent(r)>>
      BY <2>5, CancelSends
    <3>4. \A id \in Nat : None(outbox', Standing(id)) /\ e \notin Standing(id)
      BY <3>1, <3>3, SingleOnce, StandFacts DEF None, Standing, StandsFor
    <3>5. \A id \in Nat : id >= MoFirstId =>
            \A side : On(id, side)' <=> On(id, side)
      BY <1>2, <3>2, <3>4, LaidSame, OnKept
    <3> QED
      BY <2>1, <3>2, <3>5, SameUnder
  <2> QED
    BY <1>2, <2>1, <2>2, <2>3, <2>4, <2>5, SweepFlag, RequestFlag, MatchFlag,
       ReportFlag, StepKinds
<1> QED
  BY <1>1, <1>2

(* While the strategies' ids do not meet: once all momentum orders have been *)
(* reported, and none went astray, position_open_ says whether strategy 2    *)
(* is long.                                                                *)
THEOREM FlagIsPosition == Spec /\ []IdsApart => []FlagMeansPosition
<1>1. Init => FlagInv
  <2> SUFFICES ASSUME Init PROVE FlagInv
    OBVIOUS
  <2>1. InFlight = <<>> \o <<>> \o <<>> /\ resting = <<>>
    BY DEF Init, InFlight, Exchange!Init
  <2>2. \A id : Afoot(id) = {} /\ Laid(id) = {}
    BY <2>1, EmptyOnce DEF Afoot, Laid
  <2>3. Under("Buy") = {} /\ Under("Sell") = {} /\ position[2] = 0 /\ ~moOpen
    BY <2>2 DEF Under, On, Init, PnL!Init, PnL!StrategyId, Mo!Init
  <2>4. PICK q \in Nat : q = MoQuantity
    BY ConstantAssumption
  <2>5. 0 + q * (0 - 0) = 0
    OBVIOUS
  <2> QED
    BY <2>3, <2>4, <2>5, FS_EmptySet DEF FlagInv, Balanced
<1>2. /\ TypeOK /\ TypeOK' /\ LifeInv /\ MarkInv /\ IdsApart /\ IdsApart'
      /\ FlagInv /\ [Next]_vars
      => FlagInv'
  BY StepFlag
<1>3. TypeOK /\ LifeInv /\ MarkInv /\ FlagInv => FlagMeansPosition
  <2> SUFFICES ASSUME TypeOK, LifeInv, MarkInv, FlagInv, ~Lost,
                      \A e \in ToSet(InFlight) :
                        Subject(e) \cap (MoFirstId .. moNextId) = {},
                      \A o \in ToSet(resting) : ~OfMomentum(o)
               PROVE  position[2] = IF moOpen THEN MoQuantity ELSE 0
    BY DEF FlagMeansPosition, Lost
  <2>1. ASSUME NEW side, NEW id \in Under(side) PROVE FALSE
    <3>1. /\ id \in MoFirstId .. moNextId /\ id \in Nat /\ id >= MoFirstId
          /\ On(id, side)
      BY <2>1, ConstantAssumption DEF Under, TypeOK, MoTypeOK
    <3>2. Afoot(id) = {}
      BY <3>1 DEF Afoot, Standing, StandsFor, Subject
    <3>3. PICK o \in Laid(id) : TRUE
      BY <3>1, <3>2 DEF On
    <3>4. o.strategy = 2 /\ o \in ToSet(resting)
      BY <3>1, <3>3 DEF MarkInv, Marked, Laid
    <3> QED
      BY <3>4 DEF OfMomentum
  <2>2. Under("Buy") = {} /\ Under("Sell") = {}
    BY <2>1
  <2>3. PICK q \in Nat, p \in Int : q = MoQuantity /\ p = position[2]
    BY ConstantAssumption DEF TypeOK, PnLTypeOK, PnL!StrategyId
  <2>4. p + q * (0 - 0) = p
    OBVIOUS
  <2>5. p + q * (0 - 0) = IF moOpen THEN q ELSE 0
    BY <2>2, <2>3, FS_EmptySet DEF FlagInv, Balanced
  <2> QED
    BY <2>3, <2>4, <2>5
<1> QED
  BY <1>1, <1>2, <1>3, TypeCorrect, LifeInvHolds, MarksHold, PTL DEF Spec

-----------------------------------------------------------------------------
(* An order and its cancellation.  The market maker sends the cancellation   *)
(* after the order, the order then takes one round trip more, and yet the    *)
(* order manager hears Cancelled only when the exchange has the order: the   *)
(* round trips of the two are in the same row, where nothing overtakes.     *)

RequestsOf(id) == {e \in Event : e.type = "OrderRequest" /\ e.order.id = id}
ValidatedOf(id) == {e \in Event : e.type = "ValidatedOrder" /\ e.order.id = id}
CancelledOf(id) ==
  {e \in Event : /\ e.type = "ExecutionReport" /\ e.report.id = id
                 /\ e.report.status = "Cancelled"}
Rejections ==
  {e \in Event : e.type = "ExecutionReport" /\ e.report.status = "Rejected"}

Withdrawn(id) ==
  /\ Precede(InFlight, RequestsOf(id), CancelsOf(id))
  /\ Precede(InFlight, ValidatedOf(id), CancelledOf(id))
  /\ None(InFlight, RequestsOf(id)) \/ None(InFlight, CancelledOf(id))
  /\ \/ None(InFlight, CancelsOf(id)) /\ None(InFlight, CancelledOf(id))
     \/ Replaced(id)
WithdrawInv ==
  /\ ToSet(mmActive) \subseteq MMFirstId .. mmNextId - 1
  /\ None(InFlight, Rejections)
  /\ \A id \in Nat : Withdrawn(id)

LEMMA KindsAreOrders ==
  /\ Rejections \in SUBSET OrderEvent
  /\ \A id : /\ RequestsOf(id) \in SUBSET OrderEvent
             /\ ValidatedOf(id) \in SUBSET OrderEvent
             /\ CancelsOf(id) \in SUBSET OrderEvent
             /\ CancelledOf(id) \in SUBSET OrderEvent
             /\ RequestsOf(id) \cap CancelsOf(id) = {}
             /\ ValidatedOf(id) \cap CancelledOf(id) = {}
             /\ RequestsOf(id) \subseteq Standing(id)
             /\ ValidatedOf(id) \subseteq Standing(id)
BY DEF Rejections, RequestsOf, ValidatedOf, CancelsOf, CancelledOf, OrderEvent,
       Standing, StandsFor

LEMMA NextReplaced ==
  \A id : Replaced(id)' <=>
            id \in MMFirstId .. mmNextId' - 1 /\ id \notin ToSet(mmActive')
BY DEF Replaced, ToSet

LEMMA NextWithdraw ==
  /\ ToSet(mmActive') \subseteq MMFirstId .. mmNextId' - 1
  /\ None(InFlight', Rejections)
  /\ \A id \in Nat :
       /\ Precede(InFlight', RequestsOf(id), CancelsOf(id))
       /\ Precede(InFlight', ValidatedOf(id), CancelledOf(id))
       /\ None(InFlight', RequestsOf(id)) \/ None(InFlight', CancelledOf(id))
       /\ \/ None(InFlight', CancelsOf(id)) /\ None(InFlight', CancelledOf(id))
          \/ Replaced(id)'
  => WithdrawInv'
<1>1. /\ Rejections' = Rejections
      /\ \A id : /\ RequestsOf(id)' = RequestsOf(id)
                 /\ ValidatedOf(id)' = ValidatedOf(id)
                 /\ CancelsOf(id)' = CancelsOf(id)
                 /\ CancelledOf(id)' = CancelledOf(id)
  BY DEF Rejections, RequestsOf, ValidatedOf, CancelsOf, CancelledOf, Event
<1>2. /\ \A A, B : Precede(InFlight, A, B)' <=> Precede(InFlight', A', B')
      /\ \A P : None(InFlight, P)' <=> None(InFlight', P')
  BY DEF Precede, None, ToSet
<1> QED
  BY <1>1, <1>2 DEF WithdrawInv, Withdrawn, None, Precede, ToSet

(* Nothing comes back to the row.                                          *)
LEMMA StillNone ==
  ASSUME NEW gone, NEW new, Flow(gone, new), NEW P \in SUBSET OrderEvent,
         None(InFlight, P), None(new, P)
  PROVE  None(InFlight', P)
<1>1. Once(InFlight, P)
  BY DEF None, Once, ToSet
<1> QED
  BY <1>1 DEF Flow, None

LEMMA KeepWithdraw ==
  ASSUME WithdrawInv, NEW gone, NEW new, Flow(gone, new), InTurn(new),
         ToSet(mmActive') \subseteq MMFirstId .. mmNextId' - 1,
         None(new, Rejections),
         \A id \in Nat :
           /\ Replaced(id) => Replaced(id)'
           /\ Precede(new, RequestsOf(id), CancelsOf(id))
           /\ Precede(new, ValidatedOf(id), CancelledOf(id))
           /\ \/ None(new, RequestsOf(id))
              \/ ~Replaced(id) /\ None(new, CancelledOf(id))
           /\ None(new, ValidatedOf(id)) \/ None(InFlight, CancelledOf(id))
           /\ None(new, CancelledOf(id)) \/ None(InFlight, RequestsOf(id))
           /\ \/ None(new, CancelsOf(id)) /\ None(new, CancelledOf(id))
              \/ Replaced(id)'
  PROVE  WithdrawInv'
<1>1. None(InFlight', Rejections)
  BY KindsAreOrders, StillNone DEF WithdrawInv
<1>2. ASSUME NEW id \in Nat
      PROVE  /\ Precede(InFlight', RequestsOf(id), CancelsOf(id))
             /\ Precede(InFlight', ValidatedOf(id), CancelledOf(id))
             /\ None(InFlight', RequestsOf(id)) \/ None(InFlight', CancelledOf(id))
             /\ \/ None(InFlight', CancelsOf(id)) /\ None(InFlight', CancelledOf(id))
                \/ Replaced(id)'
  <2> DEFINE R == RequestsOf(id)
             V == ValidatedOf(id)
             C == CancelsOf(id)
             D == CancelledOf(id)
  <2>1. R \in SUBSET OrderEvent /\ V \in SUBSET OrderEvent
          /\ C \in SUBSET OrderEvent /\ D \in SUBSET OrderEvent
    BY KindsAreOrders
  <2>2. /\ Precede(InFlight, R, C) /\ Precede(InFlight, V, D)
        /\ None(InFlight, R) \/ None(InFlight, D)
        /\ \/ None(InFlight, C) /\ None(InFlight, D)
           \/ Replaced(id)
    BY DEF WithdrawInv, Withdrawn
  <2>3. /\ Replaced(id) => Replaced(id)'
        /\ Precede(new, R, C) /\ Precede(new, V, D)
        /\ None(new, R) \/ (~Replaced(id) /\ None(new, D))
        /\ None(new, V) \/ None(InFlight, D)
        /\ None(new, D) \/ None(InFlight, R)
        /\ \/ None(new, C) /\ None(new, D)
           \/ Replaced(id)'
    OBVIOUS
  <2> HIDE DEF R, V, C, D
  <2>4. Precede(InFlight', R, C)
    BY <2>1, <2>2, <2>3 DEF InTurn
  <2>5. Precede(InFlight', V, D)
    BY <2>1, <2>2, <2>3 DEF InTurn
  <2>6. None(InFlight', R) \/ None(InFlight', D)
    BY <2>1, <2>2, <2>3, StillNone
  <2>7. \/ None(InFlight', C) /\ None(InFlight', D)
        \/ Replaced(id)'
    BY <2>1, <2>2, <2>3, StillNone
  <2> QED
    BY <2>4, <2>5, <2>6, <2>7 DEF R, V, C, D
<1> QED
  BY <1>1, <1>2, NextWithdraw

(* A step that withdraws nothing and sends one event at most.               *)
LEMMA CalmWithdraw ==
  ASSUME WithdrawInv, NEW gone, NEW new, Flow(gone, new), InTurn(new),
         UNCHANGED <<mmActive, mmNextId>>, None(new, Rejections),
         new = <<>> \/ \E e : new = <<e>>,
         \A id \in Nat :
           /\ None(new, CancelsOf(id)) /\ None(new, CancelledOf(id))
           /\ None(new, RequestsOf(id)) \/ ~Replaced(id)
           /\ None(new, ValidatedOf(id)) \/ None(InFlight, CancelledOf(id))
  PROVE  WithdrawInv'
<1>1. \A A, B : Precede(new, A, B)
  BY FewPrecede
<1>2. \A id : Replaced(id)' <=> Replaced(id)
  BY NextReplaced DEF Replaced
<1>3. ToSet(mmActive') \subseteq MMFirstId .. mmNextId' - 1
  BY DEF WithdrawInv
<1> QED
  BY <1>1, <1>2, <1>3, KeepWithdraw

LEMMA QuietInTurn ==
  ASSUME TypeOK, TypeOK', Quiet PROVE InTurn(<<>>)
<1>1. CASE UNCHANGED vars
  BY <1>1, SameInTurn DEF vars, queueVars, loopVars
<1>2. CASE \E f \in Feeds!Feed : FeedStep(f)
  BY <1>2, FeedInTurn
<1>3. CASE Main
  <2>1. UNCHANGED <<batch, queue, outbox>>
    BY <1>3
    DEF Main, UiComplete, UiQuit, UiStopFeed, UiJoin, queueVars, loopVars
  <2> QED
    BY <2>1, SameInTurn
<1>4. CASE Flush \/ PollPop
  BY <1>4, FlushInTurn, PopInTurn
<1>5. CASE LoopEnter \/ PollDone \/ ProcessorExit
  BY <1>5, SameInTurn DEF LoopEnter, PollDone, ProcessorExit, queueVars
<1>6. CASE MarketDataToBook \/ MarketDataToExchange
  BY <1>6, SameInTurn
  DEF MarketDataToBook, MarketDataToExchange, Exchange!UpdateMarketPrice, queueVars
<1>7. CASE ExchangeSweep /\ Exchange!SweepKeep /\ UNCHANGED loopVars
  BY <1>7, SameInTurn DEF ExchangeSweep, Exchange!SweepKeep, queueVars, loopVars
<1>8. CASE ExchangeSweep /\ Exchange!SweepEnd /\ EventDone
  <2>1. /\ outbox' = <<>> /\ outbox = <<>> /\ batch # <<>>
        /\ batch' = Tail(batch) /\ UNCHANGED queue
    BY <1>8 DEF ExchangeSweep, Exchange!SweepEnd, EventDone, Handling, queueVars
  <2>2. InTurn(outbox')
    BY <2>1, ConsumeInTurn
  <2> QED
    BY <2>1, <2>2
<1> QED
  BY <1>1, <1>2, <1>3, <1>4, <1>5, <1>6, <1>7, <1>8 DEF Quiet

LEMMA DoneInTurn ==
  ASSUME TypeOK, TypeOK', NEW step, NEW type, Handling(step, type), EventDone,
         UNCHANGED queue
  PROVE  /\ InTurn(outbox')
         /\ \A A, B : Precede(InFlight, A, B) /\ Head(batch) \in B \ A =>
              None(InFlight, A)
BY ConsumeInTurn DEF Handling, EventDone

(* A round of quotes cancels what stood and requests what stands now.       *)
LEMMA RoundSends ==
  ASSUME TypeOK, NEW sent \in Seq(OrderRequest), QuoteRound(sent)
  PROVE  /\ \A e \in ToSet(outbox') :
              \/ \E i \in ToSet(mmActive) : e = CancelEvent(i)
              \/ \E o \in OrderRequest :
                   /\ e = RequestEvent(o)
                   /\ o.id \in mmNextId .. mmNextId' - 1 /\ o.id \in ToSet(mmActive')
         /\ \A i \in ToSet(mmActive) : CancelEvent(i) \in ToSet(outbox')
         /\ ToSet(mmActive') = mmNextId .. mmNextId' - 1
         /\ mmNextId \in Nat /\ mmNextId' \in Nat /\ mmNextId <= mmNextId'
<1> DEFINE cancels == [i \in DOMAIN mmActive |-> CancelEvent(mmActive[i])]
           requests == [i \in DOMAIN sent |-> RequestEvent(sent[i])]
<1>1. cancels \in Seq(Event) /\ requests \in Seq(Event)
  BY SentAreEvents DEF TypeOK, MMTypeOK
<1>2. /\ DOMAIN sent = 1 .. Len(sent) /\ Len(sent) \in Nat
      /\ \A i \in DOMAIN sent :
           sent[i] \in OrderRequest /\ sent[i].id = mmNextId + i - 1
      /\ mmNextId' = mmNextId + Len(sent) /\ mmNextId \in Nat
      /\ mmActive' = [i \in DOMAIN sent |-> sent[i].id]
      /\ outbox' = cancels \o requests
  BY DEF QuoteRound, TypeOK, MMTypeOK
<1>3. \A i \in DOMAIN sent : /\ sent[i].id \in mmNextId .. mmNextId' - 1
                             /\ sent[i].id \in ToSet(mmActive')
  BY <1>2 DEF ToSet
<1>4. ToSet(mmActive') = mmNextId .. mmNextId' - 1
  <2>1. ToSet(mmActive') \subseteq mmNextId .. mmNextId' - 1
    BY <1>2, <1>3 DEF ToSet
  <2>2. ASSUME NEW id \in mmNextId .. mmNextId' - 1
        PROVE  id \in ToSet(mmActive')
    <3>1. PICK m \in Nat, k \in Nat :
            m = mmNextId /\ k = Len(sent) /\ mmNextId' = m + k
      <4>1. mmNextId \in Nat /\ Len(sent) \in Nat
        BY <1>2
      <4>2. mmNextId' = mmNextId + Len(sent)
        BY <1>2
      <4> QED
        BY <4>1, <4>2
    <3>2. id \in Int /\ id - m + 1 \in 1 .. k
      BY <3>1
    <3>3. PICK i \in DOMAIN sent : i = id - m + 1
      BY <1>2, <3>1, <3>2
    <3>4. sent[i].id = m + i - 1
      BY <1>2, <3>1
    <3>5. sent[i].id = id
      BY <3>2, <3>3, <3>4
    <3> QED
      BY <1>3, <3>5
  <2> QED
    BY <2>1, <2>2
<1>5. /\ \A e \in ToSet(cancels) : \E i \in ToSet(mmActive) : e = CancelEvent(i)
      /\ \A i \in ToSet(mmActive) : CancelEvent(i) \in ToSet(cancels)
  BY DEF ToSet
<1>6. \A e \in ToSet(requests) : \E o \in OrderRequest :
        /\ e = RequestEvent(o)
        /\ o.id \in mmNextId .. mmNextId' - 1 /\ o.id \in ToSet(mmActive')
  BY <1>2, <1>3 DEF ToSet
<1> HIDE DEF cancels, requests
<1>7. ToSet(outbox') = ToSet(cancels) \cup ToSet(requests)
  BY <1>1, <1>2, ConcatOnce
<1>8. mmNextId' \in Nat /\ mmNextId <= mmNextId'
  BY <1>2
<1> QED
  BY <1>2, <1>4, <1>5, <1>6, <1>7, <1>8

(* Events of one kind only are in any order.                                *)
LEMMA NonePrecede ==
  \A s, A, B : None(s, A) \/ None(s, B) => Precede(s, A, B)
BY DEF None, Precede, ToSet

(* What stood is replaced, and nothing else.                                *)
LEMMA RoundReplaces ==
  ASSUME TypeOK, LifeInv, WithdrawInv,
         NEW sent \in Seq(OrderRequest), QuoteRound(sent)
  PROVE  /\ ToSet(mmActive') \subseteq MMFirstId .. mmNextId' - 1
         /\ \A id : Replaced(id)' <=> Replaced(id) \/ id \in ToSet(mmActive)
         /\ \A id \in ToSet(mmActive') : ~Replaced(id) /\ ~Replaced(id)'
<1>1. PICK m \in Nat, n \in Nat, f \in Nat :
        m = mmNextId /\ n = mmNextId' /\ m <= n /\ f = MMFirstId /\ f <= m
  BY RoundSends, ConstantAssumption DEF LifeInv
<1>2. ToSet(mmActive) \subseteq f .. m - 1 /\ ToSet(mmActive') = m .. n - 1
  BY <1>1, RoundSends DEF WithdrawInv
<1>3. /\ \A id : Replaced(id) <=> id \in f .. m - 1 /\ id \notin ToSet(mmActive)
      /\ \A id : Replaced(id)' <=> id \in f .. n - 1 /\ id \notin ToSet(mmActive')
  BY <1>1, NextReplaced DEF Replaced
<1>4. \A id : id \in f .. m - 1 => id \notin m .. n - 1
  OBVIOUS
<1>5. \A id : id \in f .. n - 1 <=> id \in f .. m - 1 \/ id \in m .. n - 1
  <2>1. f <= m /\ m <= n
    BY <1>1
  <2> QED
    BY <2>1
<1> QED
  BY <1>1, <1>2, <1>3, <1>4, <1>5

LEMMA RoundWithdraw ==
  ASSUME TypeOK, TypeOK', LifeInv, WithdrawInv, outbox = <<>>,
         UNCHANGED <<batch, queue>>,
         NEW sent \in Seq(OrderRequest), QuoteRound(sent)
  PROVE  WithdrawInv'
<1>1. Flow({}, outbox') /\ InTurn(outbox')
  BY EmitFlow, EmitInTurn
<1>2. ASSUME NEW id \in Nat, ~None(outbox', CancelsOf(id))
      PROVE  Replaced(id)'
  <2>1. PICK e \in ToSet(outbox') : e \in CancelsOf(id)
    BY <1>2 DEF None
  <2>2. id \in ToSet(mmActive)
    BY <2>1, RoundSends DEF CancelsOf, CancelEvent, RequestEvent
  <2> QED
    BY <2>2, RoundReplaces
<1>3. ASSUME NEW id \in Nat, ~None(outbox', RequestsOf(id))
      PROVE  ~Replaced(id) /\ ~Replaced(id)'
  <2>1. PICK e \in ToSet(outbox') : e \in RequestsOf(id)
    BY <1>3 DEF None
  <2>2. id \in ToSet(mmActive')
    BY <2>1, RoundSends DEF RequestsOf, CancelEvent, RequestEvent
  <2> QED
    BY <2>2, RoundReplaces
<1>4. /\ None(outbox', Rejections)
      /\ \A id : None(outbox', ValidatedOf(id)) /\ None(outbox', CancelledOf(id))
  <2>1. \A e \in ToSet(outbox') : e.type \in {"CancelOrder", "OrderRequest"}
    BY RoundSends DEF CancelEvent, RequestEvent
  <2> QED
    BY <2>1 DEF None, Rejections, ValidatedOf, CancelledOf
<1>5. \A id \in Nat : /\ Precede(outbox', RequestsOf(id), CancelsOf(id))
                      /\ Precede(outbox', ValidatedOf(id), CancelledOf(id))
  BY <1>2, <1>3, <1>4, NonePrecede
<1> QED
  BY <1>1, <1>2, <1>3, <1>4, <1>5, RoundReplaces, KeepWithdraw

(* The momentum strategy's ids are not the market maker's.                   *)
LEMMA MomentumNotReplaced ==
  ASSUME TypeOK, IdsApart, LifeInv
  PROVE  ~Replaced(moNextId)
<1>1. PICK m \in Nat, n \in Nat, f \in Nat :
        m = mmNextId /\ n = moNextId /\ f = MoFirstId
  BY ConstantAssumption DEF TypeOK, MMTypeOK, MoTypeOK
<1>2. m <= f /\ f <= n
  BY <1>1 DEF IdsApart, LifeInv
<1>3. n \notin MMFirstId .. m - 1
  BY <1>2
<1> QED
  BY <1>1, <1>3 DEF Replaced

LEMMA StepWithdraw ==
  ASSUME TypeOK, TypeOK', IdsApart, LifeInv, MarkInv, WithdrawInv, [Next]_vars
  PROVE  WithdrawInv'
<1>1. CASE Quiet
  <2>1. UNCHANGED <<mmActive, mmNextId>> /\ \E gone : Flow(gone, <<>>)
    BY <1>1, QuietFlow DEF mmVars
  <2>2. \A P : None(<<>>, P)
    BY EmptyOnce
  <2> QED
    BY <1>1, <2>1, <2>2, QuietInTurn, CalmWithdraw
<1>2. ASSUME NEW throttled \in BOOLEAN, MarketDataToMarketMaker(throttled)
      PROVE  WithdrawInv'
  <2>1. /\ outbox = <<>> /\ UNCHANGED <<batch, queue>>
        /\ \/ UNCHANGED <<mmActive, mmNextId, outbox>>
           \/ \E sent \in Seq(OrderRequest) : QuoteRound(sent)
    BY <1>2, QuoteSends
  <2>2. CASE UNCHANGED <<mmActive, mmNextId, outbox>>
    BY <2>1, <2>2, SameFlow, SameInTurn, EmptyOnce, CalmWithdraw
  <2> QED
    BY <2>1, <2>2, RoundWithdraw
<1>3. ASSUME NEW trend \in Trends, MarketDataToMomentum(trend)
      PROVE  WithdrawInv'
  <2>1. /\ outbox = <<>> /\ UNCHANGED <<batch, queue, mmActive, mmNextId>>
        /\ \/ outbox' = <<>>
           \/ \E o \in OrderRequest :
                o.id = moNextId /\ outbox' = <<RequestEvent(o)>>
    BY <1>3, MomentumSends DEF MarketDataToMomentum, mmVars
  <2>2. ~Replaced(moNextId)
    BY MomentumNotReplaced
  <2>3. /\ None(outbox', Rejections)
        /\ \A id \in Nat :
             /\ None(outbox', CancelsOf(id)) /\ None(outbox', CancelledOf(id))
             /\ None(outbox', RequestsOf(id)) \/ ~Replaced(id)
             /\ None(outbox', ValidatedOf(id))
    BY <2>1, <2>2, EmptyOnce, SingleOnce
    DEF None, Rejections, CancelsOf, CancelledOf, RequestsOf, ValidatedOf,
        RequestEvent
  <2>4. Flow({}, outbox') /\ InTurn(outbox')
    BY <2>1, EmitFlow, EmitInTurn
  <2> QED
    BY <2>1, <2>3, <2>4, CalmWithdraw
<1>4. CASE SweepFills
  <2>1. /\ outbox = <<>> /\ UNCHANGED <<batch, queue, mmActive, mmNextId>>
        /\ \E r \in ExecutionReport :
             r.status = "Filled" /\ outbox' = <<ReportEvent(r)>>
    BY <1>4, FillSends DEF SweepFills, ExchangeSweep, mmVars
  <2>2. /\ None(outbox', Rejections)
        /\ \A id \in Nat :
             /\ None(outbox', CancelsOf(id)) /\ None(outbox', CancelledOf(id))
             /\ None(outbox', RequestsOf(id)) /\ None(outbox', ValidatedOf(id))
    BY <2>1, SingleOnce
    DEF None, Rejections, CancelsOf, CancelledOf, RequestsOf, ValidatedOf,
        ReportEvent
  <2>3. Flow({}, outbox') /\ InTurn(outbox')
    BY <2>1, EmitFlow, EmitInTurn
  <2> QED
    BY <2>1, <2>2, <2>3, CalmWithdraw
<1>5. CASE HandleOrderRequest
  <2>1. PICK e \in Event, o \in OrderRequest :
          /\ e = Head(batch) /\ o = e.order /\ e.type = "OrderRequest"
          /\ e \in ToSet(InFlight)
    BY <1>5, HeadStands DEF HandleOrderRequest
  <2>2. /\ Flow({e}, outbox') /\ InTurn(outbox')
        /\ UNCHANGED <<mmActive, mmNextId>>
    BY <1>5, <2>1, DoneFlow, DoneInTurn DEF HandleOrderRequest, mmVars
  <2>3. outbox' = <<>> \/ outbox' = <<ValidatedEvent(o)>>
    BY <1>5, <2>1, RequestSends
  <2>4. /\ None(outbox', Rejections)
        /\ \A id \in Nat :
             /\ None(outbox', CancelsOf(id)) /\ None(outbox', CancelledOf(id))
             /\ None(outbox', RequestsOf(id))
             /\ None(outbox', ValidatedOf(id)) \/ id = o.id
    BY <2>3, EmptyOnce, SingleOnce
    DEF None, Rejections, CancelsOf, CancelledOf, RequestsOf, ValidatedOf,
        ValidatedEvent
  <2>5. o.id \in Nat /\ ~None(InFlight, RequestsOf(o.id))
    BY <2>1 DEF None, RequestsOf, OrderRequest
  <2>6. None(InFlight, CancelledOf(o.id))
    BY <2>5 DEF WithdrawInv, Withdrawn
  <2> QED
    BY <2>2, <2>3, <2>4, <2>6, CalmWithdraw
<1>6. CASE HandleValidatedOrder
  <2>1. PICK e \in Event, o \in OrderRequest :
          /\ e = Head(batch) /\ o = e.order /\ e.type = "ValidatedOrder"
          /\ e \in Afoot(o.id) /\ o.id \in Nat
    BY <1>6, HeadStands DEF HandleValidatedOrder, OrderRequest
  <2>2. o.type = "Limit"
    BY <2>1 DEF MarkInv, MarkedEvent
  <2>3. PICK r \in ExecutionReport :
          r.status \in {"New", "Filled"} /\ outbox' = <<ReportEvent(r)>>
    BY <1>6, <2>1, <2>2, MatchSends
  <2>4. /\ None(outbox', Rejections)
        /\ \A id \in Nat :
             /\ None(outbox', CancelsOf(id)) /\ None(outbox', CancelledOf(id))
             /\ None(outbox', RequestsOf(id)) /\ None(outbox', ValidatedOf(id))
    BY <2>3, SingleOnce
    DEF None, Rejections, CancelsOf, CancelledOf, RequestsOf, ValidatedOf,
        ReportEvent
  <2>5. /\ Flow({e}, outbox') /\ InTurn(outbox')
        /\ UNCHANGED <<mmActive, mmNextId>>
    BY <1>6, <2>1, DoneFlow, DoneInTurn DEF HandleValidatedOrder, mmVars, queueVars
  <2> QED
    BY <2>3, <2>4, <2>5, CalmWithdraw
<1>7. CASE HandleCancelOrder
  <2>1. PICK e \in Event, i \in Nat :
          /\ e = Head(batch) /\ e.type = "CancelOrder" /\ i = e.id
          /\ e \in ToSet(InFlight)
    BY <1>7, HeadStands DEF HandleCancelOrder
  <2>2. PICK r \in ExecutionReport :
          r.id = i /\ r.status = "Cancelled" /\ outbox' = <<ReportEvent(r)>>
    BY <1>7, <2>1, CancelSends
  <2>3. /\ Flow({e}, outbox') /\ InTurn(outbox')
        /\ \A A, B : Precede(InFlight, A, B) /\ e \in B \ A => None(InFlight, A)
        /\ UNCHANGED <<mmActive, mmNextId>>
    BY <1>7, <2>1, DoneFlow, DoneInTurn DEF HandleCancelOrder, mmVars, queueVars
  <2>4. e \in CancelsOf(i) \ RequestsOf(i) /\ ~None(InFlight, CancelsOf(i))
    BY <2>1 DEF None, CancelsOf, RequestsOf
  <2>5. None(InFlight, RequestsOf(i)) /\ Replaced(i)
    BY <2>3, <2>4 DEF WithdrawInv, Withdrawn
  <2>6. /\ None(outbox', Rejections)
        /\ \A id \in Nat :
             /\ None(outbox', RequestsOf(id)) /\ None(outbox', CancelsOf(id))
             /\ None(outbox', ValidatedOf(id))
             /\ None(outbox', CancelledOf(id)) \/ id = i
    BY <2>2, SingleOnce
    DEF None, Rejections, CancelsOf, CancelledOf, RequestsOf, ValidatedOf,
        ReportEvent
  <2>7. \A id : Replaced(id)' <=> Replaced(id)
    BY <2>3, NextReplaced DEF Replaced
  <2>8. ToSet(mmActive') \subseteq MMFirstId .. mmNextId' - 1
    BY <2>3 DEF WithdrawInv
  <2> QED
    BY <2>3, <2>5, <2>6, <2>7, <2>8, NonePrecede, KeepWithdraw
<1>8. CASE HandleExecutionReport
  <2>1. /\ Flow({Head(batch)}, outbox') /\ InTurn(outbox') /\ outbox' = <<>>
        /\ UNCHANGED <<mmActive, mmNextId>>
    BY <1>8, DoneFlow, DoneInTurn
    DEF HandleExecutionReport, Handling, mmVars, queueVars
  <2>2. \A P : None(outbox', P)
    BY <2>1, EmptyOnce
  <2> QED
    BY <2>1, <2>2, CalmWithdraw
<1> QED
  BY <1>1, <1>2, <1>3, <1>4, <1>5, <1>6, <1>7, <1>8, StepKinds

LEMMA WithdrawHolds == Spec /\ []IdsApart => []WithdrawInv
<1>1. Init => WithdrawInv
  <2>1. Init => InFlight = <<>> \o <<>> \o <<>> /\ mmActive = <<>>
    BY DEF Init, InFlight, MM!Init, Exchange!Init
  <2>2. \A A, B : Precede(<<>>, A, B)
    BY FewPrecede
  <2>3. \A P : None(<<>>, P)
    BY EmptyOnce
  <2> QED
    BY <2>1, <2>2, <2>3, EmptyOnce DEF WithdrawInv, Withdrawn
<1>2. /\ TypeOK /\ TypeOK' /\ IdsApart /\ LifeInv /\ MarkInv /\ WithdrawInv
      /\ [Next]_vars
      => WithdrawInv'
  BY StepWithdraw
<1> QED
  BY <1>1, <1>2, TypeCorrect, LifeInvHolds, MarksHold, PTL DEF Spec

-----------------------------------------------------------------------------
(* The orders that may still trade.                                        *)

(* The quotes replaced stay replaced.                                      *)
LEMMA StayReplaced ==
  ASSUME TypeOK, LifeInv, WithdrawInv, [Next]_vars
  PROVE  \A id : Replaced(id) => Replaced(id)'
<1>1. CASE UNCHANGED <<mmActive, mmNextId>>
  BY <1>1, NextReplaced DEF Replaced
<1>2. ASSUME NEW throttled \in BOOLEAN, MarketDataToMarketMaker(throttled)
      PROVE  \A id : Replaced(id) => Replaced(id)'
  BY <1>1, <1>2, QuoteSends, RoundReplaces
<1>3. CASE ~\E throttled \in BOOLEAN : MarketDataToMarketMaker(throttled)
  <2>1. UNCHANGED mmVars
    <3>1. CASE Processor
      BY <1>3, <3>1
      DEF Processor, Flush, LoopEnter, PollPop, PollDone, ProcessorExit,
          MarketDataToBook, MarketDataToMomentum, MarketDataToExchange,
          ExchangeSweep, HandleOrderRequest, HandleValidatedOrder,
          HandleCancelOrder, HandleExecutionReport, tradingVars
    <3> QED
      BY <3>1
      DEF Next, vars, Main, UiComplete, UiQuit, UiStopFeed, UiJoin, FeedStep,
          tradingVars
  <2> QED
    BY <1>1, <2>1 DEF mmVars
<1> QED
  BY <1>2, <1>3

(* The order manager has every order on its way to the exchange, and every   *)
(* order that rests unless it was replaced.                                *)
KnownInv ==
  /\ \A o \in ToSet(resting) : o \in activeOrders \/ Replaced(o.id)
  /\ \A id \in Nat : \A e \in Afoot(id) :
       e.type = "ValidatedOrder" => e.order \in activeOrders

LEMMA NextKnown ==
  KnownInv' <=>
    /\ \A o \in ToSet(resting') : o \in activeOrders' \/ Replaced(o.id)'
    /\ \A id \in Nat : \A e \in Afoot(id)' :
         e.type = "ValidatedOrder" => e.order \in activeOrders'
BY DEF KnownInv, ToSet

LEMMA KeepKnown ==
  ASSUME LifeInv, KnownInv, NEW gone, NEW new, Flow(gone, new),
         UNCHANGED activeOrders, \A id : Replaced(id) => Replaced(id)',
         \A o \in ToSet(resting') : o \in ToSet(resting) \/ o \in activeOrders,
         \A e \in ToSet(new) : e.type # "ValidatedOrder"
  PROVE  KnownInv'
<1>1. ASSUME NEW id \in Nat, NEW e \in Afoot(id)', e.type = "ValidatedOrder"
      PROVE  e.order \in activeOrders
  <2>1. e \in Afoot(id)
    BY <1>1, FlowLife
  <2> QED
    BY <1>1, <2>1 DEF KnownInv
<1>2. \A o \in ToSet(resting') : o \in activeOrders \/ Replaced(o.id)'
  BY DEF KnownInv
<1> QED
  BY <1>1, <1>2, NextKnown

LEMMA StepKnown ==
  ASSUME TypeOK, TypeOK', LifeInv, WithdrawInv, KnownInv, [Next]_vars
  PROVE  KnownInv'
<1>0. \A id : Replaced(id) => Replaced(id)'
  BY StayReplaced
<1>1. CASE Quiet
  <2>1. UNCHANGED <<resting, activeOrders>> /\ \E gone : Flow(gone, <<>>)
    BY <1>1, QuietFlow DEF omVars
  <2>2. ToSet(resting') = ToSet(resting)
    BY <2>1
  <2> QED
    BY <1>0, <2>1, <2>2, KeepKnown, EmptyOnce
<1>2. ASSUME NEW throttled \in BOOLEAN, MarketDataToMarketMaker(throttled)
      PROVE  KnownInv'
  <2>1. /\ outbox = <<>> /\ UNCHANGED <<batch, queue, resting, activeOrders>>
        /\ \/ UNCHANGED outbox
           \/ \E sent \in Seq(OrderRequest) : QuoteRound(sent)
    BY <1>2, QuoteSends DEF MarketDataToMarketMaker, omVars
  <2>2. \A e \in ToSet(outbox') : e.type # "ValidatedOrder"
    BY <2>1, EmptyOnce, RoundSends DEF CancelEvent, RequestEvent
  <2>3. ToSet(resting') = ToSet(resting)
    BY <2>1
  <2> QED
    BY <1>0, <2>1, <2>2, <2>3, EmitFlow, KeepKnown
<1>3. ASSUME NEW trend \in Trends, MarketDataToMomentum(trend)
      PROVE  KnownInv'
  <2>1. /\ outbox = <<>> /\ UNCHANGED <<batch, queue, resting, activeOrders>>
        /\ \/ outbox' = <<>>
           \/ \E o \in OrderRequest : outbox' = <<RequestEvent(o)>>
    BY <1>3, MomentumSends DEF MarketDataToMomentum, omVars
  <2>2. \A e \in ToSet(outbox') : e.type # "ValidatedOrder"
    BY <2>1, EmptyOnce, SingleOnce DEF RequestEvent
  <2>3. ToSet(resting') = ToSet(resting)
    BY <2>1
  <2> QED
    BY <1>0, <2>1, <2>2, <2>3, EmitFlow, KeepKnown
<1>4. CASE SweepFills
  <2>1. PICK k \in 1 .. Len(resting), r \in ExecutionReport :
          /\ resting' = RemoveAt(resting, k) /\ outbox' = <<ReportEvent(r)>>
          /\ outbox = <<>> /\ UNCHANGED <<batch, queue>>
    BY <1>4, FillSends DEF SweepFills
  <2>2. UNCHANGED activeOrders
    BY <1>4 DEF SweepFills, ExchangeSweep, omVars
  <2>3. PICK s \in Seq(OrderRequest) : s = resting
    BY DEF TypeOK, ExTypeOK
  <2>4. ToSet(s) = {s[k]} \cup ToSet(RemoveAt(s, k))
    BY <2>1, <2>3, RemoveOnce
  <2>5. ToSet(resting') \subseteq ToSet(resting)
    BY <2>1, <2>3, <2>4
  <2>6. \A e \in ToSet(outbox') : e.type # "ValidatedOrder"
    BY <2>1, SingleOnce DEF ReportEvent
  <2> QED
    BY <1>0, <2>1, <2>2, <2>5, <2>6, EmitFlow, KeepKnown
<1>5. CASE HandleOrderRequest
  <2>1. PICK e \in Event, o \in OrderRequest :
          /\ e = Head(batch) /\ o = e.order /\ e.type = "OrderRequest"
          /\ e \in Afoot(o.id) /\ o.id \in Nat
    BY <1>5, HeadStands DEF HandleOrderRequest, OrderRequest
  <2>2. Flow({e}, outbox') /\ UNCHANGED resting
    BY <1>5, <2>1, DoneFlow DEF HandleOrderRequest, exVars
  <2>3. Afoot(o.id) = {e} /\ Laid(o.id) = {}
    BY <2>1, AloneAfoot
  <2>4. CASE outbox' = <<>> /\ UNCHANGED activeOrders
    <3>1. ToSet(resting') = ToSet(resting)
      BY <2>2
    <3> QED
      BY <1>0, <2>2, <2>4, <3>1, EmptyOnce, KeepKnown
  <2>5. CASE /\ outbox' = <<ValidatedEvent(o)>>
             /\ activeOrders' = {a \in activeOrders : a.id # o.id} \cup {o}
    <3>1. ASSUME NEW a \in ToSet(resting')
          PROVE  a \in activeOrders' \/ Replaced(a.id)'
      <4>1. a \in ToSet(resting) /\ a \in OrderRequest
        BY <2>2, <3>1 DEF TypeOK, ExTypeOK, ToSet
      <4>2. a.id # o.id
        BY <2>3, <4>1 DEF Laid, OfId
      <4> QED
        BY <1>0, <2>5, <4>1, <4>2 DEF KnownInv
    <3>2. ASSUME NEW id \in Nat, NEW n \in Afoot(id)', n.type = "ValidatedOrder"
          PROVE  n.order \in activeOrders'
      <4>1. n \in Afoot(id) \ {e} \/ n = ValidatedEvent(o)
        BY <2>2, <2>5, <3>2, FlowLife, SingleOnce
      <4>2. CASE n = ValidatedEvent(o)
        BY <2>5, <4>2 DEF ValidatedEvent
      <4>3. CASE n \in Afoot(id) \ {e}
        <5>1. n.order.id = id /\ id # o.id
          BY <2>3, <3>2, <4>3 DEF Afoot, Standing, StandsFor
        <5>2. n.order \in activeOrders
          BY <3>2, <4>3 DEF KnownInv
        <5> QED
          BY <2>5, <5>1, <5>2
      <4> QED
        BY <4>1, <4>2, <4>3
    <3> QED
      BY <3>1, <3>2, NextKnown
  <2> QED
    BY <1>5, <2>1, <2>4, <2>5, RequestSends
<1>6. CASE HandleValidatedOrder
  <2>1. PICK e \in Event, o \in OrderRequest :
          /\ e = Head(batch) /\ o = e.order /\ e.type = "ValidatedOrder"
          /\ e \in Afoot(o.id) /\ o.id \in Nat
    BY <1>6, HeadStands DEF HandleValidatedOrder, OrderRequest
  <2>2. Flow({e}, outbox') /\ UNCHANGED activeOrders /\ o \in activeOrders
    BY <1>6, <2>1, DoneFlow DEF HandleValidatedOrder, omVars, queueVars, KnownInv
  <2>3. PICK r \in ExecutionReport :
          /\ outbox' = <<ReportEvent(r)>>
          /\ UNCHANGED resting \/ resting' = Append(resting, o)
    BY <1>6, <2>1, MatchSends
  <2>4. \A n \in ToSet(outbox') : n.type # "ValidatedOrder"
    BY <2>3, SingleOnce DEF ReportEvent
  <2>5. ToSet(resting') \subseteq ToSet(resting) \cup {o}
    <3>1. PICK s \in Seq(OrderRequest) : s = resting
      BY DEF TypeOK, ExTypeOK
    <3>2. ToSet(Append(s, o)) = ToSet(s) \cup {o}
      BY AppendOnce
    <3> QED
      BY <2>3, <3>1, <3>2
  <2> QED
    BY <1>0, <2>2, <2>4, <2>5, KeepKnown
<1>7. CASE HandleCancelOrder
  <2>1. /\ Flow({Head(batch)}, outbox') /\ UNCHANGED <<resting, activeOrders>>
        /\ \E r \in ExecutionReport : outbox' = <<ReportEvent(r)>>
    BY <1>7, DoneFlow, CancelSends DEF HandleCancelOrder, omVars, queueVars
  <2>2. \A n \in ToSet(outbox') : n.type # "ValidatedOrder"
    BY <2>1, SingleOnce DEF ReportEvent
  <2>3. ToSet(resting') = ToSet(resting)
    BY <2>1
  <2> QED
    BY <1>0, <2>1, <2>2, <2>3, KeepKnown
<1>8. CASE HandleExecutionReport
  <2>1. PICK e \in Event, r \in ExecutionReport :
          /\ e = Head(batch) /\ r = e.report /\ e.type = "ExecutionReport"
          /\ e \in ToSet(InFlight) /\ r.id \in Nat
          /\ r.status = "Filled" => e \in Afoot(r.id)
    BY <1>8, HeadStands DEF HandleExecutionReport, ExecutionReport
  <2>2. /\ Flow({e}, outbox') /\ outbox' = <<>> /\ UNCHANGED resting
        /\ activeOrders' = {a \in activeOrders : a.id = r.id => ~OM!Final(r.status)}
        /\ \A A, B : Precede(InFlight, A, B) /\ e \in B \ A => None(InFlight, A)
    BY <1>8, <2>1, DoneFlow, DoneInTurn
    DEF HandleExecutionReport, OM!HandleExecutionReport, Handling, exVars,
        queueVars
  <2>3. ToSet(resting') = ToSet(resting)
    BY <2>2
  <2>4. r.status \in {"Filled", "Cancelled"} \/ UNCHANGED activeOrders
    <3>1. r.status # "Rejected"
      BY <2>1 DEF WithdrawInv, None, Rejections
    <3> QED
      BY <2>2, <3>1 DEF OM!Final
  <2>5. CASE UNCHANGED activeOrders
    BY <1>0, <2>2, <2>3, <2>5, EmptyOnce, KeepKnown
  <2>6. ASSUME Laid(r.id) = {} \/ Replaced(r.id), None(InFlight, ValidatedOf(r.id))
        PROVE  KnownInv'
    <3>1. ASSUME NEW a \in ToSet(resting')
          PROVE  a \in activeOrders' \/ Replaced(a.id)'
      <4>1. a \in ToSet(resting) /\ a \in OrderRequest
        BY <2>2, <3>1 DEF TypeOK, ExTypeOK, ToSet
      <4>2. a.id # r.id \/ Replaced(a.id)
        BY <2>6, <4>1 DEF Laid, OfId
      <4> QED
        BY <1>0, <2>2, <4>1, <4>2 DEF KnownInv
    <3>2. ASSUME NEW id \in Nat, NEW n \in Afoot(id)', n.type = "ValidatedOrder"
          PROVE  n.order \in activeOrders'
      <4>1. n \in Afoot(id)
        BY <2>2, <3>2, FlowLife, EmptyOnce
      <4>2. n.order.id = id /\ n \in ValidatedOf(id)
        BY <3>2, <4>1 DEF Afoot, Standing, StandsFor, ValidatedOf
      <4>3. id # r.id
        BY <2>6, <4>1, <4>2 DEF None, Afoot
      <4>4. n.order \in activeOrders
        BY <3>2, <4>1 DEF KnownInv
      <4> QED
        BY <2>2, <4>2, <4>3, <4>4
    <3> QED
      BY <3>1, <3>2, NextKnown
  <2>7. CASE r.status = "Filled"
    <3>1. Afoot(r.id) = {e} /\ Laid(r.id) = {}
      BY <2>1, <2>7, AloneAfoot
    <3>2. None(InFlight, ValidatedOf(r.id))
      BY <2>1, <3>1, KindsAreOrders DEF None, Afoot, ValidatedOf
    <3> QED
      BY <2>6, <3>1, <3>2
  <2>8. CASE r.status = "Cancelled"
    <3>1. e \in CancelledOf(r.id) \ ValidatedOf(r.id)
      BY <2>1, <2>8 DEF CancelledOf, ValidatedOf
    <3>2. ~None(InFlight, CancelledOf(r.id))
      BY <2>1, <3>1 DEF None
    <3>3. Replaced(r.id) /\ None(InFlight, ValidatedOf(r.id))
      BY <2>1, <2>2, <3>1, <3>2 DEF WithdrawInv, Withdrawn
    <3> QED
      BY <2>6, <3>3
  <2> QED
    BY <2>4, <2>5, <2>7, <2>8
<1> QED
  BY <1>1, <1>2, <1>3, <1>4, <1>5, <1>6, <1>7, <1>8, StepKinds

(* The order manager never forgets an order that may still trade: an order    *)
(* reaches the order manager, and then the exchange, before its             *)
(* cancellation does, and comes back before Cancelled does.                *)
THEOREM TradeableTracked == Spec /\ []IdsApart => []TradeableIsTracked
<1>1. Init => KnownInv
  <2>1. Init => /\ InFlight = <<>> \o <<>> \o <<>> /\ resting = <<>>
    BY DEF Init, InFlight, Exchange!Init
  <2> QED
    BY <2>1, EmptyOnce DEF KnownInv, Afoot
<1>2. TypeOK /\ TypeOK' /\ LifeInv /\ WithdrawInv /\ KnownInv /\ [Next]_vars
      => KnownInv'
  BY StepKnown
<1>3. TypeOK /\ KnownInv => TradeableIsTracked
  <2> SUFFICES ASSUME TypeOK, KnownInv,
                      NEW e \in ToSet(InFlight), e.type = "ValidatedOrder"
               PROVE  e.order \in activeOrders
    BY DEF KnownInv, TradeableIsTracked
  <2>1. e \in Event
    BY RowParts DEF ToSet
  <2>2. e.order.id \in Nat
    BY <2>1 DEF Event, OrderRequest
  <2>3. e \in Afoot(e.order.id)
    BY <2>1 DEF Afoot, Standing, StandsFor
  <2> QED
    BY <2>2, <2>3 DEF KnownInv
<1> QED
  BY <1>1, <1>2, <1>3, TypeCorrect, LifeInvHolds, WithdrawHolds, PTL DEF Spec

-----------------------------------------------------------------------------
(* The quotes that were replaced.                                          *)

(* What will end an order in the order manager, and the replaced orders     *)
(* that wait for it: active, or with a request that may make them active.   *)
Ending(id) ==
  CancelsOf(id) \cup
  {e \in Event : /\ e.type = "ExecutionReport" /\ e.report.id = id
                 /\ OM!Final(e.report.status)}
Due(id) ==
  /\ Replaced(id)
  /\ (\E o \in activeOrders : o.id = id) \/ ~None(InFlight, RequestsOf(id))
GoneInv ==
  \A id \in Nat : Due(id) =>
    id \in astray \/ ToSet(InFlight) \cap Ending(id) # {}

LEMMA NextGone ==
  /\ \A id : Ending(id)' = Ending(id)
  /\ \A id : Due(id)' <=>
       /\ Replaced(id)'
       /\ \/ \E o \in activeOrders' : o.id = id
          \/ ~None(InFlight', RequestsOf(id))
  /\ GoneInv' <=>
       \A id \in Nat : Due(id)' =>
         id \in astray' \/ ToSet(InFlight') \cap Ending(id) # {}
<1>1. \A id : Ending(id)' = Ending(id)
  BY DEF Ending, CancelsOf, Event, OM!Final
<1>2. \A id : RequestsOf(id)' = RequestsOf(id)
  BY DEF RequestsOf, Event
<1>3. \A id : None(InFlight, RequestsOf(id))' <=> None(InFlight', RequestsOf(id))
  BY <1>2 DEF None, ToSet
<1>4. \A id : Due(id)' <=>
        /\ Replaced(id)'
        /\ \/ \E o \in activeOrders' : o.id = id
           \/ ~None(InFlight', RequestsOf(id))
  BY <1>3 DEF Due
<1>5. ToSet(InFlight)' = ToSet(InFlight')
  BY DEF ToSet
<1> QED
  BY <1>1, <1>4, <1>5 DEF GoneInv

(* A step that leaves due orders their end, or sends it.                    *)
LEMMA KeepGone ==
  ASSUME GoneInv, NEW gone, NEW new, Flow(gone, new), astray \subseteq astray',
         \A id \in Nat : Due(id)' =>
           \/ Due(id) /\ gone \cap Ending(id) = {}
           \/ ToSet(new) \cap Ending(id) # {}
  PROVE  GoneInv'
<1>1. ASSUME NEW id \in Nat, Due(id)'
      PROVE  id \in astray' \/ ToSet(InFlight') \cap Ending(id) # {}
  <2>1. \/ id \in astray
        \/ \E e \in (ToSet(InFlight) \ gone) \cup ToSet(new) : e \in Ending(id)
    BY <1>1 DEF GoneInv
  <2>2. ASSUME NEW e \in (ToSet(InFlight) \ gone) \cup ToSet(new), e \in Ending(id)
        PROVE  id \in astray' \/ ToSet(InFlight') \cap Ending(id) # {}
    <3>1. e \in ToSet(InFlight') \/ Subject(e) \subseteq astray'
      BY DEF Flow
    <3>2. Subject(e) = {id}
      BY <2>2 DEF Ending, CancelsOf, Subject
    <3> QED
      BY <2>2, <3>1, <3>2
  <2> QED
    BY <2>1, <2>2
<1> QED
  BY <1>1, NextGone

(* A step that replaces and activates nothing has no more orders due.        *)
LEMMA CalmDue ==
  ASSUME NEW gone, NEW new, Flow(gone, new), UNCHANGED <<mmActive, mmNextId>>,
         NEW id, None(new, RequestsOf(id)) \/ ~Replaced(id), Due(id)',
         \A o \in activeOrders' : o.id = id =>
           \/ o \in activeOrders \/ ~None(InFlight, RequestsOf(id))
  PROVE  Due(id)
<1>1. Replaced(id)
  BY NextGone, NextReplaced DEF Replaced
<1>2. ~None(InFlight', RequestsOf(id)) => ~None(InFlight, RequestsOf(id))
  BY <1>1, KindsAreOrders, StillNone
<1> QED
  BY <1>1, <1>2, NextGone DEF Due

LEMMA StepGone ==
  ASSUME TypeOK, TypeOK', IdsApart, LifeInv, WithdrawInv, GoneInv, [Next]_vars
  PROVE  GoneInv'
<1>1. CASE Quiet
  <2>1. PICK gone \in SUBSET {e \in Event : e.type = "MarketData"} :
          Flow(gone, <<>>)
    BY <1>1, QuietFlow
  <2>2. UNCHANGED <<mmActive, mmNextId, activeOrders>> /\ astray \subseteq astray'
    BY <1>1, QuietFlow DEF mmVars, omVars
  <2>3. \A id : gone \cap Ending(id) = {} /\ None(<<>>, RequestsOf(id))
    BY EmptyOnce DEF Ending, CancelsOf
  <2>4. \A id \in Nat : Due(id)' => Due(id)
    BY <2>1, <2>2, <2>3, CalmDue
  <2> QED
    BY <2>1, <2>2, <2>3, <2>4, KeepGone
<1>2. ASSUME NEW throttled \in BOOLEAN, MarketDataToMarketMaker(throttled)
      PROVE  GoneInv'
  <2>1. /\ outbox = <<>> /\ UNCHANGED <<batch, queue, activeOrders, astray>>
        /\ \/ UNCHANGED <<mmActive, mmNextId, outbox>>
           \/ \E sent \in Seq(OrderRequest) : QuoteRound(sent)
    BY <1>2, QuoteSends DEF MarketDataToMarketMaker, omVars, queueVars
  <2>2. CASE UNCHANGED <<mmActive, mmNextId, outbox>>
    <3>1. InFlight' = InFlight
      BY <2>1, <2>2 DEF InFlight
    <3>2. \A id : Replaced(id)' <=> Replaced(id)
      BY <2>2, NextReplaced DEF Replaced
    <3>3. \A id \in Nat : Due(id)' => Due(id)
      BY <2>1, <3>1, <3>2, NextGone DEF Due
    <3> QED
      BY <2>1, <3>1, <3>3, NextGone DEF GoneInv
  <2>3. ASSUME NEW sent \in Seq(OrderRequest), QuoteRound(sent) PROVE GoneInv'
    <3>1. Flow({}, outbox')
      BY <2>1, EmitFlow
    <3>2. ASSUME NEW id \in Nat, Due(id)'
          PROVE  Due(id) \/ ToSet(outbox') \cap Ending(id) # {}
      <4>1. Replaced(id) \/ id \in ToSet(mmActive)
        BY <2>3, <3>2, NextGone, RoundReplaces
      <4>2. CASE id \in ToSet(mmActive)
        <5>1. CancelEvent(id) \in ToSet(outbox')
          BY <2>3, <4>2, RoundSends
        <5>2. CancelEvent(id) \in Event /\ CancelEvent(id) \in CancelsOf(id)
          BY DEF CancelEvent, CancelsOf, Event
        <5> QED
          BY <5>1, <5>2 DEF Ending
      <4>3. CASE Replaced(id) /\ id \notin ToSet(mmActive')
        <5>1. None(outbox', RequestsOf(id))
          BY <2>3, <4>3, RoundSends
          DEF None, RequestsOf, CancelEvent, RequestEvent
        <5>2. ~None(InFlight', RequestsOf(id)) => ~None(InFlight, RequestsOf(id))
          BY <3>1, <5>1, KindsAreOrders, StillNone
        <5> QED
          BY <2>1, <3>2, <4>3, <5>2, NextGone DEF Due
      <4> QED
        BY <2>3, <4>1, <4>2, <4>3, RoundReplaces
    <3> QED
      BY <2>1, <3>1, <3>2, KeepGone
  <2> QED
    BY <2>1, <2>2, <2>3
<1>3. ASSUME NEW trend \in Trends, MarketDataToMomentum(trend)
      PROVE  GoneInv'
  <2>1. /\ outbox = <<>>
        /\ UNCHANGED <<batch, queue, mmActive, mmNextId, activeOrders, astray>>
        /\ \/ outbox' = <<>>
           \/ \E o \in OrderRequest :
                o.id = moNextId /\ outbox' = <<RequestEvent(o)>>
    BY <1>3, MomentumSends DEF MarketDataToMomentum, mmVars, omVars, queueVars
  <2>2. ~Replaced(moNextId)
    BY MomentumNotReplaced
  <2>3. \A id : None(outbox', RequestsOf(id)) \/ ~Replaced(id)
    BY <2>1, <2>2, EmptyOnce, SingleOnce DEF None, RequestsOf, RequestEvent
  <2>4. Flow({}, outbox')
    BY <2>1, EmitFlow
  <2>5. \A id \in Nat : Due(id)' => Due(id)
    BY <2>1, <2>3, <2>4, CalmDue
  <2> QED
    BY <2>1, <2>4, <2>5, KeepGone
<1>4. CASE SweepFills
  <2>1. /\ outbox = <<>>
        /\ UNCHANGED <<batch, queue, mmActive, mmNextId, activeOrders, astray>>
        /\ \E r \in ExecutionReport : outbox' = <<ReportEvent(r)>>
    BY <1>4, FillSends DEF SweepFills, ExchangeSweep, mmVars, omVars, queueVars
  <2>2. \A id : None(outbox', RequestsOf(id))
    BY <2>1, SingleOnce DEF None, RequestsOf, ReportEvent
  <2>3. Flow({}, outbox')
    BY <2>1, EmitFlow
  <2>4. \A id \in Nat : Due(id)' => Due(id)
    BY <2>1, <2>2, <2>3, CalmDue
  <2> QED
    BY <2>1, <2>3, <2>4, KeepGone
<1>5. CASE HandleOrderRequest
  <2>1. PICK e \in Event, o \in OrderRequest :
          /\ e = Head(batch) /\ o = e.order /\ e.type = "OrderRequest"
          /\ e \in ToSet(InFlight)
    BY <1>5, HeadStands DEF HandleOrderRequest
  <2>2. Flow({e}, outbox') /\ UNCHANGED <<mmActive, mmNextId>>
    BY <1>5, <2>1, DoneFlow DEF HandleOrderRequest, mmVars
  <2>3. /\ outbox' = <<>> \/ outbox' = <<ValidatedEvent(o)>>
        /\ activeOrders' \subseteq activeOrders \cup {o}
        /\ astray \subseteq astray'
    BY <1>5, <2>1, RequestSends
  <2>4. \A id : None(outbox', RequestsOf(id))
    BY <2>3, EmptyOnce, SingleOnce DEF None, RequestsOf, ValidatedEvent
  <2>5. ~None(InFlight, RequestsOf(o.id))
    BY <2>1 DEF None, RequestsOf
  <2>6. \A id \in Nat : Due(id)' => Due(id)
    BY <2>2, <2>3, <2>4, <2>5, CalmDue
  <2>7. \A id : {e} \cap Ending(id) = {}
    BY <2>1 DEF Ending, CancelsOf
  <2> QED
    BY <2>2, <2>3, <2>6, <2>7, KeepGone
<1>6. CASE HandleValidatedOrder
  <2>1. PICK e \in Event : e = Head(batch) /\ e.type = "ValidatedOrder"
    BY <1>6, HeadStands DEF HandleValidatedOrder
  <2>2. /\ Flow({e}, outbox')
        /\ UNCHANGED <<mmActive, mmNextId, activeOrders, astray>>
    BY <1>6, <2>1, DoneFlow DEF HandleValidatedOrder, mmVars, omVars, queueVars
  <2>3. \A id : None(outbox', RequestsOf(id))
    BY <1>6, MatchSends, SingleOnce DEF None, RequestsOf, ReportEvent
  <2>4. \A id \in Nat : Due(id)' => Due(id)
    BY <2>2, <2>3, CalmDue
  <2>5. \A id : {e} \cap Ending(id) = {}
    BY <2>1 DEF Ending, CancelsOf
  <2> QED
    BY <2>2, <2>4, <2>5, KeepGone
<1>7. CASE HandleCancelOrder
  <2>1. PICK e \in Event, i \in Nat :
          e = Head(batch) /\ e.type = "CancelOrder" /\ i = e.id
    BY <1>7, HeadStands DEF HandleCancelOrder
  <2>2. PICK r \in ExecutionReport :
          r.id = i /\ r.status = "Cancelled" /\ outbox' = <<ReportEvent(r)>>
    BY <1>7, <2>1, CancelSends
  <2>3. /\ Flow({e}, outbox')
        /\ UNCHANGED <<mmActive, mmNextId, activeOrders, astray>>
    BY <1>7, <2>1, DoneFlow DEF HandleCancelOrder, mmVars, omVars, queueVars
  <2>4. ToSet(outbox') = {ReportEvent(r)} /\ \A id : None(outbox', RequestsOf(id))
    BY <2>2, SingleOnce DEF None, RequestsOf, ReportEvent
  <2>5. \A id \in Nat : Due(id)' => Due(id)
    BY <2>3, <2>4, CalmDue
  <2>6. ReportEvent(r) \in Ending(i)
    BY <2>2 DEF Ending, ReportEvent, Event, OM!Final
  <2>7. \A id : id # i => {e} \cap Ending(id) = {}
    BY <2>1 DEF Ending, CancelsOf
  <2> QED
    BY <2>3, <2>4, <2>5, <2>6, <2>7, KeepGone
<1>8. CASE HandleExecutionReport
  <2>1. PICK e \in Event, r \in ExecutionReport :
          /\ e = Head(batch) /\ r = e.report /\ e.type = "ExecutionReport"
          /\ e \in ToSet(InFlight) /\ r.id \in Nat
          /\ r.status = "Filled" => e \in Afoot(r.id)
    BY <1>8, HeadStands DEF HandleExecutionReport, ExecutionReport
  <2>2. /\ Flow({e}, outbox') /\ outbox' = <<>>
        /\ UNCHANGED <<mmActive, mmNextId, astray>>
        /\ activeOrders' = {a \in activeOrders : a.id = r.id => ~OM!Final(r.status)}
    BY <1>8, <2>1, DoneFlow
    DEF HandleExecutionReport, OM!HandleExecutionReport, Handling, mmVars,
        queueVars
  <2>3. \A id : None(outbox', RequestsOf(id))
    BY <2>2, EmptyOnce
  <2>4. \A id \in Nat : Due(id)' => Due(id)
    BY <2>2, <2>3, CalmDue
  <2>5. CASE ~OM!Final(r.status)
    <3>1. \A id : {e} \cap Ending(id) = {}
      BY <2>1, <2>5 DEF Ending, CancelsOf
    <3> QED
      BY <2>2, <2>4, <3>1, KeepGone
  <2>6. CASE OM!Final(r.status)
    <3>1. None(InFlight, RequestsOf(r.id))
      <4>1. r.status \in {"Filled", "Cancelled"}
        BY <2>1, <2>6 DEF WithdrawInv, None, Rejections, OM!Final
      <4>2. CASE r.status = "Filled"
        <5>1. Afoot(r.id) = {e} /\ e \notin RequestsOf(r.id)
          BY <2>1, <4>2, AloneAfoot DEF RequestsOf
        <5> QED
          BY <5>1, KindsAreOrders DEF None, Afoot
      <4>3. CASE r.status = "Cancelled"
        <5>1. ~None(InFlight, CancelledOf(r.id))
          BY <2>1, <4>3 DEF None, CancelledOf
        <5> QED
          BY <2>1, <5>1 DEF WithdrawInv, Withdrawn
      <4> QED
        BY <4>1, <4>2, <4>3
    <3>2. None(InFlight', RequestsOf(r.id))
      BY <2>2, <2>3, <3>1, KindsAreOrders, StillNone
    <3>3. ~Due(r.id)'
      BY <2>2, <2>6, <3>2, NextGone
    <3>4. \A id : id # r.id => {e} \cap Ending(id) = {}
      BY <2>1 DEF Ending, CancelsOf
    <3> QED
      BY <2>2, <2>4, <3>3, <3>4, KeepGone
  <2> QED
    BY <2>5, <2>6
<1> QED
  BY <1>1, <1>2, <1>3, <1>4, <1>5, <1>6, <1>7, <1>8, StepKinds

(* No quote that was replaced stays active: its cancellation, Cancelled, or   *)
(* another final report is on its way, unless an event of it was refused.    *)
THEOREM ReplacedCancelled == Spec /\ []IdsApart => []ReplacedAreCancelled
<1>1. Init => GoneInv
  <2>1. Init => /\ InFlight = <<>> \o <<>> \o <<>> /\ activeOrders = {}
    BY DEF Init, InFlight, Exchange!Init, OM!Init
  <2> QED
    BY <2>1, EmptyOnce DEF GoneInv, Due
<1>2. /\ TypeOK /\ TypeOK' /\ IdsApart /\ LifeInv /\ WithdrawInv /\ GoneInv
      /\ [Next]_vars
      => GoneInv'
  BY StepGone
<1>3. TypeOK /\ GoneInv => ReplacedAreCancelled
  <2> SUFFICES ASSUME TypeOK, GoneInv, NEW o \in activeOrders, Replaced(o.id)
               PROVE  \/ o.id \in astray
                      \/ ToSet(InFlight) \cap Ending(o.id) # {}
    BY DEF ReplacedAreCancelled, Ending, CancelsOf
  <2>1. o.id \in Nat
    BY DEF TypeOK, OmTypeOK, OrderRequest
  <2> QED
    BY <2>1 DEF GoneInv, Due
<1> QED
  BY <1>1, <1>2, <1>3, TypeCorrect, LifeInvHolds, WithdrawHolds, PTL DEF Spec

-----------------------------------------------------------------------------
(* main.cpp as it is: no trade reaches the order book.  The market maker     *)
(* then never quotes, so that its ids do not grow and nothing is replaced.  *)

BareInv == bidLevels = <<>> /\ mmNextId = MMFirstId

LEMMA StepBare ==
  ASSUME ~BookIsFed, TypeOK, TypeOK', BareInv, [Next]_vars
  PROVE  BareInv'
<1>1. ASSUME NEW throttled \in BOOLEAN, MarketDataToMarketMaker(throttled)
      PROVE  BareInv'
  <2>1. ~MM!Book!TwoSided
    BY DEF BareInv, MM!Book!TwoSided
  <2>2. UNCHANGED <<bidLevels, mmNextId>>
    BY <1>1, <2>1, QuoteSends DEF MarketDataToMarketMaker, bookVars
  <2> QED
    BY <2>2 DEF BareInv
<1>2. CASE Processor
  <2>1. \/ UNCHANGED <<bidLevels, mmNextId>>
        \/ \E throttled \in BOOLEAN : MarketDataToMarketMaker(throttled)
    BY <1>2
    DEF Processor, Flush, LoopEnter, PollPop, PollDone, ProcessorExit,
        MarketDataToBook, MarketDataToMomentum, MarketDataToExchange,
        ExchangeSweep, HandleOrderRequest, HandleValidatedOrder,
        HandleCancelOrder, HandleExecutionReport, tradingVars, bookVars, mmVars
  <2> QED
    BY <1>1, <2>1 DEF BareInv
<1>3. CASE UNCHANGED vars \/ Main \/ \E f \in Feeds!Feed : FeedStep(f)
  BY <1>3
  DEF vars, Main, UiComplete, UiQuit, UiStopFeed, UiJoin, FeedStep,
      tradingVars, bookVars, mmVars, BareInv
<1> QED
  BY <1>2, <1>3 DEF Next

LEMMA BareBook ==
  ASSUME ~BookIsFed PROVE Spec => []BareInv
<1>1. Init => BareInv
  BY DEF Init, MM!Init, Book!Init, BareInv
<1>2. TypeOK /\ TypeOK' /\ BareInv /\ [Next]_vars => BareInv'
  BY StepBare
<1> QED
  BY <1>1, <1>2, TypeCorrect, PTL DEF Spec

LEMMA BareIdsApart == BareInv => IdsApart
BY ConstantAssumption DEF BareInv, IdsApart

(* As main.cpp is, the ids never meet: its orders live one life each, none   *)
(* is stranded, the order manager knows every order that rests or is on its *)
(* way to the exchange, and the momentum strategy's flag says what its      *)
(* position is.                                                            *)
THEOREM AsMainIs ==
  ASSUME ~BookIsFed
  PROVE  Spec => /\ FollowsLifecycle
                 /\ []NothingStranded
                 /\ []TradeableIsTracked
                 /\ [](ToSet(resting) \subseteq activeOrders)
                 /\ []FlagMeansPosition
<1>1. BareInv /\ TradeableIsTracked => ToSet(resting) \subseteq activeOrders
  <2> SUFFICES ASSUME BareInv, TradeableIsTracked, NEW o \in ToSet(resting)
               PROVE  o \in activeOrders
    OBVIOUS
  <2>1. PICK f \in Nat : f = MMFirstId
    BY ConstantAssumption
  <2>2. f .. f - 1 = {}
    OBVIOUS
  <2>3. ~Replaced(o.id)
    BY <2>1, <2>2 DEF Replaced, BareInv
  <2> QED
    BY <2>3 DEF TradeableIsTracked
<1> QED
  BY <1>1, OneLifeEach, NoneStranded, TradeableTracked, FlagIsPosition, BareBook,
     BareIdsApart, PTL

-----------------------------------------------------------------------------
(* The market maker's ids stay below the momentum strategy's: a trade makes  *)
(* it send two orders at most, and the feeds bring in so many trades.  Each  *)
(* trade read leaves room for two ids until the market maker has seen it.    *)

Trades == {e \in Event : e.type = "MarketData"}
Seen == pc \in {"momentum", "exchange", "sweep"}
Waiting == HowMany(batch, Trades) + HowMany(queue, Trades)
Unseen == Waiting - (IF Seen THEN 1 ELSE 0)
IsReading(f) == IF feedPc[f] = "read" THEN 1 ELSE 0
Reading == IsReading("live") + IsReading("replay")
Brought == ticks["live"] + ticks["replay"]

RoomInv ==
  /\ None(outbox, Trades)
  /\ pc = "quote" \/ Seen => batch # <<>> /\ Head(batch) \in Trades
  /\ mmNextId + 2 * (Unseen + Reading) <= MMFirstId + 2 * Brought

LEMMA NextRoom ==
  /\ Trades' = Trades
  /\ (RoomInv <=>
        /\ None(outbox, Trades)
        /\ pc = "quote" \/ Seen => batch # <<>> /\ Head(batch) \in Trades
        /\ mmNextId + 2 * (Unseen + Reading) <= MMFirstId + 2 * Brought)'
  /\ Waiting' = HowMany(batch', Trades) + HowMany(queue', Trades)
<1>1. Trades' = Trades
  BY DEF Trades, Event
<1>2. RoomInv <=>
        /\ None(outbox, Trades)
        /\ pc = "quote" \/ Seen => batch # <<>> /\ Head(batch) \in Trades
        /\ mmNextId + 2 * (Unseen + Reading) <= MMFirstId + 2 * Brought
  BY DEF RoomInv
<1>3. Waiting' = HowMany(batch', Trades') + HowMany(queue', Trades')
  BY DEF Waiting
<1>4. (RoomInv <=>
        /\ None(outbox, Trades)
        /\ pc = "quote" \/ Seen => batch # <<>> /\ Head(batch) \in Trades
        /\ mmNextId + 2 * (Unseen + Reading) <= MMFirstId + 2 * Brought)'
  BY <1>2, PTL
<1> QED
  BY <1>1, <1>3, <1>4

LEMMA RoomTypes ==
  ASSUME TypeOK
  PROVE  /\ HowMany(batch, Trades) \in Nat /\ HowMany(queue, Trades) \in Nat
         /\ Waiting \in Nat /\ Unseen \in Int /\ Reading \in Nat /\ Brought \in Nat
         /\ mmNextId \in Nat /\ MMFirstId \in Nat /\ MoFirstId \in Nat
<1>1. PICK b \in Seq(Event), q \in Seq(Event) : b = batch /\ q = queue
  BY DEF TypeOK, LoopTypeOK, QueueTypeOK
<1>2. HowMany(b, Trades) \in Nat /\ HowMany(q, Trades) \in Nat
  BY SpotsFinite
<1>3. Brought \in Nat
  <2>1. ticks["live"] \in 0 .. MaxTicks /\ ticks["replay"] \in 0 .. MaxTicks
    BY DEF TypeOK, FeedTypeOK, Feeds!Feed
  <2> QED
    BY <2>1 DEF Brought
<1>4. Reading \in Nat
  BY DEF Reading, IsReading
<1>5. mmNextId \in Nat /\ MMFirstId \in Nat /\ MoFirstId \in Nat
  BY ConstantAssumption DEF TypeOK, MMTypeOK
<1> QED
  BY <1>1, <1>2, <1>3, <1>4, <1>5 DEF Waiting, Unseen

LEMMA RoomTypesNext ==
  ASSUME TypeOK'
  PROVE  /\ HowMany(batch', Trades) \in Nat /\ HowMany(queue', Trades) \in Nat
         /\ Waiting' \in Nat /\ Unseen' \in Int /\ Reading' \in Nat
         /\ Brought' \in Nat /\ mmNextId' \in Nat
<1>1. (TypeOK => /\ HowMany(batch, Trades) \in Nat
                 /\ HowMany(queue, Trades) \in Nat
                 /\ Waiting \in Nat /\ Unseen \in Int /\ Reading \in Nat
                 /\ Brought \in Nat /\ mmNextId \in Nat)'
  BY RoomTypes, PTL
<1> QED
  BY <1>1, NextRoom

(* A step of no feed keeps the room it finds.                               *)
LEMMA KeepRoom ==
  ASSUME TypeOK, TypeOK', RoomInv, UNCHANGED <<feedPc, ticks>>,
         None(outbox', Trades),
         pc' = "quote" \/ Seen' => batch' # <<>> /\ Head(batch') \in Trades,
         \/ mmNextId' = mmNextId /\ Unseen' = Unseen
         \/ mmNextId' <= mmNextId + 2 /\ Unseen' = Unseen - 1
  PROVE  RoomInv'
<1>1. Reading' = Reading /\ Brought' = Brought
  BY DEF Reading, IsReading, Brought
<1>2. PICK n \in Int, u \in Int, r \in Int, b \in Int :
        /\ n = mmNextId /\ u = Unseen /\ r = Reading
        /\ b = MMFirstId + 2 * Brought
  BY RoomTypes
<1>3. PICK m \in Int, v \in Int : m = mmNextId' /\ v = Unseen'
  BY RoomTypesNext
<1>4. n + 2 * (u + r) <= b
  BY <1>2 DEF RoomInv
<1>5. (m = n /\ v = u) \/ (m <= n + 2 /\ v = u - 1)
  BY <1>2, <1>3
<1>6. m + 2 * (v + r) <= b
  BY <1>4, <1>5
<1>7. mmNextId' + 2 * (Unseen' + Reading') <= MMFirstId + 2 * Brought'
  BY <1>1, <1>2, <1>3, <1>6
<1> QED
  BY <1>7, NextRoom

(* A push brings in no more trades than it carries.                         *)
LEMMA PushRoom ==
  ASSUME TypeOK, NEW e \in Event, Push(e)
  PROVE  /\ HowMany(queue', Trades) <= HowMany(queue, Trades) + 1
         /\ e \notin Trades => HowMany(queue', Trades) = HowMany(queue, Trades)
<1>1. PICK q \in Seq(Event) : q = queue
  BY DEF TypeOK, QueueTypeOK
<1>2. HowMany(q, Trades) \in Nat
  BY SpotsFinite
<1>3. CASE queue' = Append(q, e)
  <2>1. HowMany(Append(q, e), Trades)
          = HowMany(q, Trades) + IF e \in Trades THEN 1 ELSE 0
    BY AppendMany
  <2>2. HowMany(queue', Trades) = HowMany(Append(q, e), Trades)
    BY <1>3
  <2>3. CASE e \in Trades
    BY <1>1, <1>2, <2>1, <2>2, <2>3
  <2>4. CASE e \notin Trades
    BY <1>1, <1>2, <2>1, <2>2, <2>4
  <2> QED
    BY <2>3, <2>4
<1>4. CASE queue' = q
  <2>1. HowMany(queue', Trades) = HowMany(q, Trades)
    BY <1>4
  <2> QED
    BY <1>1, <1>2, <2>1
<1> QED
  BY <1>1, <1>3, <1>4 DEF Push, Queue!Enqueue

LEMMA UnseenMoves ==
  ASSUME TypeOK, TypeOK', UNCHANGED <<batch, pc>>
  PROVE  Unseen' - Unseen = HowMany(queue', Trades) - HowMany(queue, Trades)
<1>1. PICK n \in Nat, m \in Nat, b \in Nat :
        /\ n = HowMany(queue, Trades) /\ m = HowMany(queue', Trades)
        /\ b = HowMany(batch, Trades)
  BY RoomTypes, RoomTypesNext
<1>2. Waiting = b + n /\ Waiting' = b + m
  BY <1>1, NextRoom DEF Waiting
<1>3. Seen' = Seen
  BY DEF Seen
<1> QED
  BY <1>1, <1>2, <1>3 DEF Unseen

LEMMA FeedRoom ==
  ASSUME TypeOK, TypeOK', RoomInv, NEW f \in Feeds!Feed, FeedStep(f)
  PROVE  RoomInv'
<1>1. UNCHANGED <<batch, outbox, pc, mmNextId>>
  BY DEF FeedStep, loopVars, tradingVars, mmVars
<1>2. \/ UNCHANGED queue /\ Brought' = Brought + 1 /\ Reading' = Reading + 1
      \/ UNCHANGED queue /\ Brought' = Brought /\ Reading' <= Reading
      \/ FeedPush(f) /\ Brought' = Brought /\ Reading' = Reading - 1
  <2>1. CASE Feeds!Read(f) /\ UNCHANGED queueVars
    <3>1. /\ UNCHANGED queue /\ feedPc[f] # "read"
          /\ feedPc' = [feedPc EXCEPT ![f] = "read"]
          /\ ticks' = [ticks EXCEPT ![f] = @ + 1]
      BY <2>1 DEF Feeds!Read, Feeds!Goto, queueVars
    <3> QED
      BY <3>1
      DEF Brought, Reading, IsReading, Feeds!Feed, TypeOK, FeedTypeOK
  <2>2. CASE /\ Feeds!Start(f) \/ Feeds!Throw(f) \/ Feeds!End(f)
             /\ UNCHANGED queueVars
    <3>1. UNCHANGED <<queue, ticks>>
      BY <2>2 DEF Feeds!Start, Feeds!Throw, Feeds!End, queueVars
    <3>2. \E to \in {"loop", "exited", "thrown"} :
            feedPc' = [feedPc EXCEPT ![f] = to]
      BY <2>2 DEF Feeds!Start, Feeds!Throw, Feeds!End, Feeds!Goto
    <3> QED
      BY <3>1, <3>2
      DEF Brought, Reading, IsReading, Feeds!Feed, TypeOK, FeedTypeOK
  <2>3. CASE FeedPush(f)
    <3>1. /\ feedPc[f] = "read" /\ UNCHANGED ticks
          /\ feedPc' = [feedPc EXCEPT ![f] = "loop"]
      BY <2>3 DEF FeedPush, Feeds!Pushed, Feeds!Goto
    <3> QED
      BY <2>3, <3>1
      DEF Brought, Reading, IsReading, Feeds!Feed, TypeOK, FeedTypeOK
  <2> QED
    BY <2>1, <2>2, <2>3 DEF FeedStep
<1>3. /\ FeedPush(f) => HowMany(queue', Trades) <= HowMany(queue, Trades) + 1
      /\ queue' = queue => HowMany(queue', Trades) = HowMany(queue, Trades)
  <2>1. ASSUME FeedPush(f)
        PROVE  HowMany(queue', Trades) <= HowMany(queue, Trades) + 1
    <3>1. PICK price \in Prices \cup ShortPrices, size \in Sizes,
               maker \in Makers : Push(MarketDataEvent(price, size, maker))
      BY <2>1 DEF FeedPush
    <3>2. PICK e \in Event : e = MarketDataEvent(price, size, maker)
      BY ConstantAssumption DEF MarketDataEvent, Event
    <3> QED
      BY <3>1, <3>2, PushRoom
  <2> QED
    BY <2>1
<1>4. PICK u \in Int, v \in Int, r \in Int, s \in Int :
        u = Unseen /\ v = Unseen' /\ r = Reading /\ s = Reading'
  BY RoomTypes, RoomTypesNext
<1>5. PICK b \in Int, c \in Int, n \in Int, x \in Int :
        b = Brought /\ c = Brought' /\ n = mmNextId /\ x = MMFirstId
  BY RoomTypes, RoomTypesNext
<1>6. PICK h \in Int, k \in Int :
        h = HowMany(queue, Trades) /\ k = HowMany(queue', Trades)
  BY RoomTypes, RoomTypesNext
<1>7. v - u = k - h
  BY <1>1, <1>4, <1>6, UnseenMoves
<1>8. n + 2 * (u + r) <= x + 2 * b
  BY <1>4, <1>5 DEF RoomInv
<1>9. \/ k = h /\ c = b + 1 /\ s = r + 1
      \/ k = h /\ c = b /\ s <= r
      \/ k <= h + 1 /\ c = b /\ s = r - 1
  BY <1>2, <1>3, <1>4, <1>5, <1>6
<1>10. n + 2 * (v + s) <= x + 2 * c
  BY <1>7, <1>8, <1>9
<1>11. mmNextId' + 2 * (Unseen' + Reading') <= MMFirstId + 2 * Brought'
  BY <1>1, <1>4, <1>5, <1>10
<1> QED
  BY <1>1, <1>11, NextRoom DEF RoomInv, Seen

(* The other steps, by what they do to the batch and the queue: the event    *)
(* at hand stays, or the handler is done with it, or no event is at hand.    *)
LEMMA HereRoom ==
  ASSUME TypeOK, TypeOK', RoomInv, NEW step, Handling(step, "MarketData"),
         UNCHANGED <<batch, queue, feedPc, ticks>>, None(outbox', Trades),
         \/ mmNextId' = mmNextId /\ (Seen <=> Seen')
         \/ mmNextId' <= mmNextId + 2 /\ ~Seen /\ Seen'
  PROVE  RoomInv'
<1>1. batch # <<>> /\ Head(batch) \in Trades
  BY HeadTypes DEF Handling, Trades, TypeOK
<1>2. PICK w \in Int : w = Waiting
  BY RoomTypes
<1>3. Waiting' = w
  BY <1>2, NextRoom DEF Waiting
<1>4. /\ (Seen <=> Seen') => Unseen' = Unseen
      /\ ~Seen /\ Seen' => Unseen' = Unseen - 1
  BY <1>2, <1>3 DEF Unseen
<1> QED
  BY <1>1, <1>4, KeepRoom

LEMMA DoneRoom ==
  ASSUME TypeOK, TypeOK', RoomInv, NEW step, NEW type, Handling(step, type),
         (step = "sweep" /\ type = "MarketData")
           \/ (step = "handle" /\ type # "MarketData"),
         EventDone, UNCHANGED <<queue, feedPc, ticks, mmNextId>>,
         None(outbox', Trades)
  PROVE  RoomInv'
<1>1. PICK b \in Seq(Event) : b = batch /\ b # <<>>
  BY DEF TypeOK, LoopTypeOK, Handling
<1>2. Head(batch) \in Trades <=> step = "sweep"
  BY HeadTypes DEF Trades, TypeOK
<1>3. HowMany(b, Trades) = HowMany(Tail(b), Trades)
                             + IF Head(b) \in Trades THEN 1 ELSE 0
  BY <1>1, TailMany
<1>4. PICK n \in Int, m \in Int, q \in Int :
        /\ n = HowMany(batch, Trades) /\ m = HowMany(batch', Trades)
        /\ q = HowMany(queue, Trades)
  BY RoomTypes, RoomTypesNext
<1>5. batch' = Tail(b)
  BY <1>1 DEF EventDone
<1>6. n = m + IF step = "sweep" THEN 1 ELSE 0
  BY <1>1, <1>2, <1>3, <1>4, <1>5
<1>7. Waiting = n + q /\ Waiting' = m + q
  BY <1>4, NextRoom DEF Waiting
<1>8. ~Seen' /\ pc' # "quote" /\ (Seen <=> step = "sweep")
  BY DEF EventDone, Handling, Seen
<1>9. Unseen' = Unseen
  <2>1. CASE step = "sweep"
    BY <1>6, <1>7, <1>8, <2>1 DEF Unseen
  <2>2. CASE step # "sweep"
    BY <1>6, <1>7, <1>8, <2>2 DEF Unseen
  <2> QED
    BY <2>1, <2>2
<1> QED
  BY <1>8, <1>9, KeepRoom

LEMMA LoopRoom ==
  ASSUME TypeOK, TypeOK', RoomInv,
         LoopEnter \/ PollPop \/ PollDone \/ ProcessorExit
  PROVE  RoomInv'
<1>1. /\ ~Seen /\ ~Seen' /\ pc' # "quote"
      /\ UNCHANGED <<outbox, feedPc, ticks, mmNextId>>
  BY DEF LoopEnter, PollPop, PollDone, ProcessorExit, Seen, feedVars,
         tradingVars, mmVars
<1>2. Waiting' = Waiting
  <2>1. CASE PollPop
    <3>1. PICK b \in Seq(Event), q \in Seq(Event) :
            b = batch /\ q = queue /\ q # <<>>
      BY <2>1 DEF TypeOK, LoopTypeOK, QueueTypeOK, PollPop
    <3>2. PICK e \in Event : e = Head(q)
      BY <3>1
    <3>3. batch' = Append(b, e) /\ queue' = Tail(q)
      BY <2>1, <3>1, <3>2 DEF PollPop, Queue!Dequeue
    <3>4. PICK d \in Int : d = IF e \in Trades THEN 1 ELSE 0
      OBVIOUS
    <3>5. HowMany(Append(b, e), Trades) = HowMany(b, Trades) + d
      BY <3>4, AppendMany
    <3>6. HowMany(q, Trades) = HowMany(Tail(q), Trades) + d
      BY <3>1, <3>2, <3>4, TailMany
    <3>7. PICK x \in Int, y \in Int, z \in Int :
            /\ x = HowMany(batch, Trades) /\ y = HowMany(queue, Trades)
            /\ z = HowMany(queue', Trades)
      BY RoomTypes, RoomTypesNext
    <3>8. HowMany(batch', Trades) = x + d /\ y = z + d
      BY <3>1, <3>3, <3>5, <3>6, <3>7
    <3>9. Waiting = x + y /\ Waiting' = (x + d) + z
      BY <3>7, <3>8, NextRoom DEF Waiting
    <3> QED
      BY <3>8, <3>9
  <2>2. CASE LoopEnter \/ PollDone \/ ProcessorExit
    BY <2>2, NextRoom
    DEF LoopEnter, PollDone, ProcessorExit, queueVars, Waiting
  <2> QED
    BY <2>1, <2>2
<1>3. Unseen' = Unseen
  BY <1>1, <1>2 DEF Unseen
<1>4. None(outbox', Trades)
  BY <1>1 DEF RoomInv
<1> QED
  BY <1>1, <1>3, <1>4, KeepRoom

LEMMA FlushRoom ==
  ASSUME TypeOK, TypeOK', RoomInv, Flush
  PROVE  RoomInv'
<1>1. /\ outbox # <<>> /\ outbox' = Tail(outbox) /\ Push(Head(outbox))
      /\ UNCHANGED <<batch, pc, feedPc, ticks, mmNextId>>
  BY DEF Flush, loopVars, feedVars, tradingVars, mmVars
<1>2. PICK o \in Seq(Event) : o = outbox
  BY DEF TypeOK, OutboxTypeOK
<1>3. PICK e \in Event : e = Head(o)
  BY <1>1, <1>2
<1>4. ToSet(o) = {e} \cup ToSet(outbox')
  BY <1>1, <1>2, <1>3, TailOnce
<1>5. e \notin Trades /\ None(outbox', Trades)
  BY <1>2, <1>4 DEF RoomInv, None
<1>6. HowMany(queue', Trades) = HowMany(queue, Trades)
  BY <1>1, <1>2, <1>3, <1>5, PushRoom
<1>7. Unseen' = Unseen
  <2>1. Unseen' - Unseen = HowMany(queue', Trades) - HowMany(queue, Trades)
    BY <1>1, UnseenMoves
  <2>2. PICK u \in Int, v \in Int, n \in Int :
          u = Unseen /\ v = Unseen' /\ n = HowMany(queue, Trades)
    BY RoomTypes, RoomTypesNext
  <2> QED
    BY <1>6, <2>1, <2>2
<1>8. pc' = "quote" \/ Seen' => batch' # <<>> /\ Head(batch') \in Trades
  BY <1>1 DEF RoomInv, Seen
<1> QED
  BY <1>1, <1>5, <1>7, <1>8, KeepRoom

LEMMA RoundRoom ==
  ASSUME TypeOK, NEW sent \in Seq(OrderRequest), QuoteRound(sent)
  PROVE  mmNextId' <= mmNextId + 2 /\ None(outbox', Trades)
<1> DEFINE cancels == [i \in DOMAIN mmActive |-> CancelEvent(mmActive[i])]
           requests == [i \in DOMAIN sent |-> RequestEvent(sent[i])]
<1>1. cancels \in Seq(Event) /\ requests \in Seq(Event)
  BY SentAreEvents DEF TypeOK, MMTypeOK
<1>2. None(cancels, Trades) /\ None(requests, Trades)
  BY DEF None, ToSet, Trades, CancelEvent, RequestEvent
<1>3. outbox' = cancels \o requests
  BY DEF QuoteRound
<1> HIDE DEF cancels, requests
<1>4. ToSet(outbox') = ToSet(cancels) \cup ToSet(requests)
  BY <1>1, <1>3, ConcatOnce
<1>5. None(outbox', Trades)
  BY <1>2, <1>4 DEF None
<1>6. mmNextId' <= mmNextId + 2
  <2>1. PICK n \in Nat, k \in Nat : n = mmNextId /\ k = Len(sent)
    BY RoomTypes
  <2> QED
    BY <2>1 DEF QuoteRound
<1> QED
  BY <1>5, <1>6

LEMMA StepRoom ==
  ASSUME TypeOK, TypeOK', RoomInv, [Next]_vars
  PROVE  RoomInv'
<1>0. /\ \A o : RequestEvent(o) \notin Trades /\ ValidatedEvent(o) \notin Trades
      /\ \A r : ReportEvent(r) \notin Trades
  BY DEF Trades, RequestEvent, ValidatedEvent, ReportEvent
<1>1. CASE UNCHANGED vars \/ Main
  <2>1. UNCHANGED <<queue, batch, pc, outbox, mmNextId, feedPc, ticks>>
    BY <1>1
    DEF vars, Main, UiComplete, UiQuit, UiStopFeed, UiJoin, Feeds!Stop,
        queueVars, feedVars, loopVars, tradingVars, mmVars
  <2>2. Unseen' = Unseen
    BY <2>1, NextRoom DEF Unseen, Seen, Waiting
  <2> QED
    BY <2>1, <2>2, KeepRoom DEF RoomInv, Seen
<1>2. CASE \E f \in Feeds!Feed : FeedStep(f)
  BY <1>2, FeedRoom
<1>3. CASE Flush \/ LoopEnter \/ PollPop \/ PollDone \/ ProcessorExit
  BY <1>3, FlushRoom, LoopRoom
<1>4. CASE \/ MarketDataToBook \/ MarketDataToExchange
           \/ /\ ExchangeSweep /\ UNCHANGED loopVars
              /\ Exchange!SweepFill \/ Exchange!SweepKeep
  <2>1. /\ UNCHANGED <<batch, queue, feedPc, ticks, mmNextId>>
        /\ outbox = <<>>
        /\ \E step : Handling(step, "MarketData")
    BY <1>4
    DEF MarketDataToBook, MarketDataToExchange, ExchangeSweep, Handling,
        queueVars, feedVars, loopVars, mmVars
  <2>2. outbox' = <<>> \/ \E r : outbox' = <<ReportEvent(r)>>
    <3>1. CASE MarketDataToBook \/ MarketDataToExchange
      BY <2>1, <3>1
      DEF MarketDataToBook, MarketDataToExchange, Exchange!UpdateMarketPrice
    <3>2. CASE ExchangeSweep /\ UNCHANGED loopVars /\ Exchange!SweepFill
      BY <3>2, FillSends
    <3>3. CASE ExchangeSweep /\ UNCHANGED loopVars /\ Exchange!SweepKeep
      BY <2>1, <3>3 DEF Exchange!SweepKeep
    <3> QED
      BY <1>4, <3>1, <3>2, <3>3
  <2>3. None(outbox', Trades)
    BY <1>0, <2>2, EmptyOnce, SingleOnce DEF None
  <2>4. Seen' <=> Seen
    BY <1>4
    DEF MarketDataToBook, MarketDataToExchange, ExchangeSweep, Handling,
        loopVars, Seen
  <2> QED
    BY <2>1, <2>3, <2>4, HereRoom
<1>5. CASE ExchangeSweep /\ Exchange!SweepEnd /\ EventDone
  <2>1. /\ UNCHANGED <<queue, feedPc, ticks, mmNextId>>
        /\ outbox' = <<>> /\ Handling("sweep", "MarketData")
    BY <1>5 DEF ExchangeSweep, Exchange!SweepEnd, queueVars, feedVars, mmVars
  <2> QED
    BY <1>5, <2>1, EmptyOnce, DoneRoom
<1>6. ASSUME NEW throttled \in BOOLEAN, MarketDataToMarketMaker(throttled)
      PROVE  RoomInv'
  <2>1. /\ UNCHANGED <<batch, queue, feedPc, ticks>>
        /\ ~Seen /\ Seen' /\ \E step : Handling(step, "MarketData")
    BY <1>6 DEF MarketDataToMarketMaker, Handling, queueVars, feedVars, Seen
  <2>2. mmNextId' <= mmNextId + 2 /\ None(outbox', Trades)
    <3>1. /\ outbox = <<>>
          /\ \/ UNCHANGED <<mmActive, mmNextId, outbox>>
             \/ \E sent \in Seq(OrderRequest) : QuoteRound(sent)
      BY <1>6, QuoteSends
    <3>2. CASE UNCHANGED <<mmActive, mmNextId, outbox>>
      BY <3>1, <3>2, EmptyOnce, RoomTypes
    <3> QED
      BY <3>1, <3>2, RoundRoom
  <2> QED
    BY <2>1, <2>2, HereRoom
<1>7. ASSUME NEW trend \in Trends, MarketDataToMomentum(trend)
      PROVE  RoomInv'
  <2>1. /\ UNCHANGED <<batch, queue, feedPc, ticks, mmNextId>>
        /\ Seen /\ Seen' /\ \E step : Handling(step, "MarketData")
    BY <1>7 DEF MarketDataToMomentum, Handling, queueVars, feedVars, mmVars, Seen
  <2>2. outbox' = <<>> \/ \E o : outbox' = <<RequestEvent(o)>>
    BY <1>7, MomentumSends
  <2>3. None(outbox', Trades)
    BY <1>0, <2>2, EmptyOnce, SingleOnce DEF None
  <2> QED
    BY <2>1, <2>3, HereRoom
<1>8. CASE \/ HandleOrderRequest \/ HandleValidatedOrder
           \/ HandleCancelOrder \/ HandleExecutionReport
  <2>1. /\ EventDone /\ UNCHANGED <<queue, feedPc, ticks, mmNextId>>
        /\ \E type : type # "MarketData" /\ Handling("handle", type)
    BY <1>8
    DEF HandleOrderRequest, HandleValidatedOrder, HandleCancelOrder,
        HandleExecutionReport, queueVars, feedVars, mmVars
  <2>2. \/ outbox' = <<>>
        \/ \E o : outbox' = <<ValidatedEvent(o)>>
        \/ \E r : outbox' = <<ReportEvent(r)>>
    <3>1. CASE HandleOrderRequest \/ HandleValidatedOrder \/ HandleCancelOrder
      BY <3>1, RequestSends, MatchSends, CancelSends
    <3>2. CASE HandleExecutionReport
      BY <3>2 DEF HandleExecutionReport, Handling
    <3> QED
      BY <1>8, <3>1, <3>2
  <2>3. None(outbox', Trades)
    BY <1>0, <2>2, EmptyOnce, SingleOnce DEF None
  <2> QED
    BY <2>1, <2>3, DoneRoom
<1> QED
  BY <1>1, <1>2, <1>3, <1>4, <1>5, <1>6, <1>7, <1>8
  DEF Next, Processor, ExchangeSweep

(* With README.md's book the two ranges of ids stay apart for as long as the *)
(* feeds bring in a quarter as many trades as the ranges are apart: each of  *)
(* two feeds MaxTicks trades, each trade two quotes.                        *)
THEOREM IdsStayApart ==
  ASSUME MMFirstId + 4 * MaxTicks <= MoFirstId
  PROVE  Spec => []IdsApart
<1>1. Init => RoomInv
  <2> SUFFICES ASSUME Init PROVE RoomInv
    OBVIOUS
  <2>1. /\ batch = <<>> /\ queue = <<>> /\ outbox = <<>> /\ ~Seen /\ pc # "quote"
        /\ mmNextId = MMFirstId /\ ticks = [f \in Feeds!Feed |-> 0]
        /\ \A f \in Feeds!Feed : feedPc[f] # "read"
    BY DEF Init, Seen, Feeds!Init, MM!Init, Exchange!Init
  <2>2. Reading = 0 /\ Brought = 0
    BY <2>1 DEF Reading, IsReading, Brought, Feeds!Feed
  <2>3. HowMany(batch, Trades) = 0 /\ HowMany(queue, Trades) = 0
    BY <2>1, SingleMany
  <2>4. Unseen = 0
    BY <2>1, <2>3 DEF Unseen, Waiting
  <2> QED
    <3>1. MMFirstId + 2 * (0 + 0) <= MMFirstId + 2 * 0
      BY ConstantAssumption
    <3> QED
      BY <2>1, <2>2, <2>4, <3>1, EmptyOnce DEF RoomInv
<1>2. TypeOK /\ TypeOK' /\ RoomInv /\ [Next]_vars => RoomInv'
  BY StepRoom
<1>3. TypeOK /\ RoomInv => IdsApart
  <2> SUFFICES ASSUME TypeOK, RoomInv PROVE IdsApart
    OBVIOUS
  <2>1. Unseen >= 0
    <3>1. CASE Seen
      <4>1. PICK b \in Seq(Event) : b = batch /\ b # <<>> /\ Head(b) \in Trades
        BY <3>1 DEF RoomInv, TypeOK, LoopTypeOK
      <4>2. HowMany(b, Trades) = HowMany(Tail(b), Trades) + 1
        BY <4>1, TailMany
      <4>3. HowMany(Tail(b), Trades) \in Nat
        BY <4>1, HeadTailParts, SpotsFinite
      <4>4. PICK q \in Nat : q = HowMany(queue, Trades)
        BY RoomTypes
      <4> QED
        BY <3>1, <4>1, <4>2, <4>3, <4>4 DEF Unseen, Waiting
    <3>2. CASE ~Seen
      BY <3>2, RoomTypes DEF Unseen
    <3> QED
      BY <3>1, <3>2
  <2>2. PICK u \in Nat, r \in Nat, n \in Nat :
          u = Unseen /\ r = Reading /\ n = mmNextId
    BY <2>1, RoomTypes
  <2>3. PICK x \in 0 .. MaxTicks, y \in 0 .. MaxTicks :
          x = ticks["live"] /\ y = ticks["replay"]
    BY DEF TypeOK, FeedTypeOK, Feeds!Feed
  <2>4. n + 2 * (u + r) <= MMFirstId + 2 * (x + y)
    BY <2>2, <2>3 DEF RoomInv, Brought
  <2>5. n <= MoFirstId
    <3>1. MaxTicks \in Nat /\ MMFirstId \in Nat /\ MoFirstId \in Nat
      BY ConstantAssumption
    <3> QED
      BY <2>4, <3>1
  <2> QED
    BY <2>2, <2>5 DEF IdsApart
<1> QED
  BY <1>1, <1>2, <1>3, TypeCorrect, PTL DEF Spec

(* So that, on such a run, its orders live one life each, none is stranded   *)
(* or forgotten, no replaced quote stays active, and the momentum strategy's *)
(* flag says what its position is.                                         *)
THEOREM WhileIdsLast ==
  ASSUME MMFirstId + 4 * MaxTicks <= MoFirstId
  PROVE  Spec => /\ FollowsLifecycle
                 /\ []NothingStranded
                 /\ []TradeableIsTracked
                 /\ []ReplacedAreCancelled
                 /\ []FlagMeansPosition
BY OneLifeEach, NoneStranded, TradeableTracked, ReplacedCancelled,
   FlagIsPosition, IdsStayApart, PTL
=============================================================================
