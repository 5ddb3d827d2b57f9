---------------------------- MODULE HftMainOrders ----------------------------
(***************************************************************************)
(* The life of an order in the composed program, for every value of the    *)
(* constants.  The events in flight are one row: the batch, the queue, and  *)
(* what the running handler has still to push.  A step of any thread takes  *)
(* the head of the row, puts new events at its end, or loses one to a full  *)
(* queue, and these few movements are all that the proofs know of it.      *)
(***************************************************************************)
EXTENDS HftMainTypes

-----------------------------------------------------------------------------
(* The row of events.                                                      *)

(* A trade can be put anywhere in the row; nothing here is about trades.    *)
OrderEvent == {e \in Event : e.type # "MarketData"}

LEMMA RowParts ==
  TypeOK =>
    /\ InFlight \in Seq(Event)
    /\ ToSet(InFlight) = ToSet(batch) \cup ToSet(queue) \cup ToSet(outbox)
    /\ \A P : Once(InFlight, P) <=>
         /\ Once(batch, P) /\ Once(queue, P) /\ Once(outbox, P)
         /\ None(batch, P) \/ None(queue, P)
         /\ None(batch, P) \/ None(outbox, P)
         /\ None(queue, P) \/ None(outbox, P)
<1> SUFFICES ASSUME TypeOK
    PROVE  /\ InFlight \in Seq(Event)
           /\ ToSet(InFlight) = ToSet(batch) \cup ToSet(queue) \cup ToSet(outbox)
           /\ \A P : Once(InFlight, P) <=>
                /\ Once(batch, P) /\ Once(queue, P) /\ Once(outbox, P)
                /\ None(batch, P) \/ None(queue, P)
                /\ None(batch, P) \/ None(outbox, P)
                /\ None(queue, P) \/ None(outbox, P)
  OBVIOUS
<1>1. PICK b \in Seq(Event), q \in Seq(Event), o \in Seq(Event) :
        b = batch /\ q = queue /\ o = outbox
  BY DEF TypeOK, LoopTypeOK, QueueTypeOK, OutboxTypeOK
<1>2. /\ b \o q \in Seq(Event)
      /\ ToSet(b \o q) = ToSet(b) \cup ToSet(q)
      /\ \A P : Once(b \o q, P) <=>
           Once(b, P) /\ Once(q, P) /\ (None(b, P) \/ None(q, P))
  BY ConcatOnce
<1>3. PICK bq \in Seq(Event) : bq = b \o q
  BY <1>2
<1>4. /\ bq \o o \in Seq(Event)
      /\ ToSet(bq \o o) = ToSet(bq) \cup ToSet(o)
      /\ \A P : Once(bq \o o, P) <=>
           Once(bq, P) /\ Once(o, P) /\ (None(bq, P) \/ None(o, P))
  BY ConcatOnce
<1>5. InFlight = bq \o o
  BY <1>1, <1>3 DEF InFlight
<1>6. \A P : None(bq, P) <=> None(b, P) /\ None(q, P)
  BY <1>2, <1>3 DEF None
<1> QED
  BY <1>1, <1>2, <1>3, <1>4, <1>5, <1>6

LEMMA RowPartsNext ==
  (TypeOK =>
    /\ InFlight \in Seq(Event)
    /\ ToSet(InFlight) = ToSet(batch) \cup ToSet(queue) \cup ToSet(outbox)
    /\ \A P : Once(InFlight, P) <=>
         /\ Once(batch, P) /\ Once(queue, P) /\ Once(outbox, P)
         /\ None(batch, P) \/ None(queue, P)
         /\ None(batch, P) \/ None(outbox, P)
         /\ None(queue, P) \/ None(outbox, P))'
BY RowParts, PTL

(* What a step does to the row, seen through a set P of events of which it  *)
(* held at most one: the events it takes out, the new ones it puts in, and   *)
(* that no other event leaves it without a trace.                          *)
Flow(gone, new) ==
  /\ \A P \in SUBSET OrderEvent : Once(InFlight, P) =>
       /\ ToSet(InFlight') \cap P \subseteq
            ((ToSet(InFlight) \cap P) \ gone) \cup (ToSet(new) \cap P)
       /\ /\ Once(new, P)
          /\ None(new, P) \/ ToSet(InFlight) \cap P \subseteq gone
          => Once(InFlight', P)
  /\ \A e \in (ToSet(InFlight) \ gone) \cup ToSet(new) :
       e \in ToSet(InFlight') \/ Subject(e) \subseteq astray'

LEMMA SameFlow ==
  ASSUME UNCHANGED <<batch, queue, outbox>>
  PROVE  Flow({}, <<>>)
<1>1. InFlight' = InFlight
  BY DEF InFlight
<1> QED
  BY <1>1, EmptyOnce DEF Flow

(* A push: the event goes from the front of the outbox, or from outside, to  *)
(* the end of the queue, or is lost.                                       *)
LEMMA PushSets ==
  ASSUME QueueTypeOK, NEW e \in Event, Push(e)
  PROVE  \/ /\ ToSet(queue') = ToSet(queue) \cup {e}
            /\ \A P : Once(queue', P) <=>
                 Once(queue, P) /\ (None(queue, P) \/ e \notin P)
         \/ queue' = queue /\ Subject(e) \subseteq astray'
<1>1. CASE Queue!Enqueue(e)
  <2>1. PICK q \in Seq(Event) : q = queue
    BY DEF QueueTypeOK
  <2>2. queue' = Append(q, e)
    BY <1>1, <2>1 DEF Queue!Enqueue
  <2> QED
    BY <2>1, <2>2, AppendOnce
<1>2. CASE ~Queue!HasRoom /\ astray' = astray \cup Subject(e) /\ UNCHANGED queue
  BY <1>2
<1> QED
  BY <1>1, <1>2 DEF Push

LEMMA FeedFlow ==
  ASSUME TypeOK, TypeOK', NEW f \in Feeds!Feed, FeedStep(f)
  PROVE  Flow({}, <<>>)
<1>1. UNCHANGED <<batch, outbox>>
  BY DEF FeedStep, loopVars
<1>2. CASE UNCHANGED queue
  BY <1>1, <1>2, SameFlow
<1>3. CASE FeedPush(f)
  <2>1. PICK price \in Prices \cup ShortPrices, size \in Sizes,
             maker \in Makers : Push(MarketDataEvent(price, size, maker))
    BY <1>3 DEF FeedPush
  <2>2. PICK e \in Event : /\ e = MarketDataEvent(price, size, maker)
                           /\ e.type = "MarketData"
    <3>1. MarketDataEvent(price, size, maker) \in Event
      BY ConstantAssumption DEF MarketDataEvent, Event
    <3>2. MarketDataEvent(price, size, maker).type = "MarketData"
      BY DEF MarketDataEvent
    <3> QED
      BY <3>1, <3>2
  <2>3. \/ /\ ToSet(queue') = ToSet(queue) \cup {e}
           /\ \A P : Once(queue', P) <=>
                Once(queue, P) /\ (None(queue, P) \/ e \notin P)
        \/ queue' = queue
    BY <2>1, <2>2, PushSets DEF TypeOK
  <2>4. ASSUME ToSet(queue') = ToSet(queue) \cup {e},
               \A P : Once(queue', P) <=>
                 Once(queue, P) /\ (None(queue, P) \/ e \notin P)
        PROVE  Flow({}, <<>>)
    <3>1. \A P \in SUBSET OrderEvent : e \notin P
      BY <2>2 DEF OrderEvent
    <3>2. ToSet(InFlight') = ToSet(InFlight) \cup {e}
      BY <1>1, <2>4, RowParts, RowPartsNext
    <3>3. \A P \in SUBSET OrderEvent :
            (Once(queue', P) <=> Once(queue, P)) /\ (None(queue', P) <=> None(queue, P))
      BY <2>4, <3>1 DEF None
    <3>4. \A P \in SUBSET OrderEvent : Once(InFlight', P) <=> Once(InFlight, P)
      BY <1>1, <3>3, RowParts, RowPartsNext
    <3> QED
      BY <3>1, <3>2, <3>4, EmptyOnce DEF Flow
  <2> QED
    BY <1>1, <2>3, <2>4, SameFlow
<1> QED
  BY <1>2, <1>3 DEF FeedStep, queueVars

LEMMA FlushFlow ==
  ASSUME TypeOK, TypeOK', Flush
  PROVE  Flow({}, <<>>)
<1>1. /\ outbox # <<>> /\ outbox' = Tail(outbox) /\ batch' = batch
      /\ outbox \in Seq(Event)
  BY DEF Flush, loopVars, TypeOK, OutboxTypeOK
<1>2. PICK o \in Seq(Event) : o = outbox
  BY <1>1
<1>3. PICK e \in Event : e = Head(outbox)
  BY <1>1
<1>4. /\ ToSet(outbox) = {e} \cup ToSet(outbox')
      /\ \A P : Once(outbox, P) <=>
           Once(outbox', P) /\ (None(outbox', P) \/ e \notin P)
  BY <1>1, <1>2, <1>3, TailOnce
<1>5. \A P : None(outbox, P) <=> None(outbox', P) /\ e \notin P
  BY <1>4 DEF None
<1>6. \/ /\ ToSet(queue') = ToSet(queue) \cup {e}
         /\ \A P : Once(queue', P) <=>
              Once(queue, P) /\ (None(queue, P) \/ e \notin P)
      \/ queue' = queue /\ Subject(e) \subseteq astray'
  BY <1>3, PushSets DEF Flush, TypeOK
<1>7. CASE queue' = queue /\ Subject(e) \subseteq astray'
  <2>1. ToSet(InFlight) = ToSet(InFlight') \cup {e}
    BY <1>1, <1>4, <1>7, RowParts, RowPartsNext
  <2>2. \A P : Once(InFlight, P) => Once(InFlight', P)
    BY <1>1, <1>4, <1>5, <1>7, RowParts, RowPartsNext
  <2> QED
    BY <1>7, <2>1, <2>2, EmptyOnce DEF Flow
<1>8. ASSUME ToSet(queue') = ToSet(queue) \cup {e},
             \A P : Once(queue', P) <=>
               Once(queue, P) /\ (None(queue, P) \/ e \notin P)
      PROVE  Flow({}, <<>>)
  <2>1. ToSet(InFlight) = ToSet(InFlight')
    BY <1>1, <1>4, <1>8, RowParts, RowPartsNext
  <2>2. \A P : None(queue', P) <=> None(queue, P) /\ e \notin P
    BY <1>8 DEF None
  <2>3. \A P : Once(InFlight, P) => Once(InFlight', P)
    BY <1>1, <1>4, <1>5, <1>8, <2>2, RowParts, RowPartsNext
  <2> QED
    BY <2>1, <2>3, EmptyOnce DEF Flow
<1> QED
  BY <1>6, <1>7, <1>8

LEMMA PopFlow ==
  ASSUME TypeOK, TypeOK', PollPop
  PROVE  Flow({}, <<>>)
<1>1. PICK b \in Seq(Event), q \in Seq(Event) : b = batch /\ q = queue
  BY DEF TypeOK, LoopTypeOK, QueueTypeOK
<1>2. /\ q # <<>> /\ batch' = Append(b, Head(q)) /\ queue' = Tail(q)
      /\ outbox' = outbox
  BY <1>1 DEF PollPop, Queue!Dequeue
<1>3. PICK e \in Event : e = Head(q)
  BY <1>2
<1>4. /\ ToSet(queue) = {e} \cup ToSet(queue')
      /\ \A P : Once(queue, P) <=>
           Once(queue', P) /\ (None(queue', P) \/ e \notin P)
  BY <1>1, <1>2, <1>3, TailOnce
<1>5. /\ ToSet(batch') = ToSet(batch) \cup {e}
      /\ \A P : Once(batch', P) <=>
           Once(batch, P) /\ (None(batch, P) \/ e \notin P)
  BY <1>1, <1>2, <1>3, AppendOnce
<1>6. \A P : /\ None(queue, P) <=> None(queue', P) /\ e \notin P
             /\ None(batch', P) <=> None(batch, P) /\ e \notin P
  BY <1>4, <1>5 DEF None
<1>7. ToSet(InFlight) = ToSet(InFlight')
  BY <1>2, <1>4, <1>5, RowParts, RowPartsNext
<1>8. \A P : Once(InFlight, P) => Once(InFlight', P)
  BY <1>2, <1>4, <1>5, <1>6, RowParts, RowPartsNext
<1> QED
  BY <1>7, <1>8, EmptyOnce DEF Flow

(* A handler that is not done with its event.                               *)
LEMMA EmitFlow ==
  ASSUME TypeOK, TypeOK', outbox = <<>>, UNCHANGED <<batch, queue>>
  PROVE  Flow({}, outbox')
<1>1. ToSet(InFlight') = ToSet(InFlight) \cup ToSet(outbox')
  BY RowParts, RowPartsNext, EmptyOnce
<1>2. \A P : Once(InFlight', P) <=>
        Once(InFlight, P) /\ Once(outbox', P)
          /\ (None(InFlight, P) \/ None(outbox', P))
  <2>1. \A P : None(InFlight, P) <=> None(batch, P) /\ None(queue, P)
    BY RowParts, EmptyOnce DEF None
  <2> QED
    BY <2>1, RowParts, RowPartsNext, EmptyOnce
<1> QED
  BY <1>1, <1>2 DEF Flow, None

(* A handler that is.                                                      *)
LEMMA ConsumeFlow ==
  ASSUME TypeOK, TypeOK', outbox = <<>>, batch # <<>>, batch' = Tail(batch),
         UNCHANGED queue
  PROVE  Flow({Head(batch)}, outbox')
<1>1. PICK b \in Seq(Event) : b = batch
  BY DEF TypeOK, LoopTypeOK
<1>2. PICK e \in Event : e = Head(batch)
  BY <1>1
<1>3. /\ ToSet(batch) = {e} \cup ToSet(batch')
      /\ \A P : Once(batch, P) <=>
           Once(batch', P) /\ (None(batch', P) \/ e \notin P)
  BY <1>1, <1>2, TailOnce
<1>4. /\ ToSet(InFlight) = {e} \cup ToSet(batch') \cup ToSet(queue')
      /\ ToSet(InFlight') = ToSet(batch') \cup ToSet(queue') \cup ToSet(outbox')
  BY <1>3, RowParts, RowPartsNext, EmptyOnce
<1>5. ASSUME NEW P, Once(InFlight, P)
      PROVE  /\ e \in P => None(batch', P) /\ None(queue', P)
             /\ Once(batch', P) /\ Once(queue', P)
             /\ None(batch', P) \/ None(queue', P)
  <2>1. None(batch, P) <=> None(batch', P) /\ e \notin P
    BY <1>3 DEF None
  <2> QED
    BY <1>3, <1>5, <2>1, RowParts
<1>6. ASSUME NEW P \in SUBSET OrderEvent, Once(InFlight, P)
      PROVE  /\ ToSet(InFlight') \cap P \subseteq
                  ((ToSet(InFlight) \cap P) \ {e}) \cup (ToSet(outbox') \cap P)
             /\ /\ Once(outbox', P)
                /\ None(outbox', P) \/ ToSet(InFlight) \cap P \subseteq {e}
                => Once(InFlight', P)
  <2>1. ToSet(InFlight') \cap P \subseteq
          ((ToSet(InFlight) \cap P) \ {e}) \cup (ToSet(outbox') \cap P)
    BY <1>4, <1>5, <1>6 DEF None
  <2>2. ASSUME Once(outbox', P),
               None(outbox', P) \/ ToSet(InFlight) \cap P \subseteq {e}
        PROVE  Once(InFlight', P)
    <3>1. None(outbox', P) \/ (None(batch', P) /\ None(queue', P))
      BY <1>4, <1>5, <1>6, <2>2 DEF None
    <3> QED
      BY <1>5, <1>6, <2>2, <3>1, RowPartsNext
  <2> QED
    BY <2>1, <2>2
<1> QED
  BY <1>2, <1>4, <1>6 DEF Flow

-----------------------------------------------------------------------------
(* The order of the row: events overtake no other.                          *)

LEMMA RowPrecede ==
  TypeOK =>
    \A A, B : Precede(InFlight, A, B) <=>
      /\ Precede(batch, A, B) /\ Precede(queue, A, B) /\ Precede(outbox, A, B)
      /\ None(batch, B) \/ None(queue, A)
      /\ None(batch, B) \/ None(outbox, A)
      /\ None(queue, B) \/ None(outbox, A)
<1> SUFFICES ASSUME TypeOK
    PROVE  \A A, B : Precede(InFlight, A, B) <=>
             /\ Precede(batch, A, B) /\ Precede(queue, A, B) /\ Precede(outbox, A, B)
             /\ None(batch, B) \/ None(queue, A)
             /\ None(batch, B) \/ None(outbox, A)
             /\ None(queue, B) \/ None(outbox, A)
  OBVIOUS
<1>1. PICK b \in Seq(Event), q \in Seq(Event), o \in Seq(Event) :
        b = batch /\ q = queue /\ o = outbox
  BY DEF TypeOK, LoopTypeOK, QueueTypeOK, OutboxTypeOK
<1>2. PICK bq \in Seq(Event) : bq = b \o q
  BY ConcatOnce
<1>3. /\ ToSet(bq) = ToSet(b) \cup ToSet(q)
      /\ \A A, B : Precede(bq, A, B) <=>
           Precede(b, A, B) /\ Precede(q, A, B) /\ (None(b, B) \/ None(q, A))
  BY <1>2, ConcatOnce, ConcatPrecede
<1>4. \A A, B : Precede(bq \o o, A, B) <=>
        Precede(bq, A, B) /\ Precede(o, A, B) /\ (None(bq, B) \/ None(o, A))
  BY ConcatPrecede
<1>5. \A P : None(bq, P) <=> None(b, P) /\ None(q, P)
  BY <1>3 DEF None
<1>6. InFlight = bq \o o
  BY <1>1, <1>2 DEF InFlight
<1> QED
  BY <1>1, <1>3, <1>4, <1>5, <1>6

LEMMA RowPrecedeNext ==
  (TypeOK =>
    \A A, B : Precede(InFlight, A, B) <=>
      /\ Precede(batch, A, B) /\ Precede(queue, A, B) /\ Precede(outbox, A, B)
      /\ None(batch, B) \/ None(queue, A)
      /\ None(batch, B) \/ None(outbox, A)
      /\ None(queue, B) \/ None(outbox, A))'
BY RowPrecede, PTL

(* The new events come behind all others.                                   *)
InTurn(new) ==
  \A A, B \in SUBSET OrderEvent :
    /\ Precede(InFlight, A, B) /\ Precede(new, A, B)
    /\ None(new, A) \/ None(InFlight, B)
    => Precede(InFlight', A, B)

LEMMA SameInTurn ==
  ASSUME UNCHANGED <<batch, queue, outbox>>
  PROVE  InTurn(<<>>)
<1>1. InFlight' = InFlight
  BY DEF InFlight
<1> QED
  BY <1>1 DEF InTurn

LEMMA PushPrecede ==
  ASSUME QueueTypeOK, NEW e \in Event, Push(e)
  PROVE  \/ /\ \A A, B : Precede(queue', A, B) <=>
                 Precede(queue, A, B) /\ (None(queue, B) \/ e \notin A)
            /\ \A P : None(queue', P) <=> None(queue, P) /\ e \notin P
         \/ queue' = queue
<1>1. CASE Queue!Enqueue(e)
  <2>1. PICK q \in Seq(Event) : q = queue
    BY DEF QueueTypeOK
  <2>2. queue' = Append(q, e)
    BY <1>1, <2>1 DEF Queue!Enqueue
  <2>3. ToSet(Append(q, e)) = ToSet(q) \cup {e}
    BY AppendOnce
  <2> QED
    BY <2>1, <2>2, <2>3, AppendPrecede DEF None
<1> QED
  BY <1>1 DEF Push

LEMMA FeedInTurn ==
  ASSUME TypeOK, TypeOK', NEW f \in Feeds!Feed, FeedStep(f)
  PROVE  InTurn(<<>>)
<1>1. UNCHANGED <<batch, outbox>>
  BY DEF FeedStep, loopVars
<1>2. CASE UNCHANGED queue
  BY <1>1, <1>2, SameInTurn
<1>3. CASE FeedPush(f)
  <2>1. PICK price \in Prices \cup ShortPrices, size \in Sizes,
             maker \in Makers : Push(MarketDataEvent(price, size, maker))
    BY <1>3 DEF FeedPush
  <2>2. PICK e \in Event : /\ e = MarketDataEvent(price, size, maker)
                           /\ e.type = "MarketData"
    <3>1. MarketDataEvent(price, size, maker) \in Event
      BY ConstantAssumption DEF MarketDataEvent, Event
    <3>2. MarketDataEvent(price, size, maker).type = "MarketData"
      BY DEF MarketDataEvent
    <3> QED
      BY <3>1, <3>2
  <2>3. \A P \in SUBSET OrderEvent : e \notin P
    BY <2>2 DEF OrderEvent
  <2>4. \/ \A A, B \in SUBSET OrderEvent :
             /\ Precede(queue', A, B) <=> Precede(queue, A, B)
             /\ None(queue', A) <=> None(queue, A)
        \/ queue' = queue
    BY <2>1, <2>2, <2>3, PushPrecede DEF TypeOK
  <2>5. ASSUME NEW A \in SUBSET OrderEvent, NEW B \in SUBSET OrderEvent,
               Precede(InFlight, A, B)
        PROVE  Precede(InFlight', A, B)
    BY <1>1, <2>4, <2>5, RowPrecede, RowPrecedeNext
  <2> QED
    BY <2>5 DEF InTurn
<1> QED
  BY <1>2, <1>3 DEF FeedStep, queueVars

LEMMA FlushInTurn ==
  ASSUME TypeOK, TypeOK', Flush
  PROVE  InTurn(<<>>)
<1>1. PICK o \in Seq(Event), e \in Event :
        /\ o = outbox /\ o # <<>> /\ e = Head(o)
        /\ outbox' = Tail(o) /\ batch' = batch
  BY DEF Flush, loopVars, TypeOK, OutboxTypeOK
<1>2. /\ \A A, B : Precede(outbox, A, B) <=>
           Precede(outbox', A, B) /\ (None(outbox', A) \/ e \notin B)
      /\ \A P : None(outbox, P) <=> None(outbox', P) /\ e \notin P
  <2>1. ToSet(o) = {e} \cup ToSet(Tail(o))
    BY <1>1, TailOnce
  <2> QED
    BY <1>1, <2>1, TailPrecede DEF None
<1>3. \/ /\ \A A, B : Precede(queue', A, B) <=>
              Precede(queue, A, B) /\ (None(queue, B) \/ e \notin A)
         /\ \A P : None(queue', P) <=> None(queue, P) /\ e \notin P
      \/ queue' = queue
  BY <1>1, PushPrecede DEF Flush, TypeOK
<1>4. ASSUME NEW A \in SUBSET OrderEvent, NEW B \in SUBSET OrderEvent,
             Precede(InFlight, A, B)
      PROVE  Precede(InFlight', A, B)
  BY <1>1, <1>2, <1>3, <1>4, RowPrecede, RowPrecedeNext
<1> QED
  BY <1>4 DEF InTurn

LEMMA PopInTurn ==
  ASSUME TypeOK, TypeOK', PollPop
  PROVE  InTurn(<<>>)
<1>1. PICK b \in Seq(Event), q \in Seq(Event), e \in Event :
        /\ b = batch /\ q = queue /\ q # <<>> /\ e = Head(q)
        /\ batch' = Append(b, e) /\ queue' = Tail(q) /\ outbox' = outbox
  BY DEF PollPop, Queue!Dequeue, TypeOK, LoopTypeOK, QueueTypeOK
<1>2. /\ \A A, B : Precede(queue, A, B) <=>
           Precede(queue', A, B) /\ (None(queue', A) \/ e \notin B)
      /\ \A P : None(queue, P) <=> None(queue', P) /\ e \notin P
  <2>1. ToSet(q) = {e} \cup ToSet(Tail(q))
    BY <1>1, TailOnce
  <2> QED
    BY <1>1, <2>1, TailPrecede DEF None
<1>3. /\ \A A, B : Precede(batch', A, B) <=>
           Precede(batch, A, B) /\ (None(batch, B) \/ e \notin A)
      /\ \A P : None(batch', P) <=> None(batch, P) /\ e \notin P
  <2>1. ToSet(Append(b, e)) = ToSet(b) \cup {e}
    BY AppendOnce
  <2> QED
    BY <1>1, <2>1, AppendPrecede DEF None
<1>4. ASSUME NEW A \in SUBSET OrderEvent, NEW B \in SUBSET OrderEvent,
             Precede(InFlight, A, B)
      PROVE  Precede(InFlight', A, B)
  BY <1>1, <1>2, <1>3, <1>4, RowPrecede, RowPrecedeNext
<1> QED
  BY <1>4 DEF InTurn

LEMMA EmitInTurn ==
  ASSUME TypeOK, TypeOK', outbox = <<>>, UNCHANGED <<batch, queue>>
  PROVE  InTurn(outbox')
<1>1. \A P : None(InFlight, P) <=> None(batch, P) /\ None(queue, P)
  BY RowParts, EmptyOnce DEF None
<1>2. ASSUME NEW A, NEW B, Precede(InFlight, A, B), Precede(outbox', A, B),
             None(outbox', A) \/ None(InFlight, B)
      PROVE  Precede(InFlight', A, B)
  BY <1>1, <1>2, RowPrecede, RowPrecedeNext
<1> QED
  BY <1>2 DEF InTurn

(* The event a handler is done with was before all others.                  *)
LEMMA ConsumeInTurn ==
  ASSUME TypeOK, TypeOK', outbox = <<>>, batch # <<>>, batch' = Tail(batch),
         UNCHANGED queue
  PROVE  /\ InTurn(outbox')
         /\ \A A, B : Precede(InFlight, A, B) /\ Head(batch) \in B \ A =>
              None(InFlight, A)
<1>1. PICK b \in Seq(Event), e \in Event :
        b = batch /\ b # <<>> /\ e = Head(b) /\ batch' = Tail(b)
  BY DEF TypeOK, LoopTypeOK
<1>2. /\ \A A, B : Precede(batch, A, B) <=>
           Precede(batch', A, B) /\ (None(batch', A) \/ e \notin B)
      /\ \A P : None(batch, P) <=> None(batch', P) /\ e \notin P
  <2>1. ToSet(b) = {e} \cup ToSet(Tail(b))
    BY <1>1, TailOnce
  <2> QED
    BY <1>1, <2>1, TailPrecede DEF None
<1>3. \A P : None(InFlight, P) <=> None(batch, P) /\ None(queue, P)
  BY RowParts, EmptyOnce DEF None
<1>4. ASSUME NEW A, NEW B, Precede(InFlight, A, B), Precede(outbox', A, B),
             None(outbox', A) \/ None(InFlight, B)
      PROVE  Precede(InFlight', A, B)
  BY <1>2, <1>3, <1>4, RowPrecede, RowPrecedeNext
<1>5. ASSUME NEW A, NEW B, Precede(InFlight, A, B), e \in B, e \notin A
      PROVE  None(InFlight, A)
  BY <1>2, <1>3, <1>5, RowPrecede
<1> QED
  BY <1>1, <1>4, <1>5 DEF InTurn

-----------------------------------------------------------------------------
(* An order's life.                                                        *)

(* The events in flight that stand for an order, its resting copies, and    *)
(* how much of both the program can hold.                                  *)
Standing(id) == {e \in Event : StandsFor(e, id)}
OfId(id) == {o \in OrderRequest : o.id = id}
Afoot(id) == ToSet(InFlight) \cap Standing(id)
Laid(id) == ToSet(resting) \cap OfId(id)

LifeOf(id) ==
  /\ Once(InFlight, Standing(id)) /\ Once(resting, OfId(id))
  /\ Afoot(id) = {} \/ Laid(id) = {}
  /\ Afoot(id) # {} \/ Laid(id) # {} => Sent(id)
LifeInv ==
  /\ mmNextId >= MMFirstId /\ moNextId >= MoFirstId
  /\ \A id \in Nat : LifeOf(id)

(* What a step may do to an order: nothing, or lose it, or move it on.      *)
Stays(id) ==
  /\ Afoot(id)' \subseteq Afoot(id)
  /\ Laid(id)' = {} <=> Laid(id) = {}
  /\ Sent(id)' <=> Sent(id)
Begins(id) ==
  /\ Afoot(id) = {} /\ Laid(id) = {} /\ ~Sent(id)
  /\ \E e \in Afoot(id)' : e.type = "OrderRequest"
MovesOn(id) ==
  \/ /\ \E e \in Afoot(id) : e.type = "OrderRequest"
     /\ \E e \in Afoot(id)' : e.type = "ValidatedOrder"
  \/ /\ \E e \in Afoot(id) : e.type = "ValidatedOrder"
     /\ Laid(id)' # {} \/ \E e \in Afoot(id)' : e.type = "ExecutionReport"
  \/ /\ Laid(id) # {}
     /\ \E e \in Afoot(id)' : e.type = "ExecutionReport"
Fate(id) == Stays(id) \/ Begins(id) \/ MovesOn(id)

(* Which events stand for which order.                                      *)
LEMMA StandFacts ==
  /\ \A o \in OrderRequest, id \in Nat :
       /\ RequestEvent(o) \in Standing(id) <=> o.id = id
       /\ ValidatedEvent(o) \in Standing(id) <=> o.id = id
       /\ RequestEvent(o).type = "OrderRequest"
       /\ ValidatedEvent(o).type = "ValidatedOrder"
  /\ \A r \in ExecutionReport, id \in Nat :
       /\ ReportEvent(r) \in Standing(id) <=> r.status = "Filled" /\ r.id = id
       /\ ReportEvent(r).type = "ExecutionReport"
  /\ \A i \in Nat, id \in Nat : CancelEvent(i) \notin Standing(id)
<1>1. ASSUME NEW o \in OrderRequest, NEW id \in Nat
      PROVE  /\ RequestEvent(o) \in Standing(id) <=> o.id = id
             /\ ValidatedEvent(o) \in Standing(id) <=> o.id = id
             /\ RequestEvent(o).type = "OrderRequest"
             /\ ValidatedEvent(o).type = "ValidatedOrder"
  <2>1. RequestEvent(o) \in Event /\ ValidatedEvent(o) \in Event
    BY DEF RequestEvent, ValidatedEvent, Event
  <2> QED
    BY <2>1 DEF Standing, StandsFor, RequestEvent, ValidatedEvent
<1>2. ASSUME NEW r \in ExecutionReport, NEW id \in Nat
      PROVE  /\ ReportEvent(r) \in Standing(id) <=>
                  r.status = "Filled" /\ r.id = id
             /\ ReportEvent(r).type = "ExecutionReport"
  <2>1. ReportEvent(r) \in Event
    BY DEF ReportEvent, Event
  <2> QED
    BY <2>1 DEF Standing, StandsFor, ReportEvent
<1>3. \A i \in Nat, id \in Nat : CancelEvent(i) \notin Standing(id)
  BY DEF Standing, StandsFor, CancelEvent
<1> QED
  BY <1>1, <1>2, <1>3

LEMMA StandingAreOrders == \A id : Standing(id) \in SUBSET OrderEvent
BY DEF Standing, OrderEvent, StandsFor

(* Where the definition of an order's stage finds it.                       *)
LEMMA StageIs ==
  TypeOK /\ LifeInv => \A id \in Nat :
    /\ Laid(id) # {} => StageOf(id) = "resting"
    /\ \A e \in Afoot(id) : StageOf(id) = EventStage[e.type]
    /\ Afoot(id) = {} /\ Laid(id) = {} =>
         StageOf(id) = IF Sent(id) THEN "over" ELSE "unsent"
<1> SUFFICES ASSUME TypeOK, LifeInv, NEW id \in Nat
    PROVE  /\ Laid(id) # {} => StageOf(id) = "resting"
           /\ \A e \in Afoot(id) : StageOf(id) = EventStage[e.type]
           /\ Afoot(id) = {} /\ Laid(id) = {} =>
                StageOf(id) = IF Sent(id) THEN "over" ELSE "unsent"
  OBVIOUS
<1>1. InFlight \in Seq(Event) /\ resting \in Seq(OrderRequest)
  BY RowParts DEF TypeOK, ExTypeOK
<1>2. /\ \A i \in DOMAIN InFlight : InFlight[i] \in Event
      /\ \A i \in DOMAIN resting : resting[i] \in OrderRequest
  BY <1>1
<1>3. /\ Travels(id) = {i \in DOMAIN InFlight : InFlight[i] \in Standing(id)}
      /\ Rests(id) = {i \in DOMAIN resting : resting[i] \in OfId(id)}
  BY <1>2 DEF Travels, Rests, Standing, OfId
<1>4. /\ Single(Travels(id)) /\ Single(Rests(id))
      /\ Travels(id) # {} <=> Afoot(id) # {}
      /\ Rests(id) # {} <=> Laid(id) # {}
  BY <1>3 DEF LifeInv, LifeOf, Once, Single, Afoot, Laid, ToSet
<1>5. ~Doubled(id)
  BY <1>4 DEF Doubled, LifeInv, LifeOf
<1>6. ASSUME NEW e \in Afoot(id)
      PROVE  /\ Travels(id) # {} /\ Rests(id) = {}
             /\ InFlight[CHOOSE i \in Travels(id) : TRUE] = e
  <2>1. PICK i \in Travels(id) : InFlight[i] = e
    BY <1>3, <1>6 DEF Afoot, ToSet
  <2>2. (CHOOSE j \in Travels(id) : TRUE) = i
    BY <1>4, <2>1 DEF Single
  <2> QED
    BY <1>4, <1>6, <2>1, <2>2 DEF LifeInv, LifeOf
<1>7. \A e \in Afoot(id) : StageOf(id) = EventStage[e.type]
  BY <1>5, <1>6 DEF StageOf
<1>8. ASSUME Laid(id) # {} PROVE StageOf(id) = "resting"
  <2>1. Rests(id) # {} /\ Travels(id) = {}
    BY <1>4, <1>8 DEF LifeInv, LifeOf
  <2> QED
    BY <1>5, <2>1 DEF StageOf
<1>9. Afoot(id) = {} /\ Laid(id) = {} =>
        StageOf(id) = IF Sent(id) THEN "over" ELSE "unsent"
  BY <1>4, <1>5 DEF StageOf
<1> QED
  BY <1>7, <1>8, <1>9

LEMMA StageIsNext ==
  (TypeOK /\ LifeInv => \A id \in Nat :
    /\ Laid(id) # {} => StageOf(id) = "resting"
    /\ \A e \in Afoot(id) : StageOf(id) = EventStage[e.type]
    /\ Afoot(id) = {} /\ Laid(id) = {} =>
         StageOf(id) = IF Sent(id) THEN "over" ELSE "unsent")'
BY StageIs, PTL

(* A fate is a move of the life cycle.                                      *)
LEMMA FateMoves ==
  ASSUME TypeOK, TypeOK', LifeInv, LifeInv', NEW id \in Nat, Fate(id)
  PROVE  StageOf(id)' = StageOf(id) \/ StageOf(id)' \in Life!After(StageOf(id))
<1>1. /\ Laid(id) # {} => StageOf(id) = "resting"
      /\ \A e \in Afoot(id) : StageOf(id) = EventStage[e.type]
      /\ Afoot(id) = {} /\ Laid(id) = {} =>
           StageOf(id) = IF Sent(id) THEN "over" ELSE "unsent"
  BY StageIs
<1>2. /\ Laid(id)' # {} => StageOf(id)' = "resting"
      /\ \A e \in Afoot(id)' : StageOf(id)' = EventStage[e.type]
      /\ Afoot(id)' = {} /\ Laid(id)' = {} =>
           StageOf(id)' = IF Sent(id)' THEN "over" ELSE "unsent"
  BY StageIsNext
<1>3. \A e \in Afoot(id) \cup Afoot(id)' :
        e.type \in {"OrderRequest", "ValidatedOrder", "ExecutionReport"}
  BY DEF Afoot, Standing, StandsFor
<1>4. /\ EventStage["OrderRequest"] = "requested"
      /\ EventStage["ValidatedOrder"] = "validated"
      /\ EventStage["ExecutionReport"] = "filled"
  BY DEF EventStage
<1>5. /\ Life!After("requested") = {"validated", "over"}
      /\ Life!After("validated") = {"resting", "filled", "over"}
      /\ Life!After("resting") = {"filled"}
      /\ Life!After("filled") = {"over"}
      /\ Life!After("unsent") = {"requested"}
  BY DEF Life!After
<1>6. /\ Afoot(id) = {} \/ Laid(id) = {}
      /\ Afoot(id) # {} \/ Laid(id) # {} => Sent(id)
      /\ Afoot(id)' = {} \/ Laid(id)' = {}
  BY DEF LifeInv, LifeOf
<1>7. CASE Stays(id)
  <2>1. CASE Laid(id) # {}
    BY <1>1, <1>2, <1>7, <2>1 DEF Stays
  <2>2. CASE Laid(id) = {} /\ Afoot(id)' # {}
    BY <1>1, <1>2, <1>7, <2>2 DEF Stays
  <2>3. CASE Laid(id) = {} /\ Afoot(id)' = {} /\ Afoot(id) # {}
    BY <1>1, <1>2, <1>3, <1>4, <1>5, <1>6, <1>7, <2>3 DEF Stays
  <2>4. CASE Laid(id) = {} /\ Afoot(id)' = {} /\ Afoot(id) = {}
    BY <1>1, <1>2, <1>7, <2>4 DEF Stays
  <2> QED
    BY <2>1, <2>2, <2>3, <2>4
<1>8. CASE Begins(id)
  BY <1>1, <1>2, <1>4, <1>5, <1>8 DEF Begins
<1>9. CASE MovesOn(id)
  BY <1>1, <1>2, <1>4, <1>5, <1>9 DEF MovesOn
<1> QED
  BY <1>7, <1>8, <1>9 DEF Fate

-----------------------------------------------------------------------------
(* What a step does to one order, kind by kind.                             *)

LEMMA NextAfoot ==
  \A id : /\ Afoot(id)' = ToSet(InFlight') \cap Standing(id)
          /\ Laid(id)' = ToSet(resting') \cap OfId(id)
BY DEF Afoot, Laid, Standing, OfId, StandsFor, Event, OrderRequest

LEMMA FlowLife ==
  ASSUME LifeInv, NEW gone, NEW new, Flow(gone, new), NEW id \in Nat
  PROVE  /\ Afoot(id)' \subseteq
              (Afoot(id) \ gone) \cup (ToSet(new) \cap Standing(id))
         /\ /\ Once(new, Standing(id))
            /\ None(new, Standing(id)) \/ Afoot(id) \subseteq gone
            => Once(InFlight', Standing(id))
<1>1. Once(InFlight, Standing(id)) /\ Standing(id) \in SUBSET OrderEvent
  BY StandingAreOrders DEF LifeInv, LifeOf
<1>2. Afoot(id) = ToSet(InFlight) \cap Standing(id)
  BY DEF Afoot
<1>3. Afoot(id)' = ToSet(InFlight') \cap Standing(id)
  BY NextAfoot
<1> QED
  BY <1>1, <1>2, <1>3 DEF Flow

LEMMA NextLifeOf ==
  ASSUME NEW id,
         Once(InFlight', Standing(id)), Once(resting', OfId(id)),
         Afoot(id)' = {} \/ Laid(id)' = {},
         Afoot(id)' # {} \/ Laid(id)' # {} => Sent(id)'
  PROVE  LifeOf(id)'
<1>1. Standing(id)' = Standing(id) /\ OfId(id)' = OfId(id)
  BY DEF Standing, OfId, StandsFor, Event, OrderRequest
<1> QED
  BY <1>1 DEF LifeOf

(* Nothing new stands for the order, and it is not at the exchange, or stays *)
(* there.                                                                  *)
LEMMA QuietLife ==
  ASSUME LifeInv, NEW gone, NEW new, Flow(gone, new), NEW id \in Nat,
         None(new, Standing(id)),
         Laid(id)' = Laid(id), Once(resting', OfId(id)), Sent(id)' <=> Sent(id)
  PROVE  LifeOf(id)' /\ Fate(id)
<1>1. Once(new, Standing(id))
  BY DEF None, Once, ToSet
<1>2. Afoot(id)' \subseteq Afoot(id) /\ Once(InFlight', Standing(id))
  BY <1>1, FlowLife DEF None
<1> QED
  BY <1>2, NextLifeOf DEF LifeInv, LifeOf, Fate, Stays

(* A strategy sends the order.                                              *)
LEMMA BeginLife ==
  ASSUME LifeInv, NEW gone, NEW new, Flow(gone, new), NEW id \in Nat,
         Once(new, Standing(id)), ToSet(new) \subseteq ToSet(InFlight'),
         \E e \in ToSet(new) \cap Standing(id) : e.type = "OrderRequest",
         Laid(id)' = Laid(id), Once(resting', OfId(id)),
         ~Sent(id), Sent(id)'
  PROVE  LifeOf(id)' /\ Fate(id)
<1>1. Afoot(id) = {} /\ Laid(id) = {}
  BY DEF LifeInv, LifeOf
<1>2. Once(InFlight', Standing(id))
  BY <1>1, FlowLife
<1>3. \E e \in Afoot(id)' : e.type = "OrderRequest"
  BY NextAfoot
<1> QED
  BY <1>1, <1>2, <1>3, NextLifeOf DEF Fate, Begins

(* The order manager or the exchange takes the event and sends one on, which *)
(* stands for the order or for none.                                        *)
LEMMA PassLife ==
  ASSUME LifeInv, NEW e, NEW new, Flow({e}, new), NEW id \in Nat,
         e \in Afoot(id), Once(new, Standing(id)),
         ToSet(new) \subseteq ToSet(InFlight'),
         UNCHANGED resting, Sent(id)' <=> Sent(id),
         \/ ToSet(new) \cap Standing(id) = {}
         \/ /\ e.type = "OrderRequest"
            /\ \E n \in ToSet(new) \cap Standing(id) : n.type = "ValidatedOrder"
         \/ /\ e.type = "ValidatedOrder"
            /\ \E n \in ToSet(new) \cap Standing(id) : n.type = "ExecutionReport"
  PROVE  LifeOf(id)' /\ Fate(id)
<1>1. Afoot(id) = {e} /\ Laid(id) = {} /\ Sent(id)
  BY DEF LifeInv, LifeOf, Afoot, Once, ToSet
<1>2. /\ Once(InFlight', Standing(id))
      /\ Afoot(id)' \subseteq ToSet(new) \cap Standing(id)
  BY <1>1, FlowLife
<1>3. Laid(id)' = {} /\ Once(resting', OfId(id))
  BY <1>1, NextAfoot DEF LifeInv, LifeOf, Laid
<1>4. LifeOf(id)'
  BY <1>1, <1>2, <1>3, NextLifeOf
<1>5. ToSet(new) \cap Standing(id) \subseteq Afoot(id)'
  BY NextAfoot
<1>6. CASE ToSet(new) \cap Standing(id) = {}
  BY <1>1, <1>2, <1>3, <1>4, <1>6 DEF Fate, Stays
<1>7. CASE ToSet(new) \cap Standing(id) # {}
  BY <1>1, <1>4, <1>5, <1>7 DEF Fate, MovesOn
<1> QED
  BY <1>6, <1>7

(* The exchange takes the order and lets it rest.                           *)
LEMMA RestLife ==
  ASSUME LifeInv, TypeOK, NEW e, NEW new, Flow({e}, new),
         NEW o \in OrderRequest, e \in Afoot(o.id), e.type = "ValidatedOrder",
         None(new, Standing(o.id)),
         resting' = Append(resting, o), Sent(o.id)' <=> Sent(o.id)
  PROVE  LifeOf(o.id)' /\ Fate(o.id)
<1> DEFINE id == o.id
<1>0. id \in Nat /\ o \in OfId(id)
  BY DEF OrderRequest, OfId
<1> HIDE DEF id
<1>1. Afoot(id) = {e} /\ Laid(id) = {} /\ Sent(id) /\ Once(resting, OfId(id))
  BY <1>0 DEF LifeInv, LifeOf, Afoot, Once, ToSet, id
<1>2. Once(new, Standing(id)) /\ None(new, Standing(id))
  BY DEF None, Once, ToSet, id
<1>3. Once(InFlight', Standing(id)) /\ Afoot(id)' = {}
  BY <1>0, <1>1, <1>2, FlowLife DEF None
<1>4. PICK s \in Seq(OrderRequest) : s = resting
  BY DEF TypeOK, ExTypeOK
<1>5. /\ ToSet(Append(s, o)) = ToSet(s) \cup {o}
      /\ \A P : Once(Append(s, o), P) <=>
           Once(s, P) /\ (None(s, P) \/ o \notin P)
  BY AppendOnce
<1>6. Laid(id)' = {o} /\ Once(resting', OfId(id))
  BY <1>0, <1>1, <1>4, <1>5, NextAfoot DEF Laid, None
<1>7. LifeOf(id)'
  BY <1>1, <1>3, <1>6, NextLifeOf DEF id
<1>8. MovesOn(id)
  BY <1>1, <1>6 DEF MovesOn, id
<1> QED
  BY <1>7, <1>8 DEF Fate, id

(* The sweep fills a resting order.                                         *)
LEMMA FillLife ==
  ASSUME LifeInv, TypeOK, NEW new, Flow({}, new), NEW k \in 1 .. Len(resting),
         resting' = RemoveAt(resting, k), NEW id \in Nat, resting[k].id = id,
         Once(new, Standing(id)), ToSet(new) \subseteq ToSet(InFlight'),
         \E n \in ToSet(new) \cap Standing(id) : n.type = "ExecutionReport",
         Sent(id)' <=> Sent(id)
  PROVE  LifeOf(id)' /\ Fate(id)
<1>1. PICK s \in Seq(OrderRequest) : s = resting
  BY DEF TypeOK, ExTypeOK
<1>2. s[k] \in OfId(id) /\ s[k] \in ToSet(s)
  BY <1>1 DEF OfId, ToSet
<1>3. /\ ToSet(s) = {s[k]} \cup ToSet(RemoveAt(s, k))
      /\ \A P : Once(s, P) =>
           Once(RemoveAt(s, k), P) /\ (None(RemoveAt(s, k), P) \/ s[k] \notin P)
  BY <1>1, RemoveOnce
<1>4. Laid(id) # {} /\ Afoot(id) = {} /\ Sent(id) /\ Once(s, OfId(id))
  BY <1>1, <1>2 DEF LifeInv, LifeOf, Laid
<1>5. Laid(id)' = {} /\ Once(resting', OfId(id))
  BY <1>1, <1>2, <1>3, <1>4, NextAfoot DEF None
<1>6. Once(InFlight', Standing(id))
  BY <1>4, FlowLife
<1>7. \E n \in Afoot(id)' : n.type = "ExecutionReport"
  BY NextAfoot
<1> QED
  BY <1>4, <1>5, <1>6, <1>7, NextLifeOf DEF Fate, MovesOn

-----------------------------------------------------------------------------
(* What each action does to all of them.                                    *)

(* The market maker numbers its orders below the momentum strategy's: it    *)
(* has not sent a million quotes.                                          *)
IdsApart == mmNextId <= MoFirstId

LEMMA AllQuiet ==
  ASSUME LifeInv, NEW gone, NEW new, Flow(gone, new),
         \A id \in Nat : None(new, Standing(id)),
         UNCHANGED <<resting, mmNextId, moNextId>>
  PROVE  LifeInv' /\ \A id \in Nat : Fate(id)
<1>1. ASSUME NEW id \in Nat PROVE LifeOf(id)' /\ Fate(id)
  <2>1. Laid(id)' = Laid(id) /\ Once(resting', OfId(id))
    BY NextAfoot DEF LifeInv, LifeOf, Laid
  <2>2. Sent(id)' <=> Sent(id)
    BY DEF Sent
  <2> QED
    BY <2>1, <2>2, QuietLife
<1> QED
  BY <1>1 DEF LifeInv

LEMMA LoopLives ==
  ASSUME TypeOK, TypeOK', LifeInv,
         \/ Flush \/ LoopEnter \/ PollPop \/ PollDone \/ ProcessorExit
         \/ MarketDataToBook
  PROVE  LifeInv' /\ \A id \in Nat : Fate(id)
<1>1. Flow({}, <<>>)
  <2>1. CASE LoopEnter \/ PollDone \/ ProcessorExit \/ MarketDataToBook
    BY <2>1, SameFlow
    DEF LoopEnter, PollDone, ProcessorExit, MarketDataToBook, queueVars
  <2> QED
    BY <2>1, FlushFlow, PopFlow
<1>2. UNCHANGED <<resting, mmNextId, moNextId>>
  BY DEF Flush, LoopEnter, PollPop, PollDone, ProcessorExit, MarketDataToBook,
         tradingVars, exVars, mmVars, moVars
<1> QED
  BY <1>1, <1>2, AllQuiet, EmptyOnce

LEMMA FeedLives ==
  ASSUME TypeOK, TypeOK', LifeInv, NEW f \in Feeds!Feed, FeedStep(f)
  PROVE  LifeInv' /\ \A id \in Nat : Fate(id)
<1>1. Flow({}, <<>>)
  BY FeedFlow
<1>2. UNCHANGED <<resting, mmNextId, moNextId>>
  BY DEF FeedStep, tradingVars, exVars, mmVars, moVars
<1> QED
  BY <1>1, <1>2, AllQuiet, EmptyOnce

(* Other steps that leave the row of events and the orders alone.           *)
LEMMA StillLives ==
  ASSUME LifeInv, UNCHANGED <<batch, queue, outbox, resting, mmNextId, moNextId>>
  PROVE  LifeInv' /\ \A id \in Nat : Fate(id)
<1>1. Flow({}, <<>>)
  BY SameFlow
<1> QED
  BY <1>1, AllQuiet, EmptyOnce

(* The events of a round of quotes.                                        *)
LEMMA QuotesStand ==
  ASSUME NEW old \in Seq(Nat), NEW sent \in Seq(OrderRequest), NEW first \in Nat,
         \A i \in DOMAIN sent : sent[i].id = first + i - 1,
         NEW id \in Nat
  PROVE  LET cancels == [i \in DOMAIN old |-> CancelEvent(old[i])]
             requests == [i \in DOMAIN sent |-> RequestEvent(sent[i])]
             all == cancels \o requests
         IN  /\ Once(all, Standing(id))
             /\ \A e \in ToSet(all) \cap Standing(id) : e.type = "OrderRequest"
             /\ ~None(all, Standing(id)) <=>
                  first <= id /\ id < first + Len(sent)
<1> DEFINE cancels == [i \in DOMAIN old |-> CancelEvent(old[i])]
           requests == [i \in DOMAIN sent |-> RequestEvent(sent[i])]
           all == cancels \o requests
<1>1. cancels \in Seq(Event) /\ requests \in Seq(Event)
  BY SentAreEvents
<1>2. None(cancels, Standing(id)) /\ Once(cancels, Standing(id))
  BY StandFacts DEF None, Once, ToSet
<1>3. \A i \in DOMAIN requests :
        /\ requests[i].type = "OrderRequest"
        /\ requests[i] \in Standing(id) <=> id = first + i - 1
  <2>1. ASSUME NEW i \in DOMAIN sent
        PROVE  /\ RequestEvent(sent[i]).type = "OrderRequest"
               /\ RequestEvent(sent[i]) \in Standing(id) <=> id = first + i - 1
    <3>1. sent[i] \in OrderRequest /\ sent[i].id = first + i - 1
      OBVIOUS
    <3> QED
      BY <3>1, StandFacts
  <2> QED
    BY <2>1
<1>4. DOMAIN requests = 1 .. Len(sent) /\ Len(sent) \in Nat
  OBVIOUS
<1> HIDE DEF cancels, requests
<1>5. Once(requests, Standing(id))
  BY <1>3, <1>4 DEF Once
<1>6. ~None(requests, Standing(id)) <=> first <= id /\ id < first + Len(sent)
  <2>1. ASSUME first <= id, id < first + Len(sent)
        PROVE  requests[id - first + 1] \in Standing(id)
                 /\ id - first + 1 \in DOMAIN requests
    <3>1. id - first + 1 \in DOMAIN requests /\ id = first + (id - first + 1) - 1
      BY <1>4, <2>1
    <3> QED
      BY <1>3, <3>1
  <2>2. ASSUME NEW i \in DOMAIN requests, requests[i] \in Standing(id)
        PROVE  first <= id /\ id < first + Len(sent)
    BY <1>3, <1>4, <2>2
  <2> QED
    BY <2>1, <2>2 DEF None, ToSet
<1>7. \A e \in ToSet(requests) : e.type = "OrderRequest"
  BY <1>3 DEF ToSet
<1>8. /\ ToSet(all) = ToSet(cancels) \cup ToSet(requests)
      /\ Once(all, Standing(id)) <=>
           /\ Once(cancels, Standing(id)) /\ Once(requests, Standing(id))
           /\ None(cancels, Standing(id)) \/ None(requests, Standing(id))
  BY <1>1, ConcatOnce
<1> HIDE DEF all
<1>9. None(all, Standing(id)) <=> None(requests, Standing(id))
  BY <1>2, <1>8 DEF None
<1>10. \A e \in ToSet(all) \cap Standing(id) : e.type = "OrderRequest"
  BY <1>2, <1>7, <1>8 DEF None
<1> QED
  BY <1>2, <1>5, <1>6, <1>8, <1>9, <1>10 DEF all, cancels, requests

(* What a market maker's tick sends: nothing, or a round of quotes.          *)
QuoteRound(sent) ==
  /\ Len(sent) <= 2
  /\ \A i \in DOMAIN sent : /\ sent[i].id = mmNextId + i - 1
                           /\ sent[i].type = "Limit" /\ sent[i].strategy = 1
  /\ mmActive' = [i \in DOMAIN sent |-> sent[i].id]
  /\ mmNextId' = mmNextId + Len(sent)
  /\ outbox' = [i \in DOMAIN mmActive |-> CancelEvent(mmActive[i])]
                 \o [i \in DOMAIN sent |-> RequestEvent(sent[i])]

LEMMA QuoteSends ==
  ASSUME TypeOK, NEW throttled, MarketDataToMarketMaker(throttled)
  PROVE  /\ outbox = <<>> /\ UNCHANGED <<batch, queue, resting, moNextId>>
         /\ \/ UNCHANGED <<mmActive, mmNextId, outbox>>
            \/ /\ MM!Book!TwoSided
               /\ \E sent \in Seq(OrderRequest) : QuoteRound(sent)
<1>1. PICK p \in Int : p = PnL!TotalPosition
  BY DEF PnL!TotalPosition, PnL!StrategyId, TypeOK, PnLTypeOK
<1>2. /\ outbox = <<>> /\ MM!OnMarketData(p, throttled)
      /\ UNCHANGED <<batch, queue, resting, moNextId>>
  BY <1>1 DEF MarketDataToMarketMaker, Handling, queueVars, exVars, moVars
<1>3. ASSUME NEW bid \in Int, NEW ask \in Int, MM!Requote(p, bid, ask)
      PROVE  \E sent \in Seq(OrderRequest) : QuoteRound(sent)
  <2>1. PICK sent \in Seq(OrderRequest) :
          /\ Len(sent) <= 2
          /\ \A i \in DOMAIN sent :
               /\ sent[i].id = mmNextId + i - 1
               /\ sent[i].type = "Limit" /\ sent[i].strategy = 1
          /\ mmActive' = [i \in DOMAIN sent |-> sent[i].id]
          /\ mmNextId' = mmNextId + Len(sent)
          /\ outbox' =
               outbox \o [i \in DOMAIN mmActive |-> CancelEvent(mmActive[i])]
                      \o [i \in DOMAIN sent |-> RequestEvent(sent[i])]
    BY <1>3, RequoteSends DEF TypeOK
  <2> DEFINE cancels == [i \in DOMAIN mmActive |-> CancelEvent(mmActive[i])]
             requests == [i \in DOMAIN sent |-> RequestEvent(sent[i])]
  <2>2. cancels \in Seq(Event)
    BY SentAreEvents DEF TypeOK, MMTypeOK
  <2>3. outbox' = cancels \o requests
    <3>1. outbox' = <<>> \o cancels \o requests
      BY <1>2, <2>1
    <3>2. <<>> \o cancels = cancels
      BY <2>2, ConcatEmptySeq
    <3> QED
      BY <3>1, <3>2
  <2> QED
    BY <2>1, <2>3 DEF QuoteRound
<1> QED
  BY <1>2, <1>3, QuotesOrNot DEF TypeOK

LEMMA QuoteLives ==
  ASSUME TypeOK, TypeOK', LifeInv, IdsApart',
         NEW throttled \in BOOLEAN, MarketDataToMarketMaker(throttled)
  PROVE  LifeInv' /\ \A id \in Nat : Fate(id)
<1>1. /\ outbox = <<>> /\ UNCHANGED <<batch, queue, resting, moNextId>>
      /\ \/ UNCHANGED <<mmActive, mmNextId, outbox>>
         \/ \E sent \in Seq(OrderRequest) : QuoteRound(sent)
  BY QuoteSends
<1>2. CASE UNCHANGED <<mmActive, mmNextId, outbox>>
  BY <1>1, <1>2, StillLives
<1>3. ASSUME NEW sent \in Seq(OrderRequest), QuoteRound(sent)
      PROVE  LifeInv' /\ \A id \in Nat : Fate(id)
  <2>1. PICK old \in Seq(Nat), first \in Nat : old = mmActive /\ first = mmNextId
    BY DEF TypeOK, MMTypeOK
  <2>2. /\ \A i \in DOMAIN sent : sent[i].id = first + i - 1
        /\ mmNextId' = first + Len(sent)
        /\ outbox' = [i \in DOMAIN old |-> CancelEvent(old[i])]
                       \o [i \in DOMAIN sent |-> RequestEvent(sent[i])]
    BY <1>3, <2>1 DEF QuoteRound
  <2>3. \A id \in Nat :
          /\ Once(outbox', Standing(id))
          /\ \A e \in ToSet(outbox') \cap Standing(id) : e.type = "OrderRequest"
          /\ ~None(outbox', Standing(id)) <=>
               first <= id /\ id < first + Len(sent)
    BY <2>2, QuotesStand
  <2>4. Flow({}, outbox') /\ ToSet(outbox') \subseteq ToSet(InFlight')
    BY <1>1, EmitFlow, RowPartsNext
  <2>5. ASSUME NEW id \in Nat PROVE LifeOf(id)' /\ Fate(id)
    <3>1. Laid(id)' = Laid(id) /\ Once(resting', OfId(id))
      BY <1>1, NextAfoot DEF LifeInv, LifeOf, Laid
    <3>2. /\ mmNextId = first /\ mmNextId' = first + Len(sent) /\ Len(sent) \in Nat
          /\ moNextId' = moNextId /\ moNextId \in Nat
          /\ first >= MMFirstId /\ first + Len(sent) <= MoFirstId
          /\ {MMFirstId, MoFirstId} \subseteq Nat
      BY <1>1, <2>1, <2>2, ConstantAssumption
      DEF LifeInv, IdsApart, TypeOK, MoTypeOK
    <3>3. CASE first <= id /\ id < first + Len(sent)
      <4>1. ~Sent(id) /\ Sent(id)'
        BY <3>2, <3>3 DEF Sent
      <4>2. \E e \in ToSet(outbox') \cap Standing(id) : e.type = "OrderRequest"
        BY <2>3, <3>3 DEF None
      <4> QED
        BY <2>3, <2>4, <3>1, <4>1, <4>2, BeginLife
    <3>4. CASE ~(first <= id /\ id < first + Len(sent))
      <4>1. Sent(id)' <=> Sent(id)
        BY <3>2, <3>4 DEF Sent
      <4> QED
        BY <2>3, <2>4, <3>1, <3>4, <4>1, QuietLife
    <3> QED
      BY <3>3, <3>4
  <2>6. mmNextId' >= MMFirstId /\ moNextId' >= MoFirstId
    <3>1. /\ mmNextId' = first + Len(sent) /\ Len(sent) \in Nat
          /\ first >= MMFirstId /\ MMFirstId \in Nat
          /\ moNextId' = moNextId
      BY <1>1, <2>1, <2>2, ConstantAssumption DEF LifeInv
    <3> QED
      BY <3>1 DEF LifeInv
  <2> QED
    BY <2>5, <2>6 DEF LifeInv
<1> QED
  BY <1>1, <1>2, <1>3

(* What a momentum tick sends: nothing, or one order with the next id.      *)
LEMMA MomentumSends ==
  ASSUME TypeOK, NEW trend, MarketDataToMomentum(trend)
  PROVE  /\ outbox = <<>>
         /\ UNCHANGED <<batch, queue, resting, mmNextId>>
         /\ \/ UNCHANGED <<outbox, moNextId, moOpen>>
            \/ \E o \in OrderRequest :
                 /\ o.id = moNextId /\ o.strategy = 2 /\ o.type = "Limit"
                 /\ o.quantity = MoQuantity
                 /\ \/ ~moOpen /\ o.side = "Buy" /\ moOpen' = TRUE
                    \/ moOpen /\ o.side = "Sell" /\ moOpen' = FALSE
                 /\ outbox' = <<RequestEvent(o)>>
                 /\ moNextId' = moNextId + 1
<1>1. PICK price \in Int : price = Head(batch).price
  BY HeadTypes DEF MarketDataToMomentum, TypeOK
<1>2. /\ outbox = <<>> /\ UNCHANGED <<batch, queue, resting, mmNextId>>
      /\ Mo!OnMarketData(price, trend)
  BY <1>1 DEF MarketDataToMomentum, Handling, queueVars, exVars, mmVars
<1>3. ASSUME NEW side \in OrderSide, NEW at \in Int, Mo!SubmitOrder(side, at)
      PROVE  \E o \in OrderRequest :
               /\ o.id = moNextId /\ o.strategy = 2 /\ o.type = "Limit"
               /\ o.quantity = MoQuantity
               /\ o.side = side
               /\ outbox' = <<RequestEvent(o)>>
               /\ moNextId' = moNextId + 1
  <2> DEFINE new == [id |-> moNextId, strategy |-> 2, side |-> side,
                     type |-> "Limit", price |-> at, quantity |-> MoQuantity]
  <2>1. new \in OrderRequest
    BY ConstantAssumption DEF TypeOK, MoTypeOK, OrderRequest, OrderType
  <2>2. outbox' = <<RequestEvent(new)>> /\ moNextId' = moNextId + 1
    BY <1>2, <1>3 DEF Mo!SubmitOrder, Mo!RequestEvent, RequestEvent
  <2> QED
    BY <2>1, <2>2
<1>4. price + Mo!Dollar \in Int /\ price - Mo!Dollar \in Int
  BY DEF Mo!Dollar
<1>5. \/ UNCHANGED <<outbox, moNextId, moOpen>>
      \/ /\ ~moOpen /\ moOpen' = TRUE
         /\ Mo!SubmitOrder("Buy", price + Mo!Dollar)
      \/ /\ moOpen /\ moOpen' = FALSE
         /\ Mo!SubmitOrder("Sell", price - Mo!Dollar)
  BY <1>2, Zenon DEF Mo!OnMarketData
<1>6. "Buy" \in OrderSide /\ "Sell" \in OrderSide
  BY DEF OrderSide
<1>7. ASSUME ~moOpen, moOpen' = TRUE, Mo!SubmitOrder("Buy", price + Mo!Dollar)
      PROVE  \E o \in OrderRequest :
               /\ o.id = moNextId /\ o.strategy = 2 /\ o.type = "Limit"
               /\ o.quantity = MoQuantity
               /\ o.side = "Buy"
               /\ outbox' = <<RequestEvent(o)>>
               /\ moNextId' = moNextId + 1
  BY <1>3, <1>4, <1>6, <1>7
<1>8. ASSUME moOpen, moOpen' = FALSE, Mo!SubmitOrder("Sell", price - Mo!Dollar)
      PROVE  \E o \in OrderRequest :
               /\ o.id = moNextId /\ o.strategy = 2 /\ o.type = "Limit"
               /\ o.quantity = MoQuantity
               /\ o.side = "Sell"
               /\ outbox' = <<RequestEvent(o)>>
               /\ moNextId' = moNextId + 1
  BY <1>3, <1>4, <1>6, <1>8
<1> QED
  BY <1>2, <1>5, <1>7, <1>8, Zenon

LEMMA MomentumLives ==
  ASSUME TypeOK, TypeOK', LifeInv, IdsApart', NEW trend, MarketDataToMomentum(trend)
  PROVE  LifeInv' /\ \A id \in Nat : Fate(id)
<1>1. CASE UNCHANGED <<outbox, moNextId>>
  BY <1>1, StillLives, MomentumSends
<1>2. ASSUME NEW o \in OrderRequest, o.id = moNextId,
             outbox' = <<RequestEvent(o)>>, moNextId' = moNextId + 1
      PROVE  LifeInv' /\ \A id \in Nat : Fate(id)
  <2>1. /\ outbox = <<>> /\ UNCHANGED <<batch, queue, resting, mmNextId>>
    BY MomentumSends
  <2>2. /\ ToSet(outbox') = {RequestEvent(o)}
        /\ \A P : Once(outbox', P)
    BY <1>2, SingleOnce
  <2>3. Flow({}, outbox') /\ ToSet(outbox') \subseteq ToSet(InFlight')
    BY <2>1, EmitFlow, RowPartsNext
  <2>4. /\ moNextId \in Nat /\ mmNextId' = mmNextId /\ mmNextId \in Nat
        /\ moNextId >= MoFirstId /\ mmNextId <= MoFirstId
        /\ {MMFirstId, MoFirstId} \subseteq Nat /\ mmNextId >= MMFirstId
    BY <2>1, ConstantAssumption
    DEF LifeInv, IdsApart, TypeOK, MoTypeOK, MMTypeOK
  <2>5. ASSUME NEW id \in Nat PROVE LifeOf(id)' /\ Fate(id)
    <3>1. Laid(id)' = Laid(id) /\ Once(resting', OfId(id))
      BY <2>1, NextAfoot DEF LifeInv, LifeOf, Laid
    <3>2. CASE id = moNextId
      <4>1. ~Sent(id) /\ Sent(id)'
        BY <1>2, <2>4, <3>2 DEF Sent
      <4>2. \E e \in ToSet(outbox') \cap Standing(id) : e.type = "OrderRequest"
        BY <1>2, <2>2, <3>2, StandFacts
      <4> QED
        BY <2>2, <2>3, <3>1, <4>1, <4>2, BeginLife
    <3>3. CASE id # moNextId
      <4>1. Sent(id)' <=> Sent(id)
        BY <1>2, <2>4, <3>3 DEF Sent
      <4>2. None(outbox', Standing(id))
        BY <1>2, <2>2, <3>3, StandFacts DEF None
      <4> QED
        BY <2>3, <3>1, <4>1, <4>2, QuietLife
    <3> QED
      BY <3>2, <3>3
  <2>6. mmNextId' >= MMFirstId /\ moNextId' >= MoFirstId
    BY <1>2, <2>4
  <2> QED
    BY <2>5, <2>6 DEF LifeInv
<1> QED
  BY <1>1, <1>2, MomentumSends

(* One report, about one order.                                             *)
LEMMA EmitIs ==
  ASSUME outbox = <<>>, NEW o \in OrderRequest, NEW price \in Int,
         NEW quantity \in Nat, NEW status \in OrderStatus,
         Exchange!Emit(o, price, quantity, status)
  PROVE  \E r \in ExecutionReport :
           /\ r.id = o.id /\ r.strategy = o.strategy /\ r.side = o.side
           /\ r.quantity = quantity /\ r.status = status
           /\ outbox' = <<ReportEvent(r)>>
<1> DEFINE new == Exchange!Report(o, price, quantity, status)
<1>1. new \in ExecutionReport
  BY DEF Exchange!Report, OrderRequest, ExecutionReport
<1>2. /\ new.id = o.id /\ new.strategy = o.strategy /\ new.side = o.side
      /\ new.quantity = quantity /\ new.status = status
  BY DEF Exchange!Report
<1>3. outbox' = <<ReportEvent(new)>>
  BY DEF Exchange!Emit, Exchange!ReportEvent, ReportEvent
<1> HIDE DEF new
<1> QED
  BY <1>1, <1>2, <1>3

(* The event at hand is in the row, and stands for the order it carries.    *)
LEMMA HeadStands ==
  ASSUME TypeOK, NEW step, NEW type, Handling(step, type)
  PROVE  LET e == Head(batch) IN
         /\ e \in Event /\ e.type = type /\ e \in ToSet(InFlight)
         /\ type \in {"OrderRequest", "ValidatedOrder"} =>
              e.order \in OrderRequest /\ e \in Afoot(e.order.id)
         /\ type = "CancelOrder" => e.id \in Nat
         /\ type = "ExecutionReport" =>
              /\ e.report \in ExecutionReport
              /\ e.report.status = "Filled" => e \in Afoot(e.report.id)
<1> DEFINE e == Head(batch)
<1>1. /\ e \in Event /\ e.type = type
      /\ type \in {"OrderRequest", "ValidatedOrder"} => e.order \in OrderRequest
      /\ type = "CancelOrder" => e.id \in Nat
      /\ type = "ExecutionReport" => e.report \in ExecutionReport
  BY HeadTypes DEF TypeOK
<1>2. e \in ToSet(InFlight)
  <2>1. PICK b \in Seq(Event) : b = batch
    BY DEF TypeOK, LoopTypeOK
  <2>2. b # <<>>
    BY <2>1 DEF Handling
  <2>3. ToSet(b) = {Head(b)} \cup ToSet(Tail(b))
    BY <2>2, TailOnce
  <2> QED
    BY <2>1, <2>3, RowParts
<1> HIDE DEF e
<1>3. /\ type \in {"OrderRequest", "ValidatedOrder"} => e \in Afoot(e.order.id)
      /\ type = "ExecutionReport" /\ e.report.status = "Filled" =>
           e \in Afoot(e.report.id)
  BY <1>1, <1>2 DEF Afoot, Standing, StandsFor
<1> QED
  BY <1>1, <1>2, <1>3 DEF e

(* The handlers that finish with their event.                               *)
LEMMA DoneFlow ==
  ASSUME TypeOK, TypeOK', NEW step, NEW type, Handling(step, type), EventDone,
         UNCHANGED queue
  PROVE  Flow({Head(batch)}, outbox') /\ ToSet(outbox') \subseteq ToSet(InFlight')
BY ConsumeFlow, RowPartsNext DEF Handling, EventDone

(* What the sweep does with an order it fills.                               *)
LEMMA FillSends ==
  ASSUME TypeOK, ExchangeSweep, Exchange!SweepFill, UNCHANGED loopVars
  PROVE  /\ outbox = <<>> /\ UNCHANGED <<batch, queue>>
         /\ \E k \in 1 .. Len(resting), o \in OrderRequest, r \in ExecutionReport :
              /\ o = resting[k] /\ resting' = RemoveAt(resting, k)
              /\ r.id = o.id /\ r.strategy = o.strategy /\ r.side = o.side
              /\ r.quantity = o.quantity /\ r.status = "Filled"
              /\ outbox' = <<ReportEvent(r)>>
<1>1. outbox = <<>> /\ UNCHANGED <<batch, queue>>
  BY DEF ExchangeSweep, Handling, queueVars, loopVars
<1>2. PICK k \in 1 .. Len(resting) : k = cursor
  BY DEF Exchange!SweepFill, Exchange!Sweeping
<1>3. PICK o \in OrderRequest : o = resting[k]
  BY <1>2 DEF TypeOK, ExTypeOK
<1>4. PICK price \in Int : price = Exchange!Opposite(o)
  BY OppositeTypes DEF TypeOK
<1>5. /\ resting' = RemoveAt(resting, k)
      /\ Exchange!Emit(o, price, o.quantity, "Filled")
  BY <1>2, <1>3, <1>4 DEF Exchange!SweepFill, Exchange!RemoveAt, RemoveAt
<1>6. o.quantity \in Nat /\ "Filled" \in OrderStatus
  BY DEF OrderRequest, OrderStatus
<1>7. PICK r \in ExecutionReport :
        /\ r.id = o.id /\ r.strategy = o.strategy /\ r.side = o.side
        /\ r.quantity = o.quantity /\ r.status = "Filled"
        /\ outbox' = <<ReportEvent(r)>>
  BY <1>1, <1>5, <1>6, EmitIs
<1> QED
  BY <1>1, <1>3, <1>5, <1>7

LEMMA SweepLives ==
  ASSUME TypeOK, TypeOK', LifeInv, ExchangeSweep
  PROVE  LifeInv' /\ \A id \in Nat : Fate(id)
<1>0. /\ outbox = <<>> /\ UNCHANGED <<queue, mmNextId, moNextId>>
  BY DEF ExchangeSweep, Handling, queueVars, mmVars, moVars
<1>1. CASE Exchange!SweepKeep /\ UNCHANGED loopVars
  BY <1>0, <1>1, StillLives DEF Exchange!SweepKeep, loopVars
<1>2. CASE Exchange!SweepEnd /\ EventDone
  <2>1. Flow({Head(batch)}, outbox') /\ outbox' = <<>> /\ UNCHANGED resting
    BY <1>0, <1>2, DoneFlow DEF ExchangeSweep, Exchange!SweepEnd
  <2> QED
    BY <1>0, <2>1, AllQuiet, EmptyOnce
<1>3. CASE Exchange!SweepFill /\ UNCHANGED loopVars
  <2>1. Flow({}, outbox') /\ ToSet(outbox') \subseteq ToSet(InFlight')
    BY <1>0, <1>3, EmitFlow, RowPartsNext DEF loopVars
  <2>2. PICK k \in 1 .. Len(resting), o \in OrderRequest, r \in ExecutionReport :
          /\ o = resting[k] /\ resting' = RemoveAt(resting, k)
          /\ r.id = o.id /\ r.status = "Filled" /\ outbox' = <<ReportEvent(r)>>
    BY <1>3, FillSends
  <2>3. o = resting[k] /\ o.id \in Nat
    BY <2>2 DEF OrderRequest
  <2>4. resting' = RemoveAt(resting, k)
    BY <2>2
  <2>5. r.id = o.id /\ r.status = "Filled" /\ outbox' = <<ReportEvent(r)>>
    BY <2>2
  <2>6. ToSet(outbox') = {ReportEvent(r)} /\ \A P : Once(outbox', P)
    BY <2>5, SingleOnce
  <2>7. ASSUME NEW id \in Nat PROVE LifeOf(id)' /\ Fate(id)
    <3>1. Sent(id)' <=> Sent(id)
      BY <1>0 DEF Sent
    <3>2. CASE id = o.id
      <4>1. \E n \in ToSet(outbox') \cap Standing(id) : n.type = "ExecutionReport"
        BY <2>5, <2>6, <3>2, StandFacts
      <4> QED
        BY <2>1, <2>3, <2>4, <2>6, <3>1, <3>2, <4>1, FillLife
    <3>3. CASE id # o.id
      <4>1. None(outbox', Standing(id))
        BY <2>5, <2>6, <3>3, StandFacts DEF None
      <4>2. PICK s \in Seq(OrderRequest) : s = resting
        BY DEF TypeOK, ExTypeOK
      <4>3. /\ ToSet(s) = {s[k]} \cup ToSet(RemoveAt(s, k))
            /\ Once(s, OfId(id)) => Once(RemoveAt(s, k), OfId(id))
        BY <4>2, RemoveOnce
      <4>4. s[k] \notin OfId(id)
        BY <2>3, <3>3, <4>2 DEF OfId
      <4>5. Laid(id)' = Laid(id) /\ Once(resting', OfId(id))
        BY <2>4, <4>2, <4>3, <4>4, NextAfoot DEF LifeInv, LifeOf, Laid
      <4> QED
        BY <2>1, <3>1, <4>1, <4>5, QuietLife
    <3> QED
      BY <3>2, <3>3
  <2> QED
    BY <1>0, <2>7 DEF LifeInv
<1> QED
  BY <1>1, <1>2, <1>3 DEF ExchangeSweep

(* What the order manager does with a request: it accepts the order and      *)
(* sends it on, or refuses it.                                              *)
LEMMA RequestSends ==
  ASSUME TypeOK, HandleOrderRequest
  PROVE  LET o == Head(batch).order IN
         \/ /\ outbox' = <<ValidatedEvent(o)>>
            /\ activeOrders' = {a \in activeOrders : a.id # o.id} \cup {o}
            /\ UNCHANGED astray
         \/ /\ outbox' = <<>> /\ UNCHANGED activeOrders
            /\ astray' = astray \cup {o.id}
<1>1. outbox = <<>>
  BY DEF HandleOrderRequest, Handling
<1> QED
  BY <1>1
  DEF HandleOrderRequest, OM!HandleOrderRequest, OM!ValidatedEvent,
      ValidatedEvent

LEMMA RequestLives ==
  ASSUME TypeOK, TypeOK', LifeInv, HandleOrderRequest
  PROVE  LifeInv' /\ \A id \in Nat : Fate(id)
<1>1. PICK e \in Event, o \in OrderRequest :
        /\ e = Head(batch) /\ o = e.order
        /\ e \in Afoot(o.id) /\ e.type = "OrderRequest" /\ o.id \in Nat
  BY HeadStands DEF HandleOrderRequest, OrderRequest
<1>2. /\ Flow({e}, outbox') /\ ToSet(outbox') \subseteq ToSet(InFlight')
      /\ outbox = <<>> /\ UNCHANGED <<resting, mmNextId, moNextId>>
  BY <1>1, DoneFlow
  DEF HandleOrderRequest, Handling, exVars, mmVars, moVars
<1>3. \/ outbox' = <<>>
      \/ outbox' = <<ValidatedEvent(o)>>
  BY <1>1, RequestSends
<1>4. /\ ToSet(outbox') \subseteq {ValidatedEvent(o)}
      /\ \A P : Once(outbox', P)
      /\ outbox' # <<>> => ToSet(outbox') = {ValidatedEvent(o)}
      /\ outbox' = <<>> => ToSet(outbox') = {}
  BY <1>3, EmptyOnce, SingleOnce
<1>5. ASSUME NEW id \in Nat PROVE LifeOf(id)' /\ Fate(id)
  <2>1. Sent(id)' <=> Sent(id)
    BY <1>2 DEF Sent
  <2>2. CASE id = o.id
    <3>1. \/ ToSet(outbox') \cap Standing(id) = {}
          \/ /\ e.type = "OrderRequest"
             /\ \E n \in ToSet(outbox') \cap Standing(id) :
                  n.type = "ValidatedOrder"
      BY <1>1, <1>4, <2>2, StandFacts
    <3> QED
      BY <1>1, <1>2, <1>4, <2>1, <2>2, <3>1, PassLife
  <2>3. CASE id # o.id
    <3>1. None(outbox', Standing(id))
      BY <1>4, <2>3, StandFacts DEF None
    <3>2. Laid(id)' = Laid(id) /\ Once(resting', OfId(id))
      BY <1>2, NextAfoot DEF LifeInv, LifeOf, Laid
    <3> QED
      BY <1>2, <2>1, <3>1, <3>2, QuietLife
  <2> QED
    BY <2>2, <2>3
<1> QED
  BY <1>2, <1>5 DEF LifeInv

(* What the exchange does with an arriving order: it reports a fill, a       *)
(* rejection, or that the order rests.                                      *)
LEMMA MatchSends ==
  ASSUME TypeOK, HandleValidatedOrder
  PROVE  LET o == Head(batch).order IN
         \E r \in ExecutionReport :
           /\ r.id = o.id /\ r.strategy = o.strategy /\ r.side = o.side
           /\ outbox' = <<ReportEvent(r)>>
           /\ \/ /\ r.status = "Filled" /\ r.quantity = o.quantity
                 /\ UNCHANGED resting
              \/ /\ r.status = "Rejected" /\ o.type = "Market"
                 /\ UNCHANGED resting
              \/ /\ r.status = "New" /\ o.type # "Market"
                 /\ resting' = Append(resting, o)
<1>1. PICK o \in OrderRequest : o = Head(batch).order
  BY HeadStands DEF HandleValidatedOrder
<1>2. /\ o.quantity \in Nat /\ o.price \in Int /\ 0 \in Int /\ 0 \in Nat
      /\ {"Filled", "New", "Rejected"} \subseteq OrderStatus
  BY DEF OrderRequest, OrderStatus
<1>3. PICK price \in Int : price = Exchange!Opposite(o)
  BY OppositeTypes DEF TypeOK
<1>4. outbox = <<>>
  BY DEF HandleValidatedOrder, Handling
<1>5. \/ Exchange!Emit(o, price, o.quantity, "Filled") /\ UNCHANGED resting
      \/ /\ Exchange!Emit(o, 0, 0, "Rejected") /\ UNCHANGED resting
         /\ o.type = "Market"
      \/ /\ Exchange!Emit(o, o.price, 0, "New") /\ resting' = Append(resting, o)
         /\ o.type # "Market"
  BY <1>1, <1>3
  DEF HandleValidatedOrder, Exchange!ProcessOrder, Exchange!MatchMarketOrder,
      Exchange!MatchLimitOrder
<1>6. CASE Exchange!Emit(o, price, o.quantity, "Filled") /\ UNCHANGED resting
  <2>1. \E r \in ExecutionReport :
          /\ r.id = o.id /\ r.strategy = o.strategy /\ r.side = o.side
          /\ r.quantity = o.quantity /\ r.status = "Filled"
          /\ outbox' = <<ReportEvent(r)>>
    <3>1. PICK filled \in Nat, new \in OrderStatus :
            filled = o.quantity /\ new = "Filled"
      BY <1>2
    <3>2. Exchange!Emit(o, price, filled, new)
      BY <1>6, <3>1
    <3> QED
      BY <1>4, <3>1, <3>2, EmitIs
  <2> QED
    BY <1>1, <1>6, <2>1
<1>7. CASE /\ Exchange!Emit(o, 0, 0, "Rejected") /\ UNCHANGED resting
           /\ o.type = "Market"
  <2>1. \E r \in ExecutionReport :
          /\ r.id = o.id /\ r.strategy = o.strategy /\ r.side = o.side
          /\ r.status = "Rejected" /\ outbox' = <<ReportEvent(r)>>
    <3>1. PICK zero \in Int, none \in Nat, new \in OrderStatus :
            zero = 0 /\ none = 0 /\ new = "Rejected"
      BY <1>2
    <3>2. Exchange!Emit(o, zero, none, new)
      BY <1>7, <3>1
    <3> QED
      BY <1>4, <3>1, <3>2, EmitIs
  <2> QED
    BY <1>1, <1>7, <2>1
<1>8. CASE /\ Exchange!Emit(o, o.price, 0, "New") /\ resting' = Append(resting, o)
           /\ o.type # "Market"
  <2>1. \E r \in ExecutionReport :
          /\ r.id = o.id /\ r.strategy = o.strategy /\ r.side = o.side
          /\ r.status = "New" /\ outbox' = <<ReportEvent(r)>>
    <3>1. PICK limit \in Int, none \in Nat, new \in OrderStatus :
            limit = o.price /\ none = 0 /\ new = "New"
      BY <1>2
    <3>2. Exchange!Emit(o, limit, none, new)
      BY <1>8, <3>1
    <3> QED
      BY <1>4, <3>1, <3>2, EmitIs
  <2> QED
    BY <1>1, <1>8, <2>1
<1> QED
  BY <1>5, <1>6, <1>7, <1>8

LEMMA MatchLives ==
  ASSUME TypeOK, TypeOK', LifeInv, HandleValidatedOrder
  PROVE  LifeInv' /\ \A id \in Nat : Fate(id)
<1>1. PICK e \in Event, o \in OrderRequest :
        /\ e = Head(batch) /\ o = e.order
        /\ e \in Afoot(o.id) /\ e.type = "ValidatedOrder" /\ o.id \in Nat
  BY HeadStands DEF HandleValidatedOrder, OrderRequest
<1>2. /\ Flow({e}, outbox') /\ ToSet(outbox') \subseteq ToSet(InFlight')
      /\ UNCHANGED <<mmNextId, moNextId>>
  BY <1>1, DoneFlow DEF HandleValidatedOrder, mmVars, moVars, queueVars
<1>3. PICK r \in ExecutionReport :
        /\ r.id = o.id /\ outbox' = <<ReportEvent(r)>>
        /\ \/ r.status \in {"Filled", "Rejected"} /\ UNCHANGED resting
           \/ r.status = "New" /\ resting' = Append(resting, o)
  BY <1>1, MatchSends
<1>4. ToSet(outbox') = {ReportEvent(r)} /\ \A P : Once(outbox', P)
  BY <1>3, SingleOnce
<1>5. ASSUME NEW id \in Nat PROVE LifeOf(id)' /\ Fate(id)
  <2>1. Sent(id)' <=> Sent(id)
    BY <1>2 DEF Sent
  <2>2. CASE id = o.id /\ UNCHANGED resting
    <3>1. \/ ToSet(outbox') \cap Standing(id) = {}
          \/ /\ e.type = "ValidatedOrder"
             /\ \E n \in ToSet(outbox') \cap Standing(id) :
                  n.type = "ExecutionReport"
      BY <1>1, <1>3, <1>4, <2>2, StandFacts
    <3> QED
      BY <1>1, <1>2, <1>4, <2>1, <2>2, <3>1, PassLife
  <2>3. CASE id = o.id /\ r.status = "New" /\ resting' = Append(resting, o)
    <3>1. None(outbox', Standing(o.id))
      BY <1>1, <1>3, <1>4, <2>3, StandFacts DEF None
    <3> QED
      BY <1>1, <1>2, <2>1, <2>3, <3>1, RestLife
  <2>4. CASE id # o.id
    <3>1. None(outbox', Standing(id))
      BY <1>3, <1>4, <2>4, StandFacts DEF None
    <3>2. PICK s \in Seq(OrderRequest) : s = resting
      BY DEF TypeOK, ExTypeOK
    <3>3. /\ ToSet(Append(s, o)) = ToSet(s) \cup {o}
          /\ \A P : Once(Append(s, o), P) <=>
               Once(s, P) /\ (None(s, P) \/ o \notin P)
      BY AppendOnce
    <3>4. o \notin OfId(id)
      BY <2>4 DEF OfId
    <3>5. Laid(id)' = Laid(id) /\ Once(resting', OfId(id))
      BY <1>3, <3>2, <3>3, <3>4, NextAfoot DEF LifeInv, LifeOf, Laid
    <3> QED
      BY <1>2, <2>1, <3>1, <3>5, QuietLife
  <2> QED
    BY <1>3, <2>2, <2>3, <2>4
<1> QED
  BY <1>2, <1>5 DEF LifeInv

(* The exchange cancels nothing, and reports a cancellation.                *)
LEMMA CancelSends ==
  ASSUME TypeOK, HandleCancelOrder
  PROVE  /\ UNCHANGED resting
         /\ \E r \in ExecutionReport :
              /\ r.id = Head(batch).id /\ r.status = "Cancelled"
              /\ outbox' = <<ReportEvent(r)>>
<1>1. PICK i \in Nat : i = Head(batch).id
  BY HeadStands DEF HandleCancelOrder
<1>2. PICK o \in OrderRequest : o = Exchange!BlankRequest(i) /\ o.id = i
  <2>1. Exchange!BlankRequest(i) \in OrderRequest
    BY DEF Exchange!BlankRequest, OrderRequest, OrderSide, OrderType
  <2>2. Exchange!BlankRequest(i).id = i
    BY DEF Exchange!BlankRequest
  <2> QED
    BY <2>1, <2>2
<1>3. /\ Exchange!Emit(o, 0, 0, "Cancelled") /\ outbox = <<>>
      /\ 0 \in Int /\ 0 \in Nat /\ "Cancelled" \in OrderStatus
  BY <1>1, <1>2
  DEF HandleCancelOrder, Handling, Exchange!CancelOrder, OrderStatus
<1>4. \E r \in ExecutionReport :
        /\ r.id = o.id /\ r.status = "Cancelled" /\ outbox' = <<ReportEvent(r)>>
  BY <1>3, EmitIs
<1> QED
  BY <1>1, <1>2, <1>4
  DEF HandleCancelOrder, Exchange!CancelOrder, Exchange!bookOfOrders

LEMMA CancelLives ==
  ASSUME TypeOK, TypeOK', LifeInv, HandleCancelOrder
  PROVE  LifeInv' /\ \A id \in Nat : Fate(id)
<1>1. /\ Flow({Head(batch)}, outbox')
      /\ UNCHANGED <<resting, mmNextId, moNextId>>
  BY DoneFlow, CancelSends DEF HandleCancelOrder, mmVars, moVars, queueVars
<1>2. PICK r \in ExecutionReport :
        r.status = "Cancelled" /\ outbox' = <<ReportEvent(r)>>
  BY CancelSends
<1>3. \A id \in Nat : None(outbox', Standing(id))
  BY <1>2, SingleOnce, StandFacts DEF None
<1> QED
  BY <1>1, <1>3, AllQuiet

LEMMA ReportLives ==
  ASSUME TypeOK, TypeOK', LifeInv, HandleExecutionReport
  PROVE  LifeInv' /\ \A id \in Nat : Fate(id)
<1>1. /\ Flow({Head(batch)}, outbox') /\ outbox' = <<>>
      /\ UNCHANGED <<resting, mmNextId, moNextId>>
  BY DoneFlow
  DEF HandleExecutionReport, Handling, exVars, mmVars, moVars, queueVars
<1> QED
  BY <1>1, AllQuiet, EmptyOnce

LEMMA InitLives == Init => LifeInv /\ \A id \in Nat : StageOf(id) = "unsent"
<1> SUFFICES ASSUME Init
             PROVE  LifeInv /\ \A id \in Nat : StageOf(id) = "unsent"
  OBVIOUS
<1>1. /\ InFlight = <<>> \o <<>> \o <<>> /\ resting = <<>>
      /\ mmNextId = MMFirstId /\ moNextId = MoFirstId
  BY DEF Init, InFlight, MM!Init, Mo!Init, Exchange!Init
<1>2. InFlight = <<>>
  BY <1>1
<1>3. {MMFirstId, MoFirstId} \subseteq Nat
  BY ConstantAssumption
<1>4. LifeInv
  BY <1>1, <1>2, <1>3, EmptyOnce DEF LifeInv, LifeOf, Afoot, Laid
<1>5. \A id \in Nat : ~Sent(id) /\ Afoot(id) = {} /\ Laid(id) = {}
  BY <1>1, <1>2, <1>3, EmptyOnce DEF Sent, Afoot, Laid
<1>6. TypeOK
  BY InitTypes
<1> QED
  BY <1>4, <1>5, <1>6, StageIs

LEMMA StepLives ==
  ASSUME TypeOK, TypeOK', LifeInv, IdsApart', [Next]_vars
  PROVE  LifeInv' /\ \A id \in Nat : Fate(id)
<1>1. CASE UNCHANGED vars
  BY <1>1, StillLives
  DEF vars, queueVars, loopVars, tradingVars, exVars, mmVars, moVars
<1>2. CASE Processor
  <2>1. CASE MarketDataToExchange
    <3>1. UNCHANGED <<batch, queue, outbox, resting, mmNextId, moNextId>>
      BY <2>1
      DEF MarketDataToExchange, Exchange!UpdateMarketPrice, queueVars, mmVars,
          moVars
    <3> QED
      BY <3>1, StillLives
  <2> QED
    BY <1>2, <2>1, LoopLives, QuoteLives, MomentumLives, SweepLives,
       RequestLives, MatchLives, CancelLives, ReportLives
    DEF Processor
<1>3. CASE Main
  <2>1. UNCHANGED <<batch, queue, outbox, resting, mmNextId, moNextId>>
    BY <1>3
    DEF Main, UiComplete, UiQuit, UiStopFeed, UiJoin, queueVars, loopVars,
        tradingVars, exVars, mmVars, moVars
  <2> QED
    BY <2>1, StillLives
<1> QED
  BY <1>1, <1>2, <1>3, FeedLives DEF Next

(* As long as the two strategies' ids do not meet, no order is in flight    *)
(* twice, rests twice, or both.                                            *)
LEMMA LifeInvHolds == Spec /\ []IdsApart => []LifeInv
<1>1. Init => LifeInv
  BY InitLives
<1>2. TypeOK /\ TypeOK' /\ IdsApart' /\ LifeInv /\ [Next]_vars => LifeInv'
  BY StepLives
<1> QED
  BY <1>1, <1>2, TypeCorrect, PTL DEF Spec

(* As long as the two strategies' ids do not meet, every order lives one     *)
(* life: whatever the queue drops and however the threads interleave, none   *)
(* is requested, validated, resting or filled twice, and none comes back.    *)
THEOREM OneLifeEach == Spec /\ []IdsApart => FollowsLifecycle
<1>1. Init => Life!Init
  BY InitLives, ConstantAssumption DEF Life!Init
<1>2. /\ TypeOK /\ TypeOK' /\ LifeInv /\ LifeInv' /\ IdsApart' /\ [Next]_vars
      => [\A i \in WatchedIds : Life!Move(i)]_([id \in WatchedIds |-> StageOf(id)])
  <2> SUFFICES ASSUME TypeOK, TypeOK', LifeInv, LifeInv', IdsApart', [Next]_vars
               PROVE  \A id \in WatchedIds : Life!Move(id)
    OBVIOUS
  <2>1. ASSUME NEW id \in WatchedIds PROVE Life!Move(id)
    <3>1. id \in Nat /\ Fate(id)
      BY StepLives, ConstantAssumption
    <3>2. StageOf(id)' = StageOf(id) \/ StageOf(id)' \in Life!After(StageOf(id))
      BY <3>1, FateMoves
    <3> QED
      BY <3>2 DEF Life!Move
  <2> QED
    BY <2>1
<1> QED
  BY <1>1, <1>2, TypeCorrect, LifeInvHolds, PTL
  DEF Spec, FollowsLifecycle, Life!Spec
=============================================================================
