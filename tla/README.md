# Formal model of the low-latency trading engine

TLA+ modules, TLC runs and TLAPS proofs about the C++ program in `src/`: a
simulated trading system built around one lock-free event queue. The modules
are translated from the source; the numbers in `PROJECT.json` ("map") name the
lines each definition stands for. Everything that is not stated here to be
modelled is not modelled.

Contents: 1 the system, 2 the modules, 3 the runs, 4 fairness, 5 proofs,
6 divergences found, 7 abstractions and what is left out, 8 plan.

## 1. The system

| Part | State | Operations | Talks to |
| --- | --- | --- | --- |
| Ring buffer `core/ring_buffer.hpp` | `buffer_`, atomics `head_`, `tail_` | `push`, `pop`, `size` | shared memory of all threads |
| Event queue `core/event_queue.hpp` | a ring of 1024 slots, `total_pushed_` | `push`, `pop`, `size`, `total_pushed` | every other part |
| Matching engine `exchange/` | best bid and ask, resting orders | `update_market_price`, `process_order`, `cancel_order` | pushes ExecutionReport |
| Order manager `oms/` | map of active orders | `handle_order_request`, `handle_execution_report`, `get_active_orders` | asks the risk engine, pushes ValidatedOrder |
| Risk engine `risk/` | filled position | `check_order`, `update_position` | called by order manager and main |
| Market maker `strategy/` | quotes, own active ids, next id, position | `on_market_data`, `update_position` | reads the book, pushes CancelOrder, OrderRequest |
| Momentum `strategy/` | two averages, count, `position_open_`, next id | `on_market_data` | pushes OrderRequest |
| Order book `orderbook/` | sorted levels per side, metrics | `apply_trade`, `get_top_*` | read by the market maker and the UI |
| Profit and loss `pnl/` | per strategy: position, price, profit; peak, drawdown | `on_fill`, `update_pnl`, totals | its position goes back to the strategies |
| Feeds `replay/`, `feed/` | per feed: running and finished flags, the file | `run`, `stop`, `is_finished` | push MarketData, each from a thread of its own |
| Latency monitor `analytics/`, tracker `core/` | three lists of spans; three atomics per figure | `record_*`, `get_*_stats` | fed by the processor, read by the UI |
| Main program `main.cpp` | `running`, the batch, `trade_history` | processor loop, UI loop, shutdown | all of the above |
| Memory pool, recorder, parser, execution engine, UI | pool index, file, none | | no feedback into trading |

The threads: one **feed** thread, or two in hybrid mode, push a MarketData event
per trade; the **processor** thread pops up to four events and then handles each; the **main**
thread draws the UI, notices the end of a replay or the quit key, and shuts
down. The handlers run on the processor thread and push their follow-up events
on the same queue, so the queue has two producing threads, or three. An order goes round
the queue three times:

    strategy --OrderRequest--> order manager --ValidatedOrder--> exchange
        exchange --ExecutionReport--> order manager, profit and loss, risk

What is hard: the ring's steps interleave with loads that may be old; the result
of every push is ignored, so a full queue silently loses events; follow-up
events interleave with the feed's; an order and its cancellation make different
numbers of round trips; the sweep erases from the vector it iterates over; the
momentum strategy keeps a flag instead of its position; the program stops while
events are queued, feeds sleep, or a feed has not begun. `PROJECT.json` lists these
at their lines under "hazards", with the property that watches each, or the reason
none does.

What each part must promise: the ring is a first-in first-out queue without
data races; the exchange leaves no tradable order resting, fills within limits
and removes orders only by filling them; the order manager believes an order
active only while it really is; risk keeps the position within its limit; the
main loop leads every order through one life, comes to rest, and ends.

`main.cpp` never calls `OrderBook::apply_trade`. The book therefore stays empty
and the market maker never quotes. Only `tests/benchmarks.cpp` feeds a book.
The constant `BookIsFed` chooses: `FALSE` is `main.cpp` as it stands, `TRUE` adds
the missing call (`MarketDataToBook`, which stands for no line of `src/`), following
the architecture drawn in `src/README.md`, so that the market maker and the
cancellations can be checked at all.

## 2. The modules

| Module | Models | Correspondence |
| --- | --- | --- |
| `Events` | `core/events.hpp` | an event is a record with a `type`; constructors per type |
| `EventQueue` | promise of `core/event_queue.hpp` | abstract queue of at most `Capacity` events: `Enqueue`, `Dequeue` |
| `RingBuffer` | `core/ring_buffer.hpp` under `core/event_queue.hpp` | one action per access to shared memory; per-thread `headView`, `tailView` are what an acquire load returns, `LearnHead`/`LearnTail` let another thread's release store arrive late |
| `MatchingEngine` | `exchange/matching_engine.*` | one action per handler, one per iteration of the sweep; `outbox` holds the emitted reports, `Deliver` is one push |
| `RiskEngine`, `OrderManager` | `risk/`, `oms/` | one operator per function, state passed as variables |
| `OrderBook` | `orderbook/` | `apply_trade` on a sorted, bounded sequence of levels per side |
| `MarketMaker`, `Momentum` | `strategy/` | one operator per function; the market maker's targets exactly, in whole units |
| `Feeds` | `feed/`, `replay/` | per feed: begin, read, push or throw, end; `stop`, the join, `is_finished`; hybrid mode runs both |
| `Positions`, `PnLEngine`, `Fraction` | `pnl/` | `PnLEngine` is `on_fill` and `update_pnl` in exact fractions, driven by execution reports; `Positions` is the part other handlers read, which `PnLEngine` implements |
| `OrderLifecycle` | an order's way round the loop | abstract: unsent, requested, validated, resting, filled, over |
| `HftMain` | `main.cpp` with the UI's exits | composes the modules above by `INSTANCE`; actions grouped as `FeedStep`, `Processor`, `Main`, one group per thread |
| `LatencyMonitor`, `LatencyTracker` | `analytics/latency_monitor.hpp`, `core/latency_tracker.hpp` | one action per call under the monitor's mutex; one per atomic access of the tracker |
| `Latency` | | the two instruments side by side, which share no state |
| `MCRingBuffer`, `MCMatchingEngine`, `MCPnLEngine`, `MCHftMain`, `MCLatency` | | constants for TLC |
| `SequenceFacts` | | lemmas: erasing from a sequence, least elements, sorting by insertion, how often a sequence holds something |
| `RingBufferProofs`, `MatchingEngineProofs`, `PnLEngineProofs`, `LatencyProofs` | | theorems and proofs about the components |
| `HftMainTypes`, then `HftMainOrders`, then `HftMainTracking` | | theorems and proofs about the composed program, each extending the one before |

Interleaving in `HftMain`. The queue is the only state shared by the feeds and
the processor, and the flags (`running`, a feed's `running_` and `finished_`)
the only state shared with the main thread that steers anything. A handler's
changes are therefore one step, except for its pushes: it fills `outbox`, and
`Flush` performs one push at a time, in order, before the thread does anything
else, so that the feed can push between any two of them. The handling of a
trade is split further (market maker, momentum, exchange, each iteration of the
sweep). The loop condition, each pop and each event of a batch are steps of
their own, as are a feed's read and its push, between which `stop()` may come. An
exception that leaves the replay thread ends every thread at once
(`Feeds!Aborted`).

`astray` is a ghost: the ids of orders the order manager refused, and of orders
that a full queue refused an event of, their cancellation included. Nothing reads
it but properties, which thereby speak of overflowing queues and still mean
something.

`HftMain` uses the abstract `EventQueue`. `RingBuffer` shows when the ring is
that queue: with one producing thread always (proved), with the two of
`main.cpp` not (run `overwrite`). So the `HftMain` results describe the trading
logic with the queue its authors meant to have; what a racing ring adds is
left to the ring's own runs.

In each module, operators under a comment that begins with "Mistake" are
deliberately wrong variants of the next definition. No specification uses them;
they show that the properties would notice such a bug ("mutants").

## 3. The runs

| Run | Configuration | Checks | Result |
| --- | --- | --- | --- |
| `spsc` | `RingBuffer_spsc`: 4 slots, 2 events, 1 producer | `TypeOK`, `NoDataRace`, `ImplementsFifo`, `Drains` | hold |
| `overwrite` | `RingBuffer_overwrite`: feed and processor push | `NoOverwrite` | violated |
| `orders` | `MatchingEngine_orders`: 6 orders, 4 prices | `TypeOK`, `NoCrossedResting`, `LeavesByFill`, `FillsWithinLimit`, `TimePriority` | hold |
| `pnl` | `PnLEngine_fills`: 4 reports, 2 strategies | `LedgerAgrees`, `DrawdownIsWorstFall`, `KeepsPositions` | hold |
| `drawdown` | the same instance | `DrawdownOfTrades` | violated |
| `live` | `HftMain_live`: 4 trades, momentum trades, a queue of 3 that overflows | `TypeOK`, `NothingStranded`, `FlagMeansPosition`, `FollowsLifecycle`, `Quiesces` | hold |
| `quotes` | `HftMain_quotes`: book fed, 3 trades, market maker quotes | `BookInOrder`, `CancelsAreOfReplaced`, `NothingStranded`, `TradeableIsTracked`, `ReplacedAreCancelled`, `FollowsLifecycle`, `Quiesces` | hold |
| `shutdown` | `HftMain_shutdown`: all three modes, 2 trades per feed, quit at any time | `ShutdownIsClean`, `Terminates` | hold |
| `latency` | `Latency`: 3 fills or long sessions; 2 threads record 4 spans | `WholeCoversParts`, `PercentilesAreRanks`, `QuietIsExact`, `RecordsEnd` | hold |
| `risk` | `HftMain_risk`: position limit of one order | `RiskLimit` | violated |
| `tail` | `HftMain_tail`: a file of 2 trades | `ReplayComplete` | violated |

The main properties in words:

- `ImplementsFifo`: the slots from `tail_` to `head_` are the abstract queue, and
  every access of the ring is a step of it or changes nothing. `Drains`: an event
  that can be popped is popped.
- `NoCrossedResting`: no order that could trade rests behind the sweep's
  iterator, or anywhere outside a sweep. `LeavesByFill`: the only way out of the
  exchange is one fill of the whole order within its limit.
- `TimePriority`: of two limit orders on one side at one price, the later never
  passes the earlier, neither in the queue of resting orders nor by trading on
  arrival. `FillsWithinLimit`: no fill is worse than the limit.
- `LedgerAgrees`: realised profit less the cost of what is held equals the money
  received less the money paid, after any fills: opening, enlarging, reducing,
  closing or turning a position. `DrawdownIsWorstFall`: the drawdown kept from a
  running maximum is the largest fall between any two totals in order.
- `FollowsLifecycle`: seen through the refinement mapping (where its events are,
  whether it rests), every order makes only the steps of `OrderLifecycle`: no
  order is requested, validated, resting or filled twice or in two places, and
  none comes back once it is over. Lost events end lives early, never double them.
- `NothingStranded`: for every order the order manager calls active there is
  something still to happen: a ValidatedOrder on its way, a resting order, or a
  final report on its way; unless one of its own events was refused. In that case
  it does stay active for ever, because `handle_order_request` stores the order
  before a push whose result it ignores, and no later event mentions it.
- `TradeableIsTracked`: the order manager never forgets an order that may still
  trade: it knows every order on its way to the exchange, and a resting order it
  does not know is a quote that was replaced. The exchange is simplified as the
  comment at `matching_engine.cpp:57` says (a cancellation is answered by a report,
  the order stays), so that a Cancelled report ends at the order manager the life
  of an order that may go on resting. That this happens to replaced quotes alone,
  and to none still to reach the exchange, is a matter of the order in which
  requests, cancellations and reports go round the queue.
- `ReplacedAreCancelled`: no replaced quote stays active at the order manager. While
  it holds one, its cancellation or a final report is on its way, unless an event
  of it was refused. The hazard is a cancellation that arrives before its order is
  known, finds nothing, and leaves the order active for ever.
- `FlagMeansPosition`: when the momentum strategy's orders are all reported and
  none went astray, `position_open_` says whether strategy 2 is long. The code
  never corrects the flag by reports; it is right only because a signal is acted
  on once and both directions trade the same quantity.
- `CancelsAreOfReplaced`: cancellations on their way are of different orders,
  none of them a current quote. `BookInOrder`: a side of the book is sorted, holds
  a price once and stays in its array.
- `Quiesces`: handlers push events that cause events, but never for ever.
- `ShutdownIsClean`: after the joins no feed can push, no event of a batch is
  unhandled and no follow-up event unpushed. `Terminates`: once the UI loop is
  left, the joins succeed (or an exception ended the program), also when `stop()`
  came before a feed had begun. Events still on the queue are dropped (finding
  `tail`).
- `PercentilesAreRanks`: the figures shown are percentiles of all samples, however
  earlier calls left the list. `WholeCoversParts`: spans that look empty are dropped
  one by one, and the sums still fit. `QuietIsExact`: with no call under way the
  tracker's total, count and maximum are those of all spans; `RecordsEnd`: the
  compare-and-exchange loop ends.

Bounds. Ring: four slots let the indices wrap and the ring be full, empty and
half full with both old and new views; two distinct events are enough to tell
order and duplication apart; the counter wraps at 2 instead of 2^64. Exchange:
two equal buys, a better buy, a sell and a market order each way against prices
below, between and above the limits; every order may come again once it no
longer rests, so behaviours are unbounded. Profit: four reports, each a fill of
one or three lots of either strategy at one of two prices, or a report without a
fill at one of them or at 0; one and three lots reduce, close and turn a
position. (Today's strategies each send one fixed size, so that `main.cpp` never
turns one; the component accepts any.)

Main: `MaxTicks` bounds the trades (2 to 4), which bounds the orders; batches are 2
events (4 in the code) so that a batch can be partly filled, full, and followed
by another; the history keeps 2 fills (1000) so that it is trimmed; the momentum
strategy warms up in one trade (50), after which its averages may say anything
at every trade. The prices lie further apart than the dollar at which momentum
orders are sent, so that these trade at once, rest and trade later, or stay. A
queue of 3 in `live` and `shutdown` overflows on most paths and has room on
others; the 12 of `quotes` and the 8 of `risk` and `tail` never fill. In `quotes` a
side of the book holds two levels (100) for three prices, so that one is
refused, trades have two sizes, so that the imbalance leans both ways, and the
quit key is left out (`QuitKey`), which `live` and `shutdown` have. Order ids start
at 10 and 50 (1000000 and 2000000), far enough apart not to meet; `WatchedIds` are
those that can occur. Orders are one lot, the position limit one to four lots.

Latency: three fills at four clock values give equal and unequal time stamps; a
few fills cannot tell the 90th from the 99th percentile, so some behaviours begin
after sessions of 10, 99, 100 or 101 fills with any number of short spans, first
or last. Two threads and four spans of three sizes let every exchange fail.

`HftMain` runs switch TLC's deadlock check off because the program really stops
after its summary, `pnl`, `drawdown` and `latency` because their reports are
bounded; the other runs keep it on.

## 4. Fairness

- Ring: a push that has begun is finished, the consumer polls without a pause
  (`main.cpp:118-129`), and a store reaches every thread in finite time. Nothing
  obliges a thread to begin a push.
- Main: weak fairness for the processor as a whole (it never blocks but on
  mutexes nobody keeps), for each feed's start, its pushes and its end, for
  reading the next line of a replay (a live feed may fall silent), and for the
  main thread's steps out of the UI loop and after it; all of them only while no
  exception has ended the program. The quit key has no fairness: `Terminates` is
  about what follows, and `Quiesces` does not rely on it.
- Tracker: a call that has begun goes on, `compare_exchange_weak` does not fail
  for no reason for ever, and one that fails again and again loads the latest value
  in the end (a store becomes visible in finite time).

## 5. Proofs

Checked by TLAPS for every value of the constants. Every safety property that a
passing run checks is stated by a theorem; the run checks it on a small
instance, without the theorem's hypotheses where there are any.

| Theorem | Says | Assumes |
| --- | --- | --- |
| `RingBufferProofs!TypeCorrect` | `Spec => []TypeOK` | `Size >= 2`, counter modulus positive, any producers |
| `RingBufferProofs!RaceFree` | `Spec => []NoDataRace` | one producer |
| `RingBufferProofs!SpscImplementsFifo` | `Spec => ImplementsFifo` | one producer |
| `MatchingEngineProofs!TypeCorrect` | `Spec => []TypeOK` | the orders are order requests, prices integers |
| `MatchingEngineProofs!NothingCrossed` | `Spec => []NoCrossedResting` | the same |
| `MatchingEngineProofs!LeavingIsFilling` | `Spec => LeavesByFill` | the same |
| `MatchingEngineProofs!NoFillWorse` | `Spec => FillsWithinLimit` | and order ids are unique |
| `MatchingEngineProofs!FirstComeFirstServed` | `Spec => TimePriority` | and order ids are unique |
| `PnLEngineProofs!PositionsKept` | `Spec => KeepsPositions` | quantities positive, prices integers |
| `PnLEngineProofs!LedgerIsExact` | `Spec => []LedgerAgrees` | the same |
| `PnLEngineProofs!DrawdownIsExact` | `Spec => []DrawdownIsWorstFall` | the same |
| `HftMainTypes!TypeCorrect` | `Spec => []TypeOK` | `ConstantAssumption`: constants have their types, market maker ids start below |
| `HftMainTypes!BookStaysInOrder` | `Spec => []BookInOrder` | the same |
| `HftMainTypes!CleanShutdown` | `Spec => []ShutdownIsClean` | the same |
| `HftMainOrders!OneLifeEach` | `Spec /\ []IdsApart => FollowsLifecycle` | the same |
| `HftMainTracking!NoneStranded` | `Spec /\ []IdsApart => []NothingStranded` | the same |
| `HftMainTracking!CancelsReplaced` | `Spec => []CancelsAreOfReplaced` | the same |
| `HftMainTracking!FlagIsPosition` | `Spec /\ []IdsApart => []FlagMeansPosition` | the same |
| `HftMainTracking!TradeableTracked` | `Spec /\ []IdsApart => []TradeableIsTracked` | the same |
| `HftMainTracking!ReplacedCancelled` | `Spec /\ []IdsApart => []ReplacedAreCancelled` | the same |
| `HftMainTracking!AsMainIs` | `Spec =>` those above that need `[]IdsApart` and speak of `main.cpp` as it stands; every resting order is active | and `~BookIsFed` |
| `HftMainTracking!IdsStayApart` | `Spec => []IdsApart` | and `MMFirstId + 4 * MaxTicks <= MoFirstId` |
| `HftMainTracking!WhileIdsLast` | `Spec =>` all five that need `[]IdsApart` | and the same |
| `LatencyProofs!WholeIsCovered` | `Spec => []WholeCoversParts` | the clock's bound is a number |
| `LatencyProofs!PercentilesExact` | `Spec => PercentilesAreRanks` | the same |
| `LatencyProofs!FiguresExact` | `Tracker!Spec => []QuietIsExact` | finitely many threads, spans not negative |

**The ring.** `NoDataRace` is not inductive: why the producer's slot is not the
consumer's depends on what each thread last saw. `SpscInv` says it: each thread
knows its own index; the other index it may know late, which makes the ring look
at least as full to the producer and at least as empty to the consumer as it is
(`ViewsLag`, a statement about clockwise distances); a push in flight holds the
true head and has seen a free slot; a pop in flight has seen an event.
`DistFacts` is the arithmetic of distances on the circle. For the refinement,
`PublishEnqueues` and `PublishDequeues` show that storing `head_` appends to the
pending slots and storing `tail_` drops the first; `WriteIsInvisible` that the
write before it changes none of them; all other steps leave them alone. The
producer may be the consumer's own thread (as in `tests/benchmarks.cpp`). With
two producers the assumption fails, and `overwrite` shows what happens.

**The exchange.** `NoCrossedResting` is inductive with the types: the sweep's step
either removes the order under the iterator, which moves the orders behind it up
and leaves those before it alone (`RemoveAtFacts`), or passes one that cannot
trade; arriving orders rest only if they cannot trade. The two properties about
reports identify an order by its id in the report, hence `UniqueIds`: the fill a
step emits is then the fill of the order that the step looked at, whose limit
the guard compared with the price it trades at; and no step moves one resting
order past another.

**Profit and loss.** `PositionsKept` needs that every strategy has a record whose
position is an integer (`StatsOK`); both branches of `on_fill` then move the
position by the signed quantity, and `update_pnl` moves none. `LedgerAgrees`
compares fractions in lowest terms; its inductive form `Balanced` multiplies the
denominators out, and `BalancedIs` says that it does not matter which
numerators and denominators a fraction is written with. `IncreasedBalances` and
`DecreasedBalances` are the two branches of `on_fill`, the second with a case for
a fill that turns the position. `RatioIs` is where lowest terms are earned: the
greatest common divisor exists, divides both, and a whole number has one form.
For the drawdown, `DrawdownInv` adds that the peak is one of the totals and none
is above it; `OneMoreTotal` is the step: the largest fall to a new total is the
one from the peak (`MinusAtMost`).

**The composed program: types, book, shutdown.** `TypeOK` is inductive; its
parts are taken one by one for each handler. `BookInOrder` rests on
`InsertionSorts`: a sorted list to which one level is added has a sorted
rearrangement, so that `Sorted`, which chooses any, returns a sorted one.
`ShutdownIsClean` needs `LoopInv` (a processor outside its loop has an empty
batch and outbox) and `JoinInv` (the summary comes only after every thread's end,
and at its end a thread stays).

**The composed program: orders.** What makes it hard is that an order's events
may lie in the batch, the queue or the outbox. `InFlight` is these as one row, and
`Flow(gone, new)` says what any step does to the row: it takes at most the head,
adds at the end, or loses what a full queue refuses (`StepKinds`). The invariant
`LifeInv` says that an id that was not issued yet is nowhere, and that an issued
one is in at most one place: an order request, a validated order, a resting
order or a fill, once. From it each step is a step of `OrderLifecycle` or none.

Ids are what identifies an order, and the two strategies count theirs from
1000000 and 2000000. `IdsApart` is the condition that the market maker has not
counted into the other's range. It is not an invariant of a program that runs
for ever, so the theorems have it as a hypothesis, and two theorems discharge it.
`AsMainIs`: as `main.cpp` stands the market maker never quotes. `IdsStayApart`: with
the book fed, at most two feeds of `MaxTicks` trades, two quotes for each; with the
real constants this is a session of 250000 trades per feed. Its invariant
`RoomInv` counts the trades still to be read, those read and not pushed, and those
in the row, and shows that the ids issued and those that all these can still cause
fit the range. `quotes` and `live` satisfy the inequality.

**The composed program: agreement.** `NothingStranded` follows from a trace for
each order the order manager has (`TraceInv`). `CancelsAreOfReplaced` counts
cancellations per order in the row. `FlagMeansPosition` needs that the
position of strategy 2 is the sum of its fills, reported or under way, and that
the unreported ones account for the difference to the flag (`MarkInv`, `FlagInv`).

`TradeableIsTracked` and `ReplacedAreCancelled` are about what overtakes what. The
row keeps its order: a step takes the head, adds at the end, or loses an event
(`StepKinds`), so that an event behind another stays behind it (`Precede`, `InTurn`).
`WithdrawInv` adds what the round trips contribute: a quote's request lies before
its cancellation; its ValidatedOrder, sent when the request is handled, lies before
the Cancelled report, sent when the cancellation is handled; no request of an order
lies anywhere while its Cancelled report does; and only replaced quotes have a
cancellation or a Cancelled report. So when the report arrives, the order no longer
travels to the exchange, and `KnownInv` follows: what travels there is active, what
rests there is active or replaced. A cancellation is handled only after its
request, so that it cannot end before the order manager learns of the order;
`GoneInv` says that a replaced quote which is active, or still requested, has its
cancellation or its end under way. With a book nobody feeds no quote is
ever replaced, and every resting order is active (`AsMainIs`).

**The latency instruments.** The sums of `FoldFunction` take the elements in an
unknown order. `IsSum` describes a function from sets of positions to sums that
lets any element come first; `FoldIsSum` shows that the fold agrees with it, by
the least size of a set on which they could differ, and `AppendAdds` and
`SortedSum` follow. A sorted list has every sample at a place of its own
(`OwnPlaces`: places are counted by what comes before, and an injection of a
finite set into itself is onto). `PercentilesAreRanks` is then a count of what comes
before the chosen place. For the tracker, `TrackerInv` says that what a thread
compares with never is above the maximum, and that every span above the maximum
is held by a thread that has not finished; that `count` lacks the threads between
their two additions.

Only model-checked: liveness (`Drains`, `Quiesces`, `Terminates`, `RecordsEnd`), which
is beyond TLAPS because fairness needs ENABLED. The four refuted properties are
runs of TLC alone.

## 6. Where the code departs from its documents

Each is a run that TLC refutes (`PROJECT.json`, "findings").

1. `overwrite`: the ring is called SPSC (`walkthroughquant!!:47`) and used by two
   producing threads; an accepted event is then overwritten.
2. `risk`: accepted orders are not counted until they fill, so the limit of
   `main.cpp:93` is exceeded.
3. `drawdown`: every execution report marks the open positions at its price, also
   a limit price of an order that rests, or the 0 of a cancellation; the maximum
   drawdown keeps the fall (`main.cpp:169`).
4. `tail`: "Backtest complete." is logged, and the program ends, with trades
   still queued; the outcome of a replay depends on timing (`README.md:54`).

## 7. Abstractions, and what is left out

- Prices are whole quarter dollars and quantities whole lots. The code uses
  doubles; rounding errors are not modelled. The market maker's targets are
  computed exactly, floor and ceiling included; its position term is a thousandth
  of a dollar per lot (`alpha_` times 0.1 BTC). With no quantity on top of the book
  the targets are not numbers and compare as unmoved (`TopSize > 0`).
- The momentum strategy's averages are replaced by the relation they are tested
  for. Time (the 50 ms throttle, sleeps) is a choice.
- The live feed's `running` is a plain bool that the main thread clears. The model
  lets the feed see it at once; seeing it later is no other than a later `stop()`,
  as the main thread only waits in the join afterwards.
- A short line leaves what the event's memory held: `ShortPrices`, a price any
  replayed trade may have. Its size and side are choices anyway.
- The volumes, the imbalance and the spread that the book publishes (only the UI
  could read them), time stamps, symbols, trade ids, the win rate and all logging
  are left out. Time stamps appear in `LatencyMonitor` as arguments in order; the
  percentile positions `count * 0.50`, `0.90`, `0.99` are computed exactly.
- `HftMain` keeps the positions only; the money side of profit and loss, which
  nothing in trading reads, is `PnLEngine`'s alone.
- The sweep trades resting orders in order of arrival whatever their price. All
  that are crossed trade in the same sweep at the same price, so only the order
  of their reports differs from price-time priority (`taskQuant:36`).
- `LatencyTracker`'s metrics are used by no thread of `main.cpp`, which takes only the
  clock from the class; the module checks the class for the threads it is written
  for. A relaxed load returns any value up to the latest, and so does a failed exchange
  from the thread's last value on: a superset of what coherence allows. `get_stats` reads three atomics at three moments and promises
  nothing about their fit; it is left out.

Not modelled:

- The Boost build of the WebSocket client: it pushes no event.
- The display: `TerminalUI::update` and the telemetry of the UI loop change no state
  but the quit flag. `size()` of the ring may show a depth the queue never had, and
  the profit figures are read without a lock; both are listed as hazards with the
  reason no property covers them.
- Recorder, parser and execution engine are constructed or compiled but never
  called by `main.cpp`, the memory pool is used by nobody: file output, field
  extraction, a log line, and a counter.
- Scripts, build files, data and logs hold no logic; core pinning has no state.

## 8. Plan

Done: all components the program uses and their composition, modelled and
checked; proofs of every safety property that a passing run checks. What is left:

1. The condition of `FollowsLifecycle` sharpened: which of its steps need unique
   ids, and what still holds for the market maker's orders once the ranges meet.
2. The link from `RingBuffer` to `HftMain` as a theorem about `EventQueue` alone: the
   two use the same `Enqueue` and `Dequeue`.
3. Bounds that hold of a whole session: how many events one trade can cause.
