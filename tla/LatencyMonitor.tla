--------------------------- MODULE LatencyMonitor ---------------------------
(***************************************************************************)
(* analytics/latency_monitor.hpp: the processor thread records three spans *)
(* of time per filled order, the UI thread sorts a list of them in place    *)
(* and reads percentiles off it.  A mutex makes each call one step.        *)
(***************************************************************************)
EXTENDS Integers, Sequences, Functions, FiniteSets

CONSTANTS
  MaxTime,         (* bound: the clock                                      *)
  MaxFills         (* bound: filled orders                                  *)

ASSUME TimeAssumption == MaxTime \in Nat

VARIABLES
  fills,           (* the bounded number of calls so far                    *)
  signalToOrder,   (* signal_to_order_samples_                              *)
  orderToFill,     (* order_to_fill_samples_                                *)
  total,           (* total_samples_                                        *)
  shown            (* the statistics the UI got last                        *)

monitorVars == <<fills, signalToOrder, orderToFill, total, shown>>

NoStats == [p50 |-> 0, p90 |-> 0, p99 |-> 0, avg |-> 0, count |-> 0]

Init ==
  /\ fills = 0
  /\ signalToOrder = <<>> /\ orderToFill = <<>> /\ total = <<>>
  /\ shown = NoStats

(* The three record functions: spans of no length are not recorded. *)
Record(samples, from, to) ==
  IF from > 0 /\ to > from THEN Append(samples, to - from) ELSE samples

(* Mistake: the whole is measured from the order, not from the signal. *)
HandleFillLate(signal, order, fill, end) ==
  /\ signalToOrder' = Record(signalToOrder, signal, order)
  /\ orderToFill' = Record(orderToFill, order, fill)
  /\ total' = Record(total, order, end)
  /\ fills' = fills + 1
  /\ UNCHANGED shown

(* main.cpp reads the clock once for each span that ends with the fill. *)
HandleFill(signal, order, fill, end) ==
  /\ signalToOrder' = Record(signalToOrder, signal, order)
  /\ orderToFill' = Record(orderToFill, order, fill)
  /\ total' = Record(total, signal, end)
  /\ fills' = fills + 1
  /\ UNCHANGED shown

SumOf(samples) == FoldFunction(+, 0, samples)

(* Mistake: the position counts from one. *)
PercentileBelow(sorted, percent) ==
  sorted[IF Len(sorted) * percent < 100 THEN 1
         ELSE (Len(sorted) * percent) \div 100]

(* samples[count * percent / 100], from zero *)
Percentile(sorted, percent) ==
  sorted[(Len(sorted) * percent) \div 100 + 1]

(* std::sort: each sample goes behind those that are smaller, or equal and  *)
(* nearer to the front.                                                    *)
Before(samples, i) ==
  {j \in DOMAIN samples :
     samples[j] < samples[i] \/ (samples[j] = samples[i] /\ j < i)}
Sorted(samples) ==
  LET placed == {[place |-> Cardinality(Before(samples, i)) + 1,
                  sample |-> samples[i]] : i \in DOMAIN samples}
  IN [k \in DOMAIN samples |-> (CHOOSE p \in placed : p.place = k).sample]

(* compute_stats *)
Stats(sorted) ==
  IF sorted = <<>> THEN NoStats
  ELSE [p50 |-> Percentile(sorted, 50), p90 |-> Percentile(sorted, 90),
        p99 |-> Percentile(sorted, 99),
        avg |-> SumOf(sorted) \div Len(sorted), count |-> Len(sorted)]

GetTotalLatencyStats ==
  /\ total' = Sorted(total)
  /\ shown' = Stats(total')
  /\ UNCHANGED <<fills, signalToOrder, orderToFill>>

Next ==
  \/ /\ fills < MaxFills
     /\ \E signal, order, fill, end \in 1 .. MaxTime :
          /\ signal <= order /\ order <= fill /\ fill <= end
          /\ HandleFill(signal, order, fill, end)
  \/ GetTotalLatencyStats

Spec == Init /\ [][Next]_monitorVars

-----------------------------------------------------------------------------

(* At most percent of the samples lie below p, and more than that at or     *)
(* below it.                                                               *)
IsPercentile(p, samples, percent) ==
  /\ 100 * Cardinality({i \in DOMAIN samples : samples[i] < p})
       <= percent * Len(samples)
  /\ 100 * Cardinality({i \in DOMAIN samples : samples[i] <= p})
       > percent * Len(samples)

(* What the UI shows are percentiles of the samples recorded so far, in     *)
(* whatever order they came and were left by the sorts before.             *)
PercentilesAreRanks ==
  [][shown' # shown =>
       /\ IsPercentile(shown'.p50, total, 50)
       /\ IsPercentile(shown'.p90, total, 90)
       /\ IsPercentile(shown'.p99, total, 99)]_monitorVars

(* The three lists fit together although each drops the spans it takes for  *)
(* empty: the time recorded as a whole covers the time of its two parts.    *)
WholeCoversParts ==
  SumOf(total) >= SumOf(signalToOrder) + SumOf(orderToFill)
=============================================================================
