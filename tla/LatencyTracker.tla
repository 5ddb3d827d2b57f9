--------------------------- MODULE LatencyTracker ---------------------------
(***************************************************************************)
(* core/latency_tracker.hpp, the Metric inside: threads record spans with   *)
(* three atomics and no lock.  Every step is one access; all are relaxed,   *)
(* so that a load may return an older value; a read-modify-write, which an  *)
(* exchange that fails is not, never does.                                 *)
(***************************************************************************)
EXTENDS Integers, Sequences, Functions

CONSTANTS
  Recorders,   (* the threads that call record                              *)
  Spans,       (* the spans recorded                                        *)
  MaxRecords   (* bound: calls of record                                    *)

VARIABLES
  totalNs, maxNs, count,   (* the atomics                                   *)
  recPc,                   (* per thread: the next step of record           *)
  ns,                      (* per thread: record's argument                 *)
  currentMax,              (* per thread: current_max                       *)
  given                    (* no part of the code: all the arguments        *)

trackerVars == <<totalNs, maxNs, count, recPc, ns, currentMax, given>>

Init ==
  /\ totalNs = 0 /\ maxNs = 0 /\ count = 0
  /\ recPc = [t \in Recorders |-> "idle"]
  /\ ns = [t \in Recorders |-> 0]
  /\ currentMax = [t \in Recorders |-> 0]
  /\ given = <<>>

Goto(t, from, to) == recPc[t] = from /\ recPc' = [recPc EXCEPT ![t] = to]

AddTotal(t, span) ==
  /\ Len(given) < MaxRecords
  /\ Goto(t, "idle", "count")
  /\ given' = Append(given, span)
  /\ ns' = [ns EXCEPT ![t] = span]
  /\ totalNs' = totalNs + span
  /\ UNCHANGED <<maxNs, count, currentMax>>

AddCount(t) ==
  /\ Goto(t, "count", "load")
  /\ count' = count + 1
  /\ UNCHANGED <<totalNs, maxNs, ns, currentMax, given>>

(* A relaxed load: maxNs only grows, and any smaller value may come back. *)
LoadMax(t) ==
  /\ Goto(t, "load", "compare")
  /\ \E old \in {0} \cup Spans :
       old <= maxNs /\ currentMax' = [currentMax EXCEPT ![t] = old]
  /\ UNCHANGED <<totalNs, maxNs, count, ns, given>>

NotLarger(t) ==
  /\ ns[t] <= currentMax[t]
  /\ Goto(t, "compare", "idle")
  /\ UNCHANGED <<totalNs, maxNs, count, ns, currentMax, given>>

(* Mistake: the larger span is stored without comparing again. *)
StoreLarger(t) ==
  /\ ns[t] > currentMax[t]
  /\ Goto(t, "compare", "idle")
  /\ maxNs' = ns[t]
  /\ UNCHANGED <<totalNs, count, ns, currentMax, given>>

(* compare_exchange_weak that succeeds. *)
Exchange(t) ==
  /\ ns[t] > currentMax[t] /\ maxNs = currentMax[t]
  /\ Goto(t, "compare", "idle")
  /\ maxNs' = ns[t]
  /\ UNCHANGED <<totalNs, count, ns, currentMax, given>>

(* Mistake: the failed exchange brings no value. *)
ExchangeFailBlind(t) ==
  /\ recPc[t] = "compare" /\ ns[t] > currentMax[t]
  /\ UNCHANGED trackerVars

(* One that fails, because of another thread or for no reason, is a relaxed *)
(* load: its value may be older than maxNs, but not than the thread's last. *)
ExchangeFail(t) ==
  /\ recPc[t] = "compare" /\ ns[t] > currentMax[t]
  /\ \E old \in {0} \cup Spans :
       /\ currentMax[t] <= old /\ old <= maxNs
       /\ currentMax' = [currentMax EXCEPT ![t] = old]
  /\ UNCHANGED <<totalNs, maxNs, count, recPc, ns, given>>

ExchangeFailLatest(t) == ExchangeFail(t) /\ currentMax'[t] = maxNs

Finish(t) ==
  AddCount(t) \/ LoadMax(t) \/ NotLarger(t) \/ Exchange(t) \/ ExchangeFail(t)

Next == \E t \in Recorders : Finish(t) \/ \E span \in Spans : AddTotal(t, span)

(* Threads run on, no exchange fails for no reason for ever, and a store    *)
(* reaches the loads of other threads in the end.                          *)
Fairness ==
  \A t \in Recorders :
    /\ WF_trackerVars(Finish(t))
    /\ WF_trackerVars(Exchange(t))
    /\ WF_trackerVars(ExchangeFailLatest(t))

Spec == Init /\ [][Next]_trackerVars /\ Fairness

-----------------------------------------------------------------------------

(* Whatever the interleaving, when no call is under way the three figures   *)
(* are those of all spans recorded: no update of another thread is lost.    *)
QuietIsExact ==
  (\A t \in Recorders : recPc[t] = "idle") =>
    /\ count = Len(given)
    /\ totalNs = FoldFunction(+, 0, given)
    /\ \A i \in DOMAIN given : given[i] <= maxNs
    /\ given # <<>> => maxNs \in Range(given)

(* A call of record ends, although its loop waits for no lock.              *)
RecordsEnd ==
  \A t \in Recorders : recPc[t] # "idle" ~> recPc[t] = "idle"
=============================================================================
