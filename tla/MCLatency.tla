------------------------------ MODULE MCLatency ------------------------------
(* Model-checking instance of the two instruments.  They share nothing, so   *)
(* each behaviour exercises one of them.  A few fills cannot tell the        *)
(* percentiles apart: some behaviours start after a long session.            *)
EXTENDS Latency

CONSTANTS Sessions, one, two

VARIABLE instrument   (* the one that is exercised *)

(* A long session: n orders filled at once, the short spans first or last.   *)
Session(n, short, first) ==
  [i \in 1 .. n |-> IF (i <= short) = first THEN 1 ELSE 2]
LongSession ==
  /\ fills = MaxFills /\ shown = NoStats
  /\ \E n \in Sessions : \E short \in 0 .. n, first \in BOOLEAN :
       total = Session(n, short, first)
  /\ signalToOrder = total /\ orderToFill = <<>>

MCInit ==
  /\ Tracker!Init
  /\ \/ instrument \in {"monitor", "tracker"} /\ Init
     \/ instrument = "monitor" /\ LongSession
MCNext ==
  /\ UNCHANGED instrument
  /\ \/ instrument = "monitor" /\ Next /\ UNCHANGED trackerVars
     \/ instrument = "tracker" /\ Tracker!Next /\ UNCHANGED monitorVars
MCSpec ==
  /\ MCInit
  /\ [][MCNext]_<<monitorVars, trackerVars, instrument>>
  /\ Tracker!Fairness
=============================================================================
