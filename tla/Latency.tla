------------------------------- MODULE Latency -------------------------------
(***************************************************************************)
(* The two latency instruments side by side: the monitor whose percentiles  *)
(* the UI shows, and the tracker's metric.  They share no state.            *)
(***************************************************************************)
EXTENDS LatencyMonitor

CONSTANTS Recorders, Spans, MaxRecords

VARIABLES totalNs, maxNs, count, recPc, ns, currentMax, given

Tracker == INSTANCE LatencyTracker
trackerVars == <<totalNs, maxNs, count, recPc, ns, currentMax, given>>

(* When no call of record is under way the tracker's three figures are      *)
(* those of all spans recorded.                                            *)
QuietIsExact == Tracker!QuietIsExact

(* Every call of the tracker's record ends.                                 *)
RecordsEnd == Tracker!RecordsEnd
=============================================================================
