------------------------------- MODULE Feeds -------------------------------
(***************************************************************************)
(* The market data feeds: feed/websocket_client.cpp ("live", the simulated  *)
(* feed of a build without Boost), replay/replay_engine.cpp ("replay"), and *)
(* feed/hybrid_feed.hpp, which runs both of them, each on its own thread.   *)
(* The push of a trade is HftMain's; Pushed is the feed's side of it.       *)
(***************************************************************************)
EXTENDS Naturals

CONSTANTS
  Modes,        (* the modes the command line may choose                    *)
  MaxTicks      (* bound: lines of the file, trades sent by the live feed   *)

VARIABLES
  mode,         (* main's mode                                              *)
  feedPc,       (* per feed: where its run() stands                         *)
  feedRunning,  (* per feed: running, running_                              *)
  feedFinished, (* per feed: is_finished()                                  *)
  ticks         (* per feed: lines read or trades made up                   *)

feedVars == <<mode, feedPc, feedRunning, feedFinished, ticks>>

Feed == {"live", "replay"}
Members == [LIVE |-> {"live"}, REPLAY |-> {"replay"}, HYBRID |-> Feed]
Active == Members[mode]

(* connect() has started the live feed before any thread runs. *)
Init ==
  /\ mode \in Modes
  /\ feedPc = [f \in Feed |-> IF f \in Active THEN "start" ELSE "exited"]
  /\ feedRunning = [f \in Feed |-> f = "live"]
  /\ feedFinished = [f \in Feed |-> FALSE]
  /\ ticks = [f \in Feed |-> 0]

Goto(f, from, to) == feedPc[f] = from /\ feedPc' = [feedPc EXCEPT ![f] = to]

(* run() begins: a replay sets running_, whatever stop() did before; the    *)
(* live feed does not.  Without its file a replay is finished, and running. *)
Start(f) ==
  /\ \/ Goto(f, "start", "loop") /\ UNCHANGED feedFinished
     \/ /\ f = "replay"
        /\ Goto(f, "start", "exited")
        /\ feedFinished' = [feedFinished EXCEPT ![f] = TRUE]
  /\ feedRunning' = [feedRunning EXCEPT ![f] = @ \/ f = "replay"]
  /\ UNCHANGED <<mode, ticks>>

(* The loop condition and the next trade; before its push a replay sleeps    *)
(* for up to a second, in which stop() goes unnoticed.                      *)
Read(f) ==
  /\ Goto(f, "loop", "read")
  /\ feedRunning[f] /\ ticks[f] < MaxTicks
  /\ ticks' = [ticks EXCEPT ![f] = @ + 1]
  /\ UNCHANGED <<mode, feedRunning, feedFinished>>

(* A number in the file that std::stod cannot read: the exception leaves    *)
(* the thread, which ends the program.                                     *)
Throw(f) ==
  /\ f = "replay"
  /\ Goto(f, "read", "thrown")
  /\ UNCHANGED <<mode, feedRunning, feedFinished, ticks>>

Aborted == feedPc["replay"] = "thrown"

Pushed(f) ==
  /\ Goto(f, "read", "loop")
  /\ UNCHANGED <<mode, feedRunning, feedFinished, ticks>>

(* The loop ends when it is stopped, a replay also at the end of its file.  *)
End(f) ==
  /\ Goto(f, "loop", "exited")
  /\ ~feedRunning[f] \/ (f = "replay" /\ ticks[f] = MaxTicks)
  /\ feedRunning' = [feedRunning EXCEPT ![f] = FALSE]
  /\ feedFinished' = [feedFinished EXCEPT ![f] = f = "replay"]
  /\ UNCHANGED <<mode, ticks>>

(* stop(), by the main thread; a hybrid feed passes it on to both. *)
Stop ==
  /\ feedRunning' = [f \in Feed |-> IF f \in Active THEN FALSE
                                                    ELSE feedRunning[f]]
  /\ UNCHANGED <<mode, feedPc, feedFinished, ticks>>

(* Mistake: joining does not wait for a replay thread. *)
JoinableFirst == feedPc["live"] = "exited"

(* The feed thread can be joined: run() has returned, a hybrid feed's after *)
(* joining the threads of both.                                            *)
Joinable == \A f \in Active : feedPc[f] = "exited"

(* What the UI loop asks in replay mode. *)
IsFinished == \A f \in Active : feedFinished[f]
=============================================================================
