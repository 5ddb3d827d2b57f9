----------------------------- MODULE Positions -----------------------------
(***************************************************************************)
(* What the rest of the program takes from pnl/pnl_engine.cpp: the         *)
(* position of each strategy.  PnLEngine.tla is the whole of it.           *)
(***************************************************************************)
EXTENDS Events

CONSTANT Quantities   (* the quantities orders have *)

(* The strategy ids the strategies put on their orders. *)
StrategyId == {1, 2}

VARIABLE position     (* strategy_stats_[id].position, 0 for a missing entry *)

Init == position = [s \in StrategyId |-> 0]

(* on_fill *)
OnFill(s, side, quantity) ==
  position' = [position EXCEPT ![s] = @ + quantity * Sign(side)]

(* get_total_position *)
TotalPosition == position[1] + position[2]

Next ==
  \E s \in StrategyId, side \in OrderSide, quantity \in Quantities :
    OnFill(s, side, quantity)

Spec == Init /\ [][Next]_position
=============================================================================
