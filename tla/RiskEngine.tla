----------------------------- MODULE RiskEngine -----------------------------
(* risk/risk_engine.cpp: the filled position and the limit an order is      *)
(* checked against.  Orders still on their way or resting are not counted.  *)
EXTENDS Events

CONSTANT MaxPosition   (* max_position_, in lots *)

VARIABLE riskPosition  (* current_position_ *)

Abs(n) == IF n < 0 THEN -n ELSE n

Init == riskPosition = 0

CheckOrder(o) == Abs(riskPosition + o.quantity * Sign(o.side)) <= MaxPosition

UpdatePosition(quantity) == riskPosition' = riskPosition + quantity
=============================================================================
