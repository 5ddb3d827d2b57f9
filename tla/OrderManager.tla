---------------------------- MODULE OrderManager ----------------------------
(***************************************************************************)
(* oms/order_manager.cpp: the orders accepted and not known to be over.    *)
(***************************************************************************)
EXTENDS Events, Sequences

CONSTANT MaxPosition

VARIABLES
  activeOrders,   (* active_orders_: the map's values; their ids are its keys *)
  riskPosition,   (* the risk engine's state, read only here                  *)
  outbox          (* events emitted by the running handler                    *)

Risk == INSTANCE RiskEngine

Init == activeOrders = {}

(* validate_order *)
ValidateOrder(o) ==
  /\ o.quantity > 0
  /\ o.type = "Limit" => o.price > 0
  /\ Risk!CheckOrder(o)

(* Mistake: the accepted order is not sent on. *)
HandleOrderRequestKept(o) ==
  /\ activeOrders' = IF ValidateOrder(o) THEN activeOrders \cup {o}
                                         ELSE activeOrders
  /\ UNCHANGED outbox

(* handle_order_request: an accepted order is stored under its id and sent  *)
(* on to the exchange; a refused one is only logged.                       *)
HandleOrderRequest(o) ==
  \/ /\ ValidateOrder(o)
     /\ activeOrders' = {a \in activeOrders : a.id # o.id} \cup {o}
     /\ outbox' = Append(outbox, ValidatedEvent(o))
  \/ /\ ~ValidateOrder(o)
     /\ UNCHANGED <<activeOrders, outbox>>

(* Mistakes: a fill does not end an order, or resting does. *)
FinalNotFilled(status) == status \in {"Cancelled", "Rejected"}
FinalNew(status) == status \in {"New", "Filled", "Cancelled", "Rejected"}

Final(status) == status \in {"Filled", "Cancelled", "Rejected"}

(* handle_execution_report *)
HandleExecutionReport(r) ==
  activeOrders' = {a \in activeOrders : a.id = r.id => ~Final(r.status)}
=============================================================================
