--------------------------- MODULE OrderLifecycle ---------------------------
(***************************************************************************)
(* What the round trips through the queue amount to, for each order: it is  *)
(* requested, validated, matched at once or after resting, and then over,   *)
(* one stage after the other, and each of them at most once.  README.md     *)
(* draws it (strategy, OMS, matching engine, execution report); an order     *)
(* may be over early, refused or lost, but nothing brings it back.          *)
(***************************************************************************)
CONSTANT Ids        (* the order ids that are watched *)

VARIABLE stage      (* where each order stands        *)

After(s) ==
  CASE s = "unsent"    -> {"requested"}
    [] s = "requested" -> {"validated", "over"}
    [] s = "validated" -> {"resting", "filled", "over"}
    [] s = "resting"   -> {"filled"}
    [] s = "filled"    -> {"over"}
    [] OTHER           -> {}

Init == stage = [i \in Ids |-> "unsent"]

Move(i) == stage'[i] = stage[i] \/ stage'[i] \in After(stage[i])

Spec == Init /\ [][\A i \in Ids : Move(i)]_stage
=============================================================================
