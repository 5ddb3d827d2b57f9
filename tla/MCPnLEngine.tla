---------------------------- MODULE MCPnLEngine ----------------------------
(* Model-checking instance of PnLEngine: fills of one and of three lots, so  *)
(* that a fill can reduce, close and turn a position.                      *)
EXTENDS PnLEngine

MCPrices == {3, 5}
MCOtherPrices == {0, 3, 5}
MCQuantities == {1, 3}
=============================================================================
