------------------------------ MODULE MCHftMain ------------------------------
(* Model-checking instances of HftMain.  Ten and twelve dollars, in quarters: *)
(* a step of the price is wider than the distance of one dollar at which     *)
(* the momentum strategy sends its orders, so that they trade at once, rest  *)
(* and trade later, or keep resting.                                        *)
EXTENDS HftMain

MCPrices == {40, 48}
MCPricesOfBook == {40, 44, 48}
MCIdsOfMomentum == 50 .. 53
MCIdsOfMarketMaker == 10 .. 15
=============================================================================
