\* Fills of two strategies at two prices, and reports without a fill
\* (a resting order reports its limit price, a cancelled one 0).
CONSTANTS
  Prices <- MCPrices
  OtherPrices <- MCOtherPrices
  Quantities <- MCQuantities
  MaxReports = 4
SPECIFICATION Spec
INVARIANTS DrawdownOfTrades
\* No report follows the last.
CHECK_DEADLOCK FALSE
