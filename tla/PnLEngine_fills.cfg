\* Fills of two strategies at two prices, and reports without a fill
\* at these prices or at 0.
CONSTANTS
  Prices <- MCPrices
  OtherPrices <- MCOtherPrices
  Quantities <- MCQuantities
  MaxReports = 4
SPECIFICATION Spec
INVARIANTS LedgerAgrees DrawdownIsWorstFall
PROPERTIES KeepsPositions
\* No report follows the last.
CHECK_DEADLOCK FALSE
