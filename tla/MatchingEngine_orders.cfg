\* Limit orders on both sides and market orders, with trades below, between and
\* above the limits.
CONSTANTS
  Orders <- MCOrders
  Prices <- MCPrices
  HalfSpread = 1
SPECIFICATION Spec
INVARIANTS TypeOK NoCrossedResting
PROPERTIES LeavesByFill FillsWithinLimit TimePriority
