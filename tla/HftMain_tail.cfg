\* main.cpp --replay: is the backtest complete when it says so?
CONSTANTS
  Modes = {"REPLAY"}
  BookIsFed = FALSE
  Prices <- MCPrices
  ShortPrices = {}
  Sizes = {1}
  Makers = {TRUE}
  Trends = {"bullish", "bearish"}
  QuitKey = TRUE
  MaxTicks = 2
  WatchedIds = {}
  Capacity = 8
  BatchSize = 2
  HistoryCap = 2
  MaxPosition = 1
  MaxLevels = 2
  HalfSpread = 1
  MMFirstId = 10
  MMQuantity = 1
  MMMaxPosition = 2
  MoFirstId = 50
  MoQuantity = 1
  Warmup = 1
SPECIFICATION Spec
INVARIANTS ReplayComplete
\* The program stops after its summary.
CHECK_DEADLOCK FALSE
