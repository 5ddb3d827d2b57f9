\* Every mode of main.cpp, with a user who may quit at any moment.
CONSTANTS
  Modes = {"LIVE", "REPLAY", "HYBRID"}
  BookIsFed = FALSE
  Prices = {40}
  ShortPrices = {0}
  Sizes = {1}
  Makers = {TRUE}
  Trends = {"bullish", "bearish"}
  QuitKey = TRUE
  MaxTicks = 2
  WatchedIds = {}
  Capacity = 3
  BatchSize = 2
  HistoryCap = 2
  MaxPosition = 1
  MaxLevels = 2
  HalfSpread = 1
  MMFirstId = 10
  MMQuantity = 1
  MMMaxPosition = 2
  MoFirstId = 50
  MoQuantity = 1
  Warmup = 1
SPECIFICATION FairSpec
INVARIANTS ShutdownIsClean
PROPERTIES Terminates
\* The program stops after its summary.
CHECK_DEADLOCK FALSE
