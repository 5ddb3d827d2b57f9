\* main.cpp with the live feed and a queue that overflows on some paths.
CONSTANTS
  Modes = {"LIVE"}
  BookIsFed = FALSE
  Prices <- MCPrices
  ShortPrices = {}
  Sizes = {1}
  Makers = {TRUE}
  Trends = {"bullish", "bearish"}
  QuitKey = TRUE
  MaxTicks = 4
  WatchedIds <- MCIdsOfMomentum
  Capacity = 3
  BatchSize = 2
  HistoryCap = 2
  MaxPosition = 1
  MaxLevels = 2
  HalfSpread = 1
  MMFirstId = 10
  MMQuantity = 1
  MMMaxPosition = 2
  MoFirstId = 50
  MoQuantity = 1
  Warmup = 1
SPECIFICATION FairSpec
INVARIANTS TypeOK NothingStranded FlagMeansPosition
PROPERTIES FollowsLifecycle Quiesces
\* The program stops after its summary.
CHECK_DEADLOCK FALSE
