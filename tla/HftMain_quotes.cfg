\* README.md's architecture: trades reach the order book, the market maker quotes.
CONSTANTS
  Modes = {"LIVE"}
  BookIsFed = TRUE
  Prices <- MCPricesOfBook
  ShortPrices = {}
  Sizes = {1, 3}
  Makers = {TRUE, FALSE}
  Trends = {"flat"}
  QuitKey = FALSE
  MaxTicks = 3
  WatchedIds <- MCIdsOfMarketMaker
  Capacity = 12
  BatchSize = 2
  HistoryCap = 2
  MaxPosition = 4
  MaxLevels = 2
  HalfSpread = 1
  MMFirstId = 10
  MMQuantity = 1
  MMMaxPosition = 2
  MoFirstId = 50
  MoQuantity = 1
  Warmup = 1
SPECIFICATION FairSpec
INVARIANTS BookInOrder CancelsAreOfReplaced NothingStranded TradeableIsTracked ReplacedAreCancelled
PROPERTIES FollowsLifecycle Quiesces
\* The program stops after its summary.
CHECK_DEADLOCK FALSE
