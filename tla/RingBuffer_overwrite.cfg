\* main.cpp: the feed and the processor thread push, the processor pops.
CONSTANTS
  feed = feed
  processor = processor
  tick = tick
  order = order
  Size = 4
  Item = {tick, order}
  Producers = {feed, processor}
  Consumer = processor
  CounterMod = 2
SPECIFICATION Spec
INVARIANTS NoOverwrite
