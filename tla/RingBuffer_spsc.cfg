\* The feed thread pushes, the processor thread pops.
CONSTANTS
  feed = feed
  processor = processor
  tick = tick
  order = order
  Size = 4
  Item = {tick, order}
  Producers = {feed}
  Consumer = processor
  CounterMod = 2
SPECIFICATION FairSpec
INVARIANTS TypeOK NoDataRace
PROPERTIES ImplementsFifo Drains
