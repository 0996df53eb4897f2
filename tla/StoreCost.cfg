CONSTANTS
  NoKey = NoKey  NoClient = NoClient
  Key = {k1, k2}
  Shard = {1}
  index <- OneShard
  Client = {c1, c2}
  Waiter = {}
  MaxEntries = 2
  Cost = {1, 2}
  TTL = {0}
  Cap = 2
  WriteChanSize = 1
  WriteBufferSize = 2
  MaxTime = 0
  Wrap = 64
  Doorkeeper = TRUE
  WithClose = FALSE
SPECIFICATION Spec
SYMMETRY Symmetry
INVARIANTS TypeOK WeightInSync SizeBounded CostConserved NoOrphan NoZombie ListenerAtMostOnce
