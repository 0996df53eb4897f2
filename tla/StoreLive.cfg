CONSTANTS
  NoKey = NoKey  NoClient = NoClient
  Key = {k1}
  Shard = {1}
  index <- OneShard
  Client = {c1, c2}
  Waiter = {c1}
  MaxEntries = 1
  Cost = {1}
  TTL = {0, 1}
  Cap = 1
  WriteChanSize = 1
  WriteBufferSize = 1
  MaxTime = 1
  Wrap = 64
  Doorkeeper = FALSE
  WithClose = TRUE
SPECIFICATION FairSpec
CHECK_DEADLOCK FALSE
INVARIANTS WaitDrained ClosedEmpty  
PROPERTY OperationsReturn
