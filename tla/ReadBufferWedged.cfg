CONSTANTS
  Proc = {p1, p2}
  Capacity = 2
  MaxTail = 6
SPECIFICATION FairSpec
PROPERTY FullDrained
