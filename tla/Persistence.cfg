CONSTANTS
  None = None
  Key = {1, 2, 3}
  Power = {1, 2, 4, 8}
  Wanted = {0, 1, 2, 3, 4}
  Wrap = 64
  Rows = 1
  Nibbles = 1
  MaxCount = 3
  Factor = 2
  MinSize = 2
  InitSize = 2
  blockHash <- MCBlock
  wordHash <- MCWord
  nibbleHash <- MCNibble
  BitsPer = 1
  Hashes = 1
  PerEntry = 1
  InitCapacity = 1
  h1 <- MCH1
  h2 <- MCH2
  MaxEntries = 3
  MaxSets = 5
  MaxDeletes = 1
  MaxAccesses = 1
  MaxLive = 1
  MaxTime = 3
  Cost <- MCCost
  Call <- MCCall
  MaxInt = 9
  Grace = 2
  BlockEntries = 2
  Sizes <- MCSizes
SPECIFICATION Spec
CHECK_DEADLOCK FALSE
INVARIANTS RoundTrip Consistent ReadsFresh EstimateCovers SampleBounded 
 
