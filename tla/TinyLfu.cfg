CONSTANTS
  Entry = {e1, e2, e3}
  Cost = {0, 1, 2, 4}
  Cap = 3
  Amount <- Amounts
  Wrap = 64
  Nil = Nil
SPECIFICATION FairSpec
INVARIANTS ListsInSync WalkOnLists SegmentsPositive
PROPERTIES ImplementsPolicy OperationEnds
