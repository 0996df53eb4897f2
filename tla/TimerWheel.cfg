CONSTANTS
  Entry = {e1, e2}
  Buckets <- ThreeBuckets
  Spans <- ThreeSpans
  MaxTime = 10
  None = None
SPECIFICATION Spec
SYMMETRY Symmetry
INVARIANTS OnTime
