CONSTANTS
  Proc = {p1, p2, p3}
  Capacity = 2
  MaxTail = 6
SPECIFICATION Spec
SYMMETRY Symmetry
INVARIANTS OneOwner RangeStable AtMostOnce
