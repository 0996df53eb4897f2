CONSTANTS
  Proc = {p1, p2, p3}
  Key = {k1, k2}
  Call = {c1, c2}
  Value = {1, 2, 3, 4, 5}
  None = None
SPECIFICATION Spec
SYMMETRY Symmetry
INVARIANTS OneFlight SameResult PoolClean LeaderOnItsWay
