CONSTANTS
  None = None
  Key = {k1}
  Client = {c1, c2}
  Worker = {w1, w2}
  Flavour = {"hybrid"}
  TTL = {0, 1}
  BufSize = 1
  MaxEntries = 2
  MaxValues = 2
  MaxTime = 1
SPECIFICATION Spec
SYMMETRY Symmetry
CHECK_DEADLOCK FALSE
INVARIANT DeletedForGood
