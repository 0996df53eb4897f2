CONSTANTS
  Thread = {t1, t2, t3}
  Slot = {s1, s2}
  NoThread = NoThread
  NoSlot = NoSlot
SPECIFICATION FairSpec
INVARIANTS Exclusion
PROPERTIES ImplementsRWLock WriterServed ReaderServed
