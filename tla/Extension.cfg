SPECIFICATION Spec
CONSTANTS
  None = None
  Commands = {c1, c2}
  Sessions = {s1}
  MaxLife = 1
  ReplayTTL = 1
  MaxReplay = 1
  Skew = 0
  MaxTime = 1
SYMMETRY MCSymmetry
INVARIANTS
  AtMostOnce
  SequenceBacksCache
CHECK_DEADLOCK FALSE
