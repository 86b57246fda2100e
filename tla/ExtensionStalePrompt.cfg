SPECIFICATION Spec
CONSTANTS
  None = None
  Commands = {c1}
  Sessions = {s1, s2}
  MaxLife = 1
  ReplayTTL = 1
  MaxReplay = 2
  Skew = 0
  MaxTime = 0
SYMMETRY MCSymmetry
INVARIANTS
  RunsInItsSession
CHECK_DEADLOCK FALSE
