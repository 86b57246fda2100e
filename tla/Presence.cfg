SPECIFICATION MCSpec
CONSTANTS
  m1 = m1
  c1 = c1
  c2 = c2
  h1 = h1
  l1 = l1
  l2 = l2
  n1 = n1
  n2 = n2
  None = None
  Nobody = Nobody
  Mains = {m1, m2}
  Companions = {k1}
  Recs <- MCRecs
  Rank <- MCRank
  TTL = 2
  MaxLag = 1
  MaxOverdue = 0
  Calls = {x1}
  MaxWaiting = 1
  MaxRevision = 2
  Handlers = {h1}
  Loops = {l1, l2}
  Node <- MCNode
  LockTtl = 6
  Deadline = 4
  MaxHold = 1
  MaxRev = 4
  MaxSubs = 1
  MaxCrashes = 1
INVARIANT QuietCompanionsAgree
PROPERTIES LeaseKeepsRevision EmittedInOrder ChangesAreTold
CHECK_DEADLOCK FALSE
