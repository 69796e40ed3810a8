CONSTANTS
  p1 = p1
  p2 = p2
  o1 = o1
  o2 = o2
  r1 = r1
  r2 = r2
  r3 = r3
  w1 = w1
  w2 = w2
  Products = {p1}
  Orders = {o1, o2}
  Lines <- MCLines
  Gets = {r1}
  Target <- MCTarget
  Workers = {w1, w2}
  None = None
  Sweep = Sweep
  LockTtl = 1
  Attempts = 2
  MaxStalls = 1
  MaxSweeps = 1
  MaxFaults = 2
SPECIFICATION FairSpec
INVARIANTS
  SettledCardIsCurrent
PROPERTIES CardsSettle
