SPECIFICATION Spec
CONSTANTS
  i1 = i1
  i2 = i2
  i3 = i3
  t1 = t1
  t2 = t2
  t3 = t3
  Text = {t1, t2, t3}
  Windows <- Documents
  Invoice = {i1, i2, i3}
  None = None
  Worker = {w1, w2}
  Question <- Questions
  TopK = 2
  OverFetch = 2
  MinSimilarity = 45
  Retries = 1
  MaxEvents = 1
  MaxChanges = 3
  MaxFaults = 1
INVARIANTS
  SearchIsRight
  IndexIsComplete
  NoDeadEnd
SYMMETRY Workers
CHECK_DEADLOCK FALSE
