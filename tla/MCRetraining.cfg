SPECIFICATION FairSpec
CONSTANTS
  c1 = c1
  c2 = c2
  w1 = w1
  w2 = w2
  Company = {c1}
  Worker = {w1, w2}
  None = None
  MaxEvents = 2
  MaxChecks = 1
  MaxFaults = 1
INVARIANTS
  ServedIsOnDisk
  HistoryIsOnDisk
PROPERTIES
  RetrainsAreClosed
CHECK_DEADLOCK FALSE
