SPECIFICATION FairSpec
CONSTANTS
  Job = {j1, j2}
  Prefetch = 2
  MaxFaults = 1
INVARIANTS
  PendingIsHeld
PROPERTIES
  JobsAreCleared
  PollEnds
CHECK_DEADLOCK FALSE
