SPECIFICATION FairSpec
CONSTANTS
  Msg = {m1, m2}
  Prefetch = 1
  MaxFaults = 2
  None = None
INVARIANTS
  QueuedIsKept
  MailsAreBounded
  CacheRecovers
PROPERTIES
  QueuedIsAttempted
  PublishReturns
CHECK_DEADLOCK FALSE
