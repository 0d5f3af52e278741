SPECIFICATION FairSpec
CONSTANTS
  Invoice = {i1}
  Run = {a1, a2}
  Every = 2
  Retries = 2
  MaxCount = 3
  Nobody = Nobody
INVARIANTS
  OneMailPerAttempt
  CountIsHonest
PROPERTIES
  DueIsReminded
