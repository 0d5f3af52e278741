SPECIFICATION FairSpec
CONSTANTS
  r1 = r1
  r2 = r2
  Invoice = {r1, r2, p1}
  Receivable = {r1, r2}
  Alike <- Twins
  Worker = {w1, w2}
  None = None
  Retries = 1
  MaxEvents = 1
  MaxChanges = 3
  Mishaps = {"timeout", "failure"}
INVARIANTS
  PredictionsAreCurrent
PROPERTIES
  PredictionComesBack
CHECK_DEADLOCK FALSE
