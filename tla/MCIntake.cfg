SPECIFICATION FairSpec
CONSTANTS
  None = None
  MaxPages = 2
  RegexBase = 50
  LlmBase = 97
  ConfOther = 80
  ConfFinancial = 92
  MatchThreshold = 75
  v1 = v1
  v2 = v2
  c1 = c1
  n1 = n1
  Vendor = {v1, v2}
  Customer = {c1}
  Number = {n1}
  Draft = {d1}
  Tab = {t1, t2}
  Batch = {b1}
  Sender = {s1}
  Document <- Documents
  File <- Files
  Bill <- Bills
  State = {"Goa", "Kerala"}
  MaxLines = 2
  ReadLimit = 2
  MaxRows = 2
  MaxBusy = 2
INVARIANTS
  CommittedIsBooked
  RefusalMeansRace
  ValidIsTrustworthy
  PrintedAddsUp
PROPERTIES
  SubmittingEnds
