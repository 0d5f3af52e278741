SPECIFICATION FairSpec
CONSTANTS
  Payable = {p1}
  Receivable = {r1}
  Request = {q1}
  Link = {l1}
  Delivery = {d1}
  Sweeper = {s1}
  Idle = Idle
  Done = Done
INVARIANTS
  NoPaymentWithoutClearance
  BooksAgree
  StatusOnRecord
PROPERTIES
  ImplementsLedger
  PastDueIsSwept
CHECK_DEADLOCK FALSE
