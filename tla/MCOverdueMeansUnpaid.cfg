SPECIFICATION Spec
CONSTANTS
  Payable = {p1}
  Receivable = {r1}
  Request = {q1}
  Link = {l1}
  Delivery = {d1, d2}
  Sweeper = {s1}
  Idle = Idle
  Done = Done
INVARIANTS
  OverdueMeansUnpaid
CHECK_DEADLOCK FALSE
