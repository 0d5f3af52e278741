SPECIFICATION Spec
CONSTANTS
  p1 = p1
  p2 = p2
  p3 = p3
  r1 = r1
  r2 = r2
  Payable = {p1, p2, p3}
  Receivable = {r1, r2}
  None = None
  Owner <- Owners
  Gross <- Amounts
  Amount <- Bases
  Issued <- Days
  Approval <- Approvals
  Delay <- Delays
  Recent = 0
  Edges <- FirstWindows
  ForecastLimit = 3
  PaidLimit = 1
  Risk <- Bands
  PageSize = 1
  ListRows = 1
  HistoryRows = 2
  Quarter = 1
  MaxDay = 1
  Due <- Dues
  MaxPaid <- Payments
INVARIANTS
  NumbersAgree
  PagesAgree
  OverdueIsRight
  HistoryAddsUp
