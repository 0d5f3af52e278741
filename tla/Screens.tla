------------------------------ MODULE Screens ------------------------------
(***************************************************************************)
(* What the pages of the web application make of the server's answers: the *)
(* dashboard, the cash forecast, the lists of invoices page by page, the   *)
(* vendors' and customers' pages and a vendor's payment history            *)
(* (app/(app), the charts, lib/vendorHistory.ts).  A screen is the record  *)
(* of the numbers and of the rows on it; the pages add up, split and       *)
(* average the rows they are given themselves.                             *)
(***************************************************************************)
EXTENDS Reports
SeqsExt == INSTANCE SequencesExt

CONSTANTS Risk,     \* [Invoice -> 0..2 or None], the band of its predicted delay
          Amount,   \* [Invoice -> Nat], amount, without tax_amount
          PageSize, \* rows of a page of a list
          ListRows,    \* rows the dashboard and the forecast load of a list, 200
          HistoryRows, \* rows a vendor's or customer's page loads, 500
          Quarter   \* days of a quarter

ASSUME Amounted == Amount \in [Invoice -> Nat]
ASSUME Sizes == /\ PageSize \in Nat \ {0} /\ Quarter \in Nat \ {0}
                /\ ListRows \in Nat \ {0} /\ HistoryRows \in Nat \ {0}

-----------------------------------------------------------------------------
(***************************************************************************)
(* Lists                                                                   *)
(***************************************************************************)
\* buildOrderBy: what a list is sorted by; the tax does not count, and more days overdue
\* is an earlier due date.
SortKey(field, i) ==
  CASE field = "amount" -> Amount[i]
    [] field = "invoiceDate" -> Issued[i]
    [] field = "daysOverdue" -> -row[i].due
    [] OTHER -> row[i].due

\* The orders in which the database may answer: rows with equal keys come in any.
Listings(S, field) ==
  {q \in SeqsExt!SetToSeqs(S) :
     \A m, n \in DOMAIN q : m < n => SortKey(field, q[m]) <= SortKey(field, q[n])}

\* limit and offset.
PageOf(q, page) == SubSeq(q, (page - 1) * PageSize + 1, SetsExt!Min({page * PageSize, Len(q)}))

\* The first page of n rows in that order or the reverse, as a set: where rows with
\* equal keys straddle its end, any of them are on it.
Loaded(S, field, dir, n) ==
  {R \in Read(S, n) : \A i \in R, j \in S \ R :
     IF dir = "ASC" THEN SortKey(field, i) <= SortKey(field, j)
                    ELSE SortKey(field, i) >= SortKey(field, j)}

\* Pagination: the pages one can turn to.
PagesFor(total) == 1..(IF total = 0 THEN 1 ELSE (total + PageSize - 1) \div PageSize)

\* A filter that is not set selects everything.
InvoicesPage(payment, vendor) ==
  Scoped(IF payment = None THEN Rows(Payable) ELSE Selected(Payable, payment), vendor)
ReceivablesPage(payment, customer) ==
  Scoped(IF payment = None THEN Rows(Receivable) ELSE Selected(Receivable, payment), customer)

-----------------------------------------------------------------------------
(***************************************************************************)
(* Dashboard                                                               *)
(***************************************************************************)
\* The lists of the page, for the vendor chosen on its chart, if any, and what the page
\* may load of them.
Pending(vendor) == {i \in Scoped(Payable, vendor) : Approval[i] = "pending"}
Overdue(vendor) == Scoped(Selected(Payable, "OVERDUE"), vendor)
PendingList(vendor) == Loaded(Pending(vendor), "amount", "DESC", ListRows)
OverdueList(vendor) == Loaded(Overdue(vendor), "daysOverdue", "DESC", ListRows)

\* The banner, if the forecast has read R, and the two panels but for what was collected:
\* only what is owed to vendors follows the choice.
Banner(vendor, R) == [owed |-> InflowStats(None).outstanding,
                      owe |-> DashboardStats(vendor).exposure, net |-> NetTotal(R)]
Panels(vendor) == [payables |-> DashboardStats(vendor), receivables |-> InflowStats(None)]

\* ExposureBarChart: a bar for each vendor, the longest first.
ExposureBars == [party \in Parties(Payable) |-> Exposure(party)]

\* The lines of "Needs your attention": a vendor with two fifths of the debt, nothing
\* coming in within the first two windows, bills past due.
Attention(vendor, R) ==
  LET top == SetsExt!Max({ExposureBars[p] : p \in Parties(Payable)})
      all == Sum(ExposureBars, Parties(Payable))
  IN  {n \in 1..3 : \/ n = 1 /\ all > 0 /\ Rounded(100 * top, all) >= 40
                    \/ n = 2 /\ \A b \in 1..2 : In(R)[b] = 0
                    \/ n = 3 /\ DashboardStats(vendor).overdueCount > 0}

\* DelayRiskChart counts the scored invoices of a list by band.  The dashboard hands it
\* its two lists one after the other: a bill on both counts twice.
RiskBars(q) == [band \in 0..2 |-> Cardinality({n \in DOMAIN q : Risk[q[n]] = band})]
DashboardRisk(pending, overdue) ==
  RiskBars(SeqsExt!SetToSeq(pending) \o SeqsExt!SetToSeq(overdue))

-----------------------------------------------------------------------------
(***************************************************************************)
(* Cash forecast                                                           *)
(***************************************************************************)
\* The two lists of the page, by the filter, and together.
OpenList(payment) ==
  Loaded(Selected(Receivable, payment), IF payment = "UNPAID" THEN "dueDate" ELSE "daysOverdue",
         IF payment = "UNPAID" THEN "ASC" ELSE "DESC", ListRows)

\* Mutant of OpenInvoices: without a direction the query means payables.
OpenByDefault ==
  {U \cup V : U \in Loaded(Selected(Payable, "UNPAID"), "dueDate", "ASC", ListRows),
              V \in Loaded(Selected(Payable, "OVERDUE"), "daysOverdue", "DESC", ListRows)}

OpenInvoices == {U \cup V : U \in OpenList("UNPAID"), V \in OpenList("OVERDUE")}

\* The tiles over the chart, if the forecast has read R and the page has loaded open,
\* and the table below it.
ForecastTiles(R, open) ==
  [in |-> Sum(In(R), Windows), out |-> Sum(Out(R), Windows),
   atRisk |-> Sum(Gross, {i \in open : Risk[i] = 2}), count |-> Cardinality(open)]
ByWindow(R) == [n \in Windows |-> [in |-> In(R)[n], out |-> Out(R)[n],
                                   net |-> In(R)[n] - Out(R)[n]]]

\* ForecastChart: the running net line.
Cumulative(R) == [n \in Windows |-> Sum([k \in 1..n |-> ByWindow(R)[k].net], 1..n)]

\* CustomerExposureDelayChart: the customers' bars; the page sums them by itself, and
\* colours a bar by the mean risk of what is scored.
CustomerBars(open) ==
  [party \in Parties(open) |->
     LET S == {i \in open : Owner[i] = party}
         scored == {i \in S : Risk[i] # None}
     IN  [outstanding |-> Sum(Gross, S), count |-> Cardinality(scored),
          risk |-> Mean(Risk, scored)]]

-----------------------------------------------------------------------------
(***************************************************************************)
(* Parties                                                                 *)
(***************************************************************************)
Percent(n, all) == IF all = 0 THEN 100 ELSE Rounded(100 * n, all)

\* vendorStats and customerStats, if at are the payments that come first: an early
\* payment is as good as one on the due day.
PartyStats(party, at) ==
  LET late == [i \in Bills(party) |-> IF at[i] > row[i].due THEN at[i] - row[i].due ELSE 0]
  IN  [count |-> Cardinality(Of(party)), exposure |-> TotalExposure(party),
       delay |-> Mean(late, Bills(party)),
       onTime |-> Percent(OnTime(Bills(party), at), Cardinality(Bills(party)))]

\* The pages, if they have loaded the rows H; vendors are asked for payables only.
VendorPage(vendor, at, H) ==
  [tiles |-> DashboardStats(vendor), stats |-> PartyStats(vendor, at), history |-> H]
CustomerPage(customer, at, H) == [stats |-> PartyStats(customer, at), history |-> H]

-----------------------------------------------------------------------------
(***************************************************************************)
(* Payment history of a vendor, of the rows H that its page has loaded     *)
(***************************************************************************)
HistoryList(vendor) == Loaded(Scoped(Payable, vendor), "dueDate", "DESC", HistoryRows)

\* signedLateness of its bills: a payment before the due date counts against a late one.
Lateness(H) == [i \in Settled(H) |-> Earliest(Settled(H))[i] - row[i].due]
Magnitude(n) == IF n < 0 THEN -n ELSE n

\* vendorHistoryStats.
OpenAmount(H) == Sum(Gross, {i \in H : EffectivePayment(i) # "PAID"})
HistoryStats(H) ==
  LET late == Lateness(H)
  IN  [average |-> Mean(late, Settled(H)),
       onTime |-> Percent(Cardinality({i \in Settled(H) : late[i] <= 0}),
                          Cardinality(Settled(H))),
       longest |-> SetsExt!Max({0} \cup {late[i] : i \in Settled(H)}),
       open |-> OpenAmount(H)]

\* quarterlyTrend, by the quarter of the due date.
Trend(H) ==
  LET quarter(i) == row[i].due \div Quarter
  IN  [q \in {quarter(i) : i \in Settled(H)} |->
         LET S == {i \in Settled(H) : quarter(i) = q}
         IN  [average |-> Mean(Lateness(H), S), count |-> Cardinality(S)]]

\* The bars of VendorPaymentTimelineChart: the colour bands of days late.
Timeline(H) ==
  [i \in Settled(H) |-> IF Lateness(H)[i] <= 0 THEN "ok"
                        ELSE IF Lateness(H)[i] <= 7 THEN "warn" ELSE "bad"]

\* The recent payments: eight at most, the latest first.
RecentPayments(H) ==
  {SubSeq(q, 1, SetsExt!Min({8, Len(q)})) : q \in
     {r \in SeqsExt!SetToSeqs(Settled(H)) :
        \A m, n \in DOMAIN r : m < n => FirstPaid(r[m]) >= FirstPaid(r[n])}}

\* Mutant of Estimate: only the start of the window is kept from lying in the past.
EstimateFromNow(H) ==
  LET late == Lateness(H)
      n == Cardinality(Settled(H))
      total == Sum(late, Settled(H))
      spread == Sum([i \in Settled(H) |-> Magnitude(n * late[i] - total)], Settled(H))
  IN  [from |-> SetsExt!Max({0, Rounded(n * total - spread, n * n)}),
       to |-> Rounded(n * total + spread, n * n),
       likely |-> Rounded(total, n),
       lateChance |-> Percent(Cardinality({i \in Settled(H) : late[i] > 0}), n)]

\* nextBillEstimate, from two bills on: the mean and the mean deviation from it, over
\* the common denominator n * n.
Estimate(H) ==
  LET late == Lateness(H)
      n == Cardinality(Settled(H))
      total == Sum(late, Settled(H))
      spread == Sum([i \in Settled(H) |-> Magnitude(n * late[i] - total)], Settled(H))
  IN  [from |-> SetsExt!Max({0, Rounded(n * total - spread, n * n)}),
       to |-> SetsExt!Max({0, Rounded(n * total + spread, n * n)}),
       likely |-> Rounded(total, n),
       lateChance |-> Percent(Cardinality({i \in Settled(H) : late[i] > 0}), n)]

\* What the page shows of the vendor chosen.
HistoryPage(H) ==
  [paid |-> Cardinality(Settled(H)), stats |-> HistoryStats(H), trend |-> Trend(H),
   bars |-> Timeline(H),
   estimate |-> IF Cardinality(Settled(H)) < 2 THEN None ELSE Estimate(H)]

-----------------------------------------------------------------------------
\* What the pages work out of the rows they load is what the server says of them
\* (NumbersAgree says that it says one thing), as far as they load them: the
\* dashboard's lists are as long as its tiles count, up to a page; the forecast's
\* tiles and bars are the receivables outstanding and the customers' exposure when its
\* two lists are complete and never more, what is to come in is what is owed when the
\* forecast reads all, and the net line ends at the net position; a vendor's history
\* has its open amount, or less; and a list whose rows sort apart is on its pages once,
\* in whatever order the database answers each.
PagesAgree ==
  /\ \A R \in Forecast : LET banner == Banner(None, R)
                         whole == Cardinality(Unpaid(Invoice)) <= ForecastLimit
                     IN  /\ whole => banner.owed - banner.owe = banner.net
                         /\ Cumulative(R)[Len(Edges) + 1] = banner.net
  /\ \A vendor \in Parties(Payable) \cup {None} :
       LET tiles == Panels(vendor).payables
       IN  /\ \A L \in PendingList(vendor) :
                /\ Cardinality(L) = SetsExt!Min({tiles.pendingCount, ListRows})
                /\ Sum(Gross, L) <= tiles.pendingAmount
                /\ tiles.pendingCount <= ListRows => Sum(Gross, L) = tiles.pendingAmount
           /\ \A L \in OverdueList(vendor) :
                /\ Cardinality(L) = SetsExt!Min({tiles.overdueCount, ListRows})
                /\ Sum(Gross, L) <= tiles.overdueAmount
                /\ \A R \in Forecast : 3 \in Attention(vendor, R) <=> L # {}
  /\ \A R \in Forecast : \A open \in OpenInvoices :
       LET tiles == ForecastTiles(R, open)
           owed == InflowStats(None)
           listed == \A payment \in {"UNPAID", "OVERDUE"} :
                       Cardinality(Selected(Receivable, payment)) <= ListRows
       IN  /\ tiles.count <= owed.outstandingCount /\ tiles.in <= owed.outstanding
           /\ tiles.out <= DashboardStats(None).exposure
           /\ tiles.atRisk <= owed.outstanding
           /\ listed => tiles.count = owed.outstandingCount
           /\ Cardinality(Unpaid(Invoice)) <= ForecastLimit =>
                /\ tiles.in = owed.outstanding /\ tiles.out = DashboardStats(None).exposure
                /\ tiles.atRisk <= tiles.in
           /\ \A party \in Parties(Receivable) :
                LET bar == IF party \in DOMAIN CustomerBars(open)
                             THEN CustomerBars(open)[party].outstanding ELSE 0
                IN  bar <= Exposure(party) /\ (listed => bar = Exposure(party))
  /\ \A party \in Parties(Payable) : \A H \in HistoryList(party) :
       LET open == HistoryPage(H).stats.open
       IN  /\ open <= ExposureBars[party]
           /\ Cardinality(Of(party)) <= HistoryRows => open = ExposureBars[party]
  /\ \A party \in Parties(Payable) : \A at \in PaymentsRead(party) :
       \A H \in Loaded(Scoped(Payable, party), "invoiceDate", "DESC", HistoryRows) :
         LET page == VendorPage(party, at, H)
         IN  /\ page.tiles.exposure = page.stats.exposure
             /\ Cardinality(page.history) = SetsExt!Min({page.stats.count, HistoryRows})
  /\ \A party \in Parties(Receivable) : \A at \in PaymentsRead(party) :
       \A H \in Loaded(Scoped(Receivable, party), "invoiceDate", "DESC", HistoryRows) :
         LET page == CustomerPage(party, at, H)
         IN  Cardinality(page.history) = SetsExt!Min({page.stats.count, HistoryRows})
  /\ \A payment \in {None, "PAID", "UNPAID", "OVERDUE"} :
       LET S == InvoicesPage(payment, None)
           answers == Listings(S, "dueDate")
       IN  (\A i, j \in S : i # j => row[i].due # row[j].due) =>
             \A a \in [PagesFor(Cardinality(S)) -> answers] : \A i \in S :
               Cardinality({p \in DOMAIN a : i \in SeqsExt!ToSet(PageOf(a[p], p))}) = 1

\* A vendor's history adds up, whichever rows its page has loaded: every bill is in one
\* quarter, the average lies between the quarters', the longest delay is no shorter,
\* and the estimate's window is one and holds what is most likely, if that is not past.
\* When it has all rows, the list of vendors, which counts early payments as nothing,
\* never shows a shorter delay nor a better share of bills paid in time, and the same
\* share unless a bill was paid twice.
HistoryAddsUp ==
  \A vendor \in Parties(Payable) : \A H \in HistoryList(vendor) :
    LET stats == HistoryStats(H)
        trend == Trend(H)
        estimate == HistoryPage(H).estimate
    IN  /\ Cardinality(Settled(H)) = Sum([q \in DOMAIN trend |-> trend[q].count], DOMAIN trend)
        /\ DOMAIN trend # {} => \E q, r \in DOMAIN trend :
             trend[q].average <= stats.average /\ stats.average <= trend[r].average
        /\ stats.average <= 10 * stats.longest
        /\ stats.longest > 0 <=> \E i \in Settled(H) : Timeline(H)[i] # "ok"
        /\ H = Of(vendor) => \A at \in PaymentsRead(vendor) :
             /\ PartyStats(vendor, at).delay >= stats.average
             /\ PartyStats(vendor, at).onTime <= stats.onTime
             /\ (\A i \in Bills(vendor) : Cardinality(row[i].paid) = 1) =>
                  PartyStats(vendor, at).onTime = stats.onTime
        /\ estimate # None =>
             /\ estimate.from <= estimate.to
             /\ estimate.from <= SetsExt!Max({0, estimate.likely})
             /\ SetsExt!Max({0, estimate.likely}) <= estimate.to
             /\ estimate.lateChance + stats.onTime \in {100, 101}
=============================================================================
