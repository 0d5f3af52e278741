------------------------------ MODULE Reports ------------------------------
(***************************************************************************)
(* What the web BFF says about the invoices: the dashboard's tiles, the    *)
(* filters of the invoice lists, the vendors' and customers' pages, the    *)
(* cash forecast and a vendor's payment history (Query in resolvers.ts,    *)
(* mappers.ts, queryBuilders.ts, lib/vendorHistory.ts).  Each is computed  *)
(* by a query and a loop of its own from the rows that are changing; days  *)
(* are compared with TODAY, which the server takes once, when it starts;   *)
(* and some queries read no more than so many rows, in no order.           *)
(***************************************************************************)
EXTENDS Sums, Sequences

CONSTANTS Payable, Receivable, None,
          Owner,    \* [Invoice -> Party], its vendor or customer
          Gross,    \* [Invoice -> Nat], amount + tax_amount
          Issued,   \* [Invoice -> Nat], invoice_date
          Approval, \* [Invoice -> {"pending", "approved", "rejected"}], approval_status
          Delay,    \* [Invoice -> Nat], predicted_delay_days, 0 without a prediction
          Recent,   \* the days that count as recent, 30
          Edges,    \* the last days of the forecast's buckets but the open one
          ForecastLimit, \* the rows that cashForecast reads, 2000
          PaidLimit,     \* the paid invoices that a tile's averages read, 500
          MaxDay,   \* bound: days
          Due,      \* bound: [Invoice -> SUBSET Day], due dates an invoice is entered with
          MaxPaid   \* bound: [Invoice -> Nat], payments of one invoice

Invoice == Payable \cup Receivable
Day == 0..MaxDay

ASSUME Data == /\ Payable \cap Receivable = {} /\ IsFiniteSet(Invoice)
               /\ Gross \in [Invoice -> Nat] /\ Delay \in [Invoice -> Nat]
               /\ DOMAIN Owner = Invoice /\ MaxDay \in Nat
ASSUME Bounds == Due \in [Invoice -> SUBSET Day] /\ MaxPaid \in [Invoice -> Nat]
ASSUME Limits == ForecastLimit \in Nat /\ PaidLimit \in Nat
\* Vendors and customers are two tables.
ASSUME Somebodys == /\ \A i \in Invoice : Owner[i] # None
                    /\ \A i \in Payable, j \in Receivable : Owner[i] # Owner[j]
ASSUME Buckets == Edges \in Seq(Int)
ASSUME Attributes == /\ Issued \in [Invoice -> Nat] /\ Recent \in Nat
                     /\ Approval \in [Invoice -> {"pending", "approved", "rejected"}]

VARIABLES
  row,    \* [Invoice -> Row or None], the invoices table with the payments
  today,  \* the day it is
  boot,   \* TODAY of mappers.ts: the day on which the server has started
  found,  \* the rows that a running overdue sweep has found and not marked yet
  raced   \* history: the rows last paid after a running sweep had found them

vars == <<row, today, boot, found, raced>>

\* paid holds the days of its payments, paid_at, as they were entered.
Row == [due : Day, status : {"unpaid", "overdue", "paid"}, paid : SUBSET Day]
ASSUME NoneIsNoRow == None \notin Row

TypeOK ==
  /\ row \in [Invoice -> Row \cup {None}] /\ today \in Day /\ boot \in Day
  /\ found \in SUBSET Invoice /\ raced \in SUBSET Invoice

Init == row = [i \in Invoice |-> None] /\ today = 0 /\ boot = 0 /\ found = {} /\ raced = {}

-----------------------------------------------------------------------------
Enter(i, due) ==
  /\ row[i] = None
  /\ row' = [row EXCEPT ![i] = [due |-> due, status |-> "unpaid", paid |-> {}]]
  /\ UNCHANGED <<today, boot, found, raced>>

\* recordPayment or the payment webhook, of an invoice that may be paid already, with
\* a date that the user or Razorpay has given.
Pay(i, day) ==
  /\ row[i] # None
  /\ Cardinality(row[i].paid \cup {day}) <= MaxPaid[i]
  /\ row' = [row EXCEPT ![i].status = "paid", ![i].paid = @ \cup {day}]
  /\ raced' = IF i \in found THEN raced \cup {i} ELSE raced \ {i}
  /\ UNCHANGED <<today, boot, found>>

\* Mutant of Late: whatever is past due, paid or not.
LateOrPaid == {i \in Invoice : row[i] # None /\ row[i].due < today}

Late == {i \in Invoice : row[i] # None /\ row[i].status = "unpaid" /\ row[i].due < today}

\* find_past_due, the first request of the sweep, in another process, which knows what
\* day it is.
SweepFind ==
  /\ found = {} /\ found' = Late /\ Late # {}
  /\ UNCHANGED <<row, today, boot, raced>>

\* mark_overdue, its second: by the ids alone, whatever the rows have become.
SweepMark ==
  /\ found # {} /\ found' = {}
  /\ row' = [i \in Invoice |-> IF i \in found THEN [row[i] EXCEPT !.status = "overdue"]
                                             ELSE row[i]]
  /\ UNCHANGED <<today, boot, raced>>

\* A HasuraError at the second request: nothing is marked until the next sweep.
SweepFails == found # {} /\ found' = {} /\ UNCHANGED <<row, today, boot, raced>>

\* Ids are not used again: a sweep does not mark what is entered later.
Delete(i) ==
  /\ row[i] # None
  /\ row' = [row EXCEPT ![i] = None]
  /\ found' = found \ {i} /\ raced' = raced \ {i}
  /\ UNCHANGED <<today, boot>>

Tomorrow == today < MaxDay /\ today' = today + 1 /\ UNCHANGED <<row, boot, found, raced>>

Restart == boot # today /\ boot' = today /\ UNCHANGED <<row, today, found, raced>>

Next ==
  \/ \E i \in Invoice : \/ \E day \in Due[i] : Enter(i, day)
                        \/ \E day \in Day : Pay(i, day)
                        \/ Delete(i)
  \/ SweepFind \/ SweepMark \/ SweepFails
  \/ Tomorrow
  \/ Restart

Spec == Init /\ [][Next]_vars

-----------------------------------------------------------------------------
(***************************************************************************)
(* The server's view.  Its queries select by payment_status, its mappers   *)
(* by effectivePayment.                                                    *)
(***************************************************************************)
Rows(S) == {i \in S : row[i] # None}
Unpaid(S) == {i \in Rows(S) : row[i].status # "paid"}
Of(party) == {i \in Rows(Invoice) : Owner[i] = party}
Parties(S) == {Owner[i] : i \in S}

\* due_date < iso(TODAY).
PastDue(i) == row[i].due < boot

\* new Date(due_date) < TODAY: TODAY has a time of day, a due date has midnight.
EffectivePayment(i) ==
  IF row[i].status = "paid" THEN "PAID" ELSE IF row[i].due <= boot THEN "OVERDUE" ELSE "UNPAID"

\* buildWhere.
Selected(S, payment) ==
  {i \in Rows(S) : \/ payment = "PAID" /\ i \notin Unpaid(S)
                   \/ payment = "OVERDUE" /\ i \in Unpaid(S) /\ PastDue(i)
                   \/ payment = "UNPAID" /\ i \in Unpaid(S) /\ ~PastDue(i)}

\* The rows a query ranges over: all, or those of one vendor or customer.
Scoped(S, party) == {i \in Rows(S) : party \in {None, Owner[i]}}

\* What a query with a limit and no order may read of S.
Read(S, limit) ==
  {R \in SUBSET S : Cardinality(R) = SetsExt!Min({Cardinality(S), limit})}

\* The first payment of what is paid: payments(order_by: paid_at, limit: 1).
FirstPaid(i) == SetsExt!Min(row[i].paid)
Settled(S) == {i \in Rows(S) : row[i].status = "paid"}

\* A mean to one decimal, in tenths; Math.round takes halves up, and 0 stands for none.
Rounded(a, n) == (2 * a + n) \div (2 * n)
Mean(f, S) == IF S = {} THEN 0 ELSE Rounded(10 * Sum(f, S), Cardinality(S))
Taken == [i \in Settled(Invoice) |-> FirstPaid(i) - Issued[i]]

\* avgDaysToPay, avgDaysToCollect and dso, if the query reads the paid invoices R.
DaysTaken(R) == Mean(Taken, {i \in R : Taken[i] >= 0})
PaidRead(S, party) == Read(Settled(Scoped(S, party)), PaidLimit)

\* Recent payments are counted one by one.
DashboardStats(vendor) ==
  LET S == Scoped(Payable, vendor)
      pending == {i \in S : Approval[i] = "pending"}
      approved == {i \in Unpaid(S) : Approval[i] = "approved"}
      overdue == {i \in Unpaid(S) : PastDue(i)}
  IN  [pendingCount |-> Cardinality(pending), pendingAmount |-> Sum(Gross, pending),
       overdueCount |-> Cardinality(overdue), overdueAmount |-> Sum(Gross, overdue),
       exposure |-> Sum(Gross, Unpaid(S)),
       approvedCount |-> Cardinality(approved), approvedAmount |-> Sum(Gross, approved),
       rejectedCount |-> Cardinality({i \in S : Approval[i] = "rejected"}),
       paidRecently |-> Cardinality(
         {pay \in S \X Day : pay[2] \in row[pay[1]].paid /\ pay[2] >= boot - Recent})]

InflowStats(customer) ==
  LET S == Scoped(Receivable, customer)
      overdue == {i \in Unpaid(S) : PastDue(i)}
  IN  [outstandingCount |-> Cardinality(Unpaid(S)), outstanding |-> Sum(Gross, Unpaid(S)),
       overdueCount |-> Cardinality(overdue), overdueAmount |-> Sum(Gross, overdue)]

\* settledLast30, of the paid receivables R that the query reads: one is collected when
\* its first payment was made.
Collected(R) ==
  LET recent == {i \in R : FirstPaid(i) >= boot - Recent}
  IN  [count |-> Cardinality(recent), amount |-> Sum(Gross, recent), dso |-> DaysTaken(R)]

\* vendorExposure and customerExposure.
Exposure(party) == Sum(Gross, Unpaid(Of(party)))

\* Mutant of GrossOutstanding: an overdue invoice is not unpaid.
GrossUnpaid(i) == IF EffectivePayment(i) = "UNPAID" THEN Gross[i] ELSE 0
GrossOutstanding(i) == IF EffectivePayment(i) = "PAID" THEN 0 ELSE Gross[i]

\* The exposure of vendorStats and customerStats.
TotalExposure(party) == Sum([i \in Of(party) |-> GrossOutstanding(i)], Of(party))

\* cashForecast: the first bucket whose last day is not before the expected one.
Bucket(i) ==
  LET days == row[i].due + Delay[i] - boot
      fits == {n \in DOMAIN Edges : days <= Edges[n]}
  IN  IF fits = {} THEN Len(Edges) + 1 ELSE CHOOSE n \in fits : \A k \in fits : n <= k

Flow(S, n) == Sum(Gross, {i \in Unpaid(S) : Bucket(i) = n})
Windows == 1..(Len(Edges) + 1)

\* What cashForecast may read, and its position if it reads the rows R.
Forecast == Read(Unpaid(Invoice), ForecastLimit)
In(R) == [n \in Windows |-> Flow(R \cap Receivable, n)]
Out(R) == [n \in Windows |-> Flow(R \cap Payable, n)]
NetTotal(R) == Sum([n \in Windows |-> In(R)[n] - Out(R)[n]], Windows)

-----------------------------------------------------------------------------
\* The bills on which a party's history rests, and how many were paid in time if the
\* payments looked at are those of at: vendorStats takes whichever comes first of an
\* unordered list, paidBills the earliest.
Bills(party) == Settled(Of(party))
OnTime(B, at) == Cardinality({i \in B : at[i] <= row[i].due})
PaymentsRead(party) ==
  {at \in [Bills(party) -> Day] : \A i \in Bills(party) : at[i] \in row[i].paid}
Earliest(B) == [i \in B |-> FirstPaid(i)]

-----------------------------------------------------------------------------
\* The numbers the server computes apart are one number, for a vendor or customer and
\* for all of them: the forecast's net position is what is owed to the company less
\* what it owes, and never beyond either when the forecast cannot read all; the parties'
\* shares add up, and what was collected too, as far as the query reads it; a party's
\* page and its list agree, and the three payment filters split the list, as long as
\* the tile's count is the list's.  Some go by payment_status, some by effectivePayment.
NumbersAgree ==
  /\ \A R \in Forecast :
       LET owed == InflowStats(None).outstanding
           owe == DashboardStats(None).exposure
       IN  /\ Cardinality(Unpaid(Invoice)) <= ForecastLimit => NetTotal(R) = owed - owe
           /\ NetTotal(R) <= owed /\ -NetTotal(R) <= owe
  /\ \A n \in {"pendingAmount", "overdueAmount", "exposure", "approvedAmount", "paidRecently"} :
       DashboardStats(None)[n]
         = Sum([p \in Parties(Payable) |-> DashboardStats(p)[n]], Parties(Payable))
  /\ \A n \in {"outstanding", "overdueAmount"} :
       InflowStats(None)[n]
         = Sum([p \in Parties(Receivable) |-> InflowStats(p)[n]], Parties(Receivable))
  /\ \A R \in PaidRead(Receivable, None) :
       LET share == [p \in Parties(Receivable) |->
                       Collected(Settled(Scoped(Receivable, p))).amount]
       IN  /\ Collected(R).amount <= Sum(share, Parties(Receivable))
           /\ Cardinality(Settled(Receivable)) <= PaidLimit =>
                /\ Collected(R).amount = Sum(share, Parties(Receivable))
                /\ \A p \in Parties(Receivable) : \A Q \in PaidRead(Receivable, p) :
                     Collected(Q).amount = share[p]
  /\ \A party \in Parties(Invoice) :
       /\ Exposure(party) = TotalExposure(party)
       /\ Exposure(party) = DashboardStats(party).exposure + InflowStats(party).outstanding
  /\ \A S \in {Payable, Receivable} :
       /\ Rows(S) = UNION {Selected(S, p) : p \in {"PAID", "UNPAID", "OVERDUE"}}
       /\ \A p, q \in {"PAID", "UNPAID", "OVERDUE"} :
            p # q => Selected(S, p) \cap Selected(S, q) = {}
  /\ \A party \in Parties(Invoice) \cup {None} :
       /\ DashboardStats(party).overdueCount =
            Cardinality(Scoped(Selected(Payable, "OVERDUE"), party))
       /\ InflowStats(party).overdueCount =
            Cardinality(Scoped(Selected(Receivable, "OVERDUE"), party))

\* What the server lists as overdue is past due, however long it has run, and what it
\* counts as unpaid has no payment, unless it was last paid after a running sweep had
\* found it: the sweep's second request then writes over the first's answer.  What it
\* misses, though the sweep may have marked it, has fallen due since it started; and a
\* row bears the other label only when it fell due on that very day.
OverdueIsRight ==
  \A S \in {Payable, Receivable} : \A i \in Unpaid(S) :
    /\ i \in Selected(S, "OVERDUE") => row[i].due < today
    /\ row[i].paid # {} => i \in raced /\ row[i].due < today
    /\ row[i].due < today \/ row[i].status = "overdue" =>
         i \in Selected(S, "OVERDUE") \/ row[i].due >= boot
    /\ EffectivePayment(i) = "OVERDUE" => i \in Selected(S, "OVERDUE") \/ row[i].due = boot

\* The share of bills paid in time is never better on the vendors' list than in the
\* vendor's history, and the same unless a bill was paid twice.
HistoryAgrees ==
  \A party \in Parties(Payable) : \A at \in PaymentsRead(party) :
    LET B == Bills(party)
    IN  /\ OnTime(B, at) <= OnTime(B, Earliest(B))
        /\ (\A i \in B : Cardinality(row[i].paid) = 1) => OnTime(B, at) = OnTime(B, Earliest(B))
=============================================================================
