--------------------------- MODULE ReportsProofs ---------------------------
(***************************************************************************)
(* What holds of the reports for any invoices, parties, amounts and number *)
(* of days.                                                                *)
(***************************************************************************)
EXTENDS Screens, SumTheorems, SequenceTheorems

\* The server's day is never ahead, only the sweep writes overdue, and it writes
\* it of what was past due when it looked; days do not go back.  What it found and has
\* not marked yet is still there, and has been paid since or has no payment.
IInv ==
  /\ TypeOK
  /\ boot <= today
  /\ \A i \in Invoice :
       row[i] # None /\ row[i].status = "overdue" => row[i].due < today
  /\ \A i \in Invoice : row[i] # None /\ row[i].status = "paid" => row[i].paid # {}
  /\ \A i \in Invoice : row[i] # None /\ row[i].status = "unpaid" => row[i].paid = {}
  /\ \A i \in Invoice :
       row[i] # None /\ row[i].status = "overdue" => row[i].paid = {} \/ i \in raced
  /\ \A i \in found :
       row[i] # None /\ row[i].due < today /\ (row[i].paid = {} \/ i \in raced)

\* IInv is inductive: payments, sweeps, deletions, midnight and restarts keep it.
THEOREM Safety == Spec => []IInv
<1> USE Data, Bounds, NoneIsNoRow DEF Row, Day, Invoice
<1>1. Init => IInv
  BY DEF Init, IInv, TypeOK
<1>2. IInv /\ [Next]_vars => IInv'
  <2> SUFFICES ASSUME IInv, [Next]_vars PROVE IInv'
    OBVIOUS
  <2> USE DEF IInv, TypeOK
  <2>1. ASSUME NEW i \in Invoice, NEW day \in Due[i], Enter(i, day) PROVE IInv'
    <3>1. day \in Day
      OBVIOUS
    <3> QED
      BY <2>1, <3>1 DEF Enter
  <2>2. ASSUME NEW i \in Invoice, NEW day \in Day, Pay(i, day) PROVE IInv'
    <3>1. row[i] \in Row /\ row[i] # None
      BY <2>2 DEF Pay
    <3>2. /\ row'[i] = [due |-> row[i].due, status |-> "paid", paid |-> row[i].paid \cup {day}]
          /\ \A j \in Invoice \ {i} : row'[j] = row[j]
          /\ DOMAIN row' = Invoice
      BY <2>2, <3>1 DEF Pay
    <3>3. row' = [j \in Invoice |-> row'[j]]
      BY <2>2 DEF Pay
    <3>4. row'[i] \in Row /\ row'[i] # None
      BY <3>1, <3>2
    <3>5. /\ raced' = IF i \in found THEN raced \cup {i} ELSE raced \ {i}
          /\ today' = today /\ boot' = boot /\ found' = found
      BY <2>2 DEF Pay
    <3>6. TypeOK'
      BY <3>2, <3>3, <3>4, <3>5
    <3>7. \A j \in found : row'[j] # None /\ row'[j].due < today
                          /\ (row'[j].paid = {} \/ j \in raced')
      BY <3>2, <3>4, <3>5
    <3>8. ASSUME NEW j \in Invoice, row'[j] # None
          PROVE  /\ row'[j].status = "overdue" =>
                      row'[j].due < today /\ (row'[j].paid = {} \/ j \in raced')
                 /\ row'[j].status = "paid" => row'[j].paid # {}
                 /\ row'[j].status = "unpaid" => row'[j].paid = {}
      <4>1. CASE j = i
        <5>1. row'[i].status = "paid" /\ day \in row'[i].paid
          BY <3>2
        <5>2. "paid" # "overdue" /\ "paid" # "unpaid"
          OBVIOUS
        <5> QED
          BY <4>1, <5>1, <5>2, Zenon
      <4>2. CASE j # i
        BY <3>2, <3>5, <3>8, <4>2
      <4> QED
        BY <4>1, <4>2
    <3>9. boot' <= today'
      BY <3>5
    <3> QED
      BY <3>5, <3>6, <3>7, <3>8, <3>9
  <2>3. CASE SweepFind
    BY <2>3 DEF SweepFind, Late
  <2>8. CASE SweepMark
    BY <2>8 DEF SweepMark
  <2>9. CASE SweepFails
    BY <2>9 DEF SweepFails
  <2>4. ASSUME NEW i \in Invoice, Delete(i) PROVE IInv'
    BY <2>4 DEF Delete
  <2>5. CASE Tomorrow
    BY <2>5 DEF Tomorrow
  <2>6. CASE Restart
    BY <2>6 DEF Restart
  <2>7. CASE UNCHANGED vars
    BY <2>7 DEF vars
  <2> HIDE DEF IInv
  <2> QED
    BY <2>1, <2>2, <2>3, <2>4, <2>5, <2>6, <2>7, <2>8, <2>9 DEF Next
<1> QED
  BY <1>1, <1>2, PTL DEF Spec

\* The table and the two days keep their types.
THEOREM TypeCorrect == Spec => []TypeOK
<1>1. IInv => TypeOK
  BY DEF IInv
<1> QED
  BY <1>1, Safety, PTL

\* However long the server has run, what it lists as overdue is past due, what it counts
\* as unpaid has no payment but one made under a running sweep, and what it misses has
\* fallen due since it started.
THEOREM OverdueListsAreRight == Spec => []OverdueIsRight
<1>1. IInv => OverdueIsRight
  <2> SUFFICES ASSUME IInv,
                      NEW S \in {Payable, Receivable}, NEW i \in Unpaid(S)
               PROVE  /\ i \in Selected(S, "OVERDUE") => row[i].due < today
                      /\ row[i].paid # {} => i \in raced /\ row[i].due < today
                      /\ row[i].due < today \/ row[i].status = "overdue" =>
                           i \in Selected(S, "OVERDUE") \/ row[i].due >= boot
                      /\ EffectivePayment(i) = "OVERDUE" =>
                           i \in Selected(S, "OVERDUE") \/ row[i].due = boot
    BY DEF OverdueIsRight
  <2>1. i \in Invoice /\ row[i] \in Row /\ row[i].status # "paid"
    BY DEF Unpaid, Rows, Invoice, IInv, TypeOK
  <2>2. Selected(S, "OVERDUE") = {k \in Unpaid(S) : PastDue(k)}
    BY DEF Selected, Unpaid
  <2>3. i \in Selected(S, "OVERDUE") <=> row[i].due < boot
    BY <2>2 DEF PastDue
  <2>4. row[i].due \in Int /\ boot \in Int /\ today \in Int /\ boot <= today
    BY <2>1, Data DEF IInv, TypeOK, Row, Day
  <2>5. EffectivePayment(i) = "OVERDUE" <=> row[i].due <= boot
    BY <2>1 DEF EffectivePayment
  <2>6. row[i].paid # {} => i \in raced /\ row[i].due < today
    <3>1. row[i] # None /\ row[i].status \in {"unpaid", "overdue"}
      BY <2>1, NoneIsNoRow DEF Row
    <3> QED
      BY <2>1, <3>1 DEF IInv
  <2> QED
    BY <2>3, <2>4, <2>5, <2>6
<1> QED
  BY <1>1, Safety, PTL

\* A nonempty set of days has a first one.
LEMMA FirstDay ==
  ASSUME NEW D, D \subseteq Nat, D # {}
  PROVE  \E d \in D : \A e \in D : d <= e
<1>1. PICK d \in D : \A e \in D : <<e, d>> \notin OpToRel(<, Nat)
  BY WFMin, NatLessThanWellFounded
<1>2. \A e \in D : e \in Nat /\ d \in Nat /\ ~(e < d)
  BY <1>1 DEF OpToRel
<1> QED
  BY <1>2

\* The first payment of a bill is one of its payments, and no later than any.
LEMMA FirstPaymentIsFirst ==
  ASSUME IInv, NEW i \in Rows(Invoice), row[i].status = "paid"
  PROVE  /\ row[i].paid \subseteq Nat /\ row[i].paid # {} /\ row[i].due \in Nat
         /\ FirstPaid(i) \in row[i].paid /\ \A e \in row[i].paid : FirstPaid(i) <= e
<1>1. row[i].paid \subseteq Nat /\ row[i].paid # {} /\ row[i].due \in Nat
  BY Data DEF Rows, IInv, TypeOK, Row, Day
<1>2. \E d \in row[i].paid : \A e \in row[i].paid : d <= e
  BY <1>1, FirstDay
<1>3. FirstPaid(i) = CHOOSE d \in row[i].paid : \A e \in row[i].paid : d <= e
  BY DEF FirstPaid, SetsExt!Min
<1> QED
  BY <1>1, <1>2, <1>3

\* However the payments of a bill are ordered when the vendors' list is read, it never
\* shows a better record than the vendor's history, nor another one without double
\* payments.
THEOREM RecordsAgree == Spec => []HistoryAgrees
<1>1. IInv => HistoryAgrees
  <2> SUFFICES ASSUME IInv,
                      NEW party \in Parties(Payable), NEW at \in PaymentsRead(party)
               PROVE  LET B == Bills(party)
                      IN  /\ OnTime(B, at) <= OnTime(B, Earliest(B))
                          /\ (\A i \in B : Cardinality(row[i].paid) = 1) =>
                               OnTime(B, at) = OnTime(B, Earliest(B))
    BY DEF HistoryAgrees
  <2> DEFINE B == Bills(party)
             first == Earliest(B)
             Kept(f) == {i \in B : f[i] <= row[i].due}
  <2>1. IsFiniteSet(B)
    BY Data, FS_Subset DEF Bills, Of, Settled, Rows
  <2>2. ASSUME NEW i \in B
        PROVE  /\ row[i].paid \subseteq Nat /\ row[i].paid # {} /\ row[i].due \in Nat
               /\ at[i] \in row[i].paid
               /\ first[i] \in row[i].paid /\ \A e \in row[i].paid : first[i] <= e
    <3>1. i \in Rows(Invoice) /\ row[i].status = "paid"
      BY DEF Bills, Of, Settled, Rows
    <3>2. at[i] \in row[i].paid
      BY DEF PaymentsRead
    <3>3. first[i] = FirstPaid(i)
      BY DEF Earliest
    <3> QED
      BY <3>1, <3>2, <3>3, FirstPaymentIsFirst
  <2>3. OnTime(B, at) = Cardinality(Kept(at)) /\ OnTime(B, first) = Cardinality(Kept(first))
    BY DEF OnTime
  <2> HIDE DEF B, first
  <2>4. Kept(at) \subseteq Kept(first)
    <3> SUFFICES ASSUME NEW i \in Kept(at) PROVE first[i] <= row[i].due
      OBVIOUS
    <3>1. i \in B /\ at[i] <= row[i].due
      OBVIOUS
    <3>2. at[i] \in Nat /\ first[i] \in Nat /\ first[i] <= at[i] /\ row[i].due \in Nat
      BY <3>1, <2>2
    <3> HIDE DEF Kept
    <3> QED
      BY <3>1, <3>2
  <2>5. IsFiniteSet(Kept(first))
    BY <2>1, FS_Subset
  <2>6. OnTime(B, at) <= OnTime(B, first)
    BY <2>3, <2>4, <2>5, FS_Subset
  <2>7. ASSUME \A i \in B : Cardinality(row[i].paid) = 1
        PROVE  OnTime(B, at) = OnTime(B, first)
    <3>1. ASSUME NEW i \in B PROVE at[i] = first[i]
      <4>1. IsFiniteSet(row[i].paid)
        <5>1. row[i].paid \subseteq 0..MaxDay
          BY DEF B, Bills, Of, Settled, Rows, IInv, TypeOK, Row, Day
        <5>2. IsFiniteSet(0..MaxDay)
          BY Data, FS_Interval
        <5> QED
          BY <5>1, <5>2, FS_Subset
      <4>2. \E x : row[i].paid = {x}
        BY <4>1, <2>7, FS_Singleton
      <4> QED
        BY <4>2, <2>2
    <3> QED
      BY <2>3, <3>1
  <2> QED
    BY <2>6, <2>7 DEF B, first
<1> QED
  BY <1>1, Safety, PTL

-----------------------------------------------------------------------------
\* Amounts are whole, and so are their sums over the rows of a table.
LEMMA AmountsAreWhole ==
  ASSUME NEW S \in SUBSET Invoice
  PROVE  /\ IsFiniteSet(S) /\ \A i \in S : Gross[i] \in Int
         /\ Sum(Gross, S) \in Int
<1>1. IsFiniteSet(S)
  BY Data, FS_Subset
<1>2. \A i \in S : Gross[i] \in Int
  BY Data
<1> QED
  BY <1>1, <1>2, SumIsWhole

\* Every party's share of an amount adds up to it.
LEMMA SharesAddUp ==
  ASSUME NEW S \in SUBSET Invoice, NEW T \in SUBSET S, NEW share,
         \A p \in Parties(S) : share[p] = Sum(Gross, {i \in T : Owner[i] = p})
  PROVE  Sum(share, Parties(S)) = Sum(Gross, T)
<1> DEFINE part == [p \in Parties(S) |-> {i \in T : Owner[i] = p}]
<1>1. IsFiniteSet(T) /\ \A i \in T : Gross[i] \in Int
  BY AmountsAreWhole
<1>2. IsFiniteSet(Parties(S))
  <2>1. IsFiniteSet(S)
    BY AmountsAreWhole
  <2> QED
    BY <2>1, ImageIsFinite DEF Parties
<1>3. \A p \in Parties(S) : part[p] \subseteq T /\ share[p] = Sum(Gross, part[p])
  OBVIOUS
<1>4. \A p, q \in Parties(S) : p # q => part[p] \cap part[q] = {}
  OBVIOUS
<1>5. \A i \in T : \E p \in Parties(S) : i \in part[p]
  BY DEF Parties
<1> HIDE DEF part
<1> QED
  BY <1>1, <1>2, <1>3, <1>4, <1>5, SumOfParts

\* What falls into the forecast's buckets adds up to what is unpaid.
LEMMA FlowsAddUp ==
  ASSUME NEW S \in SUBSET Invoice, NEW flow, \A n \in Windows : flow[n] = Flow(S, n)
  PROVE  Sum(flow, Windows) = Sum(Gross, Unpaid(S))
<1> DEFINE part == [n \in Windows |-> {i \in Unpaid(S) : Bucket(i) = n}]
<1>1. Unpaid(S) \in SUBSET Invoice
  BY DEF Unpaid, Rows
<1>2. IsFiniteSet(Windows)
  BY Buckets, FS_Interval DEF Windows
<1>3. ASSUME NEW i \in Unpaid(S) PROVE Bucket(i) \in Windows
  <2> DEFINE fits == {n \in DOMAIN Edges : row[i].due + Delay[i] - boot <= Edges[n]}
  <2>1. DOMAIN Edges = 1..Len(Edges) /\ Len(Edges) \in Nat
    BY Buckets
  <2>2. fits \subseteq Nat /\ fits \subseteq Windows
    BY <2>1 DEF Windows
  <2>3. Bucket(i) = IF fits = {} THEN Len(Edges) + 1 ELSE CHOOSE n \in fits : \A k \in fits : n <= k
    BY DEF Bucket
  <2> HIDE DEF fits
  <2>4. CASE fits = {}
    BY <2>1, <2>3, <2>4 DEF Windows
  <2>5. CASE fits # {}
    <3>1. \E n \in fits : \A k \in fits : n <= k
      BY <2>2, <2>5, FirstDay
    <3> QED
      BY <2>2, <2>3, <2>5, <3>1
  <2> QED
    BY <2>4, <2>5
<1>4. \A n \in Windows : part[n] \subseteq Unpaid(S) /\ flow[n] = Sum(Gross, part[n])
  BY DEF Flow
<1>5. \A m, n \in Windows : m # n => part[m] \cap part[n] = {}
  OBVIOUS
<1>6. \A i \in Unpaid(S) : \E n \in Windows : i \in part[n]
  BY <1>3
<1> HIDE DEF part
<1> QED
  BY <1>1, <1>2, <1>4, <1>5, <1>6, AmountsAreWhole, SumOfParts

\* What is unpaid and what is not, by the label that is shown as by the status.
LEMMA LabelsAreStatus ==
  ASSUME NEW i \in Invoice, row[i] # None, TypeOK
  PROVE  /\ EffectivePayment(i) = "PAID" <=> row[i].status = "paid"
         /\ GrossOutstanding(i) = IF row[i].status = "paid" THEN 0 ELSE Gross[i]
BY DEF EffectivePayment, GrossOutstanding

\* A list and a page tell the same exposure of a party.
LEMMA ExposuresAgree ==
  ASSUME TypeOK, NEW party \in Parties(Invoice)
  PROVE  /\ Exposure(party) = TotalExposure(party)
         /\ Exposure(party) = DashboardStats(party).exposure + InflowStats(party).outstanding
<1> DEFINE S == Of(party)
           U == Unpaid(S)
           P == S \ U
           h == [i \in S |-> GrossOutstanding(i)]
<1>1. S \in SUBSET Invoice /\ U \in SUBSET S /\ P \in SUBSET S /\ S = U \cup P /\ U \cap P = {}
  BY DEF Of, Unpaid, Rows
<1>2. /\ \A i \in U : h[i] = Gross[i] /\ EffectivePayment(i) # "PAID"
      /\ \A i \in P : h[i] = 0 /\ EffectivePayment(i) = "PAID"
  BY LabelsAreStatus DEF Of, Unpaid, Rows
<1>3. party # None
  BY Somebodys DEF Parties
<1>4. Sum(h, U) = Sum(Gross, U)
  <2>1. IsFiniteSet(U)
    BY <1>1, AmountsAreWhole
  <2> HIDE DEF h, U
  <2> QED
    BY <2>1, <1>2, SumOfEqual
<1>5. Sum(h, P) = 0
  <2>1. IsFiniteSet(P) /\ \A i \in P : h[i] = 0
    BY <1>1, <1>2, AmountsAreWhole
  <2> HIDE DEF h, P
  <2>2. Sum(h, P) = 0 * Cardinality(P) /\ Cardinality(P) \in Nat
    BY <2>1, SumOfConstant, FS_CardinalityType
  <2> QED
    BY <2>2
<1>6. Sum(h, S) = Sum(h, U) + Sum(h, P)
  <2>1. IsFiniteSet(U) /\ IsFiniteSet(P)
    BY <1>1, AmountsAreWhole
  <2>2. \A i \in U \cup P : h[i] \in Int
    BY <1>1, <1>2, AmountsAreWhole
  <2> HIDE DEF h, P, U, S
  <2>3. Sum(h, U \cup P) = Sum(h, U) + Sum(h, P)
    BY <2>1, <2>2, <1>1, SumOfTwo
  <2> QED
    BY <2>3, <1>1, Zenon
<1>7. Exposure(party) = TotalExposure(party)
  <2>1. Exposure(party) = Sum(Gross, U) /\ TotalExposure(party) = Sum(h, S)
    BY DEF Exposure, TotalExposure
  <2>2. Sum(Gross, U) \in Int
    BY <1>1, AmountsAreWhole
  <2> HIDE DEF h, P, U, S
  <2> QED
    BY <1>4, <1>5, <1>6, <2>1, <2>2
<1>9. Exposure(party) = DashboardStats(party).exposure + InflowStats(party).outstanding
  <2> DEFINE V == Unpaid(Scoped(Payable, party))
             W == Unpaid(Scoped(Receivable, party))
  <2>1. U = V \cup W /\ V \cap W = {} /\ V \in SUBSET Invoice /\ W \in SUBSET Invoice
    BY <1>3, Data DEF Unpaid, Scoped, Of, Rows, Invoice
  <2>2. DashboardStats(party).exposure = Sum(Gross, V)
          /\ InflowStats(party).outstanding = Sum(Gross, W)
    BY DEF DashboardStats, InflowStats
  <2>3. IsFiniteSet(V) /\ IsFiniteSet(W) /\ \A i \in V \cup W : Gross[i] \in Int
    BY <2>1, AmountsAreWhole
  <2>4. Exposure(party) = Sum(Gross, U)
    BY DEF Exposure
  <2> HIDE DEF U, V, W
  <2>5. Sum(Gross, V \cup W) = Sum(Gross, V) + Sum(Gross, W)
    BY <2>1, <2>3, SumOfTwo
  <2> QED
    BY <2>1, <2>2, <2>4, <2>5, Zenon
<1> QED
  BY <1>7, <1>9

\* Recent payments are counted once, party by party.
LEMMA PaymentsAddUp ==
  ASSUME TypeOK, NEW count, \A p \in Parties(Payable) : count[p] = DashboardStats(p).paidRecently
  PROVE  Sum(count, Parties(Payable)) = DashboardStats(None).paidRecently
<1> DEFINE S(p) == {pay \in Scoped(Payable, p) \X Day :
                      pay[2] \in row[pay[1]].paid /\ pay[2] >= boot - Recent}
           part == [p \in Parties(Payable) |-> S(p)]
<1>1. IsFiniteSet(Parties(Payable)) /\ IsFiniteSet(S(None))
  <2>1. IsFiniteSet(Payable) /\ IsFiniteSet(Scoped(Payable, None)) /\ IsFiniteSet(Day)
    BY AmountsAreWhole, Data, FS_Interval DEF Scoped, Rows, Invoice, Day
  <2>2. IsFiniteSet(Parties(Payable))
    BY <2>1, ImageIsFinite DEF Parties
  <2>3. IsFiniteSet(Scoped(Payable, None) \X Day)
    BY <2>1, FS_Product
  <2>4. S(None) \subseteq Scoped(Payable, None) \X Day
    OBVIOUS
  <2> QED
    BY <2>2, <2>3, <2>4, FS_Subset
<1>2. /\ Scoped(Payable, None) = Rows(Payable)
      /\ \A p \in Parties(Payable) : Scoped(Payable, p) = {i \in Rows(Payable) : Owner[i] = p}
  BY Somebodys DEF Scoped, Parties, Invoice
<1>3. \A p \in Parties(Payable) : part[p] \subseteq S(None) /\ count[p] = Cardinality(part[p])
  <2>1. \A p : DashboardStats(p).paidRecently = Cardinality(S(p))
    BY DEF DashboardStats
  <2>2. \A p \in Parties(Payable) : S(p) \subseteq S(None)
    BY <1>2
  <2> HIDE DEF S
  <2> QED
    BY <2>1, <2>2
<1>4. \A p, q \in Parties(Payable) : p # q => part[p] \cap part[q] = {}
  BY <1>2
<1>5. ASSUME NEW pay \in S(None) PROVE \E p \in Parties(Payable) : pay \in part[p]
  <2>1. pay[1] \in Rows(Payable) /\ Owner[pay[1]] \in Parties(Payable)
    BY <1>2 DEF Parties, Rows
  <2>2. pay \in S(Owner[pay[1]])
    BY <1>2, <2>1
  <2> QED
    BY <2>1, <2>2
<1>6. DashboardStats(None).paidRecently = Cardinality(S(None))
  BY DEF DashboardStats
<1> HIDE DEF S, part
<1> QED
  BY <1>1, <1>3, <1>4, <1>5, <1>6, CountOfParts

\* The parties' shares of a tile that adds up the rows of M.
LEMMA TileAddsUp ==
  ASSUME NEW S \in {Payable, Receivable}, NEW M, NEW tile,
         \A p \in Parties(S) \cup {None} : tile[p] = Sum(Gross, Scoped(S, p) \cap M)
  PROVE  tile[None] = Sum(tile, Parties(S))
<1> DEFINE T == Scoped(S, None) \cap M
<1>1. S \in SUBSET Invoice /\ T \in SUBSET S
  BY DEF Scoped, Invoice, Rows
<1>2. \A p \in Parties(S) : tile[p] = Sum(Gross, {i \in T : Owner[i] = p})
  <2> SUFFICES ASSUME NEW p \in Parties(S)
               PROVE  Scoped(S, p) \cap M = {i \in T : Owner[i] = p}
    OBVIOUS
  <2> QED
    BY Somebodys DEF Scoped, Parties, Invoice, Rows
<1>3. tile[None] = Sum(Gross, T)
  OBVIOUS
<1> HIDE DEF T
<1> QED
  BY <1>1, <1>2, <1>3, SharesAddUp

\* The tiles of all parties are the sums of those of each.
LEMMA TilesAddUp ==
  ASSUME TypeOK
  PROVE  /\ \A n \in {"pendingAmount", "overdueAmount", "exposure", "approvedAmount",
              "paidRecently"} :
              DashboardStats(None)[n]
                = Sum([p \in Parties(Payable) |-> DashboardStats(p)[n]], Parties(Payable))
         /\ \A n \in {"outstanding", "overdueAmount"} :
              InflowStats(None)[n]
                = Sum([p \in Parties(Receivable) |-> InflowStats(p)[n]], Parties(Receivable))
<1> DEFINE K == Parties(Payable) \cup {None}
           L == Parties(Receivable) \cup {None}
           Waits == {i \in Invoice : Approval[i] = "pending"}
           Open == {i \in Invoice : row[i].status # "paid"}
           Behind == {i \in Invoice : row[i].status # "paid" /\ PastDue(i)}
           Passed == {i \in Invoice : row[i].status # "paid" /\ Approval[i] = "approved"}
<1>1. ASSUME NEW n, NEW M, \A p \in K : DashboardStats(p)[n] = Sum(Gross, Scoped(Payable, p) \cap M)
      PROVE  DashboardStats(None)[n]
               = Sum([p \in Parties(Payable) |-> DashboardStats(p)[n]], Parties(Payable))
  <2> DEFINE tile == [p \in K |-> DashboardStats(p)[n]]
             share == [p \in Parties(Payable) |-> DashboardStats(p)[n]]
  <2>1. \A p \in K : tile[p] = Sum(Gross, Scoped(Payable, p) \cap M)
    BY <1>1
  <2>2. tile[None] = DashboardStats(None)[n] /\ \A p \in Parties(Payable) : tile[p] = share[p]
    OBVIOUS
  <2>3. IsFiniteSet(Parties(Payable))
    BY AmountsAreWhole, ImageIsFinite DEF Parties, Invoice
  <2> HIDE DEF tile, share
  <2>4. tile[None] = Sum(tile, Parties(Payable))
    BY <2>1, TileAddsUp
  <2>5. Sum(tile, Parties(Payable)) = Sum(share, Parties(Payable))
    BY <2>2, <2>3, SumOfEqual
  <2> QED
    BY <2>2, <2>4, <2>5 DEF share
<1>2. ASSUME NEW n, NEW M, \A p \in L : InflowStats(p)[n] = Sum(Gross, Scoped(Receivable, p) \cap M)
      PROVE  InflowStats(None)[n]
               = Sum([p \in Parties(Receivable) |-> InflowStats(p)[n]], Parties(Receivable))
  <2> DEFINE tile == [p \in L |-> InflowStats(p)[n]]
             share == [p \in Parties(Receivable) |-> InflowStats(p)[n]]
  <2>1. \A p \in L : tile[p] = Sum(Gross, Scoped(Receivable, p) \cap M)
    BY <1>2
  <2>2. tile[None] = InflowStats(None)[n] /\ \A p \in Parties(Receivable) : tile[p] = share[p]
    OBVIOUS
  <2>3. IsFiniteSet(Parties(Receivable))
    BY AmountsAreWhole, ImageIsFinite DEF Parties, Invoice
  <2> HIDE DEF tile, share
  <2>4. tile[None] = Sum(tile, Parties(Receivable))
    BY <2>1, TileAddsUp
  <2>5. Sum(tile, Parties(Receivable)) = Sum(share, Parties(Receivable))
    BY <2>2, <2>3, SumOfEqual
  <2> QED
    BY <2>2, <2>4, <2>5 DEF share
<1>3. ASSUME NEW S \in {Payable, Receivable}, NEW p
      PROVE  /\ {i \in Scoped(S, p) : Approval[i] = "pending"} = Scoped(S, p) \cap Waits
             /\ Unpaid(Scoped(S, p)) = Scoped(S, p) \cap Open
             /\ {i \in Unpaid(Scoped(S, p)) : PastDue(i)} = Scoped(S, p) \cap Behind
             /\ {i \in Unpaid(Scoped(S, p)) : Approval[i] = "approved"} = Scoped(S, p) \cap Passed
  BY DEF Scoped, Unpaid, Rows, Invoice
<1> HIDE DEF Waits, Open, Behind, Passed
<1>4. ASSUME NEW p
      PROVE  /\ DashboardStats(p)["pendingAmount"] = Sum(Gross, Scoped(Payable, p) \cap Waits)
             /\ DashboardStats(p)["overdueAmount"] = Sum(Gross, Scoped(Payable, p) \cap Behind)
             /\ DashboardStats(p)["exposure"] = Sum(Gross, Scoped(Payable, p) \cap Open)
             /\ DashboardStats(p)["approvedAmount"] = Sum(Gross, Scoped(Payable, p) \cap Passed)
             /\ InflowStats(p)["outstanding"] = Sum(Gross, Scoped(Receivable, p) \cap Open)
             /\ InflowStats(p)["overdueAmount"] = Sum(Gross, Scoped(Receivable, p) \cap Behind)
  <2>1. /\ DashboardStats(p)["pendingAmount"]
             = Sum(Gross, {i \in Scoped(Payable, p) : Approval[i] = "pending"})
        /\ DashboardStats(p)["overdueAmount"]
             = Sum(Gross, {i \in Unpaid(Scoped(Payable, p)) : PastDue(i)})
        /\ DashboardStats(p)["exposure"] = Sum(Gross, Unpaid(Scoped(Payable, p)))
        /\ DashboardStats(p)["approvedAmount"]
              = Sum(Gross, {i \in Unpaid(Scoped(Payable, p)) : Approval[i] = "approved"})
    BY DEF DashboardStats
  <2>2. /\ InflowStats(p)["outstanding"] = Sum(Gross, Unpaid(Scoped(Receivable, p)))
        /\ InflowStats(p)["overdueAmount"]
             = Sum(Gross, {i \in Unpaid(Scoped(Receivable, p)) : PastDue(i)})
    BY DEF InflowStats
  <2>3. Payable \in {Payable, Receivable} /\ Receivable \in {Payable, Receivable}
    OBVIOUS
  <2> QED
    BY <1>3, <2>1, <2>2, <2>3, Zenon
<1>5. DashboardStats(None)["paidRecently"]
        = Sum([p \in Parties(Payable) |-> DashboardStats(p)["paidRecently"]], Parties(Payable))
  <2> DEFINE count == [p \in Parties(Payable) |-> DashboardStats(p).paidRecently]
  <2>1. \A p \in Parties(Payable) : count[p] = DashboardStats(p).paidRecently
    OBVIOUS
  <2> HIDE DEF count
  <2>2. Sum(count, Parties(Payable)) = DashboardStats(None).paidRecently
    BY <2>1, PaymentsAddUp
  <2> QED
    BY <2>2 DEF count
<1>6. DashboardStats(None)["pendingAmount"]
        = Sum([p \in Parties(Payable) |-> DashboardStats(p)["pendingAmount"]], Parties(Payable))
  BY <1>1, <1>4
<1>7. DashboardStats(None)["overdueAmount"]
        = Sum([p \in Parties(Payable) |-> DashboardStats(p)["overdueAmount"]], Parties(Payable))
  BY <1>1, <1>4
<1>8. DashboardStats(None)["exposure"]
        = Sum([p \in Parties(Payable) |-> DashboardStats(p)["exposure"]], Parties(Payable))
  BY <1>1, <1>4
<1>9. DashboardStats(None)["approvedAmount"]
        = Sum([p \in Parties(Payable) |-> DashboardStats(p)["approvedAmount"]], Parties(Payable))
  BY <1>1, <1>4
<1>10. InflowStats(None)["outstanding"]
        = Sum([p \in Parties(Receivable) |-> InflowStats(p)["outstanding"]], Parties(Receivable))
  BY <1>2, <1>4
<1>11. InflowStats(None)["overdueAmount"]
        = Sum([p \in Parties(Receivable) |-> InflowStats(p)["overdueAmount"]], Parties(Receivable))
  BY <1>2, <1>4
<1> QED
  BY <1>5, <1>6, <1>7, <1>8, <1>9, <1>10, <1>11

\* A part of the rows adds up to no more.
LEMMA PartIsLess ==
  ASSUME NEW S \in SUBSET Invoice, NEW T \in SUBSET S
  PROVE  Sum(Gross, T) <= Sum(Gross, S) /\ Sum(Gross, T) \in Nat
<1> DEFINE R == S \ T
<1>1. IsFiniteSet(T) /\ IsFiniteSet(R) /\ T \cap R = {} /\ S = T \cup R
  BY AmountsAreWhole, FS_Subset
<1>2. \A i \in T \cup R : Gross[i] \in Int /\ Gross[i] \in Nat
  BY Data
<1>3. Sum(Gross, T) \in Nat
  BY <1>1, <1>2, SumIsNatural
<1>4. Sum(Gross, R) \in Nat
  BY <1>1, <1>2, SumIsNatural
<1> HIDE DEF R
<1>5. Sum(Gross, T \cup R) = Sum(Gross, T) + Sum(Gross, R)
  BY <1>1, <1>2, SumOfTwo
<1>6. Sum(Gross, S) = Sum(Gross, T) + Sum(Gross, R)
  BY <1>1, <1>5, Zenon
<1> QED
  BY <1>3, <1>4, <1>6

\* What a query reads of S is part of it, as many rows as the limit allows, and all of it
\* if it fits.
LEMMA ReadIsPart ==
  ASSUME NEW S, IsFiniteSet(S), NEW limit \in Nat, NEW R \in Read(S, limit)
  PROVE  /\ R \subseteq S /\ Cardinality(R) = SetsExt!Min({Cardinality(S), limit})
         /\ Cardinality(S) \in Nat
         /\ Cardinality(R) = IF Cardinality(S) <= limit THEN Cardinality(S) ELSE limit
         /\ Cardinality(S) <= limit => R = S
<1>1. R \subseteq S /\ Cardinality(R) = SetsExt!Min({Cardinality(S), limit})
  BY DEF Read
<1> DEFINE n == Cardinality(S)
<1>2. n \in Nat
  BY FS_CardinalityType
<1> HIDE DEF n
<1>3. SetsExt!Min({n, limit}) = CHOOSE x \in {n, limit} : \A y \in {n, limit} : x <= y
  BY DEF SetsExt!Min
<1>4. SetsExt!Min({n, limit}) = IF n <= limit THEN n ELSE limit
  <2>1. CASE n <= limit
    <3>1. n \in {n, limit} /\ \A y \in {n, limit} : n <= y
      BY <1>2, <2>1
    <3>2. \A x \in {n, limit} : (\A y \in {n, limit} : x <= y) => x = n
      BY <1>2, <2>1
    <3> QED
      BY <1>3, <2>1, <3>1, <3>2
  <2>2. CASE ~(n <= limit)
    <3>1. limit \in {n, limit} /\ \A y \in {n, limit} : limit <= y
      BY <1>2, <2>2
    <3>2. \A x \in {n, limit} : (\A y \in {n, limit} : x <= y) => x = limit
      BY <1>2, <2>2
    <3> QED
      BY <1>3, <2>2, <3>1, <3>2
  <2> QED
    BY <2>1, <2>2
<1>5. Cardinality(S) <= limit => Cardinality(R) = Cardinality(S)
  BY <1>1, <1>4 DEF n
<1>6. Cardinality(S) <= limit => R = S
  BY <1>1, <1>5, FS_Subset
<1> QED
  BY <1>1, <1>2, <1>4, <1>6 DEF n

\* The tables' tiles, as sums over the tables.
LEMMA TilesOfAll ==
  /\ InflowStats(None).outstanding = Sum(Gross, Unpaid(Receivable))
  /\ InflowStats(None).outstandingCount = Cardinality(Unpaid(Receivable))
  /\ DashboardStats(None).exposure = Sum(Gross, Unpaid(Payable))
<1>1. \A S : Scoped(S, None) = Rows(S) /\ Unpaid(Rows(S)) = Unpaid(S)
  BY DEF Scoped, Unpaid, Rows
<1>2. /\ InflowStats(None).outstanding = Sum(Gross, Unpaid(Scoped(Receivable, None)))
      /\ InflowStats(None).outstandingCount = Cardinality(Unpaid(Scoped(Receivable, None)))
      /\ DashboardStats(None).exposure = Sum(Gross, Unpaid(Scoped(Payable, None)))
  BY DEF InflowStats, DashboardStats
<1> QED
  BY <1>1, <1>2

\* What the forecast shows to come in and go out is what it has read of the two tables:
\* all of them, if it fits, and never more.
LEMMA ForecastReads ==
  ASSUME TypeOK, NEW R \in Forecast
  PROVE  /\ Sum(In(R), Windows) \in Nat /\ Sum(Out(R), Windows) \in Nat
         /\ Sum(In(R), Windows) <= Sum(Gross, Unpaid(Receivable))
         /\ Sum(Out(R), Windows) <= Sum(Gross, Unpaid(Payable))
         /\ NetTotal(R) = Sum(In(R), Windows) - Sum(Out(R), Windows)
         /\ Cardinality(Unpaid(Invoice)) <= ForecastLimit =>
              /\ Sum(In(R), Windows) = Sum(Gross, Unpaid(Receivable))
              /\ Sum(Out(R), Windows) = Sum(Gross, Unpaid(Payable))
<1> DEFINE A == R \cap Receivable
           B == R \cap Payable
           net == [n \in Windows |-> In(R)[n] - Out(R)[n]]
<1>1. /\ Unpaid(Invoice) \in SUBSET Invoice /\ IsFiniteSet(Unpaid(Invoice))
      /\ R \subseteq Unpaid(Invoice)
      /\ Cardinality(Unpaid(Invoice)) <= ForecastLimit => R = Unpaid(Invoice)
  <2>1. Unpaid(Invoice) \in SUBSET Invoice
    BY DEF Unpaid, Rows
  <2>2. IsFiniteSet(Unpaid(Invoice)) /\ R \in Read(Unpaid(Invoice), ForecastLimit)
    BY <2>1, AmountsAreWhole DEF Forecast
  <2> QED
    BY <2>1, <2>2, Limits, ReadIsPart
<1>2. /\ A \in SUBSET Unpaid(Receivable) /\ Unpaid(Receivable) \in SUBSET Invoice
      /\ B \in SUBSET Unpaid(Payable) /\ Unpaid(Payable) \in SUBSET Invoice
      /\ Unpaid(A) = A /\ Unpaid(B) = B /\ A \in SUBSET Invoice /\ B \in SUBSET Invoice
  BY <1>1 DEF Unpaid, Rows, Invoice
<1>3. Cardinality(Unpaid(Invoice)) <= ForecastLimit =>
        A = Unpaid(Receivable) /\ B = Unpaid(Payable)
  BY <1>1 DEF Unpaid, Rows, Invoice
<1>4. /\ \A n \in Windows : In(R)[n] = Flow(A, n) /\ Out(R)[n] = Flow(B, n)
      /\ NetTotal(R) = Sum(net, Windows)
  BY DEF In, Out, NetTotal
<1>5. \A n \in Windows : Flow(A, n) \in Int /\ Flow(B, n) \in Int
  BY <1>2, AmountsAreWhole DEF Flow, Unpaid, Rows
<1>6. \A n \in Windows : Out(R)[n] \in Int /\ net[n] \in Int /\ In(R)[n] = Out(R)[n] + net[n]
  <2> SUFFICES ASSUME NEW n \in Windows
               PROVE  Out(R)[n] \in Int /\ net[n] \in Int /\ In(R)[n] = Out(R)[n] + net[n]
    OBVIOUS
  <2>1. In(R)[n] \in Int /\ Out(R)[n] \in Int
    BY <1>4, <1>5
  <2>2. net[n] = In(R)[n] - Out(R)[n]
    OBVIOUS
  <2> HIDE DEF net
  <2> QED
    BY <2>1, <2>2
<1>7. IsFiniteSet(Windows)
  BY Buckets, FS_Interval DEF Windows
<1> HIDE DEF net, A, B
<1>8. Sum(In(R), Windows) = Sum(Out(R), Windows) + Sum(net, Windows)
  BY <1>6, <1>7, SumAdds
<1>9. Sum(In(R), Windows) = Sum(Gross, A) /\ Sum(Out(R), Windows) = Sum(Gross, B)
  <2>1. Sum(In(R), Windows) = Sum(Gross, Unpaid(A)) /\ Sum(Out(R), Windows) = Sum(Gross, Unpaid(B))
    BY <1>2, <1>4, FlowsAddUp
  <2> QED
    BY <1>2, <2>1
<1>10. /\ Sum(Gross, A) <= Sum(Gross, Unpaid(Receivable)) /\ Sum(Gross, A) \in Nat
       /\ Sum(Gross, B) <= Sum(Gross, Unpaid(Payable)) /\ Sum(Gross, B) \in Nat
  BY <1>2, PartIsLess
<1>11. Sum(net, Windows) \in Int
  BY <1>6, <1>7, SumIsWhole
<1>12. NetTotal(R) = Sum(In(R), Windows) - Sum(Out(R), Windows)
  BY <1>4, <1>8, <1>9, <1>10, <1>11
<1> QED
  BY <1>3, <1>9, <1>10, <1>12

\* The net position is the difference of the two tables, as far as the forecast reads.
LEMMA NetIsNet ==
  ASSUME TypeOK, NEW R \in Forecast
  PROVE  LET owed == InflowStats(None).outstanding
             owe == DashboardStats(None).exposure
         IN  /\ Cardinality(Unpaid(Invoice)) <= ForecastLimit => NetTotal(R) = owed - owe
             /\ NetTotal(R) <= owed /\ -NetTotal(R) <= owe
<1> DEFINE in == Sum(In(R), Windows)
           out == Sum(Out(R), Windows)
           owed == Sum(Gross, Unpaid(Receivable))
           owe == Sum(Gross, Unpaid(Payable))
<1>1. /\ in \in Nat /\ out \in Nat /\ in <= owed /\ out <= owe /\ NetTotal(R) = in - out
      /\ Cardinality(Unpaid(Invoice)) <= ForecastLimit => in = owed /\ out = owe
  BY ForecastReads
<1>2. owed \in Int /\ owe \in Int
  BY AmountsAreWhole DEF Unpaid, Rows, Invoice
<1> HIDE DEF in, out, owed, owe
<1>3. /\ Cardinality(Unpaid(Invoice)) <= ForecastLimit => NetTotal(R) = owed - owe
      /\ NetTotal(R) <= owed /\ -NetTotal(R) <= owe
  BY <1>1, <1>2
<1> QED
  BY <1>3, TilesOfAll DEF owed, owe

\* What was collected of all, as far as the query reads it, is the customers' together.
LEMMA CollectedAddsUp ==
  ASSUME TypeOK, NEW R \in PaidRead(Receivable, None)
  PROVE  LET share == [p \in Parties(Receivable) |->
                         Collected(Settled(Scoped(Receivable, p))).amount]
         IN  /\ Collected(R).amount <= Sum(share, Parties(Receivable))
             /\ Cardinality(Settled(Receivable)) <= PaidLimit =>
                  /\ Collected(R).amount = Sum(share, Parties(Receivable))
                  /\ \A p \in Parties(Receivable) : \A Q \in PaidRead(Receivable, p) :
                       Collected(Q).amount = share[p]
<1> DEFINE S == Settled(Receivable)
           Of1(p) == Settled(Scoped(Receivable, p))
           M == {i \in Invoice : row[i].status = "paid" /\ FirstPaid(i) >= boot - Recent}
           L == Parties(Receivable) \cup {None}
           tile == [p \in L |-> Collected(Of1(p)).amount]
           share == [p \in Parties(Receivable) |-> Collected(Of1(p)).amount]
           whole == Cardinality(S) <= PaidLimit
<1>1. \A p : /\ Of1(p) \subseteq S /\ Of1(p) \in SUBSET Invoice /\ IsFiniteSet(Of1(p))
             /\ IsFiniteSet(S) /\ S \in SUBSET Invoice /\ Of1(None) = S
  <2>1. \A p : Of1(p) \subseteq S /\ S \in SUBSET Invoice /\ Of1(None) = S
    BY DEF Settled, Scoped, Rows, Invoice
  <2> QED
    BY <2>1, AmountsAreWhole
<1>2. ASSUME NEW p, NEW Q \in PaidRead(Receivable, p)
      PROVE  Q \subseteq Of1(p) /\ (whole => Q = Of1(p))
  <2>1. Cardinality(Of1(p)) <= Cardinality(S) /\ Cardinality(Of1(p)) \in Nat
        /\ Cardinality(S) \in Nat
    BY <1>1, FS_Subset, FS_CardinalityType
  <2>2. whole => Cardinality(Of1(p)) <= PaidLimit
    BY <2>1, Limits
  <2>3. Q \in Read(Of1(p), PaidLimit)
    BY DEF PaidRead
  <2>4. IsFiniteSet(Of1(p))
    BY <1>1
  <2> HIDE DEF Of1, S
  <2>5. Q \subseteq Of1(p) /\ (Cardinality(Of1(p)) <= PaidLimit => Q = Of1(p))
    BY <2>3, <2>4, Limits, ReadIsPart
  <2> QED
    BY <2>2, <2>5
<1>3. ASSUME NEW T, T \subseteq S PROVE Collected(T).amount = Sum(Gross, T \cap M)
  <2>1. {i \in T : FirstPaid(i) >= boot - Recent} = T \cap M
    BY <1>3 DEF Settled, Rows, Invoice
  <2> HIDE DEF M
  <2>2. Collected(T).amount = Sum(Gross, {i \in T : FirstPaid(i) >= boot - Recent})
    BY DEF Collected
  <2> QED
    BY <2>1, <2>2
<1>4. \A p \in L : tile[p] = Sum(Gross, Scoped(Receivable, p) \cap M)
  <2> SUFFICES ASSUME NEW p \in L PROVE tile[p] = Sum(Gross, Scoped(Receivable, p) \cap M)
    OBVIOUS
  <2>1. tile[p] = Sum(Gross, Of1(p) \cap M)
    BY <1>1, <1>3
  <2>2. Of1(p) \cap M = Scoped(Receivable, p) \cap M
    BY DEF Settled, Scoped, Rows
  <2> QED
    BY <2>1, <2>2
<1>5. IsFiniteSet(Parties(Receivable))
  BY AmountsAreWhole, ImageIsFinite DEF Parties, Invoice
<1>6. \A p \in Parties(Receivable) : tile[p] = share[p]
  OBVIOUS
<1>7. tile[None] = Collected(S).amount
  BY <1>1
<1> HIDE DEF tile, share, M, L
<1>8. tile[None] = Sum(tile, Parties(Receivable))
  BY <1>4, TileAddsUp DEF L
<1>9. Sum(tile, Parties(Receivable)) = Sum(share, Parties(Receivable))
  BY <1>5, <1>6, SumOfEqual
<1>10. R \subseteq S /\ (whole => R = S)
  BY <1>1, <1>2
<1>11. Collected(R).amount <= Collected(S).amount
  <2>1. Collected(R).amount = Sum(Gross, R \cap M) /\ Collected(S).amount = Sum(Gross, S \cap M)
    BY <1>3, <1>10
  <2>2. S \cap M \in SUBSET Invoice /\ R \cap M \in SUBSET (S \cap M)
    BY <1>1, <1>10
  <2> QED
    BY <2>1, <2>2, PartIsLess
<1>12. ASSUME whole, NEW p \in Parties(Receivable), NEW Q \in PaidRead(Receivable, p)
       PROVE  Collected(Q).amount = share[p]
  BY <1>2, <1>12 DEF share
<1>13. Collected(S).amount = Sum(share, Parties(Receivable))
  BY <1>7, <1>8, <1>9
<1> HIDE DEF S
<1> QED
  BY <1>10, <1>11, <1>12, <1>13 DEF share, S

\* The three filters split a list, and the overdue tile counts the overdue list.
LEMMA FiltersSplit ==
  ASSUME NEW S \in {Payable, Receivable}
  PROVE  /\ Rows(S) = UNION {Selected(S, p) : p \in {"PAID", "UNPAID", "OVERDUE"}}
         /\ \A p, q \in {"PAID", "UNPAID", "OVERDUE"} :
              p # q => Selected(S, p) \cap Selected(S, q) = {}
         /\ \A party : {i \in Unpaid(Scoped(S, party)) : PastDue(i)}
              = Scoped(Selected(S, "OVERDUE"), party)
<1>1. Rows(S) = UNION {Selected(S, p) : p \in {"PAID", "UNPAID", "OVERDUE"}}
  BY DEF Selected
<1>2. \A p, q \in {"PAID", "UNPAID", "OVERDUE"} : p # q => Selected(S, p) \cap Selected(S, q) = {}
  BY DEF Selected
<1>3. \A party : {i \in Unpaid(Scoped(S, party)) : PastDue(i)}
        = Scoped(Selected(S, "OVERDUE"), party)
  BY DEF Selected, Scoped, Unpaid, Rows
<1> QED
  BY <1>1, <1>2, <1>3

\* The numbers that the server computes apart are one number: the forecast's net
\* position and what was collected, as far as their limited queries read, the parties'
\* shares, a party's exposure on its list and page, and the lengths of the lists.
THEOREM OneNumber == Spec => []NumbersAgree
<1>1. TypeOK => NumbersAgree
  <2> SUFFICES ASSUME TypeOK PROVE NumbersAgree
    OBVIOUS
  <2>1. ASSUME NEW party
        PROVE  /\ DashboardStats(party).overdueCount
                    = Cardinality(Scoped(Selected(Payable, "OVERDUE"), party))
               /\ InflowStats(party).overdueCount
                    = Cardinality(Scoped(Selected(Receivable, "OVERDUE"), party))
    <3>1. /\ DashboardStats(party).overdueCount
               = Cardinality({i \in Unpaid(Scoped(Payable, party)) : PastDue(i)})
          /\ InflowStats(party).overdueCount
               = Cardinality({i \in Unpaid(Scoped(Receivable, party)) : PastDue(i)})
      BY DEF DashboardStats, InflowStats
    <3> QED
      BY <3>1, FiltersSplit
  <2> QED
    BY <2>1, NetIsNet, TilesAddUp, CollectedAddsUp, ExposuresAgree, FiltersSplit
       DEF NumbersAgree
<1> QED
  BY <1>1, TypeCorrect, PTL

-----------------------------------------------------------------------------
(***************************************************************************)
(* What the pages work out by themselves.                                  *)
(***************************************************************************)
\* What a page loads of a list is part of it, as many rows as it asks for, and all of it
\* if it fits.
LEMMA LoadedIsPart ==
  ASSUME NEW S \in SUBSET Invoice, NEW n \in Nat, NEW L \in Read(S, n)
  PROVE  /\ L \subseteq S /\ IsFiniteSet(S) /\ Cardinality(S) \in Nat /\ IsFiniteSet(L)
         /\ Cardinality(L) = SetsExt!Min({Cardinality(S), n})
         /\ Cardinality(L) = IF Cardinality(S) <= n THEN Cardinality(S) ELSE n
         /\ Cardinality(S) <= n => L = S
<1>1. IsFiniteSet(S)
  BY AmountsAreWhole
<1> QED
  BY <1>1, ReadIsPart, FS_Subset

\* The banner, and the line of the forecast's chart.
LEMMA BannerAgrees ==
  ASSUME TypeOK, NEW R \in Forecast
  PROVE  LET banner == Banner(None, R)
             whole == Cardinality(Unpaid(Invoice)) <= ForecastLimit
         IN  /\ whole => banner.owed - banner.owe = banner.net
             /\ Cumulative(R)[Len(Edges) + 1] = banner.net
<1>1. /\ Banner(None, R).owed = InflowStats(None).outstanding
      /\ Banner(None, R).owe = DashboardStats(None).exposure
      /\ Banner(None, R).net = NetTotal(R)
  BY DEF Banner
<1>2. Cumulative(R)[Len(Edges) + 1] = NetTotal(R)
  <2> DEFINE net == [n \in Windows |-> In(R)[n] - Out(R)[n]]
             line == [k \in Windows |-> ByWindow(R)[k].net]
  <2>1. Len(Edges) + 1 \in Windows
    BY Buckets DEF Windows
  <2>2. Cumulative(R)[Len(Edges) + 1] = Sum(line, Windows)
    BY <2>1 DEF Cumulative, Windows
  <2>3. line = net
    BY DEF ByWindow
  <2> QED
    BY <2>2, <2>3 DEF NetTotal
<1> QED
  BY <1>1, <1>2, NetIsNet

\* The tiles over the dashboard's lists.
LEMMA PanelsAgree ==
  ASSUME TypeOK, NEW vendor
  PROVE  LET tiles == Panels(vendor).payables
         IN  /\ \A L \in PendingList(vendor) :
                  /\ Cardinality(L) = SetsExt!Min({tiles.pendingCount, ListRows})
                  /\ Sum(Gross, L) <= tiles.pendingAmount
                  /\ tiles.pendingCount <= ListRows => Sum(Gross, L) = tiles.pendingAmount
             /\ \A L \in OverdueList(vendor) :
                  /\ Cardinality(L) = SetsExt!Min({tiles.overdueCount, ListRows})
                  /\ Sum(Gross, L) <= tiles.overdueAmount
                  /\ \A R \in Forecast : 3 \in Attention(vendor, R) <=> L # {}
<1> DEFINE P == Pending(vendor)
           O == Overdue(vendor)
           tiles == Panels(vendor).payables
<1>1. P \in SUBSET Invoice /\ O \in SUBSET Invoice
  BY DEF Pending, Overdue, Scoped, Selected, Rows, Invoice
<1>2. tiles = DashboardStats(vendor)
  BY DEF Panels
<1>3. tiles.pendingCount = Cardinality(P) /\ tiles.pendingAmount = Sum(Gross, P)
  BY <1>2 DEF DashboardStats, Pending
<1>4. tiles.overdueCount = Cardinality(O) /\ tiles.overdueAmount = Sum(Gross, O)
  <2>1. {i \in Unpaid(Scoped(Payable, vendor)) : PastDue(i)} = O
    BY FiltersSplit DEF Overdue
  <2> DEFINE late == {i \in Unpaid(Scoped(Payable, vendor)) : PastDue(i)}
  <2>2. /\ DashboardStats(vendor).overdueCount = Cardinality(late)
        /\ DashboardStats(vendor).overdueAmount = Sum(Gross, late)
    BY DEF DashboardStats
  <2> HIDE DEF late
  <2>3. late = O
    BY <2>1 DEF late
  <2> QED
    BY <1>2, <2>2, <2>3, Zenon
<1>5. ListRows \in Nat /\ ListRows # 0
  BY Sizes
<1> HIDE DEF P, O
<1>6. ASSUME NEW L \in PendingList(vendor)
      PROVE  /\ Cardinality(L) = SetsExt!Min({tiles.pendingCount, ListRows})
             /\ Sum(Gross, L) <= tiles.pendingAmount
             /\ tiles.pendingCount <= ListRows => Sum(Gross, L) = tiles.pendingAmount
  <2>1. L \in Read(P, ListRows)
    BY DEF PendingList, Loaded, P
  <2>2. /\ L \in SUBSET P /\ Cardinality(L) = SetsExt!Min({Cardinality(P), ListRows})
        /\ Cardinality(P) <= ListRows => L = P
    BY <1>1, <1>5, <2>1, LoadedIsPart
  <2>3. Sum(Gross, L) <= Sum(Gross, P)
    BY <1>1, <2>2, PartIsLess
  <2> QED
    BY <1>3, <2>2, <2>3
<1>7. ASSUME NEW L \in OverdueList(vendor)
      PROVE  /\ Cardinality(L) = SetsExt!Min({tiles.overdueCount, ListRows})
             /\ Sum(Gross, L) <= tiles.overdueAmount
             /\ \A R \in Forecast : 3 \in Attention(vendor, R) <=> L # {}
  <2>1. L \in Read(O, ListRows)
    BY DEF OverdueList, Loaded, O
  <2>2. /\ L \in SUBSET O /\ Cardinality(L) = SetsExt!Min({Cardinality(O), ListRows})
        /\ Cardinality(L) = IF Cardinality(O) <= ListRows THEN Cardinality(O) ELSE ListRows
        /\ IsFiniteSet(L) /\ Cardinality(O) \in Nat
    BY <1>1, <1>5, <2>1, LoadedIsPart
  <2>3. Sum(Gross, L) <= Sum(Gross, O)
    BY <1>1, <2>2, PartIsLess
  <2>4. Cardinality(O) > 0 <=> Cardinality(L) # 0
    BY <1>5, <2>2
  <2>5. Cardinality(L) # 0 <=> L # {}
    BY <2>2, FS_EmptySet
  <2>6. ASSUME NEW R PROVE 3 \in Attention(vendor, R) <=> DashboardStats(vendor).overdueCount > 0
    BY DEF Attention
  <2> QED
    BY <1>2, <1>4, <2>2, <2>3, <2>4, <2>5, <2>6
<1> QED
  BY <1>6, <1>7

\* A vendor is no customer: what it is part of are payables, and a customer's are
\* receivables.
LEMMA PartiesAreApart ==
  ASSUME TypeOK
  PROVE  /\ \A p \in Parties(Payable) : Of(p) = Scoped(Payable, p) /\ Scoped(Receivable, p) = {}
         /\ \A p \in Parties(Receivable) : Of(p) = Scoped(Receivable, p) /\ Scoped(Payable, p) = {}
BY Somebodys DEF Parties, Of, Scoped, Rows, Invoice

\* The forecast's tiles and the customers' bars.
LEMMA ForecastAgrees ==
  ASSUME TypeOK, NEW R \in Forecast, NEW open \in OpenInvoices
  PROVE  LET tiles == ForecastTiles(R, open)
             owed == InflowStats(None)
             listed == \A payment \in {"UNPAID", "OVERDUE"} :
                         Cardinality(Selected(Receivable, payment)) <= ListRows
         IN  /\ tiles.count <= owed.outstandingCount /\ tiles.in <= owed.outstanding
             /\ tiles.out <= DashboardStats(None).exposure
             /\ tiles.atRisk <= owed.outstanding
             /\ listed => tiles.count = owed.outstandingCount
             /\ Cardinality(Unpaid(Invoice)) <= ForecastLimit =>
                  /\ tiles.in = owed.outstanding /\ tiles.out = DashboardStats(None).exposure
                  /\ tiles.atRisk <= tiles.in
             /\ \A party \in Parties(Receivable) :
                  LET bar == IF party \in DOMAIN CustomerBars(open)
                               THEN CustomerBars(open)[party].outstanding ELSE 0
                  IN  bar <= Exposure(party) /\ (listed => bar = Exposure(party))
<1> DEFINE tiles == ForecastTiles(R, open)
           owed == InflowStats(None)
           U == Unpaid(Receivable)
           risky == {i \in open : Risk[i] = 2}
           listed == \A payment \in {"UNPAID", "OVERDUE"} :
                       Cardinality(Selected(Receivable, payment)) <= ListRows
<1>1. /\ Selected(Receivable, "UNPAID") \cup Selected(Receivable, "OVERDUE") = U
      /\ U \in SUBSET Invoice /\ IsFiniteSet(U)
      /\ \A payment : Selected(Receivable, payment) \in SUBSET Invoice
  <2>1. /\ Selected(Receivable, "UNPAID") \cup Selected(Receivable, "OVERDUE") = U
        /\ U \in SUBSET Invoice /\ \A payment : Selected(Receivable, payment) \in SUBSET Invoice
    BY DEF Selected, Unpaid, Rows, Invoice
  <2> QED
    BY <2>1, AmountsAreWhole
<1>2. open \in SUBSET U /\ (listed => open = U)
  <2>1. ASSUME NEW payment, NEW L \in OpenList(payment)
        PROVE  /\ L \subseteq Selected(Receivable, payment)
               /\ Cardinality(Selected(Receivable, payment)) <= ListRows =>
                    L = Selected(Receivable, payment)
    <3>1. L \in Read(Selected(Receivable, payment), ListRows)
      BY DEF OpenList, Loaded
    <3>2. ListRows \in Nat
      BY Sizes
    <3> QED
      BY <1>1, <3>1, <3>2, LoadedIsPart
  <2>2. PICK A \in OpenList("UNPAID"), B \in OpenList("OVERDUE") : open = A \cup B
    BY DEF OpenInvoices
  <2> QED
    BY <1>1, <2>1, <2>2
<1>3. /\ tiles.in = Sum(In(R), Windows) /\ tiles.out = Sum(Out(R), Windows)
      /\ tiles.atRisk = Sum(Gross, risky) /\ tiles.count = Cardinality(open)
  BY DEF ForecastTiles
<1>4. /\ owed.outstanding = Sum(Gross, U) /\ owed.outstandingCount = Cardinality(U)
      /\ DashboardStats(None).exposure = Sum(Gross, Unpaid(Payable))
  BY TilesOfAll
<1>5. Sum(Gross, risky) <= Sum(Gross, U)
  <2>1. risky \in SUBSET U
    BY <1>2
  <2> QED
    BY <1>1, <2>1, PartIsLess
<1>6. Cardinality(open) <= Cardinality(U)
  BY <1>1, <1>2, FS_Subset
<1>7. /\ Sum(In(R), Windows) <= Sum(Gross, U)
      /\ Sum(Out(R), Windows) <= Sum(Gross, Unpaid(Payable))
      /\ Cardinality(Unpaid(Invoice)) <= ForecastLimit =>
           /\ Sum(In(R), Windows) = Sum(Gross, U)
           /\ Sum(Out(R), Windows) = Sum(Gross, Unpaid(Payable))
  BY ForecastReads
<1>8. ASSUME NEW party \in Parties(Receivable)
      PROVE  LET bar == IF party \in DOMAIN CustomerBars(open)
                          THEN CustomerBars(open)[party].outstanding ELSE 0
             IN  bar <= Exposure(party) /\ (listed => bar = Exposure(party))
  <2> DEFINE T == {i \in open : Owner[i] = party}
             bar == IF party \in DOMAIN CustomerBars(open)
                      THEN CustomerBars(open)[party].outstanding ELSE 0
             V == Unpaid(Of(party))
  <2>1. V = {i \in U : Owner[i] = party} /\ V \in SUBSET Invoice
    BY PartiesAreApart, Somebodys DEF Unpaid, Scoped, Rows, Parties, Invoice
  <2>2. T \in SUBSET V /\ (listed => T = V)
    BY <1>2, <2>1
  <2>3. Exposure(party) = Sum(Gross, V)
    BY DEF Exposure
  <2>4. bar = Sum(Gross, T)
    <3>1. DOMAIN CustomerBars(open) = Parties(open)
      BY DEF CustomerBars
    <3>2. CASE party \in Parties(open)
      BY <3>1, <3>2 DEF CustomerBars
    <3>3. CASE party \notin Parties(open)
      <4>1. T = {}
        BY <3>3 DEF Parties
      <4> QED
        BY <3>1, <3>3, <4>1, SumOfNone
    <3> QED
      BY <3>2, <3>3
  <2> HIDE DEF T, V, bar, listed
  <2>5. Sum(Gross, T) <= Sum(Gross, V)
    BY <2>1, <2>2, PartIsLess
  <2>6. bar <= Exposure(party) /\ (listed => bar = Exposure(party))
    BY <2>2, <2>3, <2>4, <2>5
  <2> QED
    BY <2>6 DEF bar
<1> HIDE DEF tiles, owed, U, risky, listed
<1>9. /\ tiles.count <= owed.outstandingCount /\ tiles.in <= owed.outstanding
      /\ tiles.out <= DashboardStats(None).exposure
      /\ tiles.atRisk <= owed.outstanding
      /\ listed => tiles.count = owed.outstandingCount
      /\ Cardinality(Unpaid(Invoice)) <= ForecastLimit =>
           /\ tiles.in = owed.outstanding /\ tiles.out = DashboardStats(None).exposure
           /\ tiles.atRisk <= tiles.in
  BY <1>2, <1>3, <1>4, <1>5, <1>6, <1>7
<1> QED
  BY <1>8, <1>9 DEF tiles, owed, listed

\* The vendors' and customers' pages, and the open amount of a vendor's history.
LEMMA PartiesAgree ==
  ASSUME TypeOK
  PROVE  /\ \A party \in Parties(Payable) : \A H \in HistoryList(party) :
              LET open == HistoryPage(H).stats.open
              IN  /\ open <= ExposureBars[party]
                  /\ Cardinality(Of(party)) <= HistoryRows => open = ExposureBars[party]
         /\ \A party \in Parties(Payable) : \A at \in PaymentsRead(party) :
              \A H \in Loaded(Scoped(Payable, party), "invoiceDate", "DESC", HistoryRows) :
                LET page == VendorPage(party, at, H)
                IN  /\ page.tiles.exposure = page.stats.exposure
                    /\ Cardinality(page.history) = SetsExt!Min({page.stats.count, HistoryRows})
         /\ \A party \in Parties(Receivable) : \A at \in PaymentsRead(party) :
              \A H \in Loaded(Scoped(Receivable, party), "invoiceDate", "DESC", HistoryRows) :
                LET page == CustomerPage(party, at, H)
                IN  Cardinality(page.history) = SetsExt!Min({page.stats.count, HistoryRows})
<1>0. /\ Parties(Payable) \subseteq Parties(Invoice) /\ HistoryRows \in Nat
      /\ \A p : \A S \in {Payable, Receivable} : Scoped(S, p) \in SUBSET Invoice
  BY Sizes DEF Parties, Invoice, Scoped, Rows
<1>1. ASSUME NEW party \in Parties(Payable), NEW H \in HistoryList(party)
      PROVE  LET open == HistoryPage(H).stats.open
             IN  /\ open <= ExposureBars[party]
                 /\ Cardinality(Of(party)) <= HistoryRows => open = ExposureBars[party]
  <2> DEFINE U == {i \in H : EffectivePayment(i) # "PAID"}
  <2>1. /\ H \subseteq Of(party)
        /\ Cardinality(Of(party)) <= HistoryRows => H = Of(party)
    <3>1. H \in Read(Of(party), HistoryRows) /\ Of(party) \in SUBSET Invoice
      BY <1>0, PartiesAreApart DEF HistoryList, Loaded
    <3> QED
      BY <1>0, <3>1, LoadedIsPart
  <2>2. \A i \in Of(party) : EffectivePayment(i) # "PAID" <=> i \in Unpaid(Of(party))
    BY LabelsAreStatus DEF Of, Unpaid, Rows
  <2>3. /\ U \in SUBSET Unpaid(Of(party)) /\ Unpaid(Of(party)) \in SUBSET Invoice
        /\ H = Of(party) => U = Unpaid(Of(party))
    BY <2>1, <2>2 DEF Unpaid, Of, Rows
  <2>4. HistoryPage(H).stats.open = Sum(Gross, U)
    BY DEF HistoryPage, HistoryStats, OpenAmount
  <2>5. ExposureBars[party] = Sum(Gross, Unpaid(Of(party)))
    BY DEF ExposureBars, Exposure
  <2> HIDE DEF U
  <2>6. Sum(Gross, U) <= Sum(Gross, Unpaid(Of(party)))
    BY <2>3, PartIsLess
  <2> QED
    BY <2>1, <2>3, <2>4, <2>5, <2>6
<1>2. ASSUME NEW party \in Parties(Payable), NEW at,
             NEW H \in Loaded(Scoped(Payable, party), "invoiceDate", "DESC", HistoryRows)
      PROVE  LET page == VendorPage(party, at, H)
             IN  /\ page.tiles.exposure = page.stats.exposure
                 /\ Cardinality(page.history) = SetsExt!Min({page.stats.count, HistoryRows})
  <2>1. /\ VendorPage(party, at, H).tiles = DashboardStats(party)
        /\ VendorPage(party, at, H).stats = PartyStats(party, at)
        /\ VendorPage(party, at, H).history = H
    BY DEF VendorPage
  <2>2. /\ PartyStats(party, at).exposure = TotalExposure(party)
        /\ PartyStats(party, at).count = Cardinality(Of(party))
    BY DEF PartyStats
  <2>3. DashboardStats(party).exposure = TotalExposure(party)
    <3>1. DashboardStats(party).exposure = Sum(Gross, Unpaid(Scoped(Payable, party)))
      BY DEF DashboardStats
    <3>2. TotalExposure(party) = Sum(Gross, Unpaid(Of(party)))
      BY <1>0, ExposuresAgree DEF Exposure
    <3> QED
      BY <3>1, <3>2, PartiesAreApart
  <2>4. Scoped(Payable, party) \in SUBSET Invoice /\ H \in Read(Scoped(Payable, party), HistoryRows)
    BY <1>0 DEF Loaded
  <2>5. Cardinality(H) = SetsExt!Min({Cardinality(Scoped(Payable, party)), HistoryRows})
    BY <1>0, <2>4, LoadedIsPart
  <2> QED
    BY <2>1, <2>2, <2>3, <2>5, PartiesAreApart
<1>3. ASSUME NEW party \in Parties(Receivable), NEW at,
             NEW H \in Loaded(Scoped(Receivable, party), "invoiceDate", "DESC", HistoryRows)
      PROVE  LET page == CustomerPage(party, at, H)
             IN  Cardinality(page.history) = SetsExt!Min({page.stats.count, HistoryRows})
  <2>1. /\ CustomerPage(party, at, H).stats = PartyStats(party, at)
        /\ CustomerPage(party, at, H).history = H
    BY DEF CustomerPage
  <2>2. PartyStats(party, at).count = Cardinality(Of(party))
    BY DEF PartyStats
  <2>3. /\ Scoped(Receivable, party) \in SUBSET Invoice
        /\ H \in Read(Scoped(Receivable, party), HistoryRows)
    BY <1>0 DEF Loaded
  <2>4. Cardinality(H) = SetsExt!Min({Cardinality(Scoped(Receivable, party)), HistoryRows})
    BY <1>0, <2>3, LoadedIsPart
  <2> QED
    BY <2>1, <2>2, <2>4, PartiesAreApart
<1> QED
  BY <1>1, <1>2, <1>3

-----------------------------------------------------------------------------
(***************************************************************************)
(* Pages of a list.                                                        *)
(***************************************************************************)
\* Where a row stands in a list of S by due dates.
Rank(S, i) == Cardinality({j \in S : row[j].due <= row[i].due})

Apart(S) == \A i, j \in S : i # j => row[i].due # row[j].due

\* Whichever answer the database gives, a row whose date is its own stands there.
LEMMA RowsStandAtTheirRank ==
  ASSUME TypeOK, NEW S \in SUBSET Rows(Invoice), Apart(S), NEW q \in Listings(S, "dueDate")
  PROVE  /\ q \in [1..Cardinality(S) -> S]
         /\ \A i \in S : Rank(S, i) \in 1..Cardinality(S) /\ q[Rank(S, i)] = i
         /\ \A m \in 1..Cardinality(S) : Rank(S, q[m]) = m
<1> DEFINE D == 1..Cardinality(S)
<1>1. IsFiniteSet(S) /\ Cardinality(S) \in Nat
  BY AmountsAreWhole, FS_CardinalityType DEF Rows
<1>2. q \in [D -> S] /\ \A m, n \in D : m # n => q[m] # q[n]
  <2>1. SeqsExt!Cardinality(S) = Cardinality(S)
    BY DEF Cardinality, SeqsExt!Cardinality
  <2> QED
    BY <2>1 DEF Listings, SeqsExt!SetToSeqs
<1>3. \A m, n \in D : m < n => row[q[m]].due <= row[q[n]].due
  <2>1. \A m, n \in DOMAIN q : m < n => SortKey("dueDate", q[m]) <= SortKey("dueDate", q[n])
    BY DEF Listings
  <2>2. \A i : SortKey("dueDate", i) = row[i].due
    BY DEF SortKey
  <2> QED
    BY <1>2, <2>1, <2>2
<1>4. \A i \in S : row[i].due \in Nat
  BY Data DEF Rows, TypeOK, Row, Day
<1>5. \A i \in S : \E m \in D : q[m] = i
  <2>1. q \in Injection(D, S)
    BY <1>2 DEF Injection, IsInjective
  <2>2. IsFiniteSet(D) /\ Cardinality(D) = Cardinality(S)
    BY <1>1, FS_Interval
  <2>3. q \in Surjection(D, S)
    BY <1>1, <2>1, <2>2, FS_Injection
  <2> QED
    BY <2>3 DEF Surjection
<1>6. ASSUME NEW m \in D PROVE Rank(S, q[m]) = m
  <2> DEFINE B == {j \in S : row[j].due <= row[q[m]].due}
             g == [k \in 1..m |-> q[k]]
  <2>1. ASSUME NEW k \in 1..m PROVE q[k] \in B
    <3>1. k \in D /\ (k = m \/ k < m)
      BY <1>1
    <3> QED
      BY <1>2, <1>3, <1>4, <3>1
  <2>2. ASSUME NEW j \in B PROVE \E k \in 1..m : q[k] = j
    <3>1. PICK k \in D : q[k] = j
      BY <1>5
    <3>2. k \notin 1..m => m < k
      BY <1>1, <3>1
    <3>3. m < k => row[j].due = row[q[m]].due
      BY <1>2, <1>3, <1>4, <3>1
    <3>4. m < k => j = q[m]
      BY <1>2, <3>3 DEF Apart
    <3> QED
      BY <1>1, <3>1, <3>2, <3>4
  <2>3. g \in Bijection(1..m, B)
    <3>1. g \in [1..m -> B]
      BY <2>1
    <3>2. \A k, l \in 1..m : g[k] = g[l] => k = l
      BY <1>1, <1>2
    <3>3. \A j \in B : \E k \in 1..m : g[k] = j
      BY <2>2
    <3> HIDE DEF g, B
    <3> QED
      BY <3>1, <3>2, <3>3 DEF Bijection, Injection, Surjection, IsInjective
  <2> HIDE DEF B, g
  <2>4. m \in Nat /\ ExistsBijection(1..m, B)
    BY <2>3 DEF ExistsBijection
  <2>5. Cardinality(B) = m
    BY <2>4, FS_CountingElements
  <2> QED
    BY <2>5 DEF Rank, B
<1>7. ASSUME NEW i \in S PROVE Rank(S, i) \in D /\ q[Rank(S, i)] = i
  BY <1>5, <1>6
<1> QED
  BY <1>2, <1>6, <1>7

\* A list is on its pages: each of its places is on one.
LEMMA OnOnePage ==
  ASSUME NEW n \in Nat, NEW r \in 1..n
  PROVE  \E p \in PagesFor(n) : \A k \in PagesFor(n) :
           r \in ((k - 1) * PageSize + 1)..SetsExt!Min({k * PageSize, n}) <=> k = p
<1> DEFINE p == (r - 1) \div PageSize + 1
<1>1. PageSize \in Nat \ {0}
  BY Sizes
<1>2. p \in Int /\ PageSize * (p - 1) <= r - 1 /\ r - 1 < PageSize * (p - 1) + PageSize
  BY <1>1
<1> DEFINE y == (n + PageSize - 1) \div PageSize
<1>3. PagesFor(n) = 1..y
  BY DEF PagesFor
<1>4. y \in Int /\ PageSize * y <= n + PageSize - 1 /\ n + PageSize - 1 < PageSize * y + PageSize
  BY <1>1
<1> HIDE DEF p, y
<1>5. p >= 1
  BY <1>1, <1>2
<1>6. p <= y
  BY <1>1, <1>2, <1>4
<1>7. ASSUME NEW k \in Nat \ {0}
      PROVE  r \in ((k - 1) * PageSize + 1)..SetsExt!Min({k * PageSize, n}) <=> k = p
  <2>1. k * PageSize \in Nat /\ (k - 1) * PageSize \in Nat /\ k * PageSize = PageSize * k
        /\ (k - 1) * PageSize = PageSize * k - PageSize
    BY <1>1
  <2>2. SetsExt!Min({k * PageSize, n}) = IF k * PageSize <= n THEN k * PageSize ELSE n
    BY <2>1 DEF SetsExt!Min
  <2>3. r \in ((k - 1) * PageSize + 1)..SetsExt!Min({k * PageSize, n})
          <=> PageSize * k - PageSize < r /\ r <= PageSize * k
    BY <1>1, <2>1, <2>2
  <2>4. PageSize * k - PageSize < r /\ r <= PageSize * k <=> k = p
    BY <1>1, <1>2
  <2> QED
    BY <2>3, <2>4
<1>8. p \in PagesFor(n) /\ \A k \in PagesFor(n) : k \in Nat \ {0}
  BY <1>2, <1>3, <1>4, <1>5, <1>6
<1> QED
  BY <1>7, <1>8, Zenon

\* Whatever answers the pages are cut from, each row of a list is on one of them.
LEMMA RowsAreOnOnePage ==
  ASSUME TypeOK, NEW S \in SUBSET Rows(Invoice), Apart(S),
         NEW a \in [PagesFor(Cardinality(S)) -> Listings(S, "dueDate")], NEW i \in S
  PROVE  Cardinality({p \in DOMAIN a : i \in SeqsExt!ToSet(PageOf(a[p], p))}) = 1
<1> DEFINE n == Cardinality(S)
           first(p) == (p - 1) * PageSize + 1
           last(p) == SetsExt!Min({p * PageSize, n})
<1>1. n \in Nat
  BY AmountsAreWhole, FS_CardinalityType DEF Rows
<1>2. \A p \in PagesFor(n) : p \in Nat \ {0}
  BY Sizes, <1>1 DEF PagesFor
<1>3. ASSUME NEW p \in PagesFor(n)
      PROVE  i \in SeqsExt!ToSet(PageOf(a[p], p)) <=> Rank(S, i) \in first(p)..last(p)
  <2> DEFINE q == a[p]
             f == first(p)
             l == last(p)
             page == SubSeq(q, f, l)
  <2>1. /\ q \in [1..n -> S] /\ Rank(S, i) \in 1..n /\ q[Rank(S, i)] = i
        /\ \A m \in 1..n : Rank(S, q[m]) = m
    BY RowsStandAtTheirRank
  <2>2. f \in Nat \ {0} /\ l \in Nat /\ l <= n
    <3>1. (p - 1) * PageSize \in Nat /\ p * PageSize \in Nat
      BY <1>2, Sizes
    <3>2. last(p) = IF p * PageSize <= n THEN p * PageSize ELSE n
      BY <1>1, <3>1 DEF SetsExt!Min
    <3> QED
      BY <1>1, <3>1, <3>2
  <2>3. Len(q) = n
    BY <1>1, <2>1
  <2>4. PageOf(a[p], p) = page
    BY <2>3 DEF PageOf
  <2> HIDE DEF n, f, l, q, first, last
  <2>5. /\ Len(page) = IF f <= l THEN l - f + 1 ELSE 0
        /\ page \in Seq(S) /\ \A k \in 1..(l - f + 1) : page[k] = q[f + k - 1]
    <3>1. \A k \in f..l : q[k] \in S
      BY <1>1, <2>1, <2>2
    <3> QED
      BY <2>2, <3>1, SubSeqProperties
  <2> HIDE DEF page
  <2>6. DOMAIN page = 1..Len(page)
    BY <2>5
  <2>7. ASSUME NEW k \in DOMAIN page PROVE Rank(S, page[k]) = f + k - 1 /\ f + k - 1 \in f..l
    <3>1. k \in 1..(l - f + 1)
      BY <2>2, <2>5, <2>6
    <3>2. f + k - 1 \in f..l /\ f + k - 1 \in 1..n
      BY <1>1, <2>2, <3>1
    <3>3. page[k] = q[f + k - 1]
      BY <2>5, <3>1
    <3> QED
      BY <2>1, <3>2, <3>3
  <2>8. ASSUME Rank(S, i) \in f..l PROVE \E k \in DOMAIN page : page[k] = i
    <3>1. Rank(S, i) - f + 1 \in 1..(l - f + 1) /\ f + (Rank(S, i) - f + 1) - 1 = Rank(S, i)
      BY <2>1, <2>2, <2>8
    <3>2. page[Rank(S, i) - f + 1] = q[f + (Rank(S, i) - f + 1) - 1]
      BY <2>5, <3>1
    <3>3. page[Rank(S, i) - f + 1] = i /\ Rank(S, i) - f + 1 \in DOMAIN page
      BY <2>1, <2>2, <2>5, <2>6, <3>1, <3>2
    <3> QED
      BY <3>3
  <2>9. SeqsExt!ToSet(page) = {page[k] : k \in DOMAIN page}
    BY DEF SeqsExt!ToSet
  <2> QED
    BY <2>4, <2>7, <2>8, <2>9 DEF f, l
<1> HIDE DEF n, first, last
<1>4. Rank(S, i) \in 1..n
  <2>1. \E p : p \in PagesFor(n)
    <3>1. IsFiniteSet(S)
      BY AmountsAreWhole DEF Rows
    <3>2. n # 0
      BY <3>1, FS_EmptySet DEF n
    <3>3. 1 \in 1..n
      BY <1>1, <3>2
    <3> QED
      BY <1>1, <3>3, OnOnePage
  <2>2. PICK q \in Listings(S, "dueDate") : TRUE
    BY <2>1 DEF n
  <2> QED
    BY <2>2, RowsStandAtTheirRank DEF n
<1>5. PICK p \in PagesFor(n) : \A k \in PagesFor(n) : Rank(S, i) \in first(k)..last(k) <=> k = p
  BY <1>1, <1>4, OnOnePage DEF first, last
<1>6. DOMAIN a = PagesFor(n)
  BY DEF n
<1>7. {k \in DOMAIN a : i \in SeqsExt!ToSet(PageOf(a[k], k))} = {p}
  BY <1>3, <1>5, <1>6
<1> QED
  BY <1>7, FS_Singleton

\* Whichever rows the limited queries return: the dashboard, the forecast, the charts, the
\* parties' pages and the pages of the lists show what the server says, or less of it.
THEOREM ScreensAgree == Spec => []PagesAgree
<1>1. TypeOK => PagesAgree
  <2> SUFFICES ASSUME TypeOK PROVE PagesAgree
    OBVIOUS
  <2>1. ASSUME NEW payment \in {None, "PAID", "UNPAID", "OVERDUE"}
        PROVE  LET S == InvoicesPage(payment, None)
                   answers == Listings(S, "dueDate")
               IN  (\A i, j \in S : i # j => row[i].due # row[j].due) =>
                     \A a \in [PagesFor(Cardinality(S)) -> answers] : \A i \in S :
                       Cardinality({p \in DOMAIN a : i \in SeqsExt!ToSet(PageOf(a[p], p))}) = 1
    <3> DEFINE S == InvoicesPage(payment, None)
    <3>1. S \in SUBSET Rows(Invoice)
      BY DEF InvoicesPage, Scoped, Selected, Rows, Invoice
    <3> HIDE DEF S
    <3>2. Apart(S) => \A a \in [PagesFor(Cardinality(S)) -> Listings(S, "dueDate")] : \A i \in S :
                        Cardinality({p \in DOMAIN a : i \in SeqsExt!ToSet(PageOf(a[p], p))}) = 1
      BY <3>1, RowsAreOnOnePage
    <3> QED
      BY <3>2 DEF Apart, S
  <2> QED
    BY <2>1, BannerAgrees, PanelsAgree, ForecastAgrees, PartiesAgree DEF PagesAgree
<1> QED
  BY <1>1, TypeCorrect, PTL

-----------------------------------------------------------------------------
(***************************************************************************)
(* Means and shares, and a vendor's history.                               *)
(***************************************************************************)
\* Rounded is the nearest whole number, halves up.
LEMMA RoundedIs ==
  ASSUME NEW a \in Int, NEW n \in Nat \ {0}
  PROVE  /\ Rounded(a, n) \in Int
         /\ 2 * n * Rounded(a, n) <= 2 * a + n
         /\ 2 * a + n < 2 * n * Rounded(a, n) + 2 * n
<1> DEFINE b == 2 * a + n
           d == 2 * n
<1>1. b \in Int /\ d \in Nat \ {0}
  OBVIOUS
<1>2. \A x \in Int, y \in Nat \ {0} :
        x \div y \in Int /\ y * (x \div y) <= x /\ x < y * (x \div y) + y
  OBVIOUS
<1>3. b \div d \in Int /\ d * (b \div d) <= b /\ b < d * (b \div d) + d
  BY <1>1, <1>2
<1> QED
  BY <1>3 DEF Rounded

\* It is no more, and no less, than a number on whose side the fraction lies.
LEMMA RoundedBounds ==
  ASSUME NEW a \in Int, NEW n \in Nat \ {0}, NEW x \in Int
  PROVE  /\ 2 * n * x <= 2 * a + n => x <= Rounded(a, n)
         /\ 2 * a + n < 2 * n * x + 2 * n => Rounded(a, n) <= x
<1> DEFINE r == Rounded(a, n)
           d == 2 * n
<1>1. r \in Int /\ d \in Nat \ {0} /\ d * r <= 2 * a + n /\ 2 * a + n < d * r + d
  BY RoundedIs
<1> HIDE DEF r
<1>2. d * (r + 1) = d * r + d /\ d * (x + 1) = d * x + d
  BY <1>1
<1>3. \A u, v \in Int : d * u < d * v => u < v
  BY <1>1
<1> HIDE DEF d
<1>4. ASSUME d * x <= 2 * a + n PROVE x <= r
  <2>1. d * x < d * (r + 1)
    BY <1>1, <1>2, <1>4
  <2> QED
    BY <1>1, <1>3, <2>1
<1>5. ASSUME 2 * a + n < d * x + d PROVE r <= x
  <2>1. d * r < d * (x + 1)
    BY <1>1, <1>2, <1>5
  <2> QED
    BY <1>1, <1>3, <2>1
<1> QED
  BY <1>4, <1>5 DEF d, r

\* What is no less is rounded to no less.
LEMMA RoundedIsMonotone ==
  ASSUME NEW a \in Int, NEW b \in Int, a <= b, NEW n \in Nat \ {0}
  PROVE  Rounded(a, n) <= Rounded(b, n)
<1>1. 2 * n * Rounded(a, n) <= 2 * a + n /\ Rounded(a, n) \in Int
  BY RoundedIs
<1>2. 2 * n * Rounded(a, n) <= 2 * b + n
  BY <1>1
<1> QED
  BY <1>1, <1>2, RoundedBounds

-----------------------------------------------------------------------------
\* The bills among the rows H that a page has loaded, and the days they were late.
LEMMA BillsAreWhole ==
  ASSUME IInv, NEW H \in SUBSET Invoice
  PROVE  /\ IsFiniteSet(Settled(H)) /\ Cardinality(Settled(H)) \in Nat
         /\ Cardinality(Settled(H)) = 0 <=> Settled(H) = {}
         /\ \A i \in Settled(H) :
              /\ row[i].due \in Nat /\ row[i].paid \subseteq Nat
              /\ FirstPaid(i) \in row[i].paid /\ \A e \in row[i].paid : FirstPaid(i) <= e
              /\ Lateness(H)[i] = FirstPaid(i) - row[i].due
              /\ Lateness(H)[i] \in Int
<1>1. IsFiniteSet(Settled(H))
  BY Data, FS_Subset DEF Settled, Rows
<1>2. ASSUME NEW i \in Settled(H)
      PROVE  /\ row[i].paid \subseteq Nat /\ row[i].due \in Nat
             /\ FirstPaid(i) \in row[i].paid /\ \A e \in row[i].paid : FirstPaid(i) <= e
  <2>1. i \in Rows(Invoice) /\ row[i].status = "paid"
    BY DEF Settled, Rows
  <2> QED
    BY <2>1, FirstPaymentIsFirst
<1>3. ASSUME NEW i \in Settled(H) PROVE Lateness(H)[i] = FirstPaid(i) - row[i].due
  BY DEF Lateness, Earliest
<1>4. ASSUME NEW i \in Settled(H) PROVE FirstPaid(i) \in Nat /\ Lateness(H)[i] \in Int
  BY <1>2, <1>3
<1>5. Cardinality(Settled(H)) \in Nat /\ (Cardinality(Settled(H)) = 0 <=> Settled(H) = {})
  BY <1>1, FS_CardinalityType, FS_EmptySet
<1> QED
  BY <1>1, <1>2, <1>3, <1>4, <1>5

\* A mean is the rounded share of the sum, in tenths.
LEMMA MeanIs ==
  ASSUME NEW S, IsFiniteSet(S), NEW f, \A x \in S : f[x] \in Int
  PROVE  /\ Mean(f, S) \in Int
         /\ S # {} => /\ Mean(f, S) = Rounded(10 * Sum(f, S), Cardinality(S))
                      /\ Cardinality(S) \in Nat \ {0} /\ Sum(f, S) \in Int
<1>1. Sum(f, S) \in Int
  BY SumIsWhole
<1>2. S # {} => Cardinality(S) \in Nat \ {0}
  BY FS_CardinalityType, FS_EmptySet
<1>3. 10 * Sum(f, S) \in Int
  BY <1>1
<1>4. S # {} => Rounded(10 * Sum(f, S), Cardinality(S)) \in Int
  BY <1>2, <1>3, RoundedIs
<1> QED
  BY <1>1, <1>2, <1>4 DEF Mean

\* Longer delays have no shorter mean.
LEMMA MeanIsMonotone ==
  ASSUME NEW S, IsFiniteSet(S), NEW f, NEW g,
         \A x \in S : f[x] \in Int /\ g[x] \in Int /\ f[x] <= g[x]
  PROVE  Mean(f, S) <= Mean(g, S)
<1>1. CASE S = {}
  BY <1>1 DEF Mean
<1>2. CASE S # {}
  <2>1. /\ Mean(f, S) = Rounded(10 * Sum(f, S), Cardinality(S)) /\ Sum(f, S) \in Int
        /\ Mean(g, S) = Rounded(10 * Sum(g, S), Cardinality(S)) /\ Sum(g, S) \in Int
        /\ Cardinality(S) \in Nat \ {0}
    BY <1>2, MeanIs
  <2>2. Sum(f, S) <= Sum(g, S)
    BY SumIsMonotone
  <2>3. 10 * Sum(f, S) <= 10 * Sum(g, S) /\ 10 * Sum(f, S) \in Int /\ 10 * Sum(g, S) \in Int
    BY <2>1, <2>2
  <2> QED
    BY <2>1, <2>3, RoundedIsMonotone
<1> QED
  BY <1>1, <1>2

\* More of them are no lesser share.
LEMMA PercentIsMonotone ==
  ASSUME NEW m \in Nat, NEW n \in Nat, m <= n, NEW all \in Nat
  PROVE  Percent(m, all) <= Percent(n, all)
<1>1. CASE all = 0
  BY <1>1 DEF Percent
<1>2. CASE all # 0
  BY <1>2, RoundedIsMonotone DEF Percent
<1> QED
  BY <1>1, <1>2

\* A part has no greater mean than S, and a part no smaller one.
Between(f, S, K, part) ==
  \E q, r \in K : Mean(f, part[q]) <= Mean(f, S) /\ Mean(f, S) <= Mean(f, part[r])

\* The mean of S lies between those of the parts it falls into.
LEMMA MeanLiesBetween ==
  ASSUME NEW S, IsFiniteSet(S), S # {}, NEW f, \A x \in S : f[x] \in Int,
         NEW K, IsFiniteSet(K), NEW part,
         \A k \in K : part[k] \subseteq S /\ part[k] # {},
         \A k, l \in K : k # l => part[k] \cap part[l] = {},
         \A x \in S : \E k \in K : x \in part[k]
  PROVE  Between(f, S, K, part)
<1> DEFINE M == Mean(f, S)
           N == Cardinality(S)
           T == Sum(f, S)
           s == [k \in K |-> Sum(f, part[k])]
           n == [k \in K |-> Cardinality(part[k])]
           s20 == [k \in K |-> 20 * s[k]]
           below == [k \in K |-> (2 * M - 1) * n[k]]
           above == [k \in K |-> (2 * M + 1) * n[k]]
<1>1. M = Rounded(10 * T, N) /\ N \in Nat \ {0} /\ T \in Int /\ M \in Int
  BY MeanIs
<1>2. ASSUME NEW k \in K
      PROVE  /\ n[k] \in Nat \ {0} /\ s[k] \in Int /\ Mean(f, part[k]) \in Int
             /\ Mean(f, part[k]) = Rounded(10 * s[k], n[k])
             /\ s[k] = Sum(f, part[k]) /\ n[k] = Cardinality(part[k])
  <2>1. IsFiniteSet(part[k]) /\ part[k] # {} /\ \A x \in part[k] : f[x] \in Int
    BY FS_Subset
  <2> QED
    BY <2>1, MeanIs
<1>3. K # {}
  OBVIOUS
<1>4. Sum(s, K) = T /\ Sum(n, K) = N
  <2>1. \A k \in K : part[k] \subseteq S /\ s[k] = Sum(f, part[k]) /\ n[k] = Cardinality(part[k])
    OBVIOUS
  <2> HIDE DEF s, n
  <2> QED
    BY <2>1, SumOfParts, CountOfParts
<1> HIDE DEF M, N, T, s, n
<1>5. \A k \in K : /\ s20[k] = 20 * s[k] /\ below[k] = (2 * M - 1) * n[k]
                   /\ above[k] = (2 * M + 1) * n[k]
                   /\ s20[k] \in Int /\ below[k] \in Int /\ above[k] \in Int
  BY <1>1, <1>2
<1> HIDE DEF s20, below, above
<1>6. Sum(s20, K) = 20 * T /\ Sum(below, K) = (2 * M - 1) * N /\ Sum(above, K) = (2 * M + 1) * N
  <2>1. 2 * M - 1 \in Int /\ 2 * M + 1 \in Int /\ 20 \in Int
    BY <1>1
  <2>2. \A k \in K : n[k] \in Int /\ s[k] \in Int
    BY <1>2
  <2>3. Sum(s20, K) = 20 * Sum(s, K)
    BY <1>5, <2>1, <2>2, SumScales
  <2>4. Sum(below, K) = (2 * M - 1) * Sum(n, K)
    <3> DEFINE c == 2 * M - 1
    <3>1. c \in Int /\ \A k \in K : n[k] \in Int /\ below[k] = c * n[k]
      BY <1>5, <2>1, <2>2
    <3> HIDE DEF c
    <3>2. Sum(below, K) = c * Sum(n, K)
      BY <3>1, SumScales
    <3> QED
      BY <3>2 DEF c
  <2>5. Sum(above, K) = (2 * M + 1) * Sum(n, K)
    <3> DEFINE c == 2 * M + 1
    <3>1. c \in Int /\ \A k \in K : n[k] \in Int /\ above[k] = c * n[k]
      BY <1>5, <2>1, <2>2
    <3> HIDE DEF c
    <3>2. Sum(above, K) = c * Sum(n, K)
      BY <3>1, SumScales
    <3> QED
      BY <3>2 DEF c
  <2> QED
    BY <1>4, <2>3, <2>4, <2>5
<1>7. 2 * N * M <= 20 * T + N /\ 20 * T + N < 2 * N * M + 2 * N
  BY <1>1, RoundedIs
<1>8. (2 * M - 1) * N <= 20 * T /\ 20 * T < (2 * M + 1) * N
  <2>1. (2 * M - 1) * N = 2 * N * M - N /\ (2 * M + 1) * N = 2 * N * M + N
    BY <1>1
  <2> QED
    BY <1>1, <1>7, <2>1
<1>9. \E r \in K : M <= Mean(f, part[r])
  <2>1. PICK r \in K : below[r] <= s20[r]
    BY <1>3, <1>5, <1>6, <1>8, SomeTermIsLess
  <2>2. (2 * M - 1) * n[r] = 2 * n[r] * M - n[r]
    BY <1>1, <1>2
  <2>3. 2 * n[r] * M <= 2 * (10 * s[r]) + n[r]
    BY <1>1, <1>2, <1>5, <2>1, <2>2
  <2>4. 10 * s[r] \in Int
    BY <1>2
  <2> QED
    BY <1>1, <1>2, <2>3, <2>4, RoundedBounds
<1>10. \E q \in K : Mean(f, part[q]) <= M
  <2>1. PICK q \in K : ~(above[q] <= s20[q])
    <3>1. ASSUME \A k \in K : above[k] <= s20[k] PROVE FALSE
      <4>1. Sum(above, K) <= Sum(s20, K)
        BY <1>5, <3>1, SumIsMonotone
      <4> QED
        BY <1>1, <1>6, <1>8, <4>1
    <3> QED
      BY <3>1
  <2>2. (2 * M + 1) * n[q] = 2 * n[q] * M + n[q]
    BY <1>1, <1>2
  <2>3. 2 * (10 * s[q]) + n[q] < 2 * n[q] * M + 2 * n[q]
    BY <1>1, <1>2, <1>5, <2>1, <2>2
  <2>4. 10 * s[q] \in Int
    BY <1>2
  <2> QED
    BY <1>1, <1>2, <2>3, <2>4, RoundedBounds
<1> QED
  BY <1>9, <1>10 DEF M, Between

-----------------------------------------------------------------------------
\* Every bill is in one quarter, and the average lies between the quarters'.
LEMMA QuartersAddUp ==
  ASSUME IInv, NEW H \in SUBSET Invoice
  PROVE  LET trend == Trend(H)
         IN  /\ Cardinality(Settled(H))
                  = Sum([q \in DOMAIN trend |-> trend[q].count], DOMAIN trend)
             /\ DOMAIN trend # {} => \E q, r \in DOMAIN trend :
                  trend[q].average <= Mean(Lateness(H), Settled(H))
                    /\ Mean(Lateness(H), Settled(H)) <= trend[r].average
<1> DEFINE B == Settled(H)
           late == Lateness(H)
           quarter == [i \in B |-> row[i].due \div Quarter]
           K == {quarter[i] : i \in B}
           part == [q \in K |-> {i \in B : quarter[i] = q}]
           trend == Trend(H)
           count == [q \in K |-> trend[q].count]
<1>1. IsFiniteSet(B) /\ \A i \in B : late[i] \in Int
  BY BillsAreWhole
<1>2. IsFiniteSet(K)
  BY <1>1, ImageIsFinite
<1>3. \A k \in K : part[k] \subseteq B /\ part[k] # {}
  OBVIOUS
<1>4. \A k, l \in K : k # l => part[k] \cap part[l] = {}
  OBVIOUS
<1>5. \A i \in B : \E k \in K : i \in part[k]
  OBVIOUS
<1>6. trend = [q \in K |-> [average |-> Mean(late, part[q]), count |-> Cardinality(part[q])]]
  <2>1. ASSUME NEW q PROVE {i \in B : row[i].due \div Quarter = q} = {i \in B : quarter[i] = q}
    OBVIOUS
  <2>2. {row[i].due \div Quarter : i \in B} = K
    OBVIOUS
  <2>3. trend = [q \in {row[i].due \div Quarter : i \in B} |->
                   [average |-> Mean(late, {i \in B : row[i].due \div Quarter = q}),
                    count |-> Cardinality({i \in B : row[i].due \div Quarter = q})]]
    BY DEF Trend
  <2>4. ASSUME NEW q \in K
        PROVE trend[q] = [average |-> Mean(late, part[q]), count |-> Cardinality(part[q])]
    BY <2>1, <2>2, <2>3
  <2>5. DOMAIN trend = K /\ trend = [q \in DOMAIN trend |-> trend[q]]
    BY <2>2, <2>3
  <2> QED
    BY <2>4, <2>5
<1>7. DOMAIN trend = K
  BY <1>6
<1> HIDE DEF B, late, K, part, trend, quarter
<1>8. \A q \in K : trend[q].average = Mean(late, part[q]) /\ count[q] = Cardinality(part[q])
  BY <1>6
<1>9. Cardinality(B) = Sum([q \in K |-> trend[q].count], K)
  <2>1. \A k \in K : part[k] \subseteq B /\ count[k] = Cardinality(part[k])
    BY <1>3, <1>8
  <2> HIDE DEF count
  <2>2. Sum(count, K) = Cardinality(B)
    BY <1>1, <1>2, <1>4, <1>5, <2>1, CountOfParts
  <2> QED
    BY <2>2 DEF count
<1>10. ASSUME K # {}
       PROVE  \E q, r \in K : trend[q].average <= Mean(late, B) /\ Mean(late, B) <= trend[r].average
  <2>1. B # {}
    BY <1>3, <1>10
  <2>2. Between(late, B, K, part)
    BY <1>1, <1>2, <1>3, <1>4, <1>5, <2>1, MeanLiesBetween
  <2> QED
    BY <1>8, <2>2 DEF Between
<1> QED
  BY <1>7, <1>9, <1>10 DEF B, late, trend

\* The longest delay is no shorter than the average, and positive when a bar is coloured.
LEMMA LongestIsLongest ==
  ASSUME IInv, NEW H \in SUBSET Invoice
  PROVE  LET stats == HistoryStats(H)
         IN  /\ stats.average <= 10 * stats.longest
             /\ stats.longest > 0 <=> \E i \in Settled(H) : Timeline(H)[i] # "ok"
<1> DEFINE B == Settled(H)
           late == Lateness(H)
           L == HistoryStats(H).longest
           D == {0} \cup {late[i] : i \in B}
<1>1. IsFiniteSet(B) /\ \A i \in B : late[i] \in Int
  BY BillsAreWhole
<1>2. IsFiniteSet({late[i] : i \in B}) /\ D \subseteq Int
  BY <1>1, ImageIsFinite
<1>3. IsFiniteSet(D)
  BY <1>2, FS_AddElement
<1>4. L = SetsExt!Max(D) /\ HistoryStats(H).average = Mean(late, B)
  BY DEF HistoryStats
<1>5. L \in D /\ \A d \in D : d <= L
  BY <1>2, <1>3, <1>4, GreatestExists
<1>6. L \in Int /\ 0 <= L /\ \A i \in B : late[i] <= L
  BY <1>2, <1>5
<1>7. ASSUME NEW i \in B PROVE Timeline(H)[i] # "ok" <=> late[i] > 0
  BY <1>1 DEF Timeline
<1>8. L > 0 <=> \E i \in B : late[i] > 0
  BY <1>1, <1>5, <1>6
<1> HIDE DEF B, late, L, D
<1>9. Mean(late, B) <= 10 * L
  <2>1. CASE B = {}
    BY <1>6, <2>1 DEF Mean
  <2>2. CASE B # {}
    <3> DEFINE longest == [i \in B |-> L]
    <3>1. \A i \in B : longest[i] = L /\ longest[i] \in Int /\ late[i] <= longest[i]
            /\ late[i] \in Int
      BY <1>1, <1>6
    <3> HIDE DEF longest
    <3>2. Sum(longest, B) = L * Cardinality(B) /\ Sum(late, B) <= Sum(longest, B)
      BY <1>1, <1>6, <3>1, SumOfConstant, SumIsMonotone
    <3>3. /\ Mean(late, B) = Rounded(10 * Sum(late, B), Cardinality(B))
          /\ Cardinality(B) \in Nat \ {0} /\ Sum(late, B) \in Int
      BY <1>1, <2>2, MeanIs
    <3> DEFINE T == Sum(late, B)
               N == Cardinality(B)
    <3> HIDE DEF T, N
    <3>4. T \in Int /\ N \in Nat \ {0} /\ T <= L * N /\ Mean(late, B) = Rounded(10 * T, N)
      BY <3>2, <3>3 DEF T, N
    <3>5. 2 * (10 * T) + N < 2 * N * (10 * L) + 2 * N
      <4>1. 2 * N * (10 * L) = 20 * (L * N)
        BY <1>6, <3>4
      <4>2. L * N \in Int
        BY <1>6, <3>4
      <4> QED
        BY <3>4, <4>1, <4>2
    <3>6. 10 * T \in Int /\ 10 * L \in Int
      BY <1>6, <3>4
    <3> QED
      BY <3>4, <3>5, <3>6, RoundedBounds
  <2> QED
    BY <2>1, <2>2
<1> QED
  BY <1>4, <1>7, <1>8, <1>9 DEF L, B

\* The list of vendors shows no shorter delay and no better share than the history.
LEMMA ListIsNoBetter ==
  ASSUME IInv, HistoryAgrees, NEW vendor \in Parties(Payable), NEW at \in PaymentsRead(vendor)
  PROVE  LET H == Of(vendor)
         IN  /\ PartyStats(vendor, at).delay >= HistoryStats(H).average
             /\ PartyStats(vendor, at).onTime <= HistoryStats(H).onTime
             /\ (\A i \in Bills(vendor) : Cardinality(row[i].paid) = 1) =>
                  PartyStats(vendor, at).onTime = HistoryStats(H).onTime
<1> DEFINE H == Of(vendor)
           B == Bills(vendor)
           late == Lateness(H)
           delay == [i \in B |-> IF at[i] > row[i].due THEN at[i] - row[i].due ELSE 0]
<1>1. /\ IsFiniteSet(B) /\ Cardinality(B) \in Nat
      /\ \A i \in B : /\ row[i].due \in Nat /\ row[i].paid \subseteq Nat
                      /\ FirstPaid(i) \in row[i].paid
                      /\ \A e \in row[i].paid : FirstPaid(i) <= e
                      /\ late[i] = FirstPaid(i) - row[i].due
  <2>1. H \in SUBSET Invoice /\ B = Settled(H)
    BY DEF Of, Rows, Bills
  <2> HIDE DEF B, H
  <2> QED
    BY <2>1, BillsAreWhole
<1>2. \A i \in B : at[i] \in row[i].paid
  BY DEF PaymentsRead
<1>3. \A i \in B : late[i] \in Int /\ delay[i] \in Int /\ late[i] <= delay[i]
  <2> SUFFICES ASSUME NEW i \in B PROVE late[i] \in Int /\ delay[i] \in Int /\ late[i] <= delay[i]
    OBVIOUS
  <2>1. /\ at[i] \in Nat /\ FirstPaid(i) \in Nat /\ row[i].due \in Nat
        /\ FirstPaid(i) <= at[i] /\ late[i] = FirstPaid(i) - row[i].due
    BY <1>1, <1>2
  <2>2. delay[i] = IF at[i] > row[i].due THEN at[i] - row[i].due ELSE 0
    OBVIOUS
  <2> HIDE DEF delay, late
  <2> QED
    BY <2>1, <2>2
<1>4. /\ PartyStats(vendor, at).delay = Mean(delay, B)
      /\ PartyStats(vendor, at).onTime = Percent(OnTime(B, at), Cardinality(B))
  BY DEF PartyStats
<1>5. /\ HistoryStats(H).average = Mean(late, B)
      /\ HistoryStats(H).onTime
           = Percent(Cardinality({i \in B : late[i] <= 0}), Cardinality(B))
  BY DEF HistoryStats, Bills
<1>6. {i \in B : late[i] <= 0} = {i \in B : FirstPaid(i) <= row[i].due}
  <2>1. ASSUME NEW i \in B PROVE late[i] <= 0 <=> FirstPaid(i) <= row[i].due
    <3>1. FirstPaid(i) \in Nat /\ row[i].due \in Nat
            /\ late[i] = FirstPaid(i) - row[i].due
      BY <1>1
    <3> HIDE DEF late
    <3> QED
      BY <3>1
  <2> HIDE DEF B, late
  <2> QED
    BY <2>1
<1>7. OnTime(B, at) <= Cardinality({i \in B : late[i] <= 0})
  <2>1. OnTime(B, at) <= OnTime(B, Earliest(B))
    BY DEF HistoryAgrees
  <2> QED
    BY <1>6, <2>1 DEF OnTime, Earliest
<1>8. OnTime(B, at) \in Nat /\ Cardinality({i \in B : late[i] <= 0}) \in Nat
  <2>1. IsFiniteSet({i \in B : late[i] <= 0}) /\ IsFiniteSet({i \in B : at[i] <= row[i].due})
    BY <1>1, FS_Subset
  <2> QED
    BY <2>1, FS_CardinalityType DEF OnTime
<1> HIDE DEF B, late, delay
<1>9. Mean(late, B) <= Mean(delay, B)
  BY <1>1, <1>3, MeanIsMonotone
<1>10. Percent(OnTime(B, at), Cardinality(B))
         <= Percent(Cardinality({i \in B : late[i] <= 0}), Cardinality(B))
  BY <1>1, <1>7, <1>8, PercentIsMonotone
<1>11. Mean(late, B) \in Int /\ Mean(delay, B) \in Int
  BY <1>1, <1>3, MeanIs
<1>12. (\A i \in Bills(vendor) : Cardinality(row[i].paid) = 1) =>
          OnTime(B, at) = Cardinality({i \in B : late[i] <= 0})
  BY <1>6 DEF HistoryAgrees, OnTime, Earliest, B
<1>13. /\ PartyStats(vendor, at).delay >= HistoryStats(H).average
       /\ PartyStats(vendor, at).onTime <= HistoryStats(H).onTime
  BY <1>4, <1>5, <1>9, <1>10, <1>11
<1> QED
  BY <1>4, <1>5, <1>12, <1>13

\* A share is the same in any unit.
LEMMA RoundedScales ==
  ASSUME NEW a \in Int, NEW n \in Nat \ {0}
  PROVE  Rounded(n * a, n * n) = Rounded(a, n)
<1> DEFINE r == Rounded(a, n)
           u == 2 * n * r
           v == 2 * a + n
<1>1. r \in Int /\ u <= v /\ v < u + 2 * n
  BY RoundedIs
<1> HIDE DEF r
<1>2. u \in Int /\ v \in Int
  BY <1>1
<1>3. n * u <= n * v /\ n * v < n * (u + 2 * n)
  <2>1. \A x, y \in Int : /\ x <= y => n * x <= n * y
                          /\ x < y => n * x < n * y
    OBVIOUS
  <2>2. u + 2 * n \in Int
    BY <1>2
  <2> HIDE DEF u, v
  <2> QED
    BY <1>1, <1>2, <2>1, <2>2
<1>4. /\ n * u = 2 * (n * n) * r
      /\ n * v = 2 * (n * a) + (n * n)
      /\ n * (u + 2 * n) = n * u + 2 * (n * n)
  BY <1>1
<1>5. n * a \in Int /\ n * n \in Nat \ {0}
  OBVIOUS
<1> HIDE DEF u, v
<1>6. 2 * (n * n) * r <= 2 * (n * a) + (n * n)
  BY <1>3, <1>4
<1>7. 2 * (n * a) + (n * n) < 2 * (n * n) * r + 2 * (n * n)
  BY <1>3, <1>4
<1> DEFINE b == n * a
           m == n * n
<1>8. b \in Int /\ m \in Nat \ {0} /\ 2 * m * r <= 2 * b + m /\ 2 * b + m < 2 * m * r + 2 * m
  BY <1>5, <1>6, <1>7
<1> HIDE DEF b, m
<1>9. r <= Rounded(b, m) /\ Rounded(b, m) <= r /\ Rounded(b, m) \in Int
  BY <1>1, <1>8, RoundedBounds, RoundedIs
<1> QED
  BY <1>1, <1>9 DEF b, m, r

\* The window does not begin or end in the past.
LEMMA AtLeastNone ==
  ASSUME NEW n \in Int
  PROVE  SetsExt!Max({0, n}) = IF n < 0 THEN 0 ELSE n
<1>1. IsFiniteSet({0} \cup {n})
  BY FS_Singleton, FS_AddElement
<1>2. {0} \cup {n} = {0, n} /\ {0, n} \subseteq Int /\ {0, n} # {}
  OBVIOUS
<1>3. SetsExt!Max({0, n}) \in {0, n} /\ \A y \in {0, n} : y <= SetsExt!Max({0, n})
  BY <1>1, <1>2, GreatestExists
<1> QED
  BY <1>3

\* The estimate's window is one, and holds the most likely day.
LEMMA WindowHoldsLikely ==
  ASSUME IInv, NEW H \in SUBSET Invoice, Settled(H) # {}
  PROVE  LET estimate == Estimate(H)
         IN  /\ estimate.from <= estimate.to
             /\ estimate.from <= SetsExt!Max({0, estimate.likely})
             /\ SetsExt!Max({0, estimate.likely}) <= estimate.to
<1> DEFINE B == Settled(H)
           late == Lateness(H)
           n == Cardinality(B)
           total == Sum(late, B)
           apart == [i \in B |-> Magnitude(n * late[i] - total)]
           spread == Sum(apart, B)
           low == Rounded(n * total - spread, n * n)
           high == Rounded(n * total + spread, n * n)
           mid == Rounded(total, n)
<1>1. IsFiniteSet(B) /\ \A i \in B : late[i] \in Int
  BY BillsAreWhole
<1>2. n \in Nat \ {0} /\ total \in Int
  BY BillsAreWhole, SumIsWhole
<1>3. Estimate(H).from = SetsExt!Max({0, low}) /\ Estimate(H).to = SetsExt!Max({0, high})
      /\ Estimate(H).likely = mid
  BY DEF Estimate
<1> HIDE DEF B, late, n, total
<1>4. \A i \in B : apart[i] \in Nat
  <2> SUFFICES ASSUME NEW i \in B PROVE apart[i] \in Nat
    OBVIOUS
  <2>1. n * late[i] - total \in Int
    BY <1>1, <1>2
  <2>2. apart[i] = Magnitude(n * late[i] - total)
    OBVIOUS
  <2> HIDE DEF apart
  <2> QED
    BY <2>1, <2>2 DEF Magnitude
<1> HIDE DEF apart
<1>5. spread \in Nat
  BY <1>1, <1>4, SumIsNatural
<1> HIDE DEF spread
<1> DEFINE a == n * total
           m == n * n
<1>6. a \in Int /\ m \in Nat \ {0} /\ a - spread \in Int /\ a + spread \in Int
      /\ a - spread <= a /\ a <= a + spread
  BY <1>2, <1>5
<1>7. mid = Rounded(a, m)
  BY <1>2, RoundedScales
<1>8. low = Rounded(a - spread, m) /\ high = Rounded(a + spread, m)
  OBVIOUS
<1> HIDE DEF a, m, low, mid, high
<1>9. low \in Int /\ mid \in Int /\ high \in Int /\ low <= mid /\ mid <= high
  BY <1>6, <1>7, <1>8, RoundedIs, RoundedIsMonotone
<1>10. /\ SetsExt!Max({0, low}) = IF low < 0 THEN 0 ELSE low
       /\ SetsExt!Max({0, mid}) = IF mid < 0 THEN 0 ELSE mid
       /\ SetsExt!Max({0, high}) = IF high < 0 THEN 0 ELSE high
  BY <1>9, AtLeastNone
<1> QED
  BY <1>3, <1>9, <1>10

\* Two shares that make a whole add up to a hundred, or to one more when both round up.
LEMMA SharesMakeAHundred ==
  ASSUME NEW m \in Nat, NEW n \in Nat, m + n # 0
  PROVE  Percent(m, m + n) + Percent(n, m + n) \in {100, 101}
<1> DEFINE all == m + n
           r == Percent(m, all)
           s == Percent(n, all)
           d == 2 * all
<1>1. r = Rounded(100 * m, all) /\ s = Rounded(100 * n, all)
  BY DEF Percent
<1>2. all \in Nat \ {0} /\ 100 * m \in Int /\ 100 * n \in Int
  OBVIOUS
<1> HIDE DEF r, s
<1>3. /\ r \in Int /\ d * r <= 200 * m + all /\ 200 * m + all < d * r + d
      /\ s \in Int /\ d * s <= 200 * n + all /\ 200 * n + all < d * s + d
  <2>1. /\ r \in Int /\ 2 * all * r <= 2 * (100 * m) + all
        /\ 2 * (100 * m) + all < 2 * all * r + 2 * all
    BY <1>1, <1>2, RoundedIs
  <2>2. /\ s \in Int /\ 2 * all * s <= 2 * (100 * n) + all
        /\ 2 * (100 * n) + all < 2 * all * s + 2 * all
    BY <1>1, <1>2, RoundedIs
  <2> QED
    BY <2>1, <2>2
<1>4. d \in Nat \ {0} /\ 200 * m + 200 * n = 100 * d /\ 2 * all = d
  OBVIOUS
<1>5. d * (r + s) = d * r + d * s /\ d * (r + s + 2) = d * r + d * s + 2 * d
      /\ d * 101 = 100 * d + d /\ r + s \in Int
  BY <1>3, <1>4
<1> HIDE DEF d, all
<1>6. d * (r + s) <= d * 101 /\ d * 101 < d * (r + s + 2)
  <2>1. d * r \in Int /\ d * s \in Int /\ all \in Nat
    BY <1>2, <1>3, <1>4
  <2> QED
    BY <1>3, <1>4, <1>5, <2>1
<1>7. \A u, v \in Int : /\ d * u <= d * v => u <= v
                        /\ d * u < d * v => u < v
  BY <1>4
<1>8. r + s <= 101 /\ 101 < r + s + 2
  BY <1>3, <1>5, <1>6, <1>7
<1> QED
  BY <1>3, <1>8 DEF r, s, all

\* The chance of a late bill and the share of bills in time are the two halves.
LEMMA LateOrInTime ==
  ASSUME IInv, NEW H \in SUBSET Invoice, Settled(H) # {}
  PROVE  Estimate(H).lateChance + HistoryStats(H).onTime \in {100, 101}
<1> DEFINE B == Settled(H)
           late == Lateness(H)
           L == {i \in B : late[i] > 0}
           T == {i \in B : late[i] <= 0}
<1>1. IsFiniteSet(B) /\ \A i \in B : late[i] \in Int
  BY BillsAreWhole
<1>2. /\ Estimate(H).lateChance = Percent(Cardinality(L), Cardinality(B))
      /\ HistoryStats(H).onTime = Percent(Cardinality(T), Cardinality(B))
  BY DEF Estimate, HistoryStats
<1>3. L \cup T = B /\ L \cap T = {}
  BY <1>1
<1>4. IsFiniteSet(L) /\ IsFiniteSet(T)
  BY <1>1, FS_Subset
<1> HIDE DEF late, L, T
<1>5. Cardinality(L) \in Nat /\ Cardinality(T) \in Nat
      /\ Cardinality(B) = Cardinality(L) + Cardinality(T) /\ Cardinality(B) # 0
  <2>1. Cardinality(L \cup T) = Cardinality(L) + Cardinality(T) - Cardinality(L \cap T)
    BY <1>4, FS_Union
  <2>2. Cardinality(L) \in Nat /\ Cardinality(T) \in Nat /\ Cardinality(L \cap T) = 0
    BY <1>3, <1>4, FS_CardinalityType, FS_EmptySet
  <2>3. Cardinality(B) # 0
    BY <1>1, FS_EmptySet
  <2>4. Cardinality(B) = Cardinality(L \cup T)
    BY <1>3, Zenon
  <2> HIDE DEF B
  <2> QED
    BY <2>1, <2>2, <2>3, <2>4
<1> QED
  BY <1>2, <1>5, SharesMakeAHundred

\* Whichever rows its page has loaded, a vendor's payment history adds up, and when it
\* has loaded all it agrees with the vendors' list.
THEOREM HistoriesAddUp == Spec => []HistoryAddsUp
<1>1. IInv /\ HistoryAgrees => HistoryAddsUp
  <2> SUFFICES ASSUME IInv, HistoryAgrees,
                      NEW vendor \in Parties(Payable), NEW H \in HistoryList(vendor)
               PROVE  LET stats == HistoryStats(H)
                          trend == Trend(H)
                          estimate == HistoryPage(H).estimate
                      IN  /\ Cardinality(Settled(H)) =
                               Sum([q \in DOMAIN trend |-> trend[q].count], DOMAIN trend)
                          /\ DOMAIN trend # {} => \E q, r \in DOMAIN trend :
                               trend[q].average <= stats.average
                                 /\ stats.average <= trend[r].average
                          /\ stats.average <= 10 * stats.longest
                          /\ stats.longest > 0
                               <=> \E i \in Settled(H) : Timeline(H)[i] # "ok"
                          /\ H = Of(vendor) => \A at \in PaymentsRead(vendor) :
                               /\ PartyStats(vendor, at).delay >= stats.average
                               /\ PartyStats(vendor, at).onTime <= stats.onTime
                               /\ (\A i \in Bills(vendor) : Cardinality(row[i].paid) = 1) =>
                                    PartyStats(vendor, at).onTime = stats.onTime
                          /\ estimate # None =>
                               /\ estimate.from <= estimate.to
                               /\ estimate.from <= SetsExt!Max({0, estimate.likely})
                               /\ SetsExt!Max({0, estimate.likely}) <= estimate.to
                               /\ estimate.lateChance + stats.onTime \in {100, 101}
    BY DEF HistoryAddsUp
  <2> DEFINE stats == HistoryStats(H)
             trend == Trend(H)
             estimate == HistoryPage(H).estimate
  <2>0. H \in SUBSET Invoice
    BY DEF HistoryList, Loaded, Read, Scoped, Rows, Invoice
  <2>1. stats.average = Mean(Lateness(H), Settled(H))
    BY DEF HistoryStats
  <2>2. /\ Cardinality(Settled(H)) = Sum([q \in DOMAIN trend |-> trend[q].count], DOMAIN trend)
        /\ DOMAIN trend # {} => \E q, r \in DOMAIN trend :
             trend[q].average <= stats.average /\ stats.average <= trend[r].average
    BY <2>0, <2>1, QuartersAddUp
  <2>3. /\ stats.average <= 10 * stats.longest
        /\ stats.longest > 0 <=> \E i \in Settled(H) : Timeline(H)[i] # "ok"
    BY <2>0, LongestIsLongest
  <2>4. ASSUME H = Of(vendor), NEW at \in PaymentsRead(vendor)
        PROVE  /\ PartyStats(vendor, at).delay >= stats.average
               /\ PartyStats(vendor, at).onTime <= stats.onTime
               /\ (\A i \in Bills(vendor) : Cardinality(row[i].paid) = 1) =>
                    PartyStats(vendor, at).onTime = stats.onTime
    BY <2>4, ListIsNoBetter
  <2>5. ASSUME estimate # None
        PROVE  /\ estimate.from <= estimate.to
               /\ estimate.from <= SetsExt!Max({0, estimate.likely})
               /\ SetsExt!Max({0, estimate.likely}) <= estimate.to
               /\ estimate.lateChance + stats.onTime \in {100, 101}
    <3>1. estimate = IF Cardinality(Settled(H)) < 2 THEN None ELSE Estimate(H)
      BY DEF HistoryPage
    <3>2. estimate = Estimate(H) /\ ~(Cardinality(Settled(H)) < 2)
      BY <2>5, <3>1
    <3>3. Settled(H) # {}
      BY <3>2, FS_EmptySet
    <3> HIDE DEF estimate, stats
    <3>4. /\ estimate.from <= estimate.to
          /\ estimate.from <= SetsExt!Max({0, estimate.likely})
          /\ SetsExt!Max({0, estimate.likely}) <= estimate.to
      BY <2>0, <3>2, <3>3, WindowHoldsLikely
    <3>5. Estimate(H).lateChance + HistoryStats(H).onTime \in {100, 101}
      BY <2>0, <3>3, LateOrInTime
    <3> QED
      BY <3>2, <3>4, <3>5 DEF stats
  <2> HIDE DEF stats, trend, estimate
  <2> QED
    BY <2>2, <2>3, <2>4, <2>5 DEF stats, trend, estimate
<1> QED
  BY <1>1, Safety, RecordsAgree, PTL
=============================================================================
