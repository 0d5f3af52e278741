--------------------------- MODULE InvoicesProofs ---------------------------
(***************************************************************************)
(* What holds of the invoice handlers for any number of invoices, payment  *)
(* calls, links, webhook deliveries and overlapping sweeps.                *)
(***************************************************************************)
EXTENDS Invoices, TLAPS

\* Type correctness: each handler writes values of the right kind.
THEOREM TypeCorrect == Spec => []TypeOK
<1> USE DEF TypeOK, ApprovalStatus, PaymentStatus, CollectionStatus, calls, sweeps
<1>1. Init => TypeOK
  BY DEF Init
<1>2. TypeOK /\ [Next]_vars => TypeOK'
  <2> SUFFICES ASSUME TypeOK, [Next]_vars PROVE TypeOK'
    OBVIOUS
  <2>1. ASSUME NEW i \in Invoice, CreateInvoice(i) PROVE TypeOK'
    BY <2>1 DEF CreateInvoice
  <2>2. ASSUME NEW i \in Invoice, SetCollectionStatus(i) PROVE TypeOK'
    BY <2>2 DEF SetCollectionStatus
  <2>3. ASSUME NEW i \in Invoice, DeleteInvoice(i) PROVE TypeOK'
    BY <2>3 DEF DeleteInvoice
  <2>4. ASSUME NEW i \in Invoice, DueDatePasses(i) PROVE TypeOK'
    BY <2>4 DEF DueDatePasses
  <2>5. ASSUME NEW S \in SUBSET Invoice, ApproveInvoices(S) PROVE TypeOK'
    BY <2>5 DEF ApproveInvoices
  <2>6. ASSUME NEW i \in Invoice, NEW s \in ApprovalStatus, SetApproval(i, s) PROVE TypeOK'
    BY <2>6 DEF SetApproval
  <2>7. ASSUME NEW i \in Invoice, NEW r \in Request, PayGate(r, i) PROVE TypeOK'
    BY <2>7 DEF PayGate
  <2>8. ASSUME NEW r \in Request, RecordPayment(r) PROVE TypeOK'
    BY <2>8 DEF RecordPayment, Settled
  <2>9. ASSUME NEW i \in Invoice, NEW l \in Link, CreateLink(l, i) PROVE TypeOK'
    BY <2>9 DEF CreateLink
  <2>10. ASSUME NEW d \in Delivery, NEW l \in Link, WebhookLookup(d, l) PROVE TypeOK'
    BY <2>10 DEF WebhookLookup
  <2>11. ASSUME NEW d \in Delivery, WebhookPays(d) PROVE TypeOK'
    BY <2>11 DEF WebhookPays, Settled
  <2>12. ASSUME NEW s \in Sweeper, SweepFind(s) PROVE TypeOK'
    BY <2>12 DEF SweepFind, PastDueUnpaid
  <2>13. ASSUME NEW s \in Sweeper, SweepMark(s) PROVE TypeOK'
    BY <2>13 DEF SweepMark
  <2>14. ASSUME NEW s \in Sweeper, SweepDigest(s) PROVE TypeOK'
    BY <2>14 DEF SweepDigest
  <2>15. ASSUME NEW s \in Sweeper, SweepAborts(s) PROVE TypeOK'
    BY <2>15 DEF SweepAborts
  <2>16. CASE UNCHANGED vars
    BY <2>16 DEF vars
  <2> HIDE DEF TypeOK
  <2> QED
    BY <2>1, <2>2, <2>3, <2>4, <2>5, <2>6, <2>7, <2>8, <2>9, <2>10, <2>11, <2>12,
       <2>13, <2>14, <2>15, <2>16 DEF Next
<1> QED
  BY <1>1, <1>2, PTL DEF Spec

-----------------------------------------------------------------------------
(***************************************************************************)
(* The safety invariants, together: a payment is justified by what its     *)
(* handler remembers of the gate (MemoryIsSound), which is justified by    *)
(* the decision on record (StatusOnRecord); a digest by the mark before    *)
(* it; and rows that are not live are blank, so that a new invoice starts  *)
(* without a past.                                                         *)
(***************************************************************************)

\* Rows that do not exist carry nothing a new or deleted invoice could inherit.
BlankUnlessLive ==
  \A i \in Invoice : ~Live(i) => payment[i] = "unpaid" /\ approval[i] = "pending"

IInv ==
  /\ TypeOK
  /\ BlankUnlessLive
  /\ NoPaymentWithoutClearance
  /\ BooksAgree
  /\ StatusOnRecord
  /\ OverdueIsPastDue
  /\ DigestFollowsMark
  /\ MemoryIsSound

\* IInv is inductive: whatever interleaves, no request breaks any part of it.
THEOREM Safety == Spec => []IInv
<1> USE DirectionsDiffer, MarksAreNoIds
<1> USE DEF IInv, BlankUnlessLive, NoPaymentWithoutClearance, BooksAgree, StatusOnRecord,
            OverdueIsPastDue, DigestFollowsMark, MemoryIsSound, Vouched, Live, Invoice,
            TypeOK, ApprovalStatus, PaymentStatus, CollectionStatus, calls, sweeps
<1>1. Init => IInv
  BY DEF Init
<1>2. IInv /\ [Next]_vars => IInv'
  <2> SUFFICES ASSUME IInv, [Next]_vars PROVE IInv'
    OBVIOUS
  <2>1. ASSUME NEW i \in Invoice, CreateInvoice(i) PROVE IInv'
    BY <2>1 DEF CreateInvoice
  <2>2. ASSUME NEW i \in Invoice, SetCollectionStatus(i) PROVE IInv'
    BY <2>2 DEF SetCollectionStatus
  <2>3. ASSUME NEW i \in Invoice, DeleteInvoice(i) PROVE IInv'
    BY <2>3 DEF DeleteInvoice
  <2>4. ASSUME NEW i \in Invoice, DueDatePasses(i) PROVE IInv'
    BY <2>4 DEF DueDatePasses
  <2>5. ASSUME NEW S \in SUBSET Invoice, ApproveInvoices(S) PROVE IInv'
    BY <2>5 DEF ApproveInvoices
  <2>6. ASSUME NEW i \in Invoice, NEW s \in ApprovalStatus, SetApproval(i, s) PROVE IInv'
    BY <2>6 DEF SetApproval
  <2>7. ASSUME NEW i \in Invoice, NEW r \in Request, PayGate(r, i) PROVE IInv'
    BY <2>7 DEF PayGate, Cleared
  <2>8. ASSUME NEW r \in Request, RecordPayment(r) PROVE IInv'
    BY <2>8 DEF RecordPayment, Settled
  <2>9. ASSUME NEW i \in Invoice, NEW l \in Link, CreateLink(l, i) PROVE IInv'
    BY <2>9 DEF CreateLink, Cleared
  <2>10. ASSUME NEW d \in Delivery, NEW l \in Link, WebhookLookup(d, l) PROVE IInv'
    BY <2>10 DEF WebhookLookup
  <2>11. ASSUME NEW d \in Delivery, WebhookPays(d) PROVE IInv'
    BY <2>11 DEF WebhookPays, Settled
  <2>12. ASSUME NEW s \in Sweeper, SweepFind(s) PROVE IInv'
    BY <2>12 DEF SweepFind, PastDueUnpaid
  <2>13. ASSUME NEW s \in Sweeper, SweepMark(s) PROVE IInv'
    BY <2>13 DEF SweepMark
  <2>14. ASSUME NEW s \in Sweeper, SweepDigest(s) PROVE IInv'
    BY <2>14 DEF SweepDigest
  <2>15. ASSUME NEW s \in Sweeper, SweepAborts(s) PROVE IInv'
    BY <2>15 DEF SweepAborts
  <2>16. CASE UNCHANGED vars
    BY <2>16 DEF vars
  <2> HIDE DEF IInv
  <2> QED
    BY <2>1, <2>2, <2>3, <2>4, <2>5, <2>6, <2>7, <2>8, <2>9, <2>10, <2>11, <2>12,
       <2>13, <2>14, <2>15, <2>16 DEF Next
<1> QED
  BY <1>1, <1>2, PTL DEF Spec

\* No payable has a payment row without an approval on record.
THEOREM PaymentsAreCleared == Spec => []NoPaymentWithoutClearance
<1>1. IInv => NoPaymentWithoutClearance
  BY DEF IInv
<1> QED
  BY <1>1, Safety, PTL

\* A payment row belongs to a live invoice that is not unpaid, and paid means
\* that there is a payment row.
THEOREM BooksAlwaysAgree == Spec => []BooksAgree
<1>1. IInv => BooksAgree
  BY DEF IInv
<1> QED
  BY <1>1, Safety, PTL

\* A decided approval status has its row in the timeline.
THEOREM DecisionsAreOnRecord == Spec => []StatusOnRecord
<1>1. IInv => StatusOnRecord
  BY DEF IInv
<1> QED
  BY <1>1, Safety, PTL

\* Overdue rows are past due, however many sweeps overlap.
THEOREM SweepMarksPastDue == Spec => []OverdueIsPastDue
<1>1. IInv => OverdueIsPastDue
  BY DEF IInv
<1> QED
  BY <1>1, Safety, PTL

\* A digest never names a row that is, or goes back to, unpaid.
THEOREM DigestsFollowMarks == Spec => []DigestFollowsMark
<1>1. IInv => DigestFollowsMark
  BY DEF IInv
<1> QED
  BY <1>1, Safety, PTL

\* What handlers remember between their two requests stays good enough.
THEOREM MemoryStaysSound == Spec => []MemoryIsSound
<1>1. IInv => MemoryIsSound
  BY DEF IInv
<1> QED
  BY <1>1, Safety, PTL

-----------------------------------------------------------------------------
(***************************************************************************)
(* Refinement: the handlers implement the ledger.  Deletion, entry,        *)
(* approval and payment map to the ledger's four steps; everything else,   *)
(* the gates, the lookups and the sweep, leaves the ledger alone.          *)
(***************************************************************************)

\* The ledger sees a step only through three of the variables.
LEMMA LedgerStutter ==
  ASSUME UNCHANGED <<life, timeline, receipts>>
  PROVE  UNCHANGED Ledger!vars
BY DEF Ledger!vars, Live

\* A payment is a Settle of the ledger.
LEMMA SettledSettles ==
  ASSUME IInv, NEW i \in Invoice, NEW c, Live(i), Settled(i, c), Vouched(i),
         UNCHANGED <<life, timeline>>
  PROVE  Ledger!Settle(i)
BY DEF Settled, Vouched, Live, Ledger!Settle

\* The handlers implement the ledger: Init maps to Init, every step to a step.
THEOREM HandlersImplementLedger == Spec => ImplementsLedger
<1>1. Init => Ledger!Init
  BY DEF Init, Ledger!Init, Live, Ledger!Invoice, Invoice
<1>2. IInv /\ [Next]_vars => [Ledger!Next]_(Ledger!vars)
  <2> SUFFICES ASSUME IInv, [Next]_vars PROVE Ledger!Next \/ UNCHANGED Ledger!vars
    OBVIOUS
  <2> USE DEF calls, sweeps
  <2>1. ASSUME NEW i \in Invoice, CreateInvoice(i) PROVE Ledger!Enter(i)
    BY <2>1 DEF CreateInvoice, Ledger!Enter, Ledger!Invoice, Invoice, Live, IInv, TypeOK
  <2>2. ASSUME NEW i \in Invoice, SetCollectionStatus(i) PROVE UNCHANGED Ledger!vars
    BY <2>2, LedgerStutter DEF SetCollectionStatus
  <2>3. ASSUME NEW i \in Invoice, DeleteInvoice(i) PROVE Ledger!Strike(i)
    BY <2>3 DEF DeleteInvoice, Ledger!Strike, Live, IInv, TypeOK
  <2>4. ASSUME NEW i \in Invoice, DueDatePasses(i) PROVE UNCHANGED Ledger!vars
    BY <2>4, LedgerStutter DEF DueDatePasses
  <2>5. ASSUME NEW S \in SUBSET Invoice, ApproveInvoices(S) PROVE Ledger!Clear(S)
    BY <2>5 DEF ApproveInvoices, Ledger!Clear, Live, IInv, TypeOK
  <2>6. ASSUME NEW i \in Invoice, NEW s \in ApprovalStatus, SetApproval(i, s)
        PROVE  Ledger!Next \/ UNCHANGED Ledger!vars
    <3>1. CASE s = "approved"
      <4>1. Ledger!Clear({i})
        BY <2>6, <3>1 DEF SetApproval, Ledger!Clear, Live, IInv, TypeOK
      <4> QED
        BY <4>1 DEF Ledger!Next, Ledger!Invoice, Invoice
    <3>2. CASE s # "approved"
      BY <2>6, <3>2 DEF SetApproval, Ledger!vars, Live, IInv, TypeOK
    <3> QED
      BY <3>1, <3>2
  <2>7. ASSUME NEW i \in Invoice, NEW r \in Request, PayGate(r, i)
        PROVE  UNCHANGED Ledger!vars
    BY <2>7, LedgerStutter DEF PayGate
  <2>8. ASSUME NEW r \in Request, RecordPayment(r)
        PROVE  Ledger!Settle(req[r]) \/ UNCHANGED Ledger!vars
    BY <2>8, LedgerStutter, SettledSettles DEF RecordPayment, IInv, MemoryIsSound
  <2>9. ASSUME NEW i \in Invoice, NEW l \in Link, CreateLink(l, i)
        PROVE  UNCHANGED Ledger!vars
    BY <2>9, LedgerStutter DEF CreateLink
  <2>10. ASSUME NEW d \in Delivery, NEW l \in Link, WebhookLookup(d, l)
         PROVE  UNCHANGED Ledger!vars
    BY <2>10, LedgerStutter DEF WebhookLookup
  <2>11. ASSUME NEW d \in Delivery, WebhookPays(d)
         PROVE  Ledger!Settle(hook[d]) \/ UNCHANGED Ledger!vars
    BY <2>11, LedgerStutter, SettledSettles DEF WebhookPays, IInv, MemoryIsSound
  <2>12. ASSUME NEW s \in Sweeper,
                SweepFind(s) \/ SweepMark(s) \/ SweepDigest(s) \/ SweepAborts(s)
         PROVE  UNCHANGED Ledger!vars
    BY <2>12, LedgerStutter DEF SweepFind, SweepMark, SweepDigest, SweepAborts
  <2>13. CASE UNCHANGED vars
    BY <2>13, LedgerStutter DEF vars
  <2> QED
    BY <2>1, <2>2, <2>3, <2>4, <2>5, <2>6, <2>7, <2>8, <2>9, <2>10, <2>11, <2>12,
       <2>13 DEF Next, Ledger!Next, Ledger!Invoice, Invoice, RecordPayment, WebhookPays
<1> QED
  BY <1>1, <1>2, Safety, PTL DEF Spec, ImplementsLedger, Ledger!Spec

=============================================================================
