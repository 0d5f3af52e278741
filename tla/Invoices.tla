------------------------------ MODULE Invoices ------------------------------
(***************************************************************************)
(* The life of an invoice row of Qlens and of the rows that hang off it:   *)
(* the approval timeline and the payment rows.  The actors are             *)
(*   - the web BFF's GraphQL mutations (apps/web/server/resolvers.ts),     *)
(*   - the Razorpay routes (apps/web/app/api/payments),                    *)
(*   - the daily overdue sweep (services/notification-service).            *)
(* A Hasura request is one database transaction, hence one step; a handler *)
(* that makes two requests is two actions and others run in between.       *)
(* Company scoping, roles, amounts and dates (other than whether the due   *)
(* date has passed) are left out.                                          *)
(***************************************************************************)
EXTENDS Naturals, FiniteSets

CONSTANTS Payable,      \* ids of payable invoices (vendor_id set)
          Receivable,   \* ids of receivable invoices (customer_id set)
          Request,      \* recordPayment calls
          Link,         \* Razorpay payment links
          Delivery,     \* deliveries of payment_link.paid events
          Sweeper,      \* runs of the sweep that may overlap (cron retries)
          Idle, Done    \* a call that has not started, a call that returned

Invoice == Payable \cup Receivable

ASSUME DirectionsDiffer == Payable \cap Receivable = {}
ASSUME MarksAreNoIds == /\ Idle # Done
                        /\ {Idle, Done} \cap Invoice = {}

VARIABLES
  life,       \* [Invoice -> ...], whether the row exists
  approval,   \* [Invoice -> ApprovalStatus], invoices.approval_status
  payment,    \* [Invoice -> PaymentStatus], invoices.payment_status
  collection, \* [Invoice -> ...], invoices.collection_status
  due,        \* [Invoice -> ...], invoices.due_date against today
  timeline,   \* [Invoice -> ...], the statuses that the approvals rows record
  receipts,   \* [Invoice -> Nat], the number of payments rows
  req,        \* [Request -> ...], the invoice whose PayGate the call has passed
  link,       \* [Link -> ...], the invoice a payment link was made for
  hook,       \* [Delivery -> ...], the invoice whose PayCompany lookup is done
  phase,      \* [Sweeper -> ...], how far a run of the sweep is
  found,      \* [Sweeper -> SUBSET Invoice], the rows it found
  announced   \* invoices a digest has named

calls == <<req, link, hook>>
sweeps == <<phase, found, announced>>
vars == <<life, approval, payment, collection, due, timeline, receipts, calls, sweeps>>

ApprovalStatus == {"pending", "approved", "rejected"}
PaymentStatus == {"unpaid", "paid", "overdue"}
\* "open" stands for draft, sent and disputed, which nothing here tells apart.
CollectionStatus == {"open", "settled"}

TypeOK ==
  /\ life \in [Invoice -> {"unborn", "live", "deleted"}]
  /\ approval \in [Invoice -> ApprovalStatus]
  /\ payment \in [Invoice -> PaymentStatus]
  /\ collection \in [Invoice -> CollectionStatus \cup {"none"}]
  /\ due \in [Invoice -> {"ahead", "past"}]
  /\ timeline \in [Invoice -> SUBSET ApprovalStatus]
  /\ receipts \in [Invoice -> Nat]
  /\ req \in [Request -> Invoice \cup {Idle, Done}]
  /\ link \in [Link -> Invoice \cup {Idle}]
  /\ hook \in [Delivery -> Invoice \cup {Idle, Done}]
  /\ phase \in [Sweeper -> {"idle", "found", "marked"}]
  /\ found \in [Sweeper -> SUBSET Invoice]
  /\ announced \in SUBSET Invoice

Live(i) == life[i] = "live"

Init ==
  /\ life = [i \in Invoice |-> "unborn"]
  /\ approval = [i \in Invoice |-> "pending"]
  /\ payment = [i \in Invoice |-> "unpaid"]
  /\ collection = [i \in Invoice |-> "none"]
  /\ due = [i \in Invoice |-> "ahead"]
  /\ timeline = [i \in Invoice |-> {}]
  /\ receipts = [i \in Invoice |-> 0]
  /\ req = [r \in Request |-> Idle]
  /\ link = [l \in Link |-> Idle]
  /\ hook = [d \in Delivery |-> Idle]
  /\ phase = [s \in Sweeper |-> "idle"]
  /\ found = [s \in Sweeper |-> {}]
  /\ announced = {}

-----------------------------------------------------------------------------
(***************************************************************************)
(* Entry, collection and deletion.                                         *)
(***************************************************************************)

\* insert_invoices_one: the column defaults make it pending and unpaid, and only
\* a receivable gets a collection status, any of them.  Entering an invoice that
\* is already past its due date is legal.
CreateInvoice(i) ==
  /\ life[i] = "unborn"
  /\ life' = [life EXCEPT ![i] = "live"]
  /\ \E c \in CollectionStatus :
       collection' = [collection EXCEPT ![i] = IF i \in Receivable THEN c ELSE "none"]
  /\ \E d \in {"ahead", "past"} : due' = [due EXCEPT ![i] = d]
  /\ UNCHANGED <<approval, payment, timeline, receipts, calls, sweeps>>

SetCollectionStatus(i) ==
  /\ Live(i)
  /\ i \in Receivable
  /\ \E c \in CollectionStatus : collection' = [collection EXCEPT ![i] = c]
  /\ UNCHANGED <<life, approval, payment, due, timeline, receipts, calls, sweeps>>

\* The approvals and payments rows go with the invoice: ON DELETE CASCADE.
DeleteInvoice(i) ==
  /\ Live(i)
  /\ life' = [life EXCEPT ![i] = "deleted"]
  /\ approval' = [approval EXCEPT ![i] = "pending"]
  /\ payment' = [payment EXCEPT ![i] = "unpaid"]
  /\ collection' = [collection EXCEPT ![i] = "none"]
  /\ due' = [due EXCEPT ![i] = "ahead"]
  /\ timeline' = [timeline EXCEPT ![i] = {}]
  /\ receipts' = [receipts EXCEPT ![i] = 0]
  /\ UNCHANGED <<calls, sweeps>>

DueDatePasses(i) ==
  /\ Live(i)
  /\ due[i] = "ahead"
  /\ due' = [due EXCEPT ![i] = "past"]
  /\ UNCHANGED <<life, approval, payment, collection, timeline, receipts, calls, sweeps>>

-----------------------------------------------------------------------------
(***************************************************************************)
(* Approval.  Both mutations update the row and insert into approvals in   *)
(* one transaction; the inserts need every invoice to exist (foreign key). *)
(***************************************************************************)

\* Bulk approval only touches pending rows but writes a timeline row for all.
ApproveInvoices(S) ==
  /\ S # {}
  /\ \A i \in S : Live(i)
  /\ approval' = [i \in Invoice |-> IF i \in S /\ approval[i] = "pending"
                                      THEN "approved" ELSE approval[i]]
  /\ timeline' = [i \in Invoice |-> IF i \in S THEN timeline[i] \cup {"approved"}
                                               ELSE timeline[i]]
  /\ UNCHANGED <<life, payment, collection, due, receipts, calls, sweeps>>

\* Mutant of SetApproval: the update without the approvals row.
SetApprovalSilently(i, s) ==
  /\ Live(i)
  /\ approval' = [approval EXCEPT ![i] = s]
  /\ UNCHANGED <<life, payment, collection, due, timeline, receipts, calls, sweeps>>

\* setApproval looks at neither the current status nor the payment status.
SetApproval(i, s) ==
  /\ Live(i)
  /\ approval' = [approval EXCEPT ![i] = s]
  /\ timeline' = [timeline EXCEPT ![i] = @ \cup {s}]
  /\ UNCHANGED <<life, payment, collection, due, receipts, calls, sweeps>>

-----------------------------------------------------------------------------
(***************************************************************************)
(* Payments: recordPayment, and the payment link with its webhook.  Each   *)
(* is a read request followed, later, by the write.                        *)
(***************************************************************************)

\* Mutant of Cleared: only a rejection blocks the payment.
ClearedUnlessRejected(i) == i \in Payable => approval[i] # "rejected"

\* What a payable must show before money is sent; a receivable has no gate.
Cleared(i) == i \in Payable => approval[i] = "approved"

\* The PayGate query and the checks after it; a call that fails them returns.
PayGate(r, i) ==
  /\ req[r] = Idle
  /\ req' = [req EXCEPT ![r] = IF Live(i) /\ Cleared(i) THEN i ELSE Done]
  /\ UNCHANGED <<life, approval, payment, collection, due, timeline, receipts,
                 link, hook, sweeps>>

\* Mutant of Settled: the status written without the payments row.
SettledWithoutRow(i, c) ==
  /\ payment' = [payment EXCEPT ![i] = "paid"]
  /\ collection' = [collection EXCEPT ![i] = c]
  /\ UNCHANGED receipts

\* One payments row, the paid status and collection status c, in one transaction.
Settled(i, c) ==
  /\ receipts' = [receipts EXCEPT ![i] = @ + 1]
  /\ payment' = [payment EXCEPT ![i] = "paid"]
  /\ collection' = [collection EXCEPT ![i] = c]

\* The Pay mutation.  It never looks at the row again, except that the insert's
\* foreign key fails the whole mutation when the invoice is gone.
RecordPayment(r) ==
  /\ req[r] \in Invoice
  /\ req' = [req EXCEPT ![r] = Done]
  /\ \/ /\ Live(req[r])
        /\ Settled(req[r], IF req[r] \in Receivable THEN "settled"
                                                   ELSE collection[req[r]])
     \/ UNCHANGED <<receipts, payment, collection>>   \* refused, or Hasura is down
  /\ UNCHANGED <<life, approval, due, timeline, link, hook, sweeps>>

\* Mutant of CreateLink: the route trusts the button, without the approval check.
CreateLinkUngated(l, i) ==
  /\ link[l] = Idle
  /\ i \in Payable
  /\ Live(i)
  /\ payment[i] # "paid"
  /\ link' = [link EXCEPT ![l] = i]
  /\ UNCHANGED <<life, approval, payment, collection, due, timeline, receipts,
                 req, hook, sweeps>>

\* create-link: gate and link.  The link stays payable whatever happens next.
CreateLink(l, i) ==
  /\ link[l] = Idle
  /\ i \in Payable
  /\ Live(i)
  /\ Cleared(i)
  /\ payment[i] # "paid"
  /\ link' = [link EXCEPT ![l] = i]
  /\ UNCHANGED <<life, approval, payment, collection, due, timeline, receipts,
                 req, hook, sweeps>>

\* Razorpay delivers the event of a paid link at least once, so several
\* deliveries may be for one link.  The PayCompany lookup finds the owner.
WebhookLookup(d, l) ==
  /\ hook[d] = Idle
  /\ link[l] \in Invoice
  /\ hook' = [hook EXCEPT ![d] = IF Live(link[l]) THEN link[l] ELSE Done]
  /\ UNCHANGED <<life, approval, payment, collection, due, timeline, receipts,
                 req, link, sweeps>>

\* The WebhookPay mutation, which sets no collection status.
WebhookPays(d) ==
  /\ hook[d] \in Invoice
  /\ hook' = [hook EXCEPT ![d] = Done]
  /\ \/ Live(hook[d]) /\ Settled(hook[d], collection[hook[d]])
     \/ UNCHANGED <<receipts, payment, collection>>   \* refused, or Hasura is down
  /\ UNCHANGED <<life, approval, due, timeline, req, link, sweeps>>

-----------------------------------------------------------------------------
(***************************************************************************)
(* The overdue sweep: find, mark, digest.                                  *)
(***************************************************************************)

\* Mutant of PastDueUnpaid: payables only.
PayablePastDueUnpaid ==
  {i \in Payable : Live(i) /\ payment[i] = "unpaid" /\ due[i] = "past"}

PastDueUnpaid ==
  {i \in Invoice : Live(i) /\ payment[i] = "unpaid" /\ due[i] = "past"}

\* A find that comes back empty marks nothing and announces nothing.
SweepFind(s) ==
  /\ phase[s] = "idle"
  /\ PastDueUnpaid # {}
  /\ phase' = [phase EXCEPT ![s] = "found"]
  /\ found' = [found EXCEPT ![s] = PastDueUnpaid]
  /\ UNCHANGED <<life, approval, payment, collection, due, timeline, receipts,
                 calls, announced>>

\* update_invoices where id in ids: by id alone, whatever the rows say by now.
SweepMark(s) ==
  /\ phase[s] = "found"
  /\ phase' = [phase EXCEPT ![s] = "marked"]
  /\ payment' = [i \in Invoice |-> IF i \in found[s] /\ Live(i)
                                     THEN "overdue" ELSE payment[i]]
  /\ UNCHANGED <<life, approval, collection, due, timeline, receipts, calls,
                 found, announced>>

\* format_digest groups by r["vendor"]["name"], and a receivable has no vendor:
\* the handler raises when one was found, after the rows were marked.
SweepDigest(s) ==
  /\ phase[s] = "marked"
  /\ announced' = IF found[s] \cap Receivable = {} THEN announced \cup found[s]
                                                   ELSE announced
  /\ phase' = [phase EXCEPT ![s] = "idle"]
  /\ found' = [found EXCEPT ![s] = {}]
  /\ UNCHANGED <<life, approval, payment, collection, due, timeline, receipts, calls>>

\* Hasura fails the run (502, retried by the cron) or the process restarts.
SweepAborts(s) ==
  /\ phase[s] # "idle"
  /\ phase' = [phase EXCEPT ![s] = "idle"]
  /\ found' = [found EXCEPT ![s] = {}]
  /\ UNCHANGED <<life, approval, payment, collection, due, timeline, receipts,
                 calls, announced>>

-----------------------------------------------------------------------------
Next ==
  \/ \E i \in Invoice :
       \/ CreateInvoice(i)
       \/ SetCollectionStatus(i)
       \/ DeleteInvoice(i)
       \/ DueDatePasses(i)
       \/ \E s \in ApprovalStatus : SetApproval(i, s)
       \/ \E r \in Request : PayGate(r, i)
       \/ \E l \in Link : CreateLink(l, i)
  \/ \E S \in SUBSET Invoice : ApproveInvoices(S)
  \/ \E r \in Request : RecordPayment(r)
  \/ \E d \in Delivery : \/ WebhookPays(d)
                         \/ \E l \in Link : WebhookLookup(d, l)
  \/ \E s \in Sweeper : \/ SweepFind(s)
                        \/ SweepMark(s)
                        \/ SweepDigest(s)
                        \/ SweepAborts(s)

Spec == Init /\ [][Next]_vars

\* The cron starts the sweep every day and retries it, so a run that keeps being
\* offered the chance to mark its rows takes it in the end.
Fairness ==
  \A s \in Sweeper : /\ WF_vars(SweepFind(s))
                     /\ SF_vars(SweepMark(s))
                     /\ WF_vars(SweepDigest(s))

FairSpec == Spec /\ Fairness

-----------------------------------------------------------------------------
(***************************************************************************)
(* Safety.                                                                 *)
(***************************************************************************)

\* No payable ever has a payment row unless an approval of it is on record.
\* recordPayment checks the status in one request and pays in another, and a
\* payment link outlives the check that made it; the claim spans all of them.
NoPaymentWithoutClearance ==
  \A i \in Payable : receipts[i] > 0 => "approved" \in timeline[i]

\* The status column and the payments table agree as far as the code lets them:
\* a payment row belongs to a live invoice that no later find of the sweep can
\* select again, and no invoice is called paid without a payment row.
BooksAgree ==
  \A i \in Invoice :
    /\ receipts[i] > 0 => Live(i) /\ payment[i] # "unpaid"
    /\ payment[i] = "paid" => receipts[i] > 0

\* An invoice's approval status, once decided, has its row in the timeline,
\* under bulk approvals and single decisions in any order.
StatusOnRecord ==
  \A i \in Invoice : approval[i] = "pending" \/ approval[i] \in timeline[i]

\* The sweep marks by id from an old read; still, what it marks is past due.
OverdueIsPastDue ==
  \A i \in Invoice : payment[i] = "overdue" => due[i] = "past"

\* A digest never names an invoice that the table still holds as unpaid, nor one
\* that goes back to unpaid after it was named.
DigestFollowsMark ==
  \A i \in announced : Live(i) => payment[i] # "unpaid"

\* A remembered invoice was live once and, if it still is and is a payable, has
\* an approval on record.
Vouched(i) ==
  /\ life[i] # "unborn"
  /\ i \in Payable /\ Live(i) => "approved" \in timeline[i]

\* What is remembered across a handler's two requests stays good enough: a call
\* past the gate, a webhook past its lookup and a link still out are vouched for;
\* only payables have links; and the rows a sweep carries are past due, and no
\* longer unpaid once marked.
MemoryIsSound ==
  /\ \A r \in Request : req[r] \in Invoice => Vouched(req[r])
  /\ \A l \in Link : link[l] \in Invoice => link[l] \in Payable /\ Vouched(link[l])
  /\ \A d \in Delivery : hook[d] \in Invoice => hook[d] \in Payable /\ Vouched(hook[d])
  /\ \A s \in Sweeper : \A i \in found[s] :
       /\ life[i] # "unborn"
       /\ Live(i) => due[i] = "past"
       /\ Live(i) /\ phase[s] = "marked" => payment[i] # "unpaid"
  /\ \A i \in announced : life[i] # "unborn"

(***************************************************************************)
(* The ledger these handlers implement.                                    *)
(***************************************************************************)

Ledger == INSTANCE InvoiceLedger WITH
  open    <- {i \in Invoice : Live(i)},
  struck  <- {i \in Invoice : life[i] = "deleted"},
  cleared <- {i \in Invoice : "approved" \in timeline[i]},
  entries <- receipts

\* Every step of the handlers is a step of the abstract ledger or leaves it alone.
ImplementsLedger == Ledger!Spec

(***************************************************************************)
(* Liveness.                                                               *)
(***************************************************************************)

\* An invoice found unpaid after its due date does not stay so: it is paid,
\* marked overdue or deleted, whichever runs of the sweep fail.
PastDueIsSwept ==
  \A i \in Invoice : Live(i) /\ payment[i] = "unpaid" /\ due[i] = "past"
                       ~> ~Live(i) \/ payment[i] # "unpaid"

(***************************************************************************)
(* What the documents say and the code does not do.                        *)
(***************************************************************************)

\* README: overdue is "unpaid past due date".
OverdueMeansUnpaid ==
  \A i \in Invoice : payment[i] = "overdue" => receipts[i] = 0

=============================================================================
