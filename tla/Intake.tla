------------------------------- MODULE Intake -------------------------------
(***************************************************************************)
(* How invoices get into Qlens: drafts of read documents, the forms that   *)
(* commit them or enter an invoice by hand (createInvoice), CSV batches    *)
(* (importInvoices in the web BFF, /upload/csv/commit and /upload/manual   *)
(* in the ingestion-service) and generated invoices.  Every writer looks   *)
(* first and inserts later, in separate Hasura requests, and any two may   *)
(* interleave.  A row is known by its key, the party and the number.       *)
(***************************************************************************)
EXTENDS Extraction, Sequences

CONSTANTS Vendor, Customer, Number,
          Draft,       \* review_queue rows
          Tab,         \* browser tabs with an entry form
          Batch,       \* CSV commits, one file each
          Sender,      \* generateAndSendInvoice calls
          Document,    \* what may be uploaded
          File,        \* what CSV files hold, [PayableKey -> Nat]
          Bill, State, MaxLines, \* what is billed between whom: Gst.tla
          ReadLimit,   \* limit of importInvoices' read
          MaxRows,     \* bound: rows of one receivable key
          MaxBusy      \* bound: writers in flight at once

Party == Vendor \cup Customer
Key == Party \X Number
PayableKey == Vendor \X Number
ReceivableKey == Customer \X Number
Writer == Tab \cup Batch

ASSUME ActorsDiffer == Tab \cap Batch = {} /\ Sender \cap Writer = {} /\ Vendor \cap Customer = {}
ASSUME NoneIsNoId == None \notin Draft \cup Party \cup Number
ASSUME FilesAreBags == File \subseteq [PayableKey -> Nat]
\* What OCR and a tool call can come to.
ASSUME DocumentsAreRead ==
  \A p \in Document :
    /\ DOMAIN p.pages \subseteq Nat
    /\ \A i \in DOMAIN p.pages : p.pages[i].conf \in 0..100
    /\ p.llm # None =>
         {p.llm.field["amount"], p.llm.field["tax_amount"], p.llm.items} \subseteq Int \cup {None}
\* A bill without lines is refused.
ASSUME BillsAreLists ==
  /\ MaxLines \in Nat
  /\ \A b \in Bill : /\ b # <<>> /\ b \in Seq({b[n] : n \in DOMAIN b})
                     /\ \A n \in DOMAIN b : b[n].value \in Nat /\ b[n].rate \in Nat \cup {None}

INSTANCE Gst

VARIABLES
  known,    \* parties in the vendors and customers tables
  rows,     \* [Key -> Nat], invoices of that party with that number
  bare,     \* [Key -> Nat], generated ones whose line items are not stored
  draft,    \* [Draft -> ...], review_queue.status
  made,     \* [Draft -> BOOLEAN], an invoice was inserted from this draft
  at, doc, pick, \* [Tab -> ...], the step of its commit, its draft, its key
  load, file, plan, cut, \* [Batch -> ...], step, rows of the file, rows to insert,
                         \* whether its read of the table hit the limit
  since,    \* [Writer -> SUBSET Key], keys inserted since the writer looked
  send, bill \* [Sender -> ...], step of the call, the key it bills

tables == <<known, rows, bare>>
drafts == <<draft, made>>
tabs == <<at, doc, pick>>
batches == <<load, file, plan, cut>>
senders == <<send, bill>>
vars == <<tables, drafts, tabs, batches, since, senders>>

NoFile == [k \in PayableKey |-> 0]

TypeOK ==
  /\ known \in SUBSET Party
  /\ rows \in [Key -> Nat] /\ bare \in [Key -> Nat]
  /\ draft \in [Draft -> {"absent", "pending", "committed", "rejected"}]
  /\ made \in [Draft -> BOOLEAN]
  /\ at \in [Tab -> {"idle", "party", "check", "insert", "booked"}]
  /\ doc \in [Tab -> Draft \cup {None}] /\ pick \in [Tab -> Key \cup {None}]
  /\ load \in [Batch -> {"idle", "web", "service", "planned"}]
  /\ file \in [Batch -> [PayableKey -> Nat]] /\ plan \in [Batch -> [PayableKey -> Nat]]
  /\ cut \in [Batch -> BOOLEAN]
  /\ since \in [Writer -> SUBSET Key]
  /\ send \in [Sender -> {"idle", "items", "mail", "blank"}] /\ bill \in [Sender -> Key \cup {None}]

Init ==
  /\ known = Customer      \* vendors come with their invoices
  /\ rows = [k \in Key |-> 0] /\ bare = [k \in Key |-> 0]
  /\ draft = [d \in Draft |-> "absent"] /\ made = [d \in Draft |-> FALSE]
  /\ at = [t \in Tab |-> "idle"] /\ doc = [t \in Tab |-> None] /\ pick = [t \in Tab |-> None]
  /\ load = [b \in Batch |-> "idle"] /\ cut = [b \in Batch |-> FALSE]
  /\ file = [b \in Batch |-> NoFile] /\ plan = [b \in Batch |-> NoFile]
  /\ since = [w \in Writer |-> {}]
  /\ send = [s \in Sender |-> "idle"] /\ bill = [s \in Sender |-> None]

Busy == {t \in Tab : at[t] # "idle"} \cup {b \in Batch : load[b] # "idle"}
          \cup {s \in Sender : send[s] # "idle"}
MayStart == Cardinality(Busy) < MaxBusy

Entered == {k \in Key : rows[k] > 0}

\* The UNIQUE constraint of the invoices table: on (vendor_id, invoice_number), and
\* a receivable's vendor_id is NULL, which equals nothing.
Admits(k) == k \in ReceivableKey \/ rows[k] = 0

\* What a writer is about to insert, once it has looked.
Aims(w) == IF w \in Tab THEN {k \in Key : at[w] = "insert" /\ k = pick[w]}
                        ELSE {k \in PayableKey : load[w] = "planned" /\ plan[w][k] > 0}

\* Writer me inserts the keys K: any other writer that has looked misses them.
Added(K, me) ==
  since' = [w \in Writer |-> IF w = me THEN {} ELSE since[w] \cup (K \cap Aims(w))]

-----------------------------------------------------------------------------
(***************************************************************************)
(* Documents, parties, and the review form.                                *)
(***************************************************************************)

\* process_document with its insert into review_queue: a bulk upload queues whatever
\* it has read, /extract what is not valid.
QueueDraft(d) ==
  /\ draft[d] = "absent"
  /\ draft' = [draft EXCEPT ![d] = "pending"]
  /\ UNCHANGED <<tables, made, tabs, batches, since, senders>>

\* createVendor and createCustomer, from their pages or the form's Add button.
\* Nothing keeps two parties from having one name.
AddParty(p) ==
  /\ p \notin known
  /\ known' = known \cup {p}
  /\ UNCHANGED <<rows, bare, drafts, tabs, batches, since, senders>>

Pick(t, d, p, n, step) ==
  /\ MayStart
  /\ at[t] = "idle"
  /\ at' = [at EXCEPT ![t] = step]
  /\ doc' = [doc EXCEPT ![t] = d]
  /\ pick' = [pick EXCEPT ![t] = <<p, n>>]
  /\ UNCHANGED <<tables, drafts, batches, since, senders>>

\* Commit of a draft.  The list is polled, so the draft may have been settled by
\* another tab by now; party, number and direction can all have been edited.  A
\* new party is created first.
CommitDraft(t, d, p, n) ==
  /\ draft[d] # "absent"
  /\ Pick(t, d, p, n, IF p \in known THEN "check" ELSE "party")

\* The manual form (a payable) and the receivables page's, of parties they have loaded.
EnterByHand(t, p, n) == p \in known /\ Pick(t, None, p, n, "check")

Return(t) ==
  /\ at' = [at EXCEPT ![t] = "idle"]
  /\ doc' = [doc EXCEPT ![t] = None]
  /\ pick' = [pick EXCEPT ![t] = None]
  /\ since' = [since EXCEPT ![t] = {}]

\* ensureParty: the request that adds the party named in the form, under an id of its
\* own even if somebody has added that name meanwhile.  It may be refused.
EnsureParty(t) ==
  /\ at[t] = "party"
  /\ \/ \E p \in (IF pick[t][1] \in Vendor THEN Vendor ELSE Customer) \ known :
          /\ known' = known \cup {p}
          /\ pick' = [pick EXCEPT ![t] = <<p, @[2]>>]
          /\ at' = [at EXCEPT ![t] = "check"]
          /\ UNCHANGED <<doc, since>>
     \/ Return(t) /\ UNCHANGED known
  /\ UNCHANGED <<rows, bare, drafts, batches, senders>>

-----------------------------------------------------------------------------
(***************************************************************************)
(* createInvoice: the Dup query, then the insert.                          *)
(***************************************************************************)

\* Mutant of CheckDuplicate: a duplicate leaves the form submitting.
CheckDuplicateOrHang(t) ==
  /\ at[t] = "check"
  /\ rows[pick[t]] = 0
  /\ at' = [at EXCEPT ![t] = "insert"]
  /\ since' = [since EXCEPT ![t] = {}]
  /\ UNCHANGED <<tables, drafts, doc, pick, batches, senders>>

CheckDuplicate(t) ==
  /\ at[t] = "check"
  /\ \/ /\ rows[pick[t]] = 0
        /\ at' = [at EXCEPT ![t] = "insert"]
        /\ since' = [since EXCEPT ![t] = {}]
        /\ UNCHANGED <<doc, pick>>
     \/ Return(t)          \* a duplicate, or Hasura is down
  /\ UNCHANGED <<tables, drafts, batches, senders>>

Inserted(t) ==
  /\ Admits(pick[t])
  /\ rows[pick[t]] < MaxRows
  /\ rows' = [rows EXCEPT ![pick[t]] = @ + 1]
  /\ made' = IF doc[t] \in Draft THEN [made EXCEPT ![doc[t]] = TRUE] ELSE made

\* Mutant of InsertInvoice: onError swallows the error and the form goes on.
InsertAndGoOn(t) ==
  /\ at[t] = "insert"
  /\ \/ Inserted(t) /\ Added({pick[t]}, t)
     \/ UNCHANGED <<rows, made, since>>
  /\ at' = [at EXCEPT ![t] = IF doc[t] \in Draft THEN "booked" ELSE "idle"]
  /\ UNCHANGED <<known, bare, draft, doc, pick, batches, senders>>

\* The insert: done and heard of, done but the answer lost, or refused.
InsertInvoice(t) ==
  /\ at[t] = "insert"
  /\ \/ /\ Inserted(t)
        /\ \/ /\ doc[t] \in Draft
              /\ at' = [at EXCEPT ![t] = "booked"]
              /\ UNCHANGED <<doc, pick>>
           \/ /\ at' = [at EXCEPT ![t] = "idle"]
              /\ doc' = [doc EXCEPT ![t] = None]
              /\ pick' = [pick EXCEPT ![t] = None]
        /\ Added({pick[t]}, t)
     \/ Return(t) /\ UNCHANGED <<rows, made>>
  /\ UNCHANGED <<known, bare, draft, batches, senders>>

\* afterCommit: the status is written whatever it is by now; a failure is ignored.
MarkCommitted(t) ==
  /\ at[t] = "booked"
  /\ \/ draft' = [draft EXCEPT ![doc[t]] = "committed"]
     \/ UNCHANGED draft
  /\ Return(t)
  /\ UNCHANGED <<tables, made, batches, senders>>

\* setReviewQueueStatus("rejected"), from a list that may be stale.
RejectDraft(d) ==
  /\ draft[d] # "absent"
  /\ draft' = [draft EXCEPT ![d] = "rejected"]
  /\ UNCHANGED <<tables, made, tabs, batches, since, senders>>

-----------------------------------------------------------------------------
(***************************************************************************)
(* CSV batches.                                                            *)
(***************************************************************************)

\* The rows of f that name a vendor the validation knows.
Recognised(f) == [k \in PayableKey |-> IF k[1] \in known THEN f[k] ELSE 0]

\* parseInvoiceCsv: the preview keeps the rows that validate.
PreviewFile(b, f) ==
  /\ MayStart
  /\ load[b] = "idle"
  /\ Recognised(f) # NoFile
  /\ load' = [load EXCEPT ![b] = "web"]
  /\ file' = [file EXCEPT ![b] = Recognised(f)]
  /\ UNCHANGED <<tables, drafts, tabs, plan, cut, since, senders>>

\* commit_csv and upload_manual: one row that does not validate refuses them all.
SubmitFile(b, f) ==
  /\ MayStart
  /\ load[b] = "idle"
  /\ f # NoFile
  /\ f = Recognised(f)
  /\ load' = [load EXCEPT ![b] = "service"]
  /\ plan' = [plan EXCEPT ![b] = f]
  /\ UNCHANGED <<tables, drafts, tabs, file, cut, since, senders>>

\* Mutant of Wanted: rows of the same file are not compared with each other.
WantedRepeatedly(f, seen) == [k \in PayableKey |-> IF k \notin seen THEN f[k] ELSE 0]

\* The rows that importInvoices still wants, once each, after reading keys seen.
Wanted(f, seen) == [k \in PayableKey |-> IF f[k] > 0 /\ k \notin seen THEN 1 ELSE 0]

\* A read without an order: all keys when they fit the limit, else some of them.
Reads(seen) ==
  /\ seen \subseteq Entered
  /\ Cardinality(seen) <= ReadLimit
  /\ Cardinality(Entered) <= ReadLimit => seen = Entered

\* importInvoices: read, validate and compare.  With nothing left it returns.
PlanImport(b, seen) ==
  /\ load[b] = "web"
  /\ Reads(seen)
  /\ plan' = [plan EXCEPT ![b] = Wanted(file[b], seen)]
  /\ load' = [load EXCEPT ![b] = "planned"]
  /\ file' = [file EXCEPT ![b] = NoFile]
  /\ cut' = [cut EXCEPT ![b] = seen # Entered]
  /\ since' = [since EXCEPT ![b] = {}]
  /\ UNCHANGED <<tables, drafts, tabs, senders>>

\* One insert_invoices with every row: all of them, or a conflict and none.
Fits(p) == \A k \in PayableKey : p[k] > 0 => p[k] = 1 /\ Admits(k)

InsertBatch(b) ==
  LET K == {k \in PayableKey : plan[b][k] > 0}
  IN  /\ load[b] \in {"planned", "service"}
      /\ \/ /\ Fits(plan[b])
            /\ rows' = [k \in Key |-> IF k \in K THEN rows[k] + plan[b][k] ELSE rows[k]]
            /\ Added(K, b)
         \/ rows' = rows /\ since' = [since EXCEPT ![b] = {}]   \* 502, or an error
      /\ load' = [load EXCEPT ![b] = "idle"]
      /\ plan' = [plan EXCEPT ![b] = NoFile]
      /\ cut' = [cut EXCEPT ![b] = FALSE]
      /\ UNCHANGED <<known, bare, file, drafts, tabs, senders>>

-----------------------------------------------------------------------------
(***************************************************************************)
(* Generated invoices, deletion.                                           *)
(***************************************************************************)

\* generateAndSendInvoice inserts without asking whether the number is taken.
GenerateInvoice(s, k) ==
  /\ MayStart
  /\ send[s] = "idle"
  /\ k[1] \in known
  /\ rows[k] < MaxRows
  /\ rows' = [rows EXCEPT ![k] = @ + 1]
  /\ bare' = [bare EXCEPT ![k] = @ + 1]
  /\ Added({k}, s)
  /\ send' = [send EXCEPT ![s] = "items"]
  /\ bill' = [bill EXCEPT ![s] = k]
  /\ UNCHANGED <<known, drafts, tabs, batches>>

\* The second request; when it fails the invoice stays without its lines.
StoreItems(s) ==
  /\ send[s] = "items"
  /\ \/ /\ bare[bill[s]] > 0
        /\ bare' = [bare EXCEPT ![bill[s]] = @ - 1]
        /\ send' = [send EXCEPT ![s] = "mail"]
        /\ UNCHANGED bill
     \/ /\ send' = [send EXCEPT ![s] = "idle"]
        /\ bill' = [bill EXCEPT ![s] = None]
        /\ UNCHANGED bare
  /\ UNCHANGED <<known, rows, drafts, tabs, batches, since>>

\* Rendering and publishing are best effort; the PDF has the lines of the input.
MailInvoice(s) ==
  /\ send[s] \in {"mail", "blank"}
  /\ send' = [send EXCEPT ![s] = "idle"]
  /\ bill' = [bill EXCEPT ![s] = None]
  /\ UNCHANGED <<tables, drafts, tabs, batches, since>>

\* resendInvoice reads an invoice with the lines the table holds, none for a bare
\* one, and mails what it has read.
ResendInvoice(s, k) ==
  /\ MayStart
  /\ send[s] = "idle"
  /\ \/ rows[k] > bare[k] /\ send' = [send EXCEPT ![s] = "mail"]
     \/ bare[k] > 0 /\ send' = [send EXCEPT ![s] = "blank"]
  /\ bill' = [bill EXCEPT ![s] = k]
  /\ UNCHANGED <<tables, drafts, tabs, batches, since>>

DeleteInvoice(k) ==
  /\ rows[k] > 0
  /\ rows' = [rows EXCEPT ![k] = @ - 1]
  /\ \E b \in {bare[k], bare[k] - 1} : /\ b >= 0 /\ b < rows[k]
                                       /\ bare' = [bare EXCEPT ![k] = b]
  /\ UNCHANGED <<known, drafts, tabs, batches, since, senders>>

-----------------------------------------------------------------------------
Next ==
  \/ \E d \in Draft : QueueDraft(d) \/ RejectDraft(d)
  \/ \E p \in Party : AddParty(p)
  \/ \E t \in Tab :
       \/ \E p \in Party, n \in Number : \/ \E d \in Draft : CommitDraft(t, d, p, n)
                                         \/ EnterByHand(t, p, n)
       \/ EnsureParty(t)
       \/ CheckDuplicate(t)
       \/ InsertInvoice(t)
       \/ MarkCommitted(t)
  \/ \E b \in Batch : \/ \E f \in File : PreviewFile(b, f) \/ SubmitFile(b, f)
                       \/ \E seen \in SUBSET Key : PlanImport(b, seen)
                       \/ InsertBatch(b)
  \/ \E s \in Sender : \/ \E k \in ReceivableKey : GenerateInvoice(s, k) \/ ResendInvoice(s, k)
                        \/ StoreItems(s)
                        \/ MailInvoice(s)
  \/ \E k \in Key : DeleteInvoice(k)

Spec == Init /\ [][Next]_vars

\* A request is answered or times out, and the form then takes its next step.
Fairness == \A t \in Tab : /\ WF_vars(EnsureParty(t)) /\ WF_vars(CheckDuplicate(t))
                          /\ WF_vars(InsertInvoice(t)) /\ WF_vars(MarkCommitted(t))

FairSpec == Spec /\ Fairness

-----------------------------------------------------------------------------
(***************************************************************************)
(* Safety.                                                                 *)
(***************************************************************************)

\* A vendor never has two invoices with the same number, whichever of the form,
\* the CSV import and the ingestion-service enters them and however their looks
\* and inserts interleave (migration 0003).
VendorNumberUnique == \A k \in PayableKey : rows[k] <= 1

\* The documents that are called valid and should not be, when the invoices entered so
\* far have those numbers.
Misjudged ==
  {<<numbers, {p \in Document : \E up \in SUBSET Service :
                Process(p, up, numbers).valid /\ ~Trustworthy(p, up)}>> : numbers \in SUBSET Number}

\* A document that is handed back for committing at once was read by the model from
\* pages that were all legible, names what an invoice must, and its lines add up,
\* whatever the table holds by then and whichever services failed on the way
\* (read_document to validate).
ValidIsTrustworthy == <<{k[2] : k \in Entered}, {}>> \in Misjudged

\* What a sender mails adds up, the first time and again (AddsUp in Gst), whatever is
\* billed, unless it is an invoice whose line items were never stored (splitTax,
\* generateAndSendInvoiceImpl, resendInvoiceImpl, renderInvoicePdf).
PrintedAddsUp == \A s \in Sender : send[s] = "mail" => Misprinted = {}

\* A draft that the queue shows as committed has produced an invoice, although
\* the client writes the status in a request of its own and swallows the errors
\* of every one (ReviewQueuePanel.afterCommit, DocumentReviewForm.commit).
CommittedIsBooked == \A d \in Draft : draft[d] = "committed" => made[d]

\* A writer that looked before it inserts is refused by the table only because
\* another one inserted in between (or its read of the table was cut short):
\* createInvoice's Dup query, and importInvoices' comparison with the table and
\* within the file, leave no other conflict.
RefusalMeansRace ==
  /\ \A t \in Tab : at[t] = "insert" => Admits(pick[t]) \/ pick[t] \in since[t]
  /\ \A b \in Batch : load[b] = "planned" =>
       \A k \in PayableKey : plan[b][k] > 0 =>
         plan[b][k] = 1 /\ (Admits(k) \/ k \in since[b] \/ cut[b])

(***************************************************************************)
(* Liveness.                                                               *)
(***************************************************************************)

\* A form that is committing comes back to its user, whichever of its four
\* requests fails (commit's finally block).
SubmittingEnds == \A t \in Tab : at[t] # "idle" ~> at[t] = "idle"

=============================================================================
