# Qlens: specifications, checks and proofs

Qlens tracks the invoices a company has to pay (payables) and those it waits to be
paid (receivables). This directory holds TLA+ models of the parts of it where the
order of events decides, TLC configurations that check them on small instances, and
proofs, checked by TLAPS, that the main safety properties hold for every instance.

## The system

| Component | State it keeps | Operations | Talks to |
|---|---|---|---|
| Web BFF (`src/apps/web/server`, `app/api`) | none but a cached RabbitMQ channel; writes Postgres through Hasura | GraphQL resolvers: create, import, approve, reject, pay, set collection status, delete; Razorpay link and webhook | Hasura, ml-service, RabbitMQ, Razorpay, auth-service, ocr-service |
| Hasura and Postgres (`src/hasura`) | invoices, approvals, payments, vendors, customers, users, companies, invites; review_queue in a second database | one transaction per request; event triggers and cron triggers with retries | ml-, genai- and notification-service |
| notification-service | none | overdue sweep, customer reminders (both cron), consumer of `notify.outbound` | Hasura, RabbitMQ, SMTP |
| ocr-service | uploaded files in a temp dir, job status in memory | bulk enqueue, status, background pipeline | RabbitMQ, Hasura |
| auth-service | users, companies, invites in Postgres | register, create user, invite, accept, (de)activate, refresh | Postgres, Keycloak |
| ml-service | duplicate_flags, delay_predictions, retrain events, drift reports; model pickles and their cache | score (event trigger), review flag, retrain, drift check (cron) | Hasura, its own Postgres |
| genai-service | invoice_embeddings | embed (event trigger), backfill, ask | Hasura, Postgres, LLM |
| ingestion-service | none | validate and commit CSV rows, manual entry | Hasura |
| Web UI | what each tab shows, its copy of the session, timers, localStorage | forms, bulk upload with polling, review queue, silent refresh, dashboard and lists | the BFF |

What makes the system hard is the same thing nearly everywhere: a handler makes two or
more requests, each a transaction of its own, and remembers in between what the first one
said. Payments, deletions, the sweep, a retry of the same handler or a second delivery of
the same message come between them. RabbitMQ and Razorpay deliver at least once, Hasura's
cron calls again after a failure or a timeout while the first call may still be running,
and SMTP, Keycloak and Hasura may fail or stay silent between two steps.

What makes each part correct, in a sentence:
no money without an approval on record, and books that agree (invoices); reminders that
stay within the attempts made, are marked only when sent, and go out in the end
(reminders); accepted messages that are kept and attempted (outbox); bounded drafts and
no job forgotten (bulk upload); no account unknown to the users table (accounts); one
invoice per vendor and number, and no draft lost on the way into the books (intake);
predictions, embeddings and models that catch up with the rows they were made from
(scoring, embeddings, retraining); numbers on different pages that are the same number
(reports); and a tab that stays signed in and offers what the server allows (session).

## Modules

| Module | Models | Code |
|---|---|---|
| `InvoiceLedger` | abstract: what the ledger of payments promises | - |
| `Invoices` | an invoice row, its approvals and payments rows, under the resolvers, the Razorpay routes and the overdue sweep | `resolvers.ts`, `api/payments/*/route.ts`, notification-service `main.py`, `hasura.py`, `notify.py` |
| `ReminderState`, `Reminders` | the reminder cron with overlapping and failing runs | notification-service `main.py:67-102`, `hasura.py`, `cron_triggers.yaml` |
| `Faults` | counts what goes wrong, for every module in which something does | - |
| `Queue` (extends `Faults`) | a durable queue with a prefetch count and acknowledgements | RabbitMQ, as notification- and ocr-service use it |
| `Outbox` (extends `Queue`) | publisher, broker and consumer of `notify.outbound` | `queue.ts`, notification-service `queue.py`, `notify.py` |
| `UploadState`, `BulkUpload` (extend `Queue`) | upload request, queue `ocr.bulk`, pipeline, polling page | ocr-service `bulk.py`, `main.py`, `pipeline.py`, `hasura.py`, `BulkDocumentUpload.tsx` |
| `AccountState`, `Accounts` (extend `Faults`) | account creation over Postgres and Keycloak | auth-service `users.py`, `keycloak_admin.py`, `db.py` |
| `Extraction` | operators: what is made of one document | ocr-service `pipeline.py`, `routing.py`, `extract.py`, `validation.py`, `match.py` |
| `Sums` | operators: the sum of a function over a finite set | - |
| `Gst` (extends `Sums`) | operators: the amounts of a generated invoice | `lib/pdf`, `server/invoiceSend.ts` |
| `Intake` (extends `Extraction`, instantiates `Gst`) | every way an invoice gets into the table | `resolvers.ts`, `csvImport.ts`, `invoiceSend.ts`, `DocumentReviewForm.tsx`, the review queue, ingestion-service |
| `EventTrigger` | the table as an event trigger sees it: calls, retries, calls given up | `public_invoices.yaml` |
| `ScoringState`, `Scoring` (extend `EventTrigger`) | duplicate flags and delay predictions | ml-service `main.py`, `db.py`, `duplicate.py`, `delay.py`, `hasura.py` |
| `Asking` | operators: how a question is routed, searched and answered | genai-service `rag.py`, `query_builder.py`, `llm.py` |
| `Embeddings` (extends `EventTrigger` and `Faults`, instantiates `Asking`) | the embedded chunks that the search reads | genai-service `main.py`, `db.py`, `embed.py` |
| `Retraining` | retrains, drift checks, model files and their cache | ml-service `retrain.py`, `drift.py`, `delay.py`, `duplicate.py`, `main.py` |
| `Reports` (extends `Sums`) | the numbers and lists that the server makes of the rows | `resolvers.ts`, `mappers.ts`, `queryBuilders.ts`, `lib/vendorHistory.ts` |
| `Screens` (extends `Reports`) | what the pages make of the server's answers | the dashboard, forecast, invoice lists, vendors' and customers' pages, payment history |
| `Session` | the tabs of one browser, the cookie they share, roles | `auth.ts`, `server/jwt.ts`, `app/api`, `lib/role.tsx`, `lib/apollo.ts`, the permissions of `resolvers.ts` and Hasura |
| `InvoicesProofs`, `RetrainingProofs` | theorems about the module of that name | - |
| `DeliveryProofs` | theorems about `Outbox`, `BulkUpload` and `Reminders`: what delivers, and delivers again | - |
| `IdentityProofs` | theorems about `Session` and `Accounts` | - |
| `DerivedProofs` | theorems about `Embeddings` and `Scoring` | - |
| `SumTheorems` | the laws of sums | - |
| `IntakeProofs` | theorems about `Intake`, `Extraction` and `Gst` | - |
| `ReportsProofs` | theorems about `Reports` and `Screens` | - |
| `MC*` | the modules TLC runs | - |

Which definition stands for which lines is in the `map` of `PROJECT.json`. Where two
components share a module of proofs, the variables of one and what must hold of them are in
a `...State` module that its actions and the proofs both extend; the proofs take its
actions as an instance.

**Invoices.** A row is five functions over the invoice id (`life`, `approval`, `payment`,
`collection`, `due`); `timeline` holds the statuses recorded by its approvals rows and
`receipts` the number of its payments rows. A handler that makes one request is one
action (`SetApproval`, `ApproveInvoices`, `DeleteInvoice`, `SetCollectionStatus`). One
that reads and then writes is two, and what it remembers is a variable: `req` for
recordPayment (`PayGate`, `RecordPayment`), `hook` for the webhook (`WebhookLookup`,
`WebhookPays`), `phase` and `found` for the sweep (`SweepFind`, `SweepMark`,
`SweepDigest`). A payment link is never consumed: Razorpay may report it any number of
times. `SweepMark` overwrites by id, as `_MARK` does. `CreateInvoice` covers every way a
row appears; how it gets there is in `Intake`.

**Reminders.** `age` is the number of days since `last_reminder_on`, capped at the
interval; `todo`, `seen` and `mailed` are a run's list, the counts it read and the row
between its mail and its mark. `Attempt`, `AttemptTimesOut` and `Abort` are Hasura's
retries. `sent`, `mailsToday` and `mailAge` are history. The days are counted by
`NextDay`, which waits for the runs in progress: a run starts at 04:00 and takes seconds
per row, so it is over before midnight.

**Outbox.** A connection is named by the call that opened it; `channel` is the module
variable that concurrent calls set and read across awaits, `alive` and `closing` what the
socket knows and what the close handler has yet to do. There are no publisher confirms: a
call that ended well may have lost its message. `task` is the handler of the current
delivery; `stale` are handlers whose channel is gone. `routed`, `refused` and `mails` are
history.

**BulkUpload.** `stage[j][n]` is the handler of job j's n-th delivery; handlers of old
deliveries run on after a lost connection and share `memory` (the `_JOBS` dict) and
`file` with the current one. A restart cancels some handlers (their `finally` clause
deletes the file, and the message may be rejected without requeue) and kills others; the
container's files may be gone. Saving and OCR are single steps because the handler does
not await in them.

**Accounts.** Every statement commits by itself (`db.py` sets autocommit), so
`Check`, `InsertRow`, `Provision`, `Undo` and `Return` are separate steps of a call.
`ProvisionLost` is an httpx error, which is not a `KeycloakError`: the call ends there.

**Intake.** `rows[k]` is the number of invoices with key `k`, a party and a number. Every
writer looks in one request and inserts in another. A browser tab commits a form through
`EnsureParty`, `CheckDuplicate`, `InsertInvoice` and `MarkCommitted` (variables `at`,
`doc`, `pick`); a CSV batch reads, plans and inserts (`load`, `file`, `plan`, and `cut`
when the read stopped at its limit); a sender inserts a generated invoice and then its
line items (`send`, `bill`, and `bare` for those whose items never came). The UNIQUE
constraint is `Admits`: it speaks of vendors, so receivables repeat. `since` is history:
the keys inserted after a writer looked. `made` says that a draft has produced an invoice.
Two groups of operators hang on it: `Extraction` takes a document, as pages with
confidences and what the model and the regular expressions would read, to a draft or a
refusal, for every set of services that may be down; `Gst` rounds, groups and sums the
lines of a bill in paise.

**Scoring and Embeddings.** `EventTrigger` is the table under them: rows that are inserted,
paid, swept and deleted, the calls that Hasura owes (`events`, each with the retries it
has left) and those it has given up (`dead`). A call is a message that is delivered late,
in any order, and again after an error or a timeout while the first delivery may still
run. `Scoring` has the steps of a request, with one commit each: DELETE of the flags,
INSERT, DELETE of the prediction, INSERT, and then the same for the customer's other open
invoices; a prediction is the set of payments it has counted. `Embeddings` reads the
invoice at the time of the request, drops the stale chunks and puts new ones, one commit
each: a summary, and the windows of its document (`Windows`). A backfill does so for all
invoices and is repeated by nobody. `Asking` takes a question, the services that are up
(`Answerer`: Hasura, its database, the embeddings, and the model at each of its three
calls), the table and the chunks to what `/query` answers (`HandleQuery`) and to what the
BFF shows (`Ask`): an answer, "unavailable", or an error. The model may also plan a query
that the whitelist refuses, that Hasura refuses, or that has no shape. The search is a set
of outcomes, because chunks that are equally similar come in any order; the vector index
answers exactly.

**Retraining.** A model is a file (`file`: which retrain wrote it, absent or cut short), an
entry of the process's cache (`cache`) and rows of the history (`history`). A request
(`task`) is a retrain by hand or a drift check over both models; `panel` is a load by the
thread of the status page, which reads a file, and puts it into the cache later. A
restart empties the cache and the requests and keeps files and history. `OpenFails` is what
happens between the event's row and the `try`: the answer is lost, or the trainers do not
import. `lost` is history: the events whose retrain ended where nothing closes them.

**Reports and Screens.** The state is small: the rows with the days they were paid on,
`today`, `boot`, the day on which the server took TODAY, and `found`, what the sweep has
found and not yet marked (`SweepFind`, `SweepMark`, as in `Invoices`; `raced` remembers
whom it overwrote). Nearly all of the code is
functions of it, and each is an operator: the tiles, filters, forecasts, statistics of the
server (`Reports`), and what the pages split, add up and page through on top (`Screens`).
Where the database may answer in any order, the operator is the set of answers, and where
a query has a limit, it is the set of what may be read (`Read`, `Loaded`): the forecast
reads 2000 unpaid rows and the paid averages 500, in no order; the dashboard and the
forecast page load 200 of a list, a vendor's page 500. The properties compare two
computations of one number, for all reachable tables and everything that may be read.

**Session.** The cookie is shared by the tabs, each tab has a copy of what it was told when
it last asked, a timer, a refresh and a sign-out that may be under way. Times are kept as
what is left of them, so the clock needs no bound. `sure` marks a tab that has seen its
session with `Lead` to go. The tables of who may do what (the page's capabilities, the
navigation, the resolvers' checks and Hasura's permissions) are operators of the role.

## Runs

Bounds are the smallest in which every interleaving a property is about occurs.

| Run | Instance | Shows |
|---|---|---|
| `invoices` | 1 payable, 1 receivable, 1 recordPayment call, 1 link, 1 webhook delivery, 1 sweep; payments, deletion and rejections unbounded otherwise | the safety properties, the refinement of `InvoiceLedger`, and `PastDueIsSwept`. Two ways to pay one invoice (call and webhook) are enough for every double payment; any number of each is covered by the proofs |
| `reminders` | 1 invoice, 2 overlapping runs, interval 2, 2 retries, counters capped at 3 | rows do not interact except by ending a run early, so one row and two runs show every overlap |
| `outbox` | 2 messages, prefetch 1, 2 restarts | two publishers are what it takes to overwrite the channel; one restart to break it, a second to break the recovery |
| `bulk_upload` | 2 documents, prefetch 2, 1 fault | a stale handler beside the current one needs one lost connection; 2 faults with 1 document give the same answers |
| `accounts` | 2 calls, 2 companies, names and emails, 1 invitation, 1 fault | two calls race for a name, an email or an invitation |
| `intake` | 2 vendors, 1 customer, 1 number, 1 draft; 2 tabs, 1 batch and 1 sender, 2 of them busy at once; 2 files, a read of 2 rows; 8 documents, bills of up to 3 lines of 4 kinds, of which 2 fit | conflicts are between two writers of one key. The files are a row twice and a row for each vendor, and the read limit can be reached. The documents lie on both sides of every threshold; the lines round up, down and together |
| `scoring` | 2 receivables that look alike and 1 payable, 2 workers, 1 retry, 3 changes, a timeout and a failure | one receivable paid while the other is scored is the stale snapshot; the failure falls between DELETE and INSERT, the timeout makes the second delivery overlap |
| `embeddings` | 3 invoices, 2 workers (symmetric), 1 retry, 3 changes, 1 fault; 5 questions, 2 results from 4 chunks | one invoice has a document of three windows, so that it alone can fill what is fetched; three invoices compete for two results. The questions cover every routing and every way in which the model plans, with similarities that crowd out, tie, change with the status and fall short |
| `retraining` | 1 company with its 2 models, 2 requests, 2 retrains, 1 drift check, 1 fault | a drift check beside a retrain by hand. Clearing the cache is by model and hits all companies, so a second one shows nothing new |
| `reports` | 3 bills of a vendor, a receivable of each of 2 customers, 2 days; one bill is paid twice and one never; pages of 1 row, forecast edges 0 and 1; the forecast reads 3 rows, an average 1, the pages load 1 and 2 | amounts are powers of two, so a sum that leaves one out differs; two days give a server that runs past midnight, bills due before, on and after either; every limit is met, and exceeded |
| `session` | 2 tabs (symmetric), a user of each of the three roles, tokens of 4, refresh 3 before the end, requests of 1, 1 fault | a tab that refreshes, and one that signs out or in as somebody else in the middle of it |
| `overdue_means_unpaid` | as `invoices`, 2 deliveries | a statement of the repository's README that the code does not keep |

`CHECK_DEADLOCK FALSE` is set where the instance has a finite number of calls, changes or
faults, which may all be used up; `reminders`, `intake` and `reports` go on for ever and
are checked for deadlock. Three properties range over
inputs as well as states (`ValidIsTrustworthy`, `PrintedAddsUp`, `NoDeadEnd`): for the table
as it is, they say what a chain of functions returns for every document, bill or question
of the instance, every outcome of the search and every set of services that is down. The sets behind them (`Misjudged`,
`Misprinted`, `DeadEnds`) are constants, which TLC works out once.
The mutants named in the modules ("Mutant of ...") change one definition as a slip in the
code would; each property has one that breaks it.

## Where the code and its documents differ

`overdue_means_unpaid` is a run: the sweep marks by remembered ids, so a payment recorded
in between becomes `overdue`, against README.md:43-44. The others were met while
modelling; the models have the code's behaviour, and the properties say what does hold.

- Neither payment mutation looks at the approval again, so a withdrawn approval does not
  stop a payment under way or an open link (comment at resolvers.ts:507-509). A payable
  with a payment was approved at some time (`NoPaymentWithoutClearance`).
- `format_digest` raises for receivables, after the rows were marked (README.md:45-46).
- A failed poll ends the polling (comment at BulkDocumentUpload.tsx:78); `PollEnds` holds.
- A job can be `done` with neither draft nor file (comment at pipeline.py:38-40).
- A Keycloak request without an answer leaves a users row that can never sign in
  (users.py:4-7). Each fault leaves one such row at most (`DriftIsBounded`).
- role.tsx:30-31 says that the BFF enforces the page's split of roles on every mutation;
  the customer page shows the e-mail panel to roles that resolvers.ts:47-48 refuses. It is
  the only such difference (`OnlyTheEmailIsRefused`).
- rag.py:128-131 says that over-fetching chunks keeps the answer at `top_k` invoices; it
  fetches twenty, and a document of 7-10 pages (chunking.py:5), in windows of 180 words, has
  as many. `SearchIsRight` therefore lets an invoice be crowded out by the chunks of others
  (`Crowded`), and without that excuse the run `embeddings` violates it.
- The README gives finance users no deletes and an approver its own approvals only, and
  says that no role can delete anything (README.md:400-405). Hasura's metadata grants
  `finance_user` and `company_admin` the deletion of invoices (public_invoices.yaml:244-250),
  and an approver updates invoices (:224). `Grants` of `Session` is the metadata, so
  `OnlyTheEmailIsRefused` speaks of what is granted, not of what the README says.
- query_builder.py:110 says that `overdue` is never stored; the sweep stores it. Its query
  asks for "not paid" and is right all the same.
- Comments at resolvers.ts:309-311 say that a Hasura relationship is gone by which a list
  can still be sorted (delayProbability).

Behaviour that no document speaks of, but that a reader of the models may want to know:

- Session: a call that is refused signs out when its answer comes, whoever has signed in
  in another tab meanwhile; a refresh that fails is not tried again; one that is answered
  after a sign-out in another tab sets the cookie again; a tab keeps its user's name and
  takes the role of whoever has signed in since. Deactivating a user ends sign-ins, not
  sessions.
- Lists: paging sorts by one column that is not unique, so rows with equal keys may be on
  two pages or none (`PagesAgree` asks for distinct keys); a selection outlives the filter
  and the page it was made on.
- Limits: beyond 2000 unpaid invoices the forecast's net position, and beyond 500 paid ones
  the averages and what was collected, are of whichever rows the database returns first;
  beyond 200 the dashboard's and the forecast page's lists and bars fall short of the tiles
  beside them. `NumbersAgree` and `PagesAgree` say equal where the rows fit and no more than
  where they do not.
- A row that the sweep overwrote is listed as overdue and counted as owed, although it has
  a payment (`OverdueIsRight` has this case and no other).
- Ask: a model that is out of reach when the answer is to be written makes `/query` fail
  (rag.py:178 is outside any `try`), and the user reads that the assistant is unavailable,
  although the rows were found; a query that Hasura refuses reads "No matching invoices".
- Retraining: the trainers are imported after the event's row is written and before the
  `try` (retrain.py:47-52); if that fails, the event stays running.
- Dashboard: filtered by a vendor, the banner still shows what all customers owe; a bill
  that is pending and overdue is counted twice in the delay-risk chart; "collected" goes
  by the first payment of a receivable, "paid" counts every payment of a payable.
- Histories: a vendor's share in time goes by the earliest payment in one place and by any
  payment in another, which is never better (`HistoryAddsUp`); an estimate's most likely
  day may lie in the past while its window does not.
- Intake: a generated invoice whose line items could not be stored stays, and a later
  resend prints it without lines.

## Fairness

- `Invoices`: the cron starts the sweep daily and retries it, so a run that keeps getting
  the chance to mark takes it (strong fairness of `SweepMark`: runs may fail in between any
  number of times, not for ever). Users owe the system nothing.
- `Reminders`: days come; an attempt whose query works comes in the end (strong fairness:
  attempts may fail); a run works through its list, and neither SMTP nor Hasura refuses one
  invoice for ever. Without the last two the reminder never goes out, rightly.
- `Outbox`: sockets answer or fail, the broker comes back, the consumer's loop
  (`start_consumer`, aio_pika's robust connection) reconnects, handlers run. Publishing is
  not fair.
- `BulkUpload`: the broker delivers, handlers run to their end (httpx has a timeout), the
  page's timer fires. Requests, inserts and faults are not fair.
- `Intake`: a request of the form is answered, refused or given up by the browser, and the
  form goes on (weak fairness of its four steps). Users and batches are not fair.
- `Scoring`: Hasura makes the calls it owes, and a request that runs takes its next step.
- `Retraining`: a request that runs takes its next step, so the trainer ends. Nobody has to
  ask for a retrain.
- `Embeddings`, `Reports`, `Session` and `Accounts` are checked for safety only and need
  none: their properties speak of what has settled, or of single steps.

## Proofs

Assumptions: the named `ASSUME`s of each module (the two directions are disjoint sets; the
marks are no ids; the bounds are naturals; the slots for overlapping runs are finitely
many; what OCR, a tool call, a classification and a distance between vectors can come to;
no invoice without a vendor or a customer, and no vendor that is a customer; bills that are
lists of one line or more, with natural values and rates, as invoiceSend.ts:34 demands).
TLC evaluates them in every run.

- `InvoicesProofs`: `IInv` is the conjunction of the type invariant, the six safety
  properties and `BlankUnlessLive` (a row that is not there has no timeline or payments).
  `MemoryIsSound` is the strengthening that makes the others inductive: a payment is made
  from memory, so what is remembered must imply the gate; a sweep marks from memory, so
  what it found must be past due. The refinement is proved action by action:
  every handler step is `Enter`, `Clear`, `Settle`, `Strike` or a stutter of the ledger.
- `DeliveryProofs`, of the reminders: the counts a run has read are below the mails sent, a row between mail
  and mark was mailed today, and the runs that may still mail a row number at most the
  attempts of the day less the mails of the day, which needs the cardinality of the set of
  runs that hold the row.
  Of the outbox: a message is in one place at a time (`OnePlace`), and the
  mails sent plus the mails that may still come - one from its place, one from a handler
  whose channel is gone - are at most one more than the restarts (`BudgetHolds`), which
  bounds the mails. `QueuedIsKept` needs that a handler that got through has tried
  (`DoneHasTried`). Of the bulk upload: a handler that is over has removed the file and left
  a final status, so nothing begins after it (`OverIsFinal`), and a queued job with a file
  has a message (`FilesAreHeld`); hence `PendingIsHeld`. For the drafts, the handlers that
  may still insert are counted with the drafts there are (`DraftBudget`).
- `IdentityProofs`, of the accounts: the row of a call stands from its insert until its
  undo, an undo follows only when the call has no account (`MadeByCalls`, `RowsStay`), and
  an invitation names one email, which is unique in `users` (`InvitesNameOneEmail`,
  `EmailsAreUnique`): that, not the check for `accepted_at`, is what makes an invitation
  single-use. `DriftBudget` counts the rows without an account against the faults. Of the
  session: as long as nothing is lost or late, a tab that has had its lead has a timer or a
  refresh under way that is answered before its copy runs out, and the cookie lives at
  least as long as that copy; this needs `Lead` to be more than two trips, one for a
  refresh to come and one for the tab that had asked before it.
- `IntakeProofs`: what a writer has seen goes stale the moment it has seen it, so the
  invariant says what is left of it: a form may insert its key unless that key is in
  `since` (`FormMayInsert`), a batch each row of its plan unless its read was cut short or
  the key is in `since` (`BatchMayInsert`). `FormsAreSound` ties a form that has booked to
  its draft. `VendorNumberUnique`, `CommittedIsBooked` and `RefusalMeansRace` follow for any
  number of writers, parties and files. `ValidIsAlwaysTrustworthy` goes through the pipeline
  backwards, for any document and any services that fail: a confidence that passes for the
  amount is below the worst scan and the reader's own (`CappedIsBelow`), so the reader was
  the model and no scan was worse than what the amount needs. `PrintsAddUp` is arithmetic,
  for bills of any length with any rates. `splitTax` has one group for each kind of line
  (`SplitByKind`), so the tax stored and the columns printed are both the `Levy`, a sum over
  the kinds (`LevyIsPrinted`); rounding a kind's tax and then its half moves it by less than
  two paise (`LevyIsDue`); halves and whole differ by a paisa (`LeviesAreClose`); the lines
  that fit are a prefix, whose kinds owe no more (`PrefixIsLess`); and a total depends on the
  lines by how many there are of each alone, not on their order (`ReorderedSplits`).
- `RetrainingProofs`: a request that trains has its row of the history, so the version it
  writes is new (`Opened`); with that, what is served is what is on disk
  (`ServedIsOnDisk`), provided the same is said of what the status page has read and not
  yet put into the cache (`LoadedIsOnDisk`). For `HistoryIsOnDisk`, the last event of a model
  that has succeeded is the one its file names, or that of the retrain that is between its
  file and its row; which retrain writes last is settled by their rows, as long as no two
  of one model overlap.
- `ReportsProofs`: the server started no later than today, rows marked overdue are past
  due, a row has a payment when it is paid and none while it is unpaid, and one that is
  overdue has none unless it was `raced`. What a sweep remembers must say the same of the
  rows it is going to mark, which is the strengthening. `OverdueIsRight` follows by the
  days, and `RecordsAgree` by comparing with the earliest payment, which exists because any
  set of days has a first (`FirstDay`). `OneNumber` and `ScreensAgree` hold of every table
  of the right type. `OneNumber`: the parties, the forecast's buckets and the filters are
  partitions of the rows, so what is summed over their parts is the whole (`SharesAddUp`,
  `FlowsAddUp`, `FiltersSplit`); a query with a limit reads a part, and everything when
  there are no more rows than that (`ReadIsPart`, `ForecastReads`, `CollectedAddsUp`); and
  the label that a mapper shows says paid exactly when the status does (`LabelsAreStatus`).
  `ScreensAgree` adds the pages' own computations (`ForecastAgrees`,
  `PartiesAgree`) and the paging: in any answer of a query sorted by dates that differ, a
  row stands at its rank (`RowsStandAtTheirRank`), and each rank is on one page
  (`OnOnePage`), so it does not matter that the pages are cut from different answers.
  `HistoriesAddUp` rests on `Rounded` being monotone: the average lies between the quarters'
  averages (`MeanLiesBetween`, as some quarter is no better than the whole, by
  `SomeTermIsLess`), the list clips early payments and so is no better (`ListIsNoBetter`),
  and two shares that make a whole are 100, or 101 when both are halves
  (`SharesMakeAHundred`).
- `SumTheorems`: what the previous two need of sums. The library defines a sum by a
  recursive function over subsets. That this function exists and does not depend on the
  order is induction over finite sets, and the library's induction theorem takes an
  operator, which no prover here can instantiate. But a family of subsets of a finite set
  is itself a set, and the strict subset order on them is well-founded: a family that has
  every set whose proper subsets it has is all of them (`AllSubsets`, by a minimal
  counterexample). Each law of sums is then said of the family of subsets for which it
  holds: a sum is whole, splits in two or along any partition (`SumOfParts`), is monotone
  and linear, and is the same under other names (`SumOfImage`).
- `DerivedProofs`, of the scoring (`ScoringInv`): until two requests overlap, an open
  receivable is `Current`, or a call is owed that will score it (`Owed`), or the request that
  runs has read every payment and is on its way to it (`Underway`). A timeout leaves the
  request running and the call owed, so what the next request would find is said of the
  request that runs alone (`Undisturbed`). Of the embeddings (`EmbeddingsInv`): a chunk of a
  live invoice is there, or a request at the invoice has yet to put it, or somebody is still
  to read the invoice (`AllWhole`); and while requests do not overlap, what is there is what
  the table says, or the one request that replaces it has read what the table says
  (`AllFresh`). `SearchIsRight` then is about what is fetched, for documents of any length: a
  chunk that is left out is behind all that are fetched, which are `TopK * OverFetch`
  (`FetchedAreNearest`). So an invoice none of whose best chunks is fetched is crowded out
  by those of others; one of which it is has its true score (`ScoresAreTrue`), and is
  missed only for `TopK` that are no worse (`SearchFinds`).
  `NoDeadEnd` goes through the routes, the ways to plan and what is up
  (`NoneIsADeadEnd`).

Beside the properties that the runs check, the type invariants of all components and
`OverdueIsPastDue`, `DigestFollowsMark`, `MemoryIsSound`, `MarkedWasMailed`,
`MarksAreSpaced`, `DraftsAreBounded`, `VendorNumberUnique` and `HistoryAgrees` are proved.
A type invariant with a proof is in no run.

Only model-checked: everything under fairness (`PastDueIsSwept`, `DueIsReminded`,
`QueuedIsAttempted`, `PublishReturns`, `JobsAreCleared`, `PollEnds`, `SubmittingEnds`,
`PredictionComesBack`, `RetrainsAreClosed`), which is out of TLAPS's reach, and the
violation. Every other property of the passing runs is stated by a theorem.

## Not modelled

- The landing page, the layout of the sign-up and demo pages, GraphQL documents, widgets
  and styles: they keep no state beyond the field being edited, and what their buttons call
  is modelled with the component they call. The layout of the PDF.
- What regular expressions, OCR and the language models read or say: it is data, chosen
  freely, and so are the training and the drift statistics.
- Company scoping, rate limits, deactivation (it sets one column), filters by department,
  source and text, and the limit of a query that the assistant plans. The vector index is
  approximate (HNSW) and filtered by company after the fact; the model's is exact.
- Prompts, wording, formatting, logging, metrics and deployment.

## What is left

1. Composition: a draft of `BulkUpload` is the draft that `Intake` commits, and its invoice
   the one that `Invoices` pays. Today they share names and not variables.
2. An abstract at-least-once queue that `Outbox` and `BulkUpload` both implement.
