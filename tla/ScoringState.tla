---------------------------- MODULE ScoringState ----------------------------
(***************************************************************************)
(* What the ml-service has derived from the invoices, duplicate flags and  *)
(* delay predictions, and what must hold of it; Scoring says how it        *)
(* changes.  The receivables belong to one customer.                       *)
(***************************************************************************)
EXTENDS EventTrigger

CONSTANTS Receivable  \* the other invoices are payables

ASSUME ReceivablesAreInvoices == Receivable \subseteq Invoice

VARIABLES
  flags,       \* [Invoice -> Nat], how many unreviewed rows
  predictions, \* [Invoice -> [Worker -> ...]], rows, by who wrote them: the paid
               \* invoices that each has counted, or None
  raced,       \* have two requests ever overlapped
  orphaned     \* has a request died that Hasura had stopped waiting for

\* A request: its event and whether Hasura still waits for it; the invoice it is
\* at and those to score again; what it read.
Request == [ev : Event, waits : BOOLEAN, inv : Invoice, todo : SUBSET Invoice,
            seen : SUBSET Receivable, match : BOOLEAN,
            step : {"flags", "flag", "clear", "add", "open"}]

ASSUME NoneIsNothing ==
  None \notin Request /\ \A counted \in SUBSET Receivable : None # counted

Paid == {i \in Receivable : status[i] = "paid"}
Unpaid == {i \in Receivable : Open(i)}
Rows(i) == {w \in Worker : predictions[i][w] # None}

-----------------------------------------------------------------------------
\* When every call has been made and no two requests ever overlapped, an open
\* receivable has one prediction, it counts every payment of its customer, and
\* it has at most one flag: whatever failed halfway and was retried, and in
\* whichever order the calls came (score's re-scoring of the others).
PredictionsAreCurrent ==
  Busy = {} /\ events = {} /\ dead = {} /\ ~raced =>
    \A i \in Unpaid : /\ Cardinality(Rows(i)) = 1
                    /\ \A w \in Rows(i) : Paid \subseteq predictions[i][w]
                    /\ flags[i] <= 1
=============================================================================
