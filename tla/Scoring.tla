------------------------------ MODULE Scoring ------------------------------
(***************************************************************************)
(* What the ml-service derives from the invoices: duplicate flags and      *)
(* delay predictions (/score).  Requests run concurrently, read the        *)
(* invoices first and write the service's own database later, a DELETE and *)
(* an INSERT in two commits.  The receivables belong to one customer.      *)
(***************************************************************************)
EXTENDS ScoringState

CONSTANTS Alike,      \* pairs of invoices that detect takes for duplicates
          Mishaps     \* bound: what may happen to a request, each once

VARIABLE mishaps      \* what has happened

db == <<flags, predictions>>
vars == <<table, job, db, raced, orphaned, mishaps>>

TypeOK ==
  /\ TableTypeOK
  /\ job \in [Worker -> Request \cup {None}]
  /\ flags \in [Invoice -> Nat]
  /\ predictions \in [Invoice -> [Worker -> {None} \cup SUBSET Receivable]]
  /\ raced \in BOOLEAN /\ orphaned \in BOOLEAN /\ mishaps \subseteq Mishaps

Nobody == [w \in Worker |-> None]

Init ==
  /\ TableInit
  /\ job = Nobody
  /\ flags = [i \in Invoice |-> 0]
  /\ predictions = [i \in Invoice |-> Nobody]
  /\ raced = FALSE /\ orphaned = FALSE /\ mishaps = {}

ChangeRow == RowChanges /\ UNCHANGED <<job, db, raced, orphaned, mishaps>>

-----------------------------------------------------------------------------
\* fetch_context: the party's other invoices, and the paid ones.
HasTwin(i) == \E k \in Invoice : Live(k) /\ {i, k} \in Alike
History(i) == IF i \in Receivable THEN Paid ELSE {}

Receive(w, e) ==
  /\ job[w] = None
  /\ w = CHOOSE v \in Worker : job[v] = None     \* whichever, they are alike
  /\ job' = [job EXCEPT ![w] =
       [ev |-> e, waits |-> TRUE, inv |-> e.inv, todo |-> {},
        seen |-> History(e.inv), match |-> HasTwin(e.inv), step |-> "flags"]]
  /\ raced' = (raced \/ Busy # {})
  /\ Called(e)
  /\ UNCHANGED <<db, orphaned, mishaps>>

\* Only a receivable has a delay worth predicting.
AfterFlags(w) ==
  IF job[w].inv \in Receivable
    THEN job' = [job EXCEPT ![w].step = "clear", ![w].match = FALSE]
    ELSE Finish(w)

\* write_duplicate_flag: the DELETE spares reviewed rows, the INSERT is a commit
\* of its own.
ClearFlags(w) ==
  /\ At(w, "flags")
  /\ flags' = [flags EXCEPT ![job[w].inv] = 0]
  /\ IF job[w].match THEN GoTo(w, "flag") ELSE AfterFlags(w)
  /\ UNCHANGED <<table, predictions, raced, orphaned, mishaps>>

AddFlag(w) ==
  /\ At(w, "flag")
  /\ flags' = [flags EXCEPT ![job[w].inv] = @ + 1]
  /\ AfterFlags(w)
  /\ UNCHANGED <<table, predictions, raced, orphaned, mishaps>>

\* write_delay_prediction, DELETE and INSERT.
ClearPrediction(w) ==
  /\ At(w, "clear")
  /\ predictions' = [predictions EXCEPT ![job[w].inv] = Nobody]
  /\ GoTo(w, "add")
  /\ UNCHANGED <<table, flags, raced, orphaned, mishaps>>

\* The next invoice to score again, with the history read at the start.
Onward(w, T) ==
  IF T = {} THEN Finish(w)
  ELSE \E k \in T :
         job' = [job EXCEPT ![w].inv = k, ![w].todo = T \ {k}, ![w].step = "clear"]

\* The invoice of the event itself, if it was paid or fell due, brings the others.
AddPrediction(w) ==
  LET own == job[w].inv = job[w].ev.inv
  IN  /\ At(w, "add")
      /\ predictions' = [predictions EXCEPT ![job[w].inv][w] = job[w].seen]
      /\ IF own /\ job[w].ev.flip THEN GoTo(w, "open") ELSE Onward(w, job[w].todo)
      /\ UNCHANGED <<table, flags, raced, orphaned, mishaps>>

\* Mutant of Others: those that have no prediction yet.
OthersUnscored(w) == {i \in Unpaid \ {job[w].ev.inv} : predictions[i] = Nobody}

\* fetch_open_invoices: the customer's open invoices, but the one just scored.
Others(w) == Unpaid \ {job[w].ev.inv}

FetchOpen(w) ==
  /\ At(w, "open")
  /\ Onward(w, Others(w))
  /\ UNCHANGED <<table, db, raced, orphaned, mishaps>>

Happens(what) == what \in Mishaps \ mishaps /\ mishaps' = mishaps \cup {what}

\* timeout_sec is over; the service goes on.
TimeOut(w) ==
  /\ job[w] # None /\ job[w].waits
  /\ job' = [job EXCEPT ![w].waits = FALSE]
  /\ Retried(job[w].ev)
  /\ Happens("timeout")
  /\ UNCHANGED <<db, raced, orphaned>>

\* Hasura, the database or the model fails, or the process dies: what is
\* committed stays.
Fail(w) ==
  /\ job[w] # None
  /\ Finish(w)
  /\ \/ job[w].waits /\ Retried(job[w].ev) /\ UNCHANGED orphaned
     \/ ~job[w].waits /\ orphaned' = TRUE /\ UNCHANGED table
  /\ Happens("failure")
  /\ UNCHANGED <<db, raced>>

\* /duplicate-flags/review: every row of the invoice takes the verdict, and
\* nothing touches a reviewed row but another review.
Review(i) ==
  /\ flags[i] > 0
  /\ flags' = [flags EXCEPT ![i] = 0]
  /\ UNCHANGED <<table, job, predictions, raced, orphaned, mishaps>>

Work(w) == ClearFlags(w) \/ AddFlag(w) \/ ClearPrediction(w) \/ AddPrediction(w) \/ FetchOpen(w)

Next ==
  \/ ChangeRow
  \/ \E i \in Invoice : Review(i)
  \/ \E w \in Worker :
       \/ \E e \in events : Receive(w, e)
       \/ Work(w)
       \/ TimeOut(w)
       \/ Fail(w)

Spec == Init /\ [][Next]_vars

\* Hasura makes the calls it owes, and a request that runs takes its next step.
Fairness ==
  /\ WF_vars(\E w \in Worker, e \in events : Receive(w, e))
  /\ \A w \in Worker : WF_vars(Work(w))

FairSpec == Spec /\ Fairness

-----------------------------------------------------------------------------
\* An open receivable that has no prediction, not yet or not between the DELETE
\* and the INSERT of a request that died, gets one, unless Hasura gave up a call,
\* or nobody waited for that request any more.
PredictionComesBack ==
  \A i \in Receivable :
    Open(i) /\ Rows(i) = {}
      ~> Rows(i) # {} \/ ~Open(i) \/ dead # {} \/ orphaned
=============================================================================
