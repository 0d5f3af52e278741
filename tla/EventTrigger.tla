---------------------------- MODULE EventTrigger ----------------------------
(***************************************************************************)
(* The invoices table as seen by a Hasura event trigger on it: every insert*)
(* and every change of a watched column is a call that Hasura makes to a   *)
(* webhook, repeats when it fails or times out, and gives up after         *)
(* num_retries (event_triggers of public_invoices.yaml).  The two services *)
(* that are called extend this module: Scoring.tla and Embeddings.tla.     *)
(***************************************************************************)
EXTENDS Integers, FiniteSets

CONSTANTS Invoice, None,
          Worker,     \* requests the service runs at once
          Retries,    \* num_retries
          MaxEvents,  \* bound: calls that wait when an invoice changes
          MaxChanges  \* bound: changes of the table

ASSUME BoundsAreNatural == {Retries, MaxEvents, MaxChanges} \subseteq Nat
ASSUME NoneIsNoInvoice == None \notin Invoice

VARIABLES
  status,  \* [Invoice -> Status], the row in the invoices table
  events,  \* calls that Hasura still has to make
  dead,    \* calls that it has given up
  changes, \* how often the table has changed
  job      \* [Worker -> ...], the request of the service that it runs, or None

table == <<status, events, dead, changes>>

Status == {"absent", "unpaid", "overdue", "paid", "deleted"}
Event == [inv : Invoice, flip : BOOLEAN, left : 0..Retries]

TableTypeOK == /\ status \in [Invoice -> Status]
               /\ events \subseteq Event /\ dead \subseteq Event
               /\ changes \in 0..MaxChanges

TableInit == status = [i \in Invoice |-> "absent"] /\ events = {} /\ dead = {} /\ changes = 0

Live(i) == status[i] \in {"unpaid", "overdue", "paid"}
Open(i) == status[i] \in {"unpaid", "overdue"}

\* flip tells a change of payment_status from an insert.
Call(i, flip) == [inv |-> i, flip |-> flip, left |-> Retries]

RowInserted(i) ==
  /\ status[i] = "absent"
  /\ Cardinality(events) < MaxEvents
  /\ status' = [status EXCEPT ![i] = "unpaid"]
  /\ events' = events \cup {Call(i, FALSE)}
  /\ UNCHANGED dead

\* A payment, or the overdue sweep: payment_status changes.
RowSettled(i, to) ==
  /\ Open(i) /\ status[i] # to
  /\ Cardinality(events) < MaxEvents
  /\ status' = [status EXCEPT ![i] = to]
  /\ events' = events \cup {Call(i, TRUE)}
  /\ UNCHANGED dead

\* No trigger on delete: what was derived from the invoice stays.
RowDeleted(i) ==
  /\ Live(i)
  /\ status' = [status EXCEPT ![i] = "deleted"]
  /\ UNCHANGED <<events, dead>>

RowChanges ==
  /\ changes < MaxChanges
  /\ changes' = changes + 1
  /\ \E i \in Invoice : \/ RowInserted(i)
                        \/ RowSettled(i, "paid") \/ RowSettled(i, "overdue")
                        \/ RowDeleted(i)

Called(e) == e \in events /\ events' = events \ {e} /\ UNCHANGED <<status, dead, changes>>

\* Mutant of Retried: there are no retries.
RetriedNever(e) == e \in Event /\ UNCHANGED table

\* Hasura heard an error, or nothing, of its call e.
Retried(e) ==
  /\ \/ /\ e.left > 0
        /\ events' = events \cup {[e EXCEPT !.left = @ - 1]}
        /\ dead' = dead
     \/ /\ e.left = 0
        /\ dead' = dead \cup {e}
        /\ events' = events
  /\ UNCHANGED <<status, changes>>

-----------------------------------------------------------------------------
\* A request of the service goes on step by step.
Busy == {w \in Worker : job[w] # None}
At(w, step) == job[w] # None /\ job[w].step = step
GoTo(w, step) == job' = [job EXCEPT ![w].step = step]
Finish(w) == job' = [job EXCEPT ![w] = None]
=============================================================================
