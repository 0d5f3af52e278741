---------------------------- MODULE InvoiceLedger ----------------------------
(***************************************************************************)
(* What the payments ledger of Qlens promises, without the requests, the   *)
(* payment gateway, the sweep or the database that implement it: an        *)
(* invoice is entered once, a payable takes payments only after it has     *)
(* been cleared, a payment row is added one at a time and never taken back *)
(* except with the whole invoice, and a struck invoice stays struck.       *)
(* Invoices.tla implements this specification.                             *)
(***************************************************************************)
EXTENDS Naturals

CONSTANTS Payable,      \* money out: needs an approval
          Receivable    \* money in: has no approval step

VARIABLES open,         \* invoices on the books
          struck,       \* invoices deleted from the books
          cleared,      \* invoices with an approval on record
          entries       \* number of payment rows of each invoice

vars == <<open, struck, cleared, entries>>

Invoice == Payable \cup Receivable

Init ==
  /\ open = {}
  /\ struck = {}
  /\ cleared = {}
  /\ entries = [i \in Invoice |-> 0]

Enter(i) ==
  /\ i \in Invoice \ (open \cup struck)
  /\ open' = open \cup {i}
  /\ UNCHANGED <<struck, cleared, entries>>

Clear(S) ==
  /\ S \subseteq open
  /\ cleared' = cleared \cup S
  /\ UNCHANGED <<open, struck, entries>>

Settle(i) ==
  /\ i \in open
  /\ i \in Payable => i \in cleared
  /\ entries' = [entries EXCEPT ![i] = @ + 1]
  /\ UNCHANGED <<open, struck, cleared>>

Strike(i) ==
  /\ i \in open
  /\ open' = open \ {i}
  /\ struck' = struck \cup {i}
  /\ cleared' = cleared \ {i}
  /\ entries' = [entries EXCEPT ![i] = 0]

Next ==
  \/ \E i \in Invoice : Enter(i) \/ Settle(i) \/ Strike(i)
  \/ \E S \in SUBSET Invoice : Clear(S)

Spec == Init /\ [][Next]_vars

==============================================================================
