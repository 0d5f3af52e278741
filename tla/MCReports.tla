----------------------------- MODULE MCReports -----------------------------
EXTENDS Screens

CONSTANTS p1, p2, p3, r1, r2

Owners == [i \in Invoice |-> IF i = r1 THEN "customer" ELSE IF i = r2 THEN "buyer" ELSE "vendor"]
Amounts == [i \in Invoice |->
              CASE i = p1 -> 1 [] i = p2 -> 2 [] i = p3 -> 4 [] i = r1 -> 8 [] i = r2 -> 16]
Bases == [i \in Invoice |-> IF i \in {p1, p2} THEN 1 ELSE Amounts[i]]
Days == [i \in Invoice |-> IF i = p2 THEN 1 ELSE 0]
Dues == [i \in Invoice |-> IF i = p1 THEN {0, 1} ELSE IF i \in {p2, r1} THEN {1} ELSE {0}]
Payments == [i \in Invoice |-> CASE i = p1 -> 2 [] i = p3 -> 0 [] OTHER -> 1]
Approvals == [i \in Invoice |-> IF i \in {p1, p2} THEN "pending" ELSE "approved"]
Delays == [i \in Invoice |-> IF i = r1 THEN 1 ELSE 0]
Bands == [i \in Invoice |-> CASE i = r1 -> 2 [] i = p1 -> 1 [] OTHER -> None]
FirstWindows == <<0, 1>>
=============================================================================
