------------------------------ MODULE MCIntake ------------------------------
EXTENDS Intake

CONSTANTS v1, v2, c1, n1

\* Readings: complete, without tax, with lines that do not add up, of another number.
Whole == [f \in Field |-> IF f = "amount" THEN 3 ELSE IF f = "tax_amount" THEN 1
                          ELSE IF f = "invoice_number" THEN n1 ELSE "read"]
Complete == [field |-> Whole, items |-> 2]
Untaxed == [field |-> [Whole EXCEPT !["tax_amount"] = None], items |-> 3]
Unbalanced == [field |-> Whole, items |-> 3]
Guessed == [field |-> [Whole EXCEPT !["due_date"] = None], items |-> None]

Digital == [layer |-> TRUE, conf |-> 0]
Scan(c) == [layer |-> FALSE, conf |-> c]

Doc(pages, llm, seller, buyer) ==
  [pages |-> pages, llm |-> llm, regex |-> Guessed, seller |-> seller, buyer |-> buyer]

Documents ==
  {Doc(<<Digital>>, Complete, 20, 90), Doc(<<Scan(95), Digital>>, Complete, 80, 80),
   Doc(<<Digital, Scan(40)>>, Complete, 90, 10), Doc(<<Scan(85)>>, Complete, 0, 0),
   Doc(<<Scan(92), Scan(95), Scan(0)>>, Guessed, 76, 75), Doc(<<Digital>>, None, 80, 10),
   Doc(<<Digital>>, Untaxed, 0, 80), Doc(<<Digital>>, Unbalanced, 0, 80)}

\* Files: the same row twice, and a row of each of two vendors.
Files ==
  {[k \in PayableKey |-> IF k[1] = v1 THEN 2 ELSE 0],
   [k \in PayableKey |-> 1]}

\* Bills: lines of one kind that round alone and together, and a kind without tax.
Lines == {[hsn |-> "a", rate |-> 18, value |-> 3], [hsn |-> "a", rate |-> 18, value |-> 25],
          [hsn |-> "b", rate |-> 5, value |-> 50], [hsn |-> "b", rate |-> None, value |-> 7]}
Bills == UNION {[1..n -> Lines] : n \in 1..3}
=============================================================================
