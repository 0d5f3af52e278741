---------------------------- MODULE MCEmbeddings ----------------------------
EXTENDS Embeddings, TLC

CONSTANTS i1, i2, i3, t1, t2, t3

\* One document with as many chunks as are fetched, and invoices that were entered by
\* hand.
Documents == [i \in Invoice |-> IF i = i1 THEN Text ELSE {}]

\* A question's similarity to an invoice: to its summary, while it is open and once it
\* is paid, and to its windows.
Told(open, paid, w1, w2, w3) ==
  [c \in Content |->
     CASE c \in {"unpaid", "overdue"} -> open [] c = "paid" -> paid
       [] c = t1 -> w1 [] c = t2 -> w2 [] c = t3 -> w3]

Asked(hints, model, a, b, c) ==
  [hints |-> hints, route |-> "semantic", model |-> model,
   plan |-> {"paid"}, keyword |-> {"unpaid", "paid"}, sim |-> (i1 :> a) @@ (i2 :> b) @@ (i3 :> c)]

\* The long document before all others; two of its windows first, then the others; the
\* others first, and best once they are paid; as like to one as to the other; to none.
Questions ==
  {Asked({}, "invents",
         Told(95, 20, 90, 85, 80), Told(70, 50, 60, 0, 0), Told(50, 60, 0, 0, 0)),
   Asked({"structured"}, "declines",
         Told(60, 65, 90, 88, 10), Told(70, 40, 30, 0, 0), Told(50, 55, 0, 0, 0)),
   Asked({"structured", "semantic"}, "mistakes",
         Told(75, 76, 74, 73, 20), Told(60, 80, 30, 0, 0), Told(70, 90, 0, 0, 0)),
   Asked({"semantic"}, "garbles",
         Told(50, 50, 50, 10, 10), Told(50, 50, 50, 0, 0), Told(50, 50, 0, 0, 0)),
   Asked({"semantic"}, "plans",
         Told(30, 20, 10, 10, 10), Told(25, 15, 5, 0, 0), Told(20, 10, 0, 0, 0))}

Workers == Permutations(Worker)
=============================================================================
