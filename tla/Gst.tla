-------------------------------- MODULE Gst --------------------------------
(***************************************************************************)
(* The money on a generated invoice: what splitTax makes of its lines, what*)
(* generateAndSendInvoice stores and prints, and what resendInvoice prints *)
(* of the stored amounts later (lib/pdf/gst.ts, lib/pdf/InvoiceDocument,   *)
(* server/invoiceSend.ts).  Operators of a bill, a sequence of lines       *)
(*   [hsn : what is sold, rate : percent or None, value : Nat],            *)
(* and of the states of the seller and the buyer.  Values are whole paise; *)
(* Math.round(n * 100) / 100 is rounding to the next one.                  *)
(***************************************************************************)
EXTENDS Sums, Sequences

CONSTANTS None,
          Bill,      \* what may be billed
          State,     \* of India, as entered for a company or a customer
          MaxLines   \* MAX_LINE_ITEMS

Rate(line) == IF line.rate = None THEN 0 ELSE line.rate

\* Same state: CGST and SGST.  An unknown state is no state's equal.
SameState(seller, buyer) == seller # None /\ seller = buyer

Total(lines, I) == Sum([n \in I |-> lines[n].value], I)
Subtotal(lines) == Total(lines, DOMAIN lines)

Half(tax) == (tax + 1) \div 2

\* Mutant of Collected: the tax of the group, although its halves were rounded up.
CollectedUnrounded(tax, same) == tax

\* taxAmount of a group: twice the half that is printed.
Collected(tax, same) == IF same THEN 2 * Half(tax) ELSE tax

\* The lines of one HSN code and rate, and the columns that are printed for them.
Group(lines, I, same) ==
  LET line == lines[CHOOSE n \in I : TRUE]
      tax == (Total(lines, I) * Rate(line) + 50) \div 100
  IN  [hsn |-> line.hsn, rate |-> Rate(line), taxable |-> Total(lines, I),
       cgst |-> IF same THEN Half(tax) ELSE 0, sgst |-> IF same THEN Half(tax) ELSE 0,
       igst |-> IF same THEN 0 ELSE tax, tax |-> Collected(tax, same)]

SplitTax(lines, same) ==
  LET Like(n) == {k \in DOMAIN lines : /\ lines[k].hsn = lines[n].hsn
                                       /\ Rate(lines[k]) = Rate(lines[n])}
  IN  {Group(lines, Like(n), same) : n \in DOMAIN lines}

TotalTax(groups) == Sum([g \in groups |-> g.tax], groups)

-----------------------------------------------------------------------------
\* The lines that fit (renderInvoicePdf) and the breakdown of their tax, under the
\* subtotal and the tax that it is given.
InvoiceDocument(lines, subtotal, tax, same) ==
  LET shown == SubSeq(lines, 1, IF Len(lines) < MaxLines THEN Len(lines) ELSE MaxLines)
  IN  [lines |-> shown, split |-> SplitTax(shown, same),
       subtotal |-> subtotal, tax |-> tax, total |-> subtotal + tax, same |-> same]

\* generateAndSendInvoice: the amounts are those of all lines, by today's states.
Sent(lines, same) ==
  InvoiceDocument(lines, Subtotal(lines), TotalTax(SplitTax(lines, same)), same)

\* resendInvoice: the stored amount and tax_amount, and the states of that day.
Resent(lines, first, same) == InvoiceDocument(lines, first.subtotal, first.tax, same)

-----------------------------------------------------------------------------
Columns(printed) == Sum([g \in printed.split |-> g.cgst + g.sgst + g.igst], printed.split)

\* Off by less than n hundredths of a paisa.
Within(n, x, y) == x - y < n /\ y - x < n

\* The same lines, in whichever order the table returns them.
Reordered(lines, stored) ==
  /\ Len(lines) = Len(stored)
  /\ \A n \in DOMAIN lines : Cardinality({k \in DOMAIN lines : lines[k] = lines[n]})
                              = Cardinality({k \in DOMAIN stored : stored[k] = lines[n]})

\* What an invoice prints adds up, when it fits the page: its lines to the subtotal,
\* the tax columns of its groups to the tax line, and that to what is due of them,
\* within two paise a group.  Sent again it prints the same groups and totals, unless
\* a state has been entered or changed in between, from before to after; then the
\* columns are off by at most one paisa a group.  An invoice that is too long prints a
\* part of its lines and columns of a part of its tax, and perhaps another part when
\* it is sent again.
AddsUp(lines, before, after) ==
  LET first == Sent(lines, SameState(before.seller, before.buyer))
      due == Sum([n \in DOMAIN lines |-> lines[n].value * Rate(lines[n])], DOMAIN lines)
  IN  /\ Within(200 * Cardinality(SplitTax(lines, TRUE)), 100 * first.tax, due)
      /\ IF Len(lines) <= MaxLines
           THEN Subtotal(first.lines) = first.subtotal /\ Columns(first) = first.tax
           ELSE Subtotal(first.lines) <= first.subtotal /\ Columns(first) <= first.tax
      /\ \A stored \in {b \in Bill : Len(b) <= MaxLines /\ Reordered(lines, b)} :
           LET again == Resent(stored, first, SameState(after.seller, after.buyer))
           IN  /\ Within(Cardinality(again.split) + 1, Columns(again), again.tax)
               /\ again.same = first.same => [again EXCEPT !.lines = first.lines] = first

Sides == [seller : State \cup {None}, buyer : State \cup {None}]
Misprinted == {lines \in Bill : \E before, after \in Sides : ~AddsUp(lines, before, after)}
=============================================================================
