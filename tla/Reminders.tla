------------------------------ MODULE Reminders ------------------------------
(***************************************************************************)
(* The customer reminders of the notification service                      *)
(* (services/notification-service/app): a daily cron starts a run, which   *)
(* finds the overdue receivables not reminded for Every days, and for each *)
(* one mails the customer and then marks the row, two steps that a payment,*)
(* a failure or another run can come between.  Hasura calls the webhook    *)
(* again when an attempt fails or times out, and a timed-out attempt is    *)
(* still running.  Rows are receivables past their due date whose customer *)
(* has an email address; the others are skipped by the run.                *)
(***************************************************************************)
EXTENDS ReminderState

row == <<payment, listed>>
cron == <<attempts, waiting, again>>
work == <<active, todo, seen, mailed>>
history == <<sent, mailsToday, mailAge>>
vars == <<row, age, count, cron, work, history>>

TypeOK ==
  /\ payment \in [Invoice -> {"unpaid", "overdue", "paid"}]
  /\ listed \in SUBSET Invoice
  /\ age \in [Invoice -> 0..Every]
  /\ count \in [Invoice -> 0..MaxCount]
  /\ attempts \in 0..(Retries + 1)
  /\ waiting \in Run \cup {Nobody}
  /\ again \in BOOLEAN
  /\ active \in SUBSET Run
  /\ todo \in [Run -> SUBSET Invoice]
  /\ seen \in [Run -> [Invoice -> 0..MaxCount]]
  /\ mailed \in [Run -> Invoice \cup {Nobody}]
  /\ sent \in [Invoice -> 0..MaxCount]
  /\ mailsToday \in [Invoice -> Nat]
  /\ mailAge \in [Invoice -> 0..Every]

Init ==
  /\ payment = [i \in Invoice |-> "unpaid"]
  /\ listed = {}
  /\ age = [i \in Invoice |-> Every]
  /\ count = [i \in Invoice |-> 0]
  /\ attempts = 0
  /\ waiting = Nobody
  /\ again = TRUE
  /\ active = {}
  /\ todo = [r \in Run |-> {}]
  /\ seen = [r \in Run |-> [i \in Invoice |-> 0]]
  /\ mailed = [r \in Run |-> Nobody]
  /\ sent = [i \in Invoice |-> 0]
  /\ mailsToday = [i \in Invoice |-> 0]
  /\ mailAge = [i \in Invoice |-> Every]

Later(n) == IF n < Every THEN n + 1 ELSE n
Plus1(n) == IF n < MaxCount THEN n + 1 ELSE n

-----------------------------------------------------------------------------
(***************************************************************************)
(* What happens to the rows meanwhile.                                     *)
(***************************************************************************)

\* recordPayment's Pay mutation on a receivable, which has no gate.  The sweep may
\* yet write overdue over it, and the reminders then go on.
Pay(i) ==
  /\ payment' = [payment EXCEPT ![i] = "paid"]
  /\ UNCHANGED <<listed, age, count, cron, work, history>>

\* The overdue sweep reads the unpaid rows and later marks them by id.
SweepFind ==
  /\ listed = {}
  /\ listed' = {i \in Invoice : payment[i] = "unpaid"}
  /\ UNCHANGED <<payment, age, count, cron, work, history>>

SweepMark ==
  /\ listed # {}
  /\ payment' = [i \in Invoice |-> IF i \in listed THEN "overdue" ELSE payment[i]]
  /\ listed' = {}
  /\ UNCHANGED <<age, count, cron, work, history>>

-----------------------------------------------------------------------------
(***************************************************************************)
(* The cron trigger.                                                       *)
(***************************************************************************)

\* Mutant of Due: only rows the sweep has not marked yet.
DueUnlessMarked == {i \in Invoice : payment[i] = "unpaid" /\ age[i] = Every}

\* The query of a run: receivables unpaid or overdue, past due, last reminded
\* on the cutoff date or before, or never.
Due == {i \in Invoice : payment[i] # "paid" /\ age[i] = Every}

\* Hasura calls the webhook once a day and Retries times more, each after a
\* failure or a timeout.  The handler's query is its first step; an attempt
\* whose query fails answers 502 and leaves nothing behind.
Attempt(r) ==
  /\ r \notin active
  /\ again
  /\ attempts <= Retries
  /\ attempts' = attempts + 1
  /\ \/ /\ waiting' = r
        /\ again' = FALSE
        /\ active' = active \cup {r}
        /\ todo' = [todo EXCEPT ![r] = Due]
        /\ seen' = [seen EXCEPT ![r] = [i \in Invoice |-> IF i \in Due THEN count[i] ELSE 0]]
        /\ UNCHANGED mailed
     \/ UNCHANGED <<waiting, again, work>>
  /\ UNCHANGED <<row, age, count, history>>

\* timeout_seconds pass: Hasura gives the attempt up, the run goes on.
AttemptTimesOut ==
  /\ waiting # Nobody
  /\ waiting' = Nobody
  /\ again' = TRUE
  /\ UNCHANGED <<row, age, count, attempts, work, history>>

\* The next day begins.  A run ends on the day it starts: it begins at 04:00 and
\* each mail takes seconds at most.
NextDay ==
  /\ active = {}
  /\ attempts' = 0
  /\ waiting' = Nobody
  /\ again' = TRUE
  /\ age' = [i \in Invoice |-> Later(age[i])]
  /\ mailAge' = [i \in Invoice |-> Later(mailAge[i])]
  /\ mailsToday' = [i \in Invoice |-> 0]
  /\ UNCHANGED <<row, count, work, sent>>

-----------------------------------------------------------------------------
(***************************************************************************)
(* A run: for each row, mail and then mark.                                *)
(***************************************************************************)

\* Mutant of Send: the row stays in the list.
SendAndKeep(r, i) ==
  /\ r \in active
  /\ mailed[r] = Nobody
  /\ i \in todo[r]
  /\ mailed' = [mailed EXCEPT ![r] = i]
  /\ sent' = [sent EXCEPT ![i] = Plus1(@)]
  /\ mailsToday' = [mailsToday EXCEPT ![i] = @ + 1]
  /\ mailAge' = [mailAge EXCEPT ![i] = 0]
  /\ UNCHANGED <<row, age, count, cron, active, todo, seen>>

\* Mutant of Skip: the row is marked although no mail went out.
SkipAndMark(r, i) ==
  /\ r \in active
  /\ mailed[r] = Nobody
  /\ i \in todo[r]
  /\ todo' = [todo EXCEPT ![r] = @ \ {i}]
  /\ age' = [age EXCEPT ![i] = 0]
  /\ count' = [count EXCEPT ![i] = Plus1(seen[r][i])]
  /\ seen' = [seen EXCEPT ![r][i] = 0]
  /\ UNCHANGED <<row, cron, active, mailed, history>>

\* send_direct_email in a thread, other requests run meanwhile.  The row leaves
\* the list whether or not the mail goes out; a mail that does not go out is
\* skipped, without a mark.
Send(r, i) ==
  /\ r \in active
  /\ mailed[r] = Nobody
  /\ i \in todo[r]
  /\ todo' = [todo EXCEPT ![r] = @ \ {i}]
  /\ mailed' = [mailed EXCEPT ![r] = i]
  /\ sent' = [sent EXCEPT ![i] = Plus1(@)]
  /\ mailsToday' = [mailsToday EXCEPT ![i] = @ + 1]
  /\ mailAge' = [mailAge EXCEPT ![i] = 0]
  /\ UNCHANGED <<row, age, count, cron, active, seen>>

Skip(r, i) ==
  /\ r \in active
  /\ mailed[r] = Nobody
  /\ i \in todo[r]
  /\ todo' = [todo EXCEPT ![r] = @ \ {i}]
  /\ seen' = [seen EXCEPT ![r][i] = 0]
  /\ UNCHANGED <<row, age, count, cron, active, mailed, history>>

\* mark_reminded: last_reminder_on is today, reminder_count what the query saw
\* plus one, whatever another run has written since.
Mark(r) ==
  /\ r \in active
  /\ mailed[r] # Nobody
  /\ age' = [age EXCEPT ![mailed[r]] = 0]
  /\ count' = [count EXCEPT ![mailed[r]] = Plus1(seen[r][mailed[r]])]
  /\ mailed' = [mailed EXCEPT ![r] = Nobody]
  /\ seen' = [seen EXCEPT ![r][mailed[r]] = 0]
  /\ UNCHANGED <<row, cron, active, todo, history>>

\* The run is over, and Hasura learns of it if it still waits for it.
Ends(r) ==
  /\ active' = active \ {r}
  /\ todo' = [todo EXCEPT ![r] = {}]
  /\ seen' = [seen EXCEPT ![r] = [i \in Invoice |-> 0]]
  /\ mailed' = [mailed EXCEPT ![r] = Nobody]
  /\ waiting' = IF waiting = r THEN Nobody ELSE waiting
  /\ UNCHANGED <<row, age, count, attempts, history>>

\* Every row handled, the answer is 200.
Finish(r) ==
  /\ r \in active
  /\ todo[r] = {}
  /\ mailed[r] = Nobody
  /\ Ends(r)
  /\ UNCHANGED again

\* mark_reminded raises and nothing catches it, or the process stops: the rows
\* left in the list wait for another run.
Abort(r) ==
  /\ r \in active
  /\ Ends(r)
  /\ again' = (again \/ waiting = r)

-----------------------------------------------------------------------------
Next ==
  \/ \E i \in Invoice : Pay(i)
  \/ SweepFind
  \/ SweepMark
  \/ AttemptTimesOut
  \/ NextDay
  \/ \E r \in Run : \/ Attempt(r)
                    \/ \E i \in Invoice : Send(r, i) \/ Skip(r, i)
                    \/ Mark(r)
                    \/ Finish(r)
                    \/ Abort(r)

Spec == Init /\ [][Next]_vars

\* Days come, the cron calls, a run goes through its list, and neither the mail
\* server nor Hasura refuses an invoice for ever.
Fairness ==
  /\ WF_vars(NextDay)
  /\ \A r \in Run : /\ SF_vars(Attempt(r) /\ active' # active)
                    /\ WF_vars(Finish(r))
                    /\ \A i \in Invoice : /\ SF_vars(Send(r, i))
                                           /\ SF_vars(mailed[r] = i /\ Mark(r))

FairSpec == Spec /\ Fairness

-----------------------------------------------------------------------------
\* last_reminder_on moves only when it is due to: two reminders that were both
\* marked, on different days, lie Every days apart, whatever overlapped.
MarksAreSpaced == [][\A i \in Invoice : age'[i] < age[i] => age[i] = Every]_vars

(***************************************************************************)
(* Liveness.                                                               *)
(***************************************************************************)

Unreminded(i) == payment[i] # "paid" /\ age[i] = Every

\* A due reminder is sent and marked in the end, or the invoice is paid,
\* whatever runs were aborted or timed out.
DueIsReminded == \A i \in Invoice : Unreminded(i) ~> ~Unreminded(i)

=============================================================================
