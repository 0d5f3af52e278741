--------------------------- MODULE ReminderState ----------------------------
(***************************************************************************)
(* The state of the customer reminders, and what must hold of it;          *)
(* Reminders says how it changes.                                          *)
(***************************************************************************)
EXTENDS Naturals, FiniteSets

CONSTANTS Invoice,    \* receivables past their due date
          Run,        \* slots for runs of the handler at the same time
          Every,      \* REMINDER_EVERY_DAYS
          Retries,    \* num_retries of the cron trigger
          MaxCount,   \* bound: counters stop at this value
          Nobody      \* no invoice, no run

ASSUME EveryIsPositive == Every \in Nat \ {0}
ASSUME RetriesIsNatural == Retries \in Nat
ASSUME MaxCountIsNatural == MaxCount \in Nat
ASSUME RunIsFinite == IsFiniteSet(Run)
ASSUME NobodyIsNone == Nobody \notin Invoice \cup Run

VARIABLES
  payment,   \* [Invoice -> ...], invoices.payment_status
  listed,    \* the rows a run of the overdue sweep has found and not yet marked
  age,       \* [Invoice -> 0..Every], days since last_reminder_on; Every is due
  count,     \* [Invoice -> 0..MaxCount], invoices.reminder_count
  attempts,  \* attempts made today
  waiting,   \* the run whose answer Hasura waits for
  again,     \* Hasura is to call the webhook (again)
  active,    \* the runs in progress
  todo,      \* [Run -> SUBSET Invoice], the rows found and not yet handled
  seen,      \* [Run -> [Invoice -> 0..MaxCount]], the counts of those rows
  mailed,    \* [Run -> ...], the row whose mail is out and whose mark is not
  sent,      \* [Invoice -> 0..MaxCount], mails sent
  mailsToday, \* [Invoice -> Nat], mails sent today
  mailAge    \* [Invoice -> 0..Every], days since the last mail, up to Every

-----------------------------------------------------------------------------
\* Failures, timeouts and overlapping runs repeat a reminder, but never beyond
\* the cron's own attempts of that day: an attempt mails an invoice at most once.
OneMailPerAttempt == \A i \in Invoice : mailsToday[i] <= attempts

\* last_reminder_on is never ahead of the truth: an invoice marked as reminded
\* some days ago was mailed then or later.
MarkedWasMailed == \A i \in Invoice : age[i] < Every => mailAge[i] <= age[i]

\* reminder_count never counts a mail that was not sent, though two runs that
\* read the same count may lose one that was.
CountIsHonest == \A i \in Invoice : count[i] <= sent[i]
=============================================================================
