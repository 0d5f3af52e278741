---------------------------- MODULE DerivedProofs ----------------------------
(***************************************************************************)
(* What two services derive from the invoices, by calls that Hasura makes  *)
(* of changes of the table and repeats: the duplicate flags and delay      *)
(* predictions of the ml-service (Scoring, instanced as S), and the chunks *)
(* that the genai-service embeds and searches (Embeddings).                *)
(*                                                                         *)
(* Both arguments have the same shape.  An invoice of which something is   *)
(* derived is up to date, or it is owed to it: by a call that Hasura has   *)
(* still to make, or by a request that is on its way to it and has read    *)
(* the table as it is.                                                     *)
(***************************************************************************)
EXTENDS Embeddings, ScoringState, FiniteSetTheorems, WellFoundedInduction, TLAPS

CONSTANTS Alike, Mishaps
VARIABLE mishaps

S == INSTANCE Scoring

-----------------------------------------------------------------------------
(* The flags and predictions.                                              *)

\* What Scoring's steps are described by is what its state is described by.
LEMMA OneVocabulary ==
  /\ S!Event = Event /\ S!Request = Request /\ S!Status = Status
  /\ S!Paid = Paid /\ S!Unpaid = Unpaid /\ S!Busy = Busy
  /\ \A i : (S!Live(i) <=> Live(i)) /\ (S!Open(i) <=> Open(i))
BY DEF Event, Request, Status, Paid, Unpaid, Busy, Live, Open,
       S!Event, S!Request, S!Status, S!Paid, S!Unpaid, S!Busy, S!Live, S!Open

\* Receivable i has its one prediction, and it counts every payment there is.
Current(i) ==
  /\ \E w \in Worker : Rows(i) = {w}
  /\ \A w \in Rows(i) : Paid \subseteq predictions[i][w]

\* The call e, once it is made, scores i: its own invoice, or all the others.
Brings(e, i) == e.inv = i \/ (e.flip /\ e.inv \in Receivable)
Owed(i) == \E e \in events : Brings(e, i)
AllOwed == \E e \in events : e.flip /\ e.inv \in Receivable

\* The request j has yet to score i, and has read every payment.
Underway(j, i) ==
  /\ Paid \subseteq j.seen
  /\ \/ i = j.inv /\ j.step # "open"
     \/ i \in j.todo
     \/ i # j.ev.inv /\ j.ev.flip /\ j.ev.inv \in Receivable /\ j.inv = j.ev.inv

\* How far a request is: with the invoice of its event, or with the others.
OnItsWay(j) ==
  /\ j.step \in {"flags", "flag", "open"} => j.inv = j.ev.inv
  /\ j.step \in {"clear", "add", "open"} => j.ev.inv \in Receivable
  /\ j.inv # j.ev.inv => j.inv \in Receivable
  /\ j.inv = j.ev.inv => j.todo = {}
  /\ j.todo \subseteq Receivable \ {j.ev.inv}
  /\ j.inv # j.ev.inv \/ j.step = "open" => j.ev.flip

\* What a request that runs by itself may rely on: nobody writes where it has
\* deleted, Hasura has the call again when it has stopped waiting, and a payment it
\* has not read has a call of its own.
Undisturbed(j) ==
  /\ j.step = "add" => Rows(j.inv) = {}
  /\ j.step = "flag" => flags[j.inv] = 0
  /\ dead = {} /\ ~j.waits => \E e \in events : e.inv = j.ev.inv /\ e.flip = j.ev.flip
  /\ j.ev.inv \in Receivable /\ ~(Paid \subseteq j.seen) => AllOwed

\* Every open receivable has its prediction, or somebody who will see to it.
Covered == \A i \in Unpaid : Current(i) \/ Owed(i) \/ \E w \in Busy : Underway(job[w], i)

Alone ==
  /\ \A v, w \in Busy : v = w
  /\ \A w \in Busy : Undisturbed(job[w])
  /\ \A i \in Invoice : flags[i] <= 1
  /\ dead = {} => Covered

ScoringInv ==
  /\ S!TypeOK
  /\ \A w \in Busy : OnItsWay(job[w])
  /\ ~raced => Alone

\* A request that runs is one, and what its worker turns to leaves the others alone.
LEMMA Running == S!TypeOK => \A w \in Busy : w \in Worker /\ job[w] \in Request
BY OneVocabulary DEF S!TypeOK, Busy

\* A worker that turns to a request leaves those of the others.
LEMMA Turning ==
  ASSUME S!TypeOK, NEW w \in Worker, NEW r \in Request \cup {None},
         job' = [job EXCEPT ![w] = r]
  PROVE  /\ job' \in [Worker -> Request \cup {None}]
         /\ job'[w] = r
         /\ \A v \in Worker \ {w} : job'[v] = job[v]
         /\ Busy' = IF r = None THEN Busy \ {w} ELSE Busy \cup {w}
BY OneVocabulary DEF S!TypeOK, Busy

\* What a step leaves of a request, as the one that its worker has then.
Kept(r, j) == r \in Request /\ r.ev = j.ev /\ r.waits = j.waits /\ r.seen = j.seen
Same(r, j) == Kept(r, j) /\ r.inv = j.inv /\ r.todo = j.todo
Turns(w, r) == job' = [job EXCEPT ![w] = r]

\* A request at another step is the same otherwise.
LEMMA Restepped ==
  ASSUME NEW j \in Request, NEW s \in {"flags", "flag", "clear", "add", "open"}
  PROVE  /\ Same([j EXCEPT !.step = s], j) /\ [j EXCEPT !.step = s].step = s
         /\ Same([j EXCEPT !.step = s, !.match = FALSE], j)
         /\ [j EXCEPT !.step = s, !.match = FALSE].step = s
BY DEF Same, Kept, Request

\* A worker that goes to another step has the same request at that step.
LEMMA GoingTo ==
  ASSUME S!TypeOK, NEW w \in Busy, NEW s \in {"flags", "flag", "clear", "add", "open"},
         S!GoTo(w, s)
  PROVE  \E r \in Request : Turns(w, r) /\ Same(r, job[w]) /\ r.step = s
<1>1. w \in Worker /\ job[w] \in Request /\ job \in [Worker -> Request \cup {None}]
  BY Running, OneVocabulary DEF S!TypeOK
<1>2. Turns(w, [job[w] EXCEPT !.step = s])
  BY <1>1 DEF S!GoTo, Turns
<1>3. Same([job[w] EXCEPT !.step = s], job[w]) /\ [job[w] EXCEPT !.step = s].step = s
  BY <1>1, Restepped
<1>4. [job[w] EXCEPT !.step = s] \in Request
  BY <1>3 DEF Same, Kept
<1> QED
  BY <1>2, <1>3, <1>4

\* A worker that goes on has the next invoice of those left, or has finished.
LEMMA GoingOn ==
  ASSUME S!TypeOK, NEW w \in Busy, NEW T \in SUBSET Invoice, S!Onward(w, T)
  PROVE  \E r \in Request \cup {None} :
           /\ Turns(w, r)
           /\ r = None => T = {}
           /\ r # None => /\ Kept(r, job[w])
                          /\ r.inv \in T /\ r.todo = T \ {r.inv} /\ r.step = "clear"
<1>1. w \in Worker /\ job[w] \in Request /\ job \in [Worker -> Request \cup {None}]
  BY Running, OneVocabulary DEF S!TypeOK
<1>2. CASE T = {}
  BY <1>2 DEF S!Onward, S!Finish, Turns
<1>3. CASE T # {}
  <2>1. PICK k \in Invoice :
          /\ k \in T
          /\ job' = [job EXCEPT ![w].inv = k, ![w].todo = T \ {k}, ![w].step = "clear"]
    BY <1>3 DEF S!Onward
  <2>2. PICK U \in SUBSET Invoice : U = T \ {k}
    OBVIOUS
  <2> DEFINE r == [job[w] EXCEPT !.inv = k, !.todo = U, !.step = "clear"]
  <2>3. Turns(w, r)
    BY <1>1, <2>1, <2>2 DEF Turns
  <2>4. job[w] \in Request
    BY <1>1
  <2>5. Kept(r, job[w]) /\ r.inv = k /\ r.todo = U /\ r.step = "clear"
    BY <2>4 DEF Kept, Request
  <2> QED
    BY <2>1, <2>2, <2>3, <2>5, NoneIsNothing DEF Kept
<1> QED
  BY <1>2, <1>3

\* After the flags, a receivable goes on to its prediction.
LEMMA GoingOnToPredict ==
  ASSUME S!TypeOK, NEW w \in Busy, S!AfterFlags(w)
  PROVE  \E r \in Request \cup {None} :
           /\ Turns(w, r)
           /\ r = None => job[w].inv \notin Receivable
           /\ r # None => Same(r, job[w]) /\ r.step = "clear" /\ r.inv \in Receivable
<1>1. w \in Worker /\ job[w] \in Request /\ job \in [Worker -> Request \cup {None}]
  BY Running, OneVocabulary DEF S!TypeOK
<1>2. CASE job[w].inv \notin Receivable
  BY <1>2 DEF S!AfterFlags, S!Finish, Turns
<1>3. CASE job[w].inv \in Receivable
  <2> DEFINE r == [job[w] EXCEPT !.step = "clear", !.match = FALSE]
  <2>1. Turns(w, r)
    BY <1>1, <1>3 DEF S!AfterFlags, Turns
  <2>2. Same(r, job[w]) /\ r.step = "clear"
    BY <1>1, Restepped
  <2> QED
    BY <1>3, <2>1, <2>2, NoneIsNothing DEF Same, Kept
<1> QED
  BY <1>2, <1>3

\* The request that a call starts: fetch_context reads what is paid.
Started(e) == [ev |-> e, waits |-> TRUE, inv |-> e.inv, todo |-> {},
               seen |-> S!History(e.inv), match |-> S!HasTwin(e.inv), step |-> "flags"]

\* A call starts a request of its event.
LEMMA Starting ==
  ASSUME S!TypeOK, NEW e \in events, NEW w \in Worker, S!Receive(w, e)
  PROVE  Started(e) \in Request /\ Turns(w, Started(e))
<1>1. e \in Event /\ e.inv \in Invoice
  BY OneVocabulary DEF S!TypeOK, S!TableTypeOK, Event
<1>2. S!HasTwin(e.inv) \in BOOLEAN
  BY Zenon DEF S!HasTwin
<1>3. S!History(e.inv) \subseteq Receivable
  BY OneVocabulary DEF S!History, Paid
<1> QED
  BY <1>1, <1>2, <1>3 DEF Started, Request, Turns, S!Receive

\* Every step of Scoring keeps the types.
LEMMA ScoringTypeStep == S!TypeOK /\ [S!Next]_(S!vars) => S!TypeOK'
<1> SUFFICES ASSUME S!TypeOK, [S!Next]_(S!vars) PROVE S!TypeOK'
  OBVIOUS
<1> USE OneVocabulary, BoundsAreNatural, ReceivablesAreInvoices
<1>1. ASSUME S!ChangeRow PROVE S!TypeOK'
  <2>1. PICK i \in Invoice : S!RowInserted(i) \/ S!RowDeleted(i)
               \/ S!RowSettled(i, "paid") \/ S!RowSettled(i, "overdue")
    BY <1>1 DEF S!ChangeRow, S!RowChanges
  <2>2. S!Call(i, TRUE) \in Event /\ S!Call(i, FALSE) \in Event
    BY DEF S!Call, Event
  <2>3. /\ events' \subseteq events \cup {S!Call(i, TRUE), S!Call(i, FALSE)}
        /\ dead' = dead
    BY <2>1 DEF S!RowInserted, S!RowDeleted, S!RowSettled
  <2>4. status' \in [Invoice -> Status]
    BY <2>1 DEF S!RowInserted, S!RowDeleted, S!RowSettled, Status, S!TypeOK, S!TableTypeOK
  <2>5. changes' \in 0..MaxChanges
    BY <1>1 DEF S!ChangeRow, S!RowChanges, S!TypeOK, S!TableTypeOK
  <2> QED
    BY <1>1, <2>2, <2>3, <2>4, <2>5 DEF S!ChangeRow, S!db, S!TypeOK, S!TableTypeOK
<1>2. ASSUME NEW w \in Worker, NEW e \in events, S!Receive(w, e) PROVE S!TypeOK'
  <2>1. job' \in [Worker -> Request \cup {None}]
    BY <1>2, Starting, Turning DEF Turns
  <2>2. raced' \in BOOLEAN
    BY <1>2, Zenon DEF S!Receive
  <2> QED
    BY <1>2, <2>1, <2>2 DEF S!Receive, S!Called, S!db, S!TypeOK, S!TableTypeOK
<1>3. ASSUME NEW w \in Busy, S!ClearFlags(w) \/ S!AddFlag(w) PROVE S!TypeOK'
  <2>1. w \in Worker /\ job[w] \in Request /\ job[w].inv \in Invoice
    BY Running DEF Request
  <2>2. flags' \in [Invoice -> Nat]
    BY <1>3, <2>1 DEF S!ClearFlags, S!AddFlag, S!TypeOK
  <2>3. \E r \in Request \cup {None} : Turns(w, r)
    BY <1>3, GoingTo, GoingOnToPredict DEF S!ClearFlags, S!AddFlag
  <2>4. job' \in [Worker -> Request \cup {None}]
    BY <2>1, <2>3, Turning DEF Turns
  <2> QED
    BY <1>3, <2>2, <2>4 DEF S!ClearFlags, S!AddFlag, S!table, S!TypeOK, S!TableTypeOK
<1>4. ASSUME NEW w \in Busy, S!ClearPrediction(w) \/ S!AddPrediction(w) \/ S!FetchOpen(w)
      PROVE  S!TypeOK'
  <2>1. w \in Worker /\ job[w] \in Request
    BY Running
  <2>2. job[w].seen \subseteq Receivable /\ job[w].todo \subseteq Invoice /\ job[w].inv \in Invoice
    BY <2>1 DEF Request
  <2>3. predictions' \in [Invoice -> [Worker -> {None} \cup SUBSET Receivable]]
    <3>1. CASE S!ClearPrediction(w)
      BY <2>2, <3>1 DEF S!ClearPrediction, S!Nobody, S!TypeOK
    <3>2. CASE S!AddPrediction(w)
      <4>1. job[w].seen \in {None} \cup SUBSET Receivable
        BY <2>2
      <4> QED
        BY <2>1, <2>2, <3>2, <4>1 DEF S!AddPrediction, S!TypeOK
    <3>3. CASE S!FetchOpen(w)
      BY <3>3 DEF S!FetchOpen, S!db, S!TypeOK
    <3> QED
      BY <1>4, <3>1, <3>2, <3>3
  <2>4. S!Others(w) \in SUBSET Invoice
    BY DEF Unpaid, S!Others
  <2>5. \E r \in Request \cup {None} : Turns(w, r)
    BY <1>4, <2>2, <2>4, GoingTo, GoingOn
       DEF S!ClearPrediction, S!AddPrediction, S!FetchOpen
  <2>6. job' \in [Worker -> Request \cup {None}]
    BY <2>1, <2>5, Turning DEF Turns
  <2> QED
    BY <1>4, <2>3, <2>6
       DEF S!ClearPrediction, S!AddPrediction, S!FetchOpen, S!db, S!table, S!TypeOK, S!TableTypeOK
<1>5. ASSUME NEW e \in Event, S!Retried(e)
     
PROVE   events' \subseteq Event /\ dead' \subseteq Event /\ status' = status /\ changes' = changes
  <2>1. e.left \in 0..Retries
    BY DEF Event
  <2>2. e.left > 0 => [e EXCEPT !.left = @ - 1] \in Event
    BY <2>1 DEF Event
  <2> QED
    BY <1>5, <2>2 DEF S!Retried, S!TypeOK, S!TableTypeOK
<1>6. ASSUME NEW w \in Busy, S!TimeOut(w) PROVE S!TypeOK'
  <2>1. w \in Worker /\ job[w] \in Request /\ job[w].ev \in Event
    BY Running DEF Request
  <2>2. job' \in [Worker -> Request \cup {None}]
    BY <1>6, <2>1 DEF S!TimeOut, S!TypeOK, Request
  <2> QED
    BY <1>5, <1>6, <2>1, <2>2 DEF S!TimeOut, S!Happens, S!db, S!TypeOK, S!TableTypeOK
<1>7. ASSUME NEW w \in Busy, S!Fail(w) PROVE S!TypeOK'
  <2>1. w \in Worker /\ job[w] \in Request /\ job[w].ev \in Event
    BY Running DEF Request
  <2>2. job' \in [Worker -> Request \cup {None}]
    BY <1>7, <2>1 DEF S!Fail, S!Finish, S!TypeOK
  <2>3. orphaned' \in BOOLEAN
    BY <1>7 DEF S!Fail, S!TypeOK
  <2> QED
    BY <1>5, <1>7, <2>1, <2>2, <2>3
       DEF S!Fail, S!Happens, S!db, S!table, S!TypeOK, S!TableTypeOK
<1>8. ASSUME NEW i \in Invoice, S!Review(i) PROVE S!TypeOK'
  BY <1>8 DEF S!Review, S!table, S!TypeOK, S!TableTypeOK
<1>9. CASE UNCHANGED S!vars
  BY <1>9 DEF S!vars, S!table, S!db, S!TypeOK, S!TableTypeOK
<1>10. ASSUME NEW w \in Worker, S!Work(w) \/ S!TimeOut(w) \/ S!Fail(w) PROVE w \in Busy
  BY <1>10 DEF S!Work, S!ClearFlags, S!AddFlag, S!ClearPrediction, S!AddPrediction, S!FetchOpen,
               S!At, S!TimeOut, S!Fail, Busy
<1> QED
  BY <1>1, <1>2, <1>3, <1>4, <1>6, <1>7, <1>8, <1>9, <1>10 DEF S!Next, S!Work

-----------------------------------------------------------------------------
\* How far a request is depends on that request alone.
LEMMA OnTheirWay ==
  ASSUME S!TypeOK, \A v \in Busy : OnItsWay(job[v]),
         NEW w \in Worker, NEW r \in Request \cup {None}, Turns(w, r),
         r # None => OnItsWay(r)
  PROVE  \A v \in Busy' : OnItsWay(job'[v])
BY Turning DEF Turns, Busy

\* A request that goes on at the same invoice is still on its way.
LEMMA StaysOnItsWay ==
  ASSUME NEW j \in Request, NEW r \in Request, OnItsWay(j), Same(r, j),
         r.step \in {"clear", "add", "open"} => j.ev.inv \in Receivable,
         r.step \in {"flags", "flag", "open"} => j.inv = j.ev.inv,
         r.step = "open" => j.ev.flip
  PROVE  OnItsWay(r)
BY DEF OnItsWay, Same, Kept

\* Every step leaves the requests on their way.
LEMMA WayStep ==
  ASSUME S!TypeOK, \A v \in Busy : OnItsWay(job[v]), [S!Next]_(S!vars)
  PROVE  \A v \in Busy' : OnItsWay(job'[v])
<1> USE OneVocabulary
<1>1. ASSUME UNCHANGED job PROVE \A v \in Busy' : OnItsWay(job'[v])
  BY <1>1 DEF Busy
<1>2. ASSUME NEW w \in Worker, NEW e \in events, S!Receive(w, e)
      PROVE  \A v \in Busy' : OnItsWay(job'[v])
  <2>1. Started(e) \in Request /\ Turns(w, Started(e))
    BY <1>2, Starting
  <2>2. OnItsWay(Started(e))
    BY DEF OnItsWay, Started
  <2> QED
    BY <2>1, <2>2, OnTheirWay
<1>3. ASSUME NEW w \in Busy PROVE job[w] \in Request /\ OnItsWay(job[w]) /\ w \in Worker
  BY Running
<1>4. ASSUME NEW w \in Busy, S!ClearFlags(w) \/ S!AddFlag(w)
      PROVE  \A v \in Busy' : OnItsWay(job'[v])
  <2>1. PICK r \in Request \cup {None} :
          /\ Turns(w, r)
          /\ r # None => /\ Same(r, job[w])
                         /\ \/ r.step = "flag"
                            \/ r.step = "clear" /\ r.inv \in Receivable
    BY <1>4, GoingTo, GoingOnToPredict DEF S!ClearFlags, S!AddFlag
  <2>2. job[w].step \in {"flags", "flag"}
    BY <1>4 DEF S!ClearFlags, S!AddFlag, S!At
  <2>3. r # None => OnItsWay(r)
    BY <1>3, <2>1, <2>2 DEF OnItsWay, Same, Kept
  <2> QED
    BY <1>3, <2>1, <2>3, OnTheirWay
<1>5. ASSUME NEW w \in Busy, S!ClearPrediction(w) PROVE \A v \in Busy' : OnItsWay(job'[v])
  <2>1. PICK r \in Request : Turns(w, r) /\ Same(r, job[w]) /\ r.step = "add"
    BY <1>5, GoingTo DEF S!ClearPrediction
  <2>2. OnItsWay(r)
    BY <1>3, <1>5, <2>1 DEF OnItsWay, Same, Kept, S!ClearPrediction, S!At
  <2> QED
    BY <1>3, <2>1, <2>2, OnTheirWay
<1>6. ASSUME NEW w \in Busy, NEW T \in SUBSET Invoice, S!Onward(w, T),
             T = {} \/ job[w].ev.flip, job[w].ev.inv \in Receivable,
             T \subseteq Receivable \ {job[w].ev.inv}
      PROVE  \A v \in Busy' : OnItsWay(job'[v])
  <2>1. PICK r \in Request \cup {None} :
          /\ Turns(w, r)
          /\ r # None => /\ Kept(r, job[w])
                         /\ r.inv \in T /\ r.todo = T \ {r.inv} /\ r.step = "clear"
    BY <1>6, GoingOn
  <2>2. r # None => OnItsWay(r)
    BY <1>6, <2>1 DEF OnItsWay, Kept
  <2> QED
    BY <1>3, <2>1, <2>2, OnTheirWay
<1>7. ASSUME NEW w \in Busy, S!AddPrediction(w) PROVE \A v \in Busy' : OnItsWay(job'[v])
  <2>1. job[w].step = "add" /\ job[w].todo \in SUBSET Invoice /\ job[w].ev.inv \in Receivable
    BY <1>3, <1>7 DEF S!AddPrediction, S!At, OnItsWay, Request
  <2>2. CASE job[w].inv = job[w].ev.inv /\ job[w].ev.flip
    <3>1. PICK r \in Request : Turns(w, r) /\ Same(r, job[w]) /\ r.step = "open"
      BY <1>7, <2>2, GoingTo DEF S!AddPrediction
    <3>2. OnItsWay(r)
      BY <1>3, <2>1, <2>2, <3>1 DEF OnItsWay, Same, Kept
    <3> QED
      BY <1>3, <3>1, <3>2, OnTheirWay
  <2>3. CASE ~(job[w].inv = job[w].ev.inv /\ job[w].ev.flip)
    <3>1. S!Onward(w, job[w].todo)
      BY <1>7, <2>3 DEF S!AddPrediction
    <3>2. /\ job[w].todo \subseteq Receivable \ {job[w].ev.inv}
          /\ job[w].todo = {} \/ job[w].ev.flip
      BY <1>3, <2>3 DEF OnItsWay
    <3> QED
      BY <1>6, <2>1, <3>1, <3>2
  <2> QED
    BY <2>2, <2>3
<1>8. ASSUME NEW w \in Busy, S!FetchOpen(w) PROVE \A v \in Busy' : OnItsWay(job'[v])
  <2>1. job[w].ev.flip /\ job[w].ev.inv \in Receivable /\ S!Onward(w, S!Others(w))
    BY <1>3, <1>8 DEF S!FetchOpen, S!At, OnItsWay
  <2>2. S!Others(w) \subseteq Receivable \ {job[w].ev.inv} /\ S!Others(w) \in SUBSET Invoice
    BY ReceivablesAreInvoices DEF S!Others, Unpaid
  <2> QED
    BY <1>6, <2>1, <2>2
<1>9. ASSUME NEW w \in Busy, S!TimeOut(w) PROVE \A v \in Busy' : OnItsWay(job'[v])
  <2> DEFINE r == [job[w] EXCEPT !.waits = FALSE]
  <2>1. r \in Request /\ OnItsWay(r)
    BY <1>3 DEF Request, OnItsWay
  <2>2. Turns(w, r)
    BY <1>3, <1>9 DEF S!TimeOut, S!TypeOK, Turns
  <2> QED
    BY <1>3, <2>1, <2>2, OnTheirWay
<1>10. ASSUME NEW w \in Busy, S!Fail(w) PROVE \A v \in Busy' : OnItsWay(job'[v])
  <2>1. Turns(w, None)
    BY <1>10 DEF S!Fail, S!Finish, Turns
  <2> QED
    BY <1>3, <2>1, OnTheirWay
<1>11. ASSUME NEW w \in Worker, S!Work(w) \/ S!TimeOut(w) \/ S!Fail(w) PROVE w \in Busy
  BY <1>11 DEF S!Work, S!ClearFlags, S!AddFlag, S!ClearPrediction, S!AddPrediction, S!FetchOpen,
               S!At, S!TimeOut, S!Fail, Busy
<1>12. ASSUME S!ChangeRow \/ (\E i \in Invoice : S!Review(i)) \/ UNCHANGED S!vars
       PROVE  UNCHANGED job
  BY <1>12 DEF S!ChangeRow, S!Review, S!vars
<1> QED
  BY <1>1, <1>2, <1>4, <1>5, <1>7, <1>8, <1>9, <1>10, <1>11, <1>12 DEF S!Next, S!Work

-----------------------------------------------------------------------------
\* A request that is alone leaves nobody behind but itself.
LEMMA TheOneTurns ==
  ASSUME S!TypeOK, \A u, v \in Busy : u = v,
         NEW w \in Busy, NEW r \in Request \cup {None}, Turns(w, r)
  PROVE  /\ \A u, v \in Busy' : u = v
         /\ \A v \in Busy : v = w
         /\ \A v \in Busy' : r # None /\ job'[v] = r
         /\ r # None => w \in Busy' /\ job'[w] = r
<1>1. w \in Worker
  BY Running
<1>2. job'[w] = r /\ Busy' = IF r = None THEN Busy \ {w} ELSE Busy \cup {w}
  BY <1>1, Turning DEF Turns
<1>3. \A v \in Busy : v = w
  OBVIOUS
<1>4. Busy' \subseteq {w} /\ (r = None => w \notin Busy')
  BY <1>2, <1>3
<1> QED
  BY <1>2, <1>3, <1>4

\* More calls to come, and the same rows: who was seen to still is.
LEMMA Later ==
  ASSUME UNCHANGED <<status, predictions>>, events \subseteq events'
  PROVE  /\ Paid' = Paid /\ Unpaid' = Unpaid /\ (AllOwed => AllOwed')
         /\ \A i : (Current(i) => Current(i)') /\ (Owed(i) => Owed(i)')
         /\ \A i, j : Underway(j, i) => Underway(j, i)'
BY DEF Paid, Unpaid, Open, AllOwed, Current, Rows, Owed, Underway

\* A change of the table has calls made for all that it makes stale.
LEMMA ChangesAreCalled ==
  ASSUME S!TypeOK, S!ChangeRow
  PROVE  /\ events \subseteq events' /\ dead' = dead
         /\ UNCHANGED <<job, flags, predictions, raced>>
         /\ \/ AllOwed'
            \/ Paid' \subseteq Paid /\ \A i \in Unpaid' : i \in Unpaid \/ Owed(i)'
<1>1. UNCHANGED <<job, flags, predictions, raced>>
  BY DEF S!ChangeRow, S!db
<1>2. PICK i \in Invoice : S!RowInserted(i) \/ S!RowDeleted(i)
             \/ S!RowSettled(i, "paid") \/ S!RowSettled(i, "overdue")
  BY DEF S!ChangeRow, S!RowChanges
<1>3. status \in [Invoice -> Status]
  BY OneVocabulary DEF S!TypeOK, S!TableTypeOK
<1> USE OneVocabulary, ReceivablesAreInvoices
<1>4. CASE S!RowInserted(i)
  <2>1. S!Call(i, FALSE) \in events' /\ S!Call(i, FALSE).inv = i
    BY <1>4 DEF S!RowInserted, S!Call
  <2>2. Owed(i)'
    BY <2>1 DEF Owed, Brings
  <2>3. Paid' \subseteq Paid /\ Unpaid' \subseteq Unpaid \cup {i}
    BY <1>3, <1>4 DEF S!RowInserted, Paid, Unpaid, Open
  <2> QED
    BY <1>1, <1>4, <2>2, <2>3 DEF S!RowInserted
<1>5. ASSUME NEW to \in {"paid", "overdue"}, S!RowSettled(i, to)
      PROVE  /\ events \subseteq events' /\ dead' = dead
             /\ \/ AllOwed'
                \/ Paid' \subseteq Paid /\ Unpaid' \subseteq Unpaid
  <2>1. S!Call(i, TRUE) \in events' /\ S!Call(i, TRUE).inv = i /\ S!Call(i, TRUE).flip
    BY <1>5 DEF S!RowSettled, S!Call
  <2>2. CASE i \in Receivable
    BY <1>5, <2>1, <2>2 DEF AllOwed, S!RowSettled
  <2>3. CASE i \notin Receivable
    BY <1>3, <1>5, <2>3 DEF S!RowSettled, Paid, Unpaid, Open
  <2> QED
    BY <2>2, <2>3
<1>6. CASE S!RowDeleted(i)
  BY <1>1, <1>3, <1>6 DEF S!RowDeleted, Paid, Unpaid, Open
<1> QED
  BY <1>1, <1>2, <1>4, <1>5, <1>6

\* A call that has to be repeated is, or it is given up.
LEMMA RetriedOrDead ==
  ASSUME NEW e \in Event, S!Retried(e)
  PROVE  /\ events \subseteq events' /\ UNCHANGED status
         /\ dead' # {} \/ (dead' = dead /\ \E f \in events' : f.inv = e.inv /\ f.flip = e.flip)
<1>1. CASE e.left > 0 /\ events' = events \cup {[e EXCEPT !.left = @ - 1]} /\ dead' = dead
  <2>1. [e EXCEPT !.left = @ - 1].inv = e.inv /\ [e EXCEPT !.left = @ - 1].flip = e.flip
    BY DEF Event
  <2> QED
    BY <1>1, <2>1 DEF S!Retried
<1> QED
  BY <1>1 DEF S!Retried

\* What a request has yet to score, its call brings again.
LEMMA CalledAgain ==
  ASSUME NEW j, NEW i \in Receivable, OnItsWay(j), Underway(j, i),
         j.step \in {"flags", "flag", "clear", "add", "open"},
         NEW f, f.inv = j.ev.inv, f.flip = j.ev.flip
  PROVE  Brings(f, i)
BY DEF Brings, Underway, OnItsWay

\* What a request that is alone turns to keeps what ScoringInv says of it, if the
\* new request does and nobody is left behind.
LEMMA StaysAlone ==
  ASSUME S!TypeOK, \A u, v \in Busy : u = v,
         NEW w \in Busy, NEW r \in Request \cup {None}, Turns(w, r),
         r # None => Undisturbed(r)',
         \A i \in Invoice : flags'[i] <= 1,
         ASSUME dead' = {}, NEW i \in Unpaid', ~Current(i)', ~Owed(i)'
         PROVE  r # None /\ Underway(r, i)'
  PROVE  Alone'
<1>1. /\ \A u, v \in Busy' : u = v
      /\ \A v \in Busy' : r # None /\ job'[v] = r
      /\ r # None => w \in Busy' /\ job'[w] = r
  BY TheOneTurns
<1>2. \A v \in Busy' : Undisturbed(job[v])'
  BY <1>1 DEF Undisturbed, Rows, AllOwed, Paid
<1>3. ASSUME dead' = {} PROVE Covered'
  <2>1. SUFFICES ASSUME NEW i \in Unpaid', ~Current(i)', ~Owed(i)'
                 PROVE  \E v \in Busy' : Underway(job[v], i)'
    BY DEF Covered
  <2>2. r # None /\ Underway(r, i)'
    BY <1>3, <2>1
  <2>3. w \in Busy' /\ job'[w] = r
    BY <1>1, <2>2
  <2> QED
    BY <2>2, <2>3 DEF Underway, Paid
<1> QED
  BY <1>1, <1>2, <1>3 DEF Alone

\* A step that is no race leaves a change alone with the requests it causes.
LEMMA AloneStep == ScoringInv /\ [S!Next]_(S!vars) /\ ~raced' => Alone'
<1> SUFFICES ASSUME ScoringInv, [S!Next]_(S!vars), ~raced' PROVE Alone'
  OBVIOUS
<1> USE OneVocabulary
<1>1. S!TypeOK /\ (~raced => Alone) /\ raced \in BOOLEAN
  BY DEF ScoringInv, S!TypeOK
<1>2. ASSUME NEW w \in Busy
      PROVE  job[w] \in Request /\ OnItsWay(job[w]) /\ w \in Worker
  BY <1>1, Running DEF ScoringInv
<1>3. ASSUME S!ChangeRow PROVE Alone'
  <2>1. /\ events \subseteq events' /\ dead' = dead
        /\ UNCHANGED <<job, flags, predictions, raced>>
        /\ \/ AllOwed'
           \/ Paid' \subseteq Paid /\ \A i \in Unpaid' : i \in Unpaid \/ Owed(i)'
    BY <1>1, <1>3, ChangesAreCalled
  <2>2. Alone /\ Busy' = Busy
    BY <1>1, <2>1 DEF Busy
  <2>3. \A w \in Busy : Undisturbed(job[w])'
    BY <2>1, <2>2 DEF Alone, Undisturbed, Rows, AllOwed
  <2>4. ASSUME dead' = {}, NEW i \in Unpaid'
        PROVE  Current(i)' \/ Owed(i)' \/ \E w \in Busy : Underway(job[w], i)'
    <3>1. CASE AllOwed'
      <4>1. i \in Receivable
        BY DEF Unpaid
      <4> QED
        BY <3>1, <4>1 DEF AllOwed, Owed, Brings
    <3>2. CASE Paid' \subseteq Paid /\ i \in Unpaid
      <4>1. Current(i) \/ Owed(i) \/ \E w \in Busy : Underway(job[w], i)
        BY <2>1, <2>2, <2>4, <3>2 DEF Alone, Covered
      <4>2. Owed(i) => Owed(i)'
        BY <2>1 DEF Owed
      <4>3. Current(i) => Current(i)'
        BY <2>1, <3>2 DEF Current, Rows
      <4>4. \A w \in Busy : Underway(job[w], i) => Underway(job[w], i)'
        BY <2>1, <3>2 DEF Underway
      <4> QED
        BY <4>1, <4>2, <4>3, <4>4
    <3> QED
      BY <2>1, <3>1, <3>2
  <2>5. dead' = {} => Covered'
    BY <2>1, <2>2, <2>4 DEF Covered, Underway
  <2>6. \A w \in Busy' : Undisturbed(job[w])'
    BY <2>1, <2>2, <2>3
  <2> QED
    BY <2>1, <2>2, <2>5, <2>6 DEF Alone
<1>4. ASSUME NEW w \in Worker, NEW e \in events, S!Receive(w, e) PROVE Alone'
  <2>1. ~raced /\ Busy = {} /\ Alone
    BY <1>1, <1>4 DEF S!Receive
  <2>2. PICK r \in Request : r = Started(e) /\ Turns(w, r)
    BY <1>1, <1>4, Starting
  <2>3. /\ r.ev = e /\ r.waits /\ r.inv = e.inv /\ r.step = "flags"
        /\ r.inv \in Receivable => r.seen = Paid
    BY <2>2 DEF Started, S!History
  <2>4. /\ events' = events \ {e}
        /\ UNCHANGED <<status, flags, predictions, dead>>
    BY <1>4 DEF S!Receive, S!Called, S!db
  <2>5. Busy' = {w} /\ job'[w] = r
    BY <1>1, <2>1, <2>2, Turning, NoneIsNothing DEF Turns
  <2>6. Paid' = Paid /\ Unpaid' = Unpaid
    BY <2>4 DEF Paid, Unpaid, Open
  <2>7. Undisturbed(r)'
    BY <2>3, <2>6 DEF Undisturbed
  <2>8. ASSUME dead' = {}, NEW i \in Unpaid
        PROVE  Current(i)' \/ Owed(i)' \/ Underway(r, i)'
    <3>1. Current(i) \/ Owed(i)
      BY <2>1, <2>4, <2>8 DEF Alone, Covered
    <3>2. Current(i) => Current(i)'
      BY <2>4, <2>6 DEF Current, Rows
    <3>3. Owed(i) => Owed(i)' \/ Brings(e, i)
      BY <2>4 DEF Owed
    <3>4. i \in Receivable
      BY DEF Unpaid
    <3>5. Brings(e, i) => Underway(r, i)'
      BY <2>3, <2>6, <3>4 DEF Underway, Brings
    <3> QED
      BY <3>1, <3>2, <3>3, <3>5
  <2>9. \A v \in Busy' : v = w /\ Undisturbed(job[v])'
    BY <2>5, <2>7 DEF Undisturbed, Rows, AllOwed, Paid
  <2>10. dead' = {} => Covered'
    BY <2>5, <2>6, <2>8 DEF Covered, Underway, Paid
  <2>11. \A i \in Invoice : flags'[i] <= 1
    BY <2>1, <2>4 DEF Alone
  <2> QED
    BY <2>9, <2>10, <2>11 DEF Alone
<1>5. ASSUME NEW w \in Busy, ~raced
      PROVE  /\ Alone /\ (\A u, v \in Busy : u = v)
             /\ Undisturbed(job[w]) /\ \A i \in Invoice : flags[i] <= 1
  BY <1>1, <1>5 DEF Alone
\* Whom a request leaves behind: it has scored them, or they are not open.
<1>6. ASSUME ~raced, dead = {}, NEW w \in Busy, NEW i \in Unpaid, ~Current(i), ~Owed(i)
      PROVE  Underway(job[w], i)
  BY <1>1, <1>6 DEF Alone, Covered
<1>7. ASSUME NEW w \in Busy, S!ClearFlags(w) \/ S!AddFlag(w) PROVE Alone'
  <2>1. PICK r \in Request \cup {None} :
          /\ Turns(w, r)
          /\ r = None => job[w].inv \notin Receivable
          /\ r # None => /\ Same(r, job[w])
                         /\ r.step = "clear" \/ (r.step = "flag" /\ S!ClearFlags(w))
    <3>1. CASE S!GoTo(w, "flag") /\ S!ClearFlags(w)
      BY <1>1, <3>1, GoingTo, NoneIsNothing
    <3>2. CASE S!AfterFlags(w)
      BY <1>1, <3>2, GoingOnToPredict
    <3> QED
      BY <1>7, <3>1, <3>2 DEF S!ClearFlags, S!AddFlag
  <2>2. UNCHANGED <<status, events, dead, predictions>> /\ ~raced
    BY <1>7 DEF S!ClearFlags, S!AddFlag, S!table
  <2>3. /\ job[w].inv \in Invoice /\ flags \in [Invoice -> Nat]
        /\ job[w].inv = job[w].ev.inv /\ job[w].todo = {}
    BY <1>1, <1>2, <1>7 DEF Request, OnItsWay, S!ClearFlags, S!AddFlag, S!At, S!TypeOK
  <2>4. /\ \A i \in Invoice : flags'[i] <= 1
        /\ S!ClearFlags(w) => flags'[job[w].inv] = 0
    BY <1>5, <1>7, <2>2, <2>3 DEF S!ClearFlags, S!AddFlag, S!At, Undisturbed
  <2>5. r # None => Undisturbed(r)'
    BY <1>5, <2>1, <2>2, <2>4 DEF Undisturbed, Same, Kept, Paid, AllOwed
  <2>6. ASSUME dead' = {}, NEW i \in Unpaid', ~Current(i)', ~Owed(i)'
        PROVE  r # None /\ Underway(r, i)'
    <3>1. i \in Unpaid /\ i \in Receivable /\ ~Current(i) /\ ~Owed(i)
      BY <2>2, <2>6, Later DEF Unpaid, Open
    <3>2. Underway(job[w], i)
      BY <1>6, <2>2, <2>6, <3>1
    <3>3. r # None
      BY <2>1, <2>3, <3>1, <3>2 DEF Underway
    <3>4. Underway(r, i)
      BY <2>1, <3>2, <3>3 DEF Underway, Same, Kept
    <3> QED
      BY <2>2, <3>3, <3>4, Later
  <2> QED
    BY <1>1, <1>5, <2>1, <2>2, <2>4, <2>5, <2>6, StaysAlone
<1>8. ASSUME NEW w \in Busy, S!ClearPrediction(w) PROVE Alone'
  <2>1. PICK r \in Request : Turns(w, r) /\ Same(r, job[w]) /\ r.step = "add"
    BY <1>1, <1>8, GoingTo DEF S!ClearPrediction
  <2>2. /\ UNCHANGED <<status, events, dead, flags>> /\ ~raced
        /\ predictions' = [predictions EXCEPT ![job[w].inv] = S!Nobody]
    BY <1>8 DEF S!ClearPrediction, S!table
  <2>3. PICK k \in Invoice : k = job[w].inv
    BY <1>2 DEF Request
  <2>4. predictions \in [Invoice -> [Worker -> {None} \cup SUBSET Receivable]]
    BY <1>1 DEF S!TypeOK
  <2>5. Rows(k)' = {}
    BY <2>2, <2>3, <2>4 DEF Rows, S!Nobody
  <2>6. Undisturbed(r)'
    BY <1>5, <2>1, <2>2, <2>3, <2>5 DEF Undisturbed, Same, Kept, Paid, AllOwed
  <2>7. ASSUME dead' = {}, NEW i \in Unpaid', ~Current(i)', ~Owed(i)'
        PROVE  r # None /\ Underway(r, i)'
    <3>1. i \in Unpaid /\ ~Owed(i) /\ i \in Invoice
      BY <2>2, <2>7, ReceivablesAreInvoices DEF Unpaid, Open, Owed
    <3>2. Current(i) /\ i # k => Current(i)'
      BY <2>2, <2>3, <2>4, <3>1 DEF Current, Rows, Paid
    <3>3. Underway(job[w], i) \/ (Current(i) /\ i = k)
      BY <1>6, <2>2, <2>7, <3>1, <3>2
    <3>4. CASE Underway(job[w], i)
      BY <2>1, <2>2, <3>4, NoneIsNothing DEF Underway, Same, Kept, Paid
    <3>5. CASE i = k /\ ~(Paid \subseteq job[w].seen)
      <4>1. job[w].ev.inv \in Receivable
        BY <1>2, <1>8 DEF OnItsWay, S!ClearPrediction, S!At
      <4>2. AllOwed
        BY <1>5, <2>2, <3>5, <4>1 DEF Undisturbed
      <4> QED
        BY <3>1, <4>2 DEF AllOwed, Owed, Brings
    <3>6. CASE i = k /\ Paid \subseteq job[w].seen
      BY <2>1, <2>2, <2>3, <3>6, NoneIsNothing DEF Underway, Same, Kept, Paid
    <3> QED
      BY <3>3, <3>4, <3>5, <3>6
  <2>8. \A i \in Invoice : flags'[i] <= 1
    BY <1>5, <2>2
  <2> QED
    BY <1>1, <1>5, <2>1, <2>2, <2>6, <2>7, <2>8, StaysAlone
<1>9. ASSUME NEW w \in Busy, S!AddPrediction(w) PROVE Alone'
  <2>1. /\ UNCHANGED <<status, events, dead, flags>> /\ ~raced
        /\ predictions' = [predictions EXCEPT ![job[w].inv][w] = job[w].seen]
        /\ job[w].step = "add"
    BY <1>9 DEF S!AddPrediction, S!table, S!At
  <2>2. /\ job[w].inv \in Invoice /\ job[w].todo \in SUBSET Invoice /\ job[w].ev.inv \in Receivable
        /\ predictions \in [Invoice -> [Worker -> {None} \cup SUBSET Receivable]]
        /\ job[w].seen # None
    BY <1>1, <1>2, <2>1, NoneIsNothing DEF Request, S!TypeOK, OnItsWay
  <2>3. \E r \in Request \cup {None} :
          /\ Turns(w, r)
          /\ r # None => Kept(r, job[w]) /\ r.step \in {"clear", "open"}
          /\ \/ /\ r # None /\ Same(r, job[w]) /\ r.step = "open"
                /\ job[w].inv = job[w].ev.inv /\ job[w].ev.flip
             \/ /\ ~(job[w].inv = job[w].ev.inv /\ job[w].ev.flip)
                /\ r = None => job[w].todo = {}
                /\ r # None => r.step = "clear" /\ r.todo = job[w].todo \ {r.inv}
    <3>1. CASE job[w].inv = job[w].ev.inv /\ job[w].ev.flip
      <4>1. \E r \in Request : Turns(w, r) /\ Same(r, job[w]) /\ r.step = "open"
        BY <1>1, <1>9, <3>1, GoingTo DEF S!AddPrediction
      <4> QED
        BY <3>1, <4>1, NoneIsNothing DEF Same
    <3>2. CASE ~(job[w].inv = job[w].ev.inv /\ job[w].ev.flip)
      <4>1. S!Onward(w, job[w].todo)
        BY <1>9, <3>2 DEF S!AddPrediction
      <4>2. \E r \in Request \cup {None} :
              /\ Turns(w, r)
              /\ r = None => job[w].todo = {}
              /\ r # None => /\ Kept(r, job[w])
                             /\ r.inv \in job[w].todo /\ r.todo = job[w].todo \ {r.inv}
                             /\ r.step = "clear"
        BY <1>1, <2>2, <4>1, GoingOn
      <4> QED
        BY <3>2, <4>2
    <3> QED
      BY <3>1, <3>2
  <2>4. PICK r \in Request \cup {None} :
          /\ Turns(w, r)
          /\ r # None => Kept(r, job[w]) /\ r.step \in {"clear", "open"}
          /\ \/ /\ r # None /\ Same(r, job[w]) /\ r.step = "open"
                /\ job[w].inv = job[w].ev.inv /\ job[w].ev.flip
             \/ /\ ~(job[w].inv = job[w].ev.inv /\ job[w].ev.flip)
                /\ r = None => job[w].todo = {}
                /\ r # None => r.step = "clear" /\ r.todo = job[w].todo \ {r.inv}
    BY <2>3
  <2>5. r # None => Undisturbed(r)'
    BY <1>5, <2>1, <2>4 DEF Undisturbed, Kept, Paid, AllOwed
  <2>6. PICK k \in Invoice : k = job[w].inv /\ Rows(k) = {}
    BY <1>5, <2>1, <2>2 DEF Undisturbed
  <2>7. Rows(k)' = {w} /\ predictions'[k][w] = job[w].seen
    BY <1>2, <2>1, <2>2, <2>6 DEF Rows
  <2>8. ASSUME dead' = {}, NEW i \in Unpaid', ~Current(i)', ~Owed(i)'
        PROVE  r # None /\ Underway(r, i)'
    <3>1. i \in Unpaid /\ i \in Receivable /\ ~Owed(i) /\ i \in Invoice
      BY <2>1, <2>8, ReceivablesAreInvoices DEF Unpaid, Open, Owed
    <3>2. Paid \subseteq job[w].seen
      <4>1. ~AllOwed
        BY <3>1 DEF AllOwed, Owed, Brings
      <4> QED
        BY <1>5, <2>1, <2>2, <4>1 DEF Undisturbed
    <3>3. i # k
      BY <1>2, <2>1, <2>7, <2>8, <3>2 DEF Current, Paid
    <3>4. Current(i) => Current(i)'
      BY <2>1, <2>2, <2>6, <3>1, <3>3 DEF Current, Rows, Paid
    <3>5. Underway(job[w], i)
      BY <1>6, <2>1, <2>8, <3>1, <3>4
    <3>6. r # None /\ Underway(r, i)
      BY <1>2, <2>1, <2>4, <2>6, <3>2, <3>3, <3>5 DEF Underway, Same, Kept, OnItsWay
    <3> QED
      BY <2>1, <3>6 DEF Underway, Paid
  <2>9. \A i \in Invoice : flags'[i] <= 1
    BY <1>5, <2>1
  <2> QED
    BY <1>1, <1>5, <2>1, <2>4, <2>5, <2>8, <2>9, StaysAlone
<1>10. ASSUME NEW w \in Busy, S!FetchOpen(w) PROVE Alone'
  <2>1. /\ UNCHANGED <<status, events, dead, flags, predictions>> /\ ~raced
        /\ job[w].step = "open"
    BY <1>10 DEF S!FetchOpen, S!table, S!db, S!At
  <2>2. S!Others(w) = Unpaid \ {job[w].ev.inv} /\ S!Others(w) \in SUBSET Invoice
    BY ReceivablesAreInvoices DEF S!Others, Unpaid
  <2>3. PICK r \in Request \cup {None} :
          /\ Turns(w, r)
          /\ r = None => S!Others(w) = {}
          /\ r # None => /\ Kept(r, job[w])
                         /\ r.inv \in S!Others(w) /\ r.todo = S!Others(w) \ {r.inv}
                         /\ r.step = "clear"
    BY <1>1, <1>10, <2>2, GoingOn DEF S!FetchOpen
  <2>4. r # None => Undisturbed(r)'
    BY <1>5, <2>1, <2>3 DEF Undisturbed, Kept, Paid, AllOwed
  <2>5. ASSUME dead' = {}, NEW i \in Unpaid', ~Current(i)', ~Owed(i)'
        PROVE  r # None /\ Underway(r, i)'
    <3>1. i \in Unpaid /\ ~Current(i) /\ ~Owed(i)
      BY <2>1, <2>5, Later DEF Unpaid, Open
    <3>2. Underway(job[w], i)
      BY <1>6, <2>1, <2>5, <3>1
    <3>3. i \in S!Others(w)
      BY <1>2, <2>1, <2>2, <3>1, <3>2 DEF Underway, OnItsWay
    <3>4. r # None /\ Underway(r, i)
      BY <2>3, <3>2, <3>3 DEF Underway, Kept
    <3> QED
      BY <2>1, <3>4, Later
  <2>6. \A i \in Invoice : flags'[i] <= 1
    BY <1>5, <2>1
  <2> QED
    BY <1>1, <1>5, <2>1, <2>3, <2>4, <2>5, <2>6, StaysAlone
<1>11. ASSUME NEW w \in Busy
       PROVE  job[w].ev \in Event /\ job[w].step \in {"flags", "flag", "clear", "add", "open"}
  BY <1>2 DEF Request
<1>12. ASSUME NEW w \in Busy, S!TimeOut(w) PROVE Alone'
  <2>1. /\ [job[w] EXCEPT !.waits = FALSE] \in Request
        /\ job' = [job EXCEPT ![w] = [job[w] EXCEPT !.waits = FALSE]]
    BY <1>1, <1>2, <1>12 DEF S!TimeOut, S!TypeOK, Request
  <2>2. PICK r \in Request :
          /\ Turns(w, r)
          /\ r.ev = job[w].ev /\ r.inv = job[w].inv /\ r.todo = job[w].todo
          /\ r.seen = job[w].seen /\ r.step = job[w].step
    BY <1>2, <2>1 DEF Request, Turns
  <2>3. /\ events \subseteq events' /\ UNCHANGED <<status, flags, predictions>> /\ ~raced
        /\ \/ dead' # {}
           \/ dead' = dead /\ \E f \in events' : f.inv = r.ev.inv /\ f.flip = r.ev.flip
    BY <1>11, <1>12, <2>2, RetriedOrDead DEF S!TimeOut, S!db
  <2>4. Undisturbed(r)'
    <3>1. (AllOwed => AllOwed') /\ Paid' = Paid /\ Rows(r.inv)' = Rows(r.inv)
      BY <2>3, Later DEF Rows
    <3>2. Undisturbed(job[w])
      BY <1>5, <2>3
    <3> QED
      BY <2>2, <2>3, <3>1, <3>2 DEF Undisturbed
  <2>5. ASSUME dead' = {}, NEW i \in Unpaid', ~Current(i)', ~Owed(i)'
        PROVE  r # None /\ Underway(r, i)'
    <3>1. i \in Unpaid /\ ~Current(i) /\ ~Owed(i)
      BY <2>3, <2>5, Later DEF Unpaid, Open
    <3>2. Underway(job[w], i)
      BY <1>6, <2>3, <2>5, <3>1
    <3> QED
      BY <2>2, <2>3, <3>2, NoneIsNothing DEF Underway, Paid
  <2>6. \A i \in Invoice : flags'[i] <= 1
    BY <1>5, <2>3
  <2> QED
    BY <1>1, <1>5, <2>2, <2>3, <2>4, <2>5, <2>6, StaysAlone
<1>13. ASSUME NEW w \in Busy, S!Fail(w) PROVE Alone'
  <2>1. Turns(w, None) /\ UNCHANGED <<flags, predictions>> /\ ~raced
    BY <1>13 DEF S!Fail, S!Finish, S!db, Turns
  <2>2. /\ events \subseteq events' /\ UNCHANGED status
        /\ \/ dead' # {}
           \/ /\ dead' = dead
              /\ \E f \in events' : f.inv = job[w].ev.inv /\ f.flip = job[w].ev.flip
    <3>1. CASE job[w].waits /\ S!Retried(job[w].ev)
      BY <1>11, <3>1, RetriedOrDead
    <3>2. CASE ~job[w].waits /\ UNCHANGED S!table
      BY <1>5, <2>1, <3>2 DEF S!table, Undisturbed
    <3> QED
      BY <1>13, <3>1, <3>2 DEF S!Fail
  <2>3. ASSUME dead' = {}, NEW i \in Unpaid', ~Current(i)', ~Owed(i)' PROVE FALSE
    <3>1. i \in Unpaid /\ i \in Receivable /\ ~Current(i) /\ ~Owed(i)
      BY <2>1, <2>2, <2>3, Later DEF Unpaid, Open
    <3>2. Underway(job[w], i)
      BY <1>6, <2>1, <2>2, <2>3, <3>1
    <3>3. PICK f \in events' : f.inv = job[w].ev.inv /\ f.flip = job[w].ev.flip
      BY <2>2, <2>3
    <3>4. Brings(f, i)
      BY <1>2, <1>11, <3>1, <3>2, <3>3, CalledAgain
    <3> QED
      BY <2>3, <3>4 DEF Owed
  <2>4. \A i \in Invoice : flags'[i] <= 1
    BY <1>5, <2>1
  <2> QED
    BY <1>1, <1>5, <2>1, <2>3, <2>4, StaysAlone
<1>14. ASSUME NEW i \in Invoice, S!Review(i) PROVE Alone'
  <2>1. /\ UNCHANGED <<status, events, dead, job, predictions, raced>>
        /\ flags' = [flags EXCEPT ![i] = 0]
    BY <1>14 DEF S!Review, S!table
  <2>2. Alone /\ flags \in [Invoice -> Nat]
    BY <1>1, <2>1 DEF S!TypeOK
  <2>3. \A k \in Invoice : flags'[k] <= 1 /\ (flags[k] = 0 => flags'[k] = 0)
    BY <2>1, <2>2 DEF Alone
  <2>4. \A w \in Busy : job[w].inv \in Invoice
    BY <1>2 DEF Request
  <2>5. \A w \in Busy' : Undisturbed(job[w])'
    BY <2>1, <2>2, <2>3, <2>4 DEF Alone, Busy, Undisturbed, Rows, AllOwed, Paid
  <2>6. dead' = {} => Covered'
    <3>1. Covered = Covered'
      BY <2>1 DEF Covered, Unpaid, Open, Current, Rows, Paid, Owed, Busy, Underway
    <3> QED
      BY <2>1, <2>2, <3>1 DEF Alone
  <2> QED
    BY <2>1, <2>2, <2>3, <2>5, <2>6 DEF Alone, Busy
<1>15. CASE UNCHANGED S!vars
  BY <1>1, <1>15 DEF S!vars, S!table, S!db, Alone, Undisturbed, Covered, Unpaid, Open, Current,
                     Rows, Paid, Owed, AllOwed, Busy, Underway
<1>16. ASSUME NEW w \in Worker, S!Work(w) \/ S!TimeOut(w) \/ S!Fail(w) PROVE w \in Busy
  BY <1>16 DEF S!Work, S!ClearFlags, S!AddFlag, S!ClearPrediction, S!AddPrediction, S!FetchOpen,
               S!At, S!TimeOut, S!Fail, Busy
<1> QED
  BY <1>3, <1>4, <1>7, <1>8, <1>9, <1>10, <1>12, <1>13, <1>14, <1>15, <1>16 DEF S!Next, S!Work

\* In every state of the scoring a receivable is current, or it is owed a prediction,
\* unless requests have overlapped or a call has been given up.
THEOREM ScoringSafety == S!Spec => []ScoringInv
<1>1. S!Init => ScoringInv
  <2> SUFFICES ASSUME S!Init PROVE ScoringInv
    OBVIOUS
  <2>1. S!TypeOK
    <3>1. 0 \in 0..MaxChanges
      BY BoundsAreNatural
    <3>2. S!TableTypeOK
      BY <3>1, OneVocabulary DEF S!Init, S!TableInit, S!TableTypeOK, Status
    <3> QED
      BY <3>2 DEF S!Init, S!Nobody, S!TypeOK
  <2>2. Busy = {} /\ Unpaid = {} /\ \A i \in Invoice : flags[i] <= 1
    BY ReceivablesAreInvoices DEF S!Init, S!TableInit, S!Nobody, Busy, Unpaid, Open
  <2> QED
    BY <2>1, <2>2 DEF ScoringInv, Alone, Covered
<1>2. ScoringInv /\ [S!Next]_(S!vars) => ScoringInv'
  BY ScoringTypeStep, WayStep, AloneStep DEF ScoringInv
<1> QED
  BY <1>1, <1>2, PTL DEF S!Spec

\* Every state of the scoring is well typed.
THEOREM ScoringTypeCorrect == S!Spec => []S!TypeOK
<1>1. ScoringInv => S!TypeOK
  BY DEF ScoringInv
<1> QED
  BY <1>1, ScoringSafety, PTL

\* Predictions and flags are current whenever every call has been made and none overlapped.
THEOREM PredictionsStayCurrent == S!Spec => []PredictionsAreCurrent
<1>1. ScoringInv => PredictionsAreCurrent
  <2> SUFFICES ASSUME ScoringInv, Busy = {}, events = {}, dead = {}, ~raced, NEW i \in Unpaid
               PROVE  /\ Cardinality(Rows(i)) = 1
                      /\ \A w \in Rows(i) : Paid \subseteq predictions[i][w]
                      /\ flags[i] <= 1
    BY DEF PredictionsAreCurrent
  <2>1. Current(i)
    BY DEF ScoringInv, Alone, Covered, Owed
  <2>2. flags[i] <= 1
    BY ReceivablesAreInvoices DEF ScoringInv, Alone, Unpaid
  <2>3. Cardinality(Rows(i)) = 1
    BY <2>1, FS_Singleton DEF Current
  <2> QED
    BY <2>1, <2>2, <2>3 DEF Current
<1> QED
  BY <1>1, ScoringSafety, PTL

-----------------------------------------------------------------------------
(* The embeddings.                                                         *)

\* A request is at an invoice from when it has read it until it has put its last
\* chunk, and owes the chunks that it has yet to put.
Holds(j, i) == j.step # "read" /\ j.inv = i
Owes(j, i, c) == Holds(j, i) /\ (j.step \in {"drop", "summary"} \/ c \in j.left)

\* A request has read what it puts, and one that Hasura waits for has one invoice.
Guided(j) ==
  /\ j.step # "read" =>
       /\ j.inv \in Invoice /\ j.copy \in Summary
       /\ j.step = "text" => j.left \subseteq Windows[j.inv]
  /\ j.waits => /\ j.ev \in Event /\ j.todo \subseteq {j.ev.inv}
                /\ j.step # "read" => j.inv = j.ev.inv

\* Somebody is still to read i.
Waiting(i) == (\E e \in events : e.inv = i) \/ \E w \in Busy : i \in job[w].todo

\* The chunks of i are there, or a request at i has yet to put them.
Whole(i) ==
  /\ \/ index[i] \cap Summary # {}
     \/ \E w \in Busy : Holds(job[w], i) /\ job[w].step \in {"drop", "summary"}
  /\ \A c \in Windows[i] : c \in index[i] \/ \E w \in Busy : Owes(job[w], i, c)

\* What the one request at its invoice has put so far is as new as the table.
Half(j) ==
  /\ j.copy = status[j.inv]
  /\ j.step = "summary" => index[j.inv] = {}
  /\ j.step = "text" => index[j.inv] = {j.copy} \cup (Windows[j.inv] \ j.left)

Fresh(i) ==
  \/ index[i] = Says(i) /\ \A w \in Busy : ~Holds(job[w], i)
  \/ \E w \in Busy : Holds(job[w], i) /\ Half(job[w])

OneSummary == \A i \in Invoice : \E s \in Summary : index[i] \subseteq {s} \cup Windows[i]
AllWhole == \A i \in Invoice : Live(i) => Waiting(i) \/ Whole(i)
AllFresh == \A i \in Invoice : Live(i) => Waiting(i) \/ Fresh(i)
OneRequest == \A u, v \in Busy : u = v
NoneBefore ==
  \A i \in Invoice : status[i] = "absent" => index[i] = {} /\ \A w \in Busy : ~Holds(job[w], i)

EmbeddingsInv ==
  /\ TypeOK
  /\ \A w \in Busy : Guided(job[w])
  /\ OneSummary
  /\ excuse # "lost" /\ dead = {} => AllWhole
  /\ excuse = "none" => OneRequest /\ NoneBefore /\ (dead = {} => AllFresh)

-----------------------------------------------------------------------------
\* A step of the table: its rows stay rows, and a row that changes has a call made.
LEMMA TableSteps ==
  ASSUME TableTypeOK, RowChanges
  PROVE  /\ TableTypeOK' /\ events \subseteq events' /\ dead' = dead
         /\ \A i \in Invoice :
              /\ Live(i)' => (Live(i) /\ status'[i] = status[i]) \/ \E e \in events' : e.inv = i
              /\ status'[i] = "absent" => status[i] = "absent"
<1> USE BoundsAreNatural
<1>1. changes' \in 0..MaxChanges
  BY DEF TableTypeOK, RowChanges
<1>2. PICK i \in Invoice : RowInserted(i) \/ RowDeleted(i)
             \/ RowSettled(i, "paid") \/ RowSettled(i, "overdue")
  BY DEF RowChanges
<1>3. /\ Call(i, TRUE) \in Event /\ Call(i, FALSE) \in Event
      /\ Call(i, TRUE).inv = i /\ Call(i, FALSE).inv = i
  BY DEF Call, Event
<1>4. PICK s \in Status : status' = [status EXCEPT ![i] = s] /\ s # "absent"
  BY <1>2 DEF RowInserted, RowDeleted, RowSettled, Status
<1>5. /\ events \subseteq events' /\ events' \subseteq events \cup {Call(i, TRUE), Call(i, FALSE)}
      /\ dead' = dead
      /\ s = "deleted" \/ \E e \in events' : e.inv = i
  <2>1. CASE RowDeleted(i)
    BY <1>4, <2>1 DEF RowDeleted, TableTypeOK
  <2>2. CASE RowInserted(i) \/ RowSettled(i, "paid") \/ RowSettled(i, "overdue")
    BY <1>3, <2>2 DEF RowInserted, RowSettled
  <2> QED
    BY <1>2, <2>1, <2>2
<1>6. \A k \in Invoice : status'[k] = IF k = i THEN s ELSE status[k]
  BY <1>4 DEF TableTypeOK
<1> QED
  BY <1>1, <1>3, <1>4, <1>5, <1>6 DEF TableTypeOK, Live

\* A call that has to be repeated is, or it is given up.
LEMMA RepeatedOrDead ==
  ASSUME TableTypeOK, NEW e \in Event, Retried(e)
  PROVE  /\ TableTypeOK' /\ events \subseteq events' /\ UNCHANGED status
         /\ dead' # {} \/ (dead' = dead /\ \E f \in events' : f.inv = e.inv)
<1> USE BoundsAreNatural
<1>1. CASE e.left > 0 /\ events' = events \cup {[e EXCEPT !.left = @ - 1]} /\ dead' = dead
  <2>1. [e EXCEPT !.left = @ - 1].inv = e.inv /\ [e EXCEPT !.left = @ - 1] \in Event
    BY <1>1 DEF Event
  <2> QED
    BY <1>1, <2>1 DEF Retried, TableTypeOK
<1>2. CASE e.left = 0 /\ dead' = dead \cup {e} /\ events' = events
  BY <1>2 DEF Retried, TableTypeOK
<1> QED
  BY <1>1, <1>2 DEF Retried

-----------------------------------------------------------------------------
\* What a worker turns to: its request r, and nothing of the others.
Takes(w, r) == job' = [job EXCEPT ![w] = r]

\* A worker that turns to a request leaves those of the others.
LEMMA Taking ==
  ASSUME TypeOK, NEW w \in Worker, NEW r \in Job \cup {None}, Takes(w, r)
  PROVE  /\ job' \in [Worker -> Job \cup {None}]
         /\ job'[w] = r
         /\ \A v \in Worker \ {w} : job'[v] = job[v]
         /\ Busy' = IF r = None THEN Busy \ {w} ELSE Busy \cup {w}
BY DEF TypeOK, Busy, Takes

\* A busy worker has a request.
LEMMA AtWork == TypeOK => \A w \in Busy : w \in Worker /\ job[w] \in Job
BY DEF TypeOK, Busy

\* What a request stays while it goes on: whose it is.
Keeps(r, j) == r \in Job /\ r.ev = j.ev /\ r.waits = j.waits
SamePlace(r, j) == Keeps(r, j) /\ r.inv = j.inv /\ r.copy = j.copy /\ r.todo = j.todo

\* A worker that goes to another step has the same request at that step.
LEMMA GoingToStep ==
  ASSUME TypeOK, NEW w \in Busy, NEW s \in {"read", "drop", "summary", "text"}, GoTo(w, s)
  PROVE  \E r \in Job : /\ Takes(w, r) /\ SamePlace(r, job[w])
                        /\ r.left = job[w].left /\ r.step = s
<1>1. w \in Worker /\ job[w] \in Job /\ job \in [Worker -> Job \cup {None}]
  BY AtWork DEF TypeOK
<1> DEFINE r == [job[w] EXCEPT !.step = s]
<1>2. Takes(w, r)
  BY <1>1 DEF GoTo, Takes
<1>3. SamePlace(r, job[w]) /\ r.left = job[w].left /\ r.step = s
  BY <1>1 DEF SamePlace, Keeps, Job
<1> QED
  BY <1>2, <1>3 DEF SamePlace, Keeps

\* A worker that goes on has the invoices left, or has finished.
LEMMA MovingOn ==
  ASSUME TypeOK, NEW w \in Busy, NEW T \in SUBSET Invoice, Onward(w, T)
  PROVE  \E r \in Job \cup {None} :
           /\ Takes(w, r)
           /\ r = None => T = {}
           /\ r # None => /\ Keeps(r, job[w]) /\ r.todo = T /\ r.step = "read"
<1>1. w \in Worker /\ job[w] \in Job /\ job \in [Worker -> Job \cup {None}]
  BY AtWork DEF TypeOK
<1>2. CASE T = {}
  BY <1>2 DEF Onward, Finish, Takes
<1>3. CASE T # {}
  <2> DEFINE r == [job[w] EXCEPT !.todo = T, !.left = {}, !.step = "read"]
  <2>1. Takes(w, r)
    BY <1>1, <1>3 DEF Onward, Takes
  <2>2. Keeps(r, job[w]) /\ r.todo = T /\ r.step = "read"
    BY <1>1 DEF Keeps, Job
  <2> QED
    BY <2>1, <2>2, NoneIsNoJob DEF Keeps
<1> QED
  BY <1>2, <1>3

\* The chunks that are left, or past the invoice.
LEMMA PuttingTheRest ==
  ASSUME TypeOK, NEW w \in Busy, NEW C \in SUBSET Text, Rest(w, C)
  PROVE  \E r \in Job \cup {None} :
           /\ Takes(w, r)
           /\ r = None => C = {} /\ job[w].todo = {}
           /\ r # None => /\ Keeps(r, job[w]) /\ r.todo = job[w].todo
                          /\ \/ C = {} /\ r.step = "read"
                             \/ SamePlace(r, job[w]) /\ r.left = C /\ r.step = "text"
<1>1. w \in Worker /\ job[w] \in Job /\ job \in [Worker -> Job \cup {None}]
  BY AtWork DEF TypeOK
<1>2. CASE C = {}
  <2>1. job[w].todo \in SUBSET Invoice
    BY <1>1 DEF Job
  <2> QED
    BY <1>2, <2>1, MovingOn DEF Rest
<1>3. CASE C # {}
  <2> DEFINE r == [job[w] EXCEPT !.left = C, !.step = "text"]
  <2>1. Takes(w, r)
    BY <1>1, <1>3 DEF Rest, Takes
  <2>2. SamePlace(r, job[w]) /\ r.left = C /\ r.step = "text"
    BY <1>1 DEF SamePlace, Keeps, Job
  <2> QED
    BY <2>1, <2>2, NoneIsNoJob DEF SamePlace, Keeps
<1> QED
  BY <1>2, <1>3

\* A request begins by reading, for its event and its invoices.
LEMMA Beginning ==
  ASSUME TypeOK, NEW w \in Worker, NEW ev \in Event \cup {None}, NEW T \in SUBSET Invoice,
         Begin(w, ev, T)
  PROVE  \E r \in Job : /\ Takes(w, r)
                        /\ r.waits => ev # None
                        /\ r.ev = ev /\ r.todo = T /\ r.step = "read"
<1> DEFINE r == [ev |-> ev, waits |-> ev # None, inv |-> None, copy |-> "absent",
                 left |-> {}, todo |-> T, step |-> "read"]
<1>1. r \in Job
  BY DEF Job, Status
<1> QED
  BY <1>1 DEF Begin, Takes

\* What w is concerned with before its step, and what it leaves to the others.
Concerns(w, i) == w \in Busy /\ (i \in job[w].todo \/ Holds(job[w], i))
LeavesTheRest(w, r) ==
  /\ Takes(w, r) /\ UNCHANGED status
  /\ \A e \in events : e \in events' \/ (r # None /\ e.inv \in r.todo)
  /\ \A i \in Invoice : index'[i] # index[i] => w \in Busy /\ Holds(job[w], i)

\* A worker's step leaves the invoices that it is not concerned with whole.
LEMMA OthersStayWhole ==
  ASSUME TypeOK, AllWhole, NEW w \in Worker, NEW r \in Job \cup {None}, LeavesTheRest(w, r),
         ASSUME NEW i \in Invoice, Live(i), Concerns(w, i), Waiting(i) \/ Whole(i)
         PROVE  Waiting(i)' \/ Whole(i)'
  PROVE  AllWhole'
<1> SUFFICES ASSUME NEW i \in Invoice, Live(i), ~Concerns(w, i)
             PROVE  Waiting(i)' \/ Whole(i)'
  BY DEF AllWhole, LeavesTheRest, Live
<1>1. /\ job'[w] = r
      /\ \A v \in Worker \ {w} : job'[v] = job[v]
      /\ Busy' = IF r = None THEN Busy \ {w} ELSE Busy \cup {w}
  BY Taking DEF LeavesTheRest
<1>2. index'[i] = index[i]
  BY DEF LeavesTheRest, Concerns
<1>3. CASE \E e \in events : e.inv = i
  BY <1>1, <1>3 DEF LeavesTheRest, Waiting
<1>4. \A v \in Busy : i \in job[v].todo \/ Holds(job[v], i) =>
                        v # w /\ v \in Busy' /\ job'[v] = job[v]
  BY <1>1 DEF Concerns, Busy
<1>5. CASE \E v \in Busy : i \in job[v].todo
  BY <1>4, <1>5 DEF Waiting
<1>6. CASE Whole(i)
  BY <1>2, <1>4, <1>6 DEF Whole, Owes
<1> QED
  BY <1>3, <1>5, <1>6 DEF AllWhole, Waiting

\* A worker's step leaves the invoices that it is not concerned with fresh.
LEMMA OthersStayFresh ==
  ASSUME TypeOK, AllFresh, NEW w \in Worker, NEW r \in Job \cup {None}, LeavesTheRest(w, r),
         \A i \in Invoice : r # None /\ Holds(r, i) => Concerns(w, i),
         ASSUME NEW i \in Invoice, Live(i), Concerns(w, i), Waiting(i) \/ Fresh(i)
         PROVE  Waiting(i)' \/ Fresh(i)'
  PROVE  AllFresh'
<1> SUFFICES ASSUME NEW i \in Invoice, Live(i), ~Concerns(w, i)
             PROVE  Waiting(i)' \/ Fresh(i)'
  BY DEF AllFresh, LeavesTheRest, Live
<1>1. /\ job'[w] = r
      /\ \A v \in Worker \ {w} : job'[v] = job[v]
      /\ Busy' = IF r = None THEN Busy \ {w} ELSE Busy \cup {w}
  BY Taking DEF LeavesTheRest
<1>2. index'[i] = index[i] /\ status' = status
  BY DEF LeavesTheRest, Concerns
<1>3. CASE \E e \in events : e.inv = i
  BY <1>1, <1>3 DEF LeavesTheRest, Waiting
<1>4. \A v \in Busy : i \in job[v].todo \/ Holds(job[v], i) =>
                        v # w /\ v \in Busy' /\ job'[v] = job[v]
  BY <1>1 DEF Concerns, Busy
<1>5. CASE \E v \in Busy : i \in job[v].todo
  BY <1>4, <1>5 DEF Waiting
<1>6. CASE \E v \in Busy : Holds(job[v], i) /\ Half(job[v])
  <2>1. PICK v \in Busy : Holds(job[v], i) /\ Half(job[v])
    BY <1>6
  <2>2. v \in Busy' /\ job'[v] = job[v]
    BY <1>4, <2>1
  <2>3. Holds(job'[v], i)
    BY <2>1, <2>2
  <2>4. Half(job[v])'
    BY <1>2, <2>1, <2>2 DEF Half, Holds
  <2> QED
    BY <2>2, <2>3, <2>4 DEF Fresh
<1>7. CASE index[i] = Says(i) /\ \A v \in Busy : ~Holds(job[v], i)
  <2>1. \A v \in Busy' : ~Holds(job'[v], i)
    BY <1>1, <1>7 DEF Busy
  <2>2. index'[i] = Says(i)'
    BY <1>2, <1>7 DEF Says
  <2> QED
    BY <2>1, <2>2 DEF Fresh
<1> QED
  BY <1>3, <1>5, <1>6, <1>7 DEF AllFresh, Waiting, Fresh

\* A step of one worker keeps the invariant if it sees to what it is concerned with.
LEMMA OneWorkerSteps ==
  ASSUME EmbeddingsInv, NEW w \in Worker, NEW r \in Job \cup {None}, LeavesTheRest(w, r),
         TableTypeOK', index' \in [Invoice -> SUBSET Content], OneSummary',
         excuse' \in {"none", "raced", "lost"}, faults' \in 0..MaxFaults,
         r # None => Guided(r),
         \A i \in Invoice : r # None /\ Holds(r, i) =>
           Concerns(w, i) /\ (Live(i) \/ Holds(job[w], i)),
         dead' = {} => dead = {},
         excuse' # "lost" => excuse # "lost",
         excuse' = "none" => excuse = "none" /\ Busy \subseteq {w},
         ASSUME NEW i \in Invoice, Live(i), Concerns(w, i), Waiting(i) \/ Whole(i),
                excuse' # "lost", dead' = {}
         PROVE  Waiting(i)' \/ Whole(i)',
         ASSUME NEW i \in Invoice, Live(i), Concerns(w, i), Waiting(i) \/ Fresh(i),
                excuse' = "none", dead' = {}, Busy \subseteq {w}
         PROVE  Waiting(i)' \/ Fresh(i)'
  PROVE  EmbeddingsInv'
<1>1. TypeOK /\ Takes(w, r)
  BY DEF EmbeddingsInv, LeavesTheRest
<1>2. /\ job' \in [Worker -> Job \cup {None}]
      /\ job'[w] = r
      /\ \A v \in Worker \ {w} : job'[v] = job[v]
      /\ Busy' = IF r = None THEN Busy \ {w} ELSE Busy \cup {w}
  BY <1>1, Taking
<1>3. TypeOK'
  BY <1>2 DEF TypeOK
<1>4. \A v \in Busy' : Guided(job'[v])
  BY <1>2 DEF EmbeddingsInv, Busy
<1>5. ASSUME excuse' # "lost", dead' = {} PROVE AllWhole'
  <2>1. AllWhole
    BY <1>5 DEF EmbeddingsInv
  <2> QED
    BY <1>1, <1>5, <2>1, OthersStayWhole
<1>6. ASSUME excuse' = "none" PROVE OneRequest' /\ NoneBefore' /\ (dead' = {} => AllFresh')
  <2>1. NoneBefore /\ Busy \subseteq {w} /\ (dead = {} => AllFresh)
    BY <1>6 DEF EmbeddingsInv
  <2>2. OneRequest'
    BY <1>2, <2>1 DEF OneRequest
  <2>3. NoneBefore'
    <3> SUFFICES ASSUME NEW i \in Invoice, status'[i] = "absent"
                 PROVE  index'[i] = {} /\ \A v \in Busy' : ~Holds(job'[v], i)
      BY DEF NoneBefore
    <3>1. status[i] = "absent" /\ ~Live(i)
      BY DEF LeavesTheRest, Live
    <3>2. index[i] = {} /\ \A v \in Busy : ~Holds(job[v], i)
      BY <2>1, <3>1 DEF NoneBefore
    <3>3. index'[i] = {}
      BY <3>2 DEF LeavesTheRest
    <3>4. r # None => ~Holds(r, i)
      BY <3>1, <3>2 DEF Concerns
    <3> QED
      BY <1>2, <2>1, <3>3, <3>4
  <2>4. ASSUME dead' = {} PROVE AllFresh'
    <3>1. AllFresh
      BY <2>1, <2>4
    <3>2. \A i \in Invoice : r # None /\ Holds(r, i) => Concerns(w, i)
      OBVIOUS
    <3> QED
      BY <1>1, <1>6, <2>1, <2>4, <3>1, <3>2, OthersStayFresh
  <2> QED
    BY <2>2, <2>3, <2>4
<1> QED
  BY <1>3, <1>4, <1>5, <1>6 DEF EmbeddingsInv

\* Each step of Embeddings keeps its invariant: the request that begins,
LEMMA BeginKeeps ==
  ASSUME EmbeddingsInv, NEW w \in Worker, NEW ev \in Event \cup {None}, NEW T \in SUBSET Invoice,
         Begin(w, ev, T), UNCHANGED <<status, dead, index, faults>>, TableTypeOK',
         \A e \in events : e \in events' \/ e.inv \in T,
         ev # None => T = {ev.inv}
  PROVE  EmbeddingsInv'
<1>1. PICK r \in Job : /\ Takes(w, r)
                       /\ r.waits => ev # None
                       /\ r.ev = ev /\ r.todo = T /\ r.step = "read"
  BY Beginning DEF EmbeddingsInv
<1>2. LeavesTheRest(w, r)
  BY <1>1, NoneIsNoJob DEF LeavesTheRest
<1>3. w \notin Busy
  BY DEF Begin, Busy
<1>4. Guided(r) /\ \A i \in Invoice : ~Holds(r, i)
  BY <1>1 DEF Guided, Holds
<1>5. /\ excuse' \in {"none", "raced", "lost"}
      /\ excuse' # "lost" => excuse # "lost"
      /\ excuse' = "none" => excuse = "none" /\ Busy = {}
  BY DEF Begin, EmbeddingsInv, TypeOK
<1>6. \A i \in Invoice : ~Concerns(w, i)
  BY <1>3 DEF Concerns
<1>7. index' \in [Invoice -> SUBSET Content] /\ OneSummary' /\ faults' \in 0..MaxFaults
  BY DEF EmbeddingsInv, TypeOK, OneSummary
<1> QED
  BY <1>1, <1>2, <1>4, <1>5, <1>6, <1>7, OneWorkerSteps

\* the step that reads the invoice,
LEMMA ReadKeeps == ASSUME EmbeddingsInv, NEW w \in Busy, ReadInvoice(w) PROVE EmbeddingsInv'
<1>1. /\ TypeOK /\ w \in Worker /\ job[w] \in Job /\ Guided(job[w])
      /\ job[w].step = "read" /\ job[w].todo \in SUBSET Invoice
  BY AtWork DEF EmbeddingsInv, ReadInvoice, At, Job
<1>2. PICK i \in job[w].todo :
        \/ /\ Live(i)
           /\ job' = [job EXCEPT ![w].inv = i, ![w].todo = @ \ {i},
                                 ![w].copy = status[i], ![w].step = "drop"]
           /\ UNCHANGED excuse
        \/ /\ Onward(w, job[w].todo \ {i})
           /\ excuse' = IF Live(i) THEN "lost" ELSE excuse
  BY DEF ReadInvoice, Found
<1>3. UNCHANGED <<status, events, dead, changes, index, faults>>
  BY DEF ReadInvoice, table
<1>4. /\ TableTypeOK' /\ index' \in [Invoice -> SUBSET Content] /\ OneSummary'
      /\ faults' \in 0..MaxFaults
  BY <1>3 DEF EmbeddingsInv, TypeOK, TableTypeOK, OneSummary
<1>5. i \in Invoice /\ \A k \in Invoice : ~Holds(job[w], k)
  BY <1>1 DEF Holds
<1>6. excuse' = "none" => Busy \subseteq {w} /\ excuse = "none"
  BY <1>2 DEF EmbeddingsInv, OneRequest
<1>7. CASE /\ Live(i)
           /\ job' = [job EXCEPT ![w].inv = i, ![w].todo = @ \ {i},
                                 ![w].copy = status[i], ![w].step = "drop"]
           /\ UNCHANGED excuse
  <2> DEFINE q == [job[w] EXCEPT !.inv = i, !.todo = @ \ {i}, !.copy = status[i], !.step = "drop"]
  <2>1. status[i] \in Summary
    BY <1>7 DEF Live, Summary
  <2>2. /\ q \in Job /\ q.ev = job[w].ev /\ q.waits = job[w].waits /\ q.inv = i
        /\ q.copy = status[i] /\ q.step = "drop" /\ q.todo = job[w].todo \ {i}
    <3>1. job[w].todo \ {i} \in SUBSET Invoice /\ status[i] \in Status
      BY <1>1, <2>1 DEF Summary, Status
    <3> QED
      BY <1>1, <1>5, <3>1 DEF Job
  <2>3. Takes(w, q)
    BY <1>1, <1>7 DEF TypeOK, Takes
  <2>4. PICK r \in Job :
          /\ Takes(w, r)
          /\ r.ev = job[w].ev /\ r.waits = job[w].waits /\ r.inv = i
          /\ r.copy = status[i] /\ r.step = "drop" /\ r.todo = job[w].todo \ {i}
    BY <2>2, <2>3
  <2>5. LeavesTheRest(w, r)
    BY <1>3, <2>4, NoneIsNoJob DEF LeavesTheRest
  <2>6. Guided(r)
    BY <1>1, <1>5, <2>1, <2>4 DEF Guided
  <2>7. \A k \in Invoice : Holds(r, k) => Concerns(w, k) /\ Live(k)
    BY <1>7, <2>4 DEF Holds, Concerns
  <2>8. w \in Busy' /\ job'[w] = r
    BY <1>1, <2>4, Taking, NoneIsNoJob
  <2>9. ASSUME NEW k \in Invoice, Concerns(w, k)
        PROVE  /\ Waiting(k)' \/ Whole(k)'
               /\ Waiting(k)' \/ Fresh(k)'
    <3>1. k \in job[w].todo
      BY <1>5, <2>9 DEF Concerns
    <3>2. CASE k # i
      BY <2>4, <2>8, <3>1, <3>2 DEF Waiting
    <3>3. CASE k = i
      <4>1. Holds(job'[w], k) /\ job'[w].step = "drop"
        BY <2>4, <2>8, <3>3 DEF Holds
      <4>2. Half(job[w])'
        BY <1>3, <2>4, <2>8 DEF Half
      <4> QED
        BY <2>8, <4>1, <4>2 DEF Whole, Fresh, Owes
    <3> QED
      BY <3>2, <3>3
  <2>10. excuse' \in {"none", "raced", "lost"} /\ (excuse' # "lost" => excuse # "lost")
    BY <1>1, <1>7 DEF TypeOK
  <2> QED
    BY <1>1, <1>3, <1>4, <1>6, <2>4, <2>5, <2>6, <2>7, <2>9, <2>10, OneWorkerSteps
<1>8. CASE /\ Onward(w, job[w].todo \ {i})
           /\ excuse' = IF Live(i) THEN "lost" ELSE excuse
  <2>1. PICK r \in Job \cup {None} :
          /\ Takes(w, r)
          /\ r = None => job[w].todo \ {i} = {}
          /\ r # None => /\ Keeps(r, job[w]) /\ r.todo = job[w].todo \ {i} /\ r.step = "read"
    <3>1. job[w].todo \ {i} \in SUBSET Invoice
      BY <1>1
    <3> QED
      BY <1>1, <1>8, <3>1, MovingOn
  <2>2. LeavesTheRest(w, r)
    BY <1>3, <2>1 DEF LeavesTheRest
  <2>3. r # None => Guided(r)
    BY <1>1, <2>1 DEF Guided, Keeps
  <2>4. \A k \in Invoice : ~(r # None /\ Holds(r, k))
    BY <2>1 DEF Holds
  <2>5. ASSUME NEW k \in Invoice, Live(k), Concerns(w, k), excuse' # "lost"
        PROVE  Waiting(k)'
    <3>1. k \in job[w].todo /\ k # i
      BY <1>5, <1>8, <2>5 DEF Concerns
    <3>2. r # None /\ k \in r.todo
      BY <2>1, <3>1
    <3> QED
      BY <1>1, <2>1, <3>2, Taking DEF Waiting
  <2>6. excuse' \in {"none", "raced", "lost"} /\ (excuse' # "lost" => excuse # "lost")
    BY <1>1, <1>8 DEF TypeOK
  <2> QED
    BY <1>1, <1>3, <1>4, <1>6, <2>1, <2>2, <2>3, <2>4, <2>5, <2>6, OneWorkerSteps
<1> QED
  BY <1>2, <1>7, <1>8

\* the one that deletes its chunks,
LEMMA DropKeeps == ASSUME EmbeddingsInv, NEW w \in Busy, DropChunks(w) PROVE EmbeddingsInv'
<1>1. /\ TypeOK /\ w \in Worker /\ job[w] \in Job /\ Guided(job[w])
      /\ job[w].step = "drop"
  BY AtWork DEF EmbeddingsInv, DropChunks, At
<1>2. PICK r \in Job : Takes(w, r) /\ SamePlace(r, job[w]) /\ r.step = "summary"
  BY <1>1, GoingToStep DEF DropChunks
<1>3. PICK i \in Invoice : i = job[w].inv
  BY <1>1 DEF Guided
<1>4. UNCHANGED <<status, events, dead, changes, excuse, faults>>
  BY DEF DropChunks, table
<1>5. \A k \in Invoice : index'[k] = IF k = i THEN {} ELSE index[k]
  BY <1>1, <1>3 DEF DropChunks, TypeOK
<1>6. /\ TableTypeOK' /\ index' \in [Invoice -> SUBSET Content]
      /\ faults' \in 0..MaxFaults /\ excuse' \in {"none", "raced", "lost"}
  BY <1>1, <1>4 DEF DropChunks, TypeOK, TableTypeOK
<1>7. OneSummary'
  <2> SUFFICES ASSUME NEW k \in Invoice
               PROVE  \E s \in Summary : index'[k] \subseteq {s} \cup Windows[k]
    BY DEF OneSummary
  <2>1. PICK s \in Summary : index[k] \subseteq {s} \cup Windows[k]
    BY DEF EmbeddingsInv, OneSummary
  <2> QED
    BY <1>5, <2>1
<1>8. LeavesTheRest(w, r)
  BY <1>1, <1>2, <1>3, <1>4, <1>5 DEF LeavesTheRest, Holds
<1>9. Guided(r) /\ \A k \in Invoice : Holds(r, k) => Concerns(w, k) /\ Holds(job[w], k)
  BY <1>1, <1>2 DEF Guided, SamePlace, Keeps, Holds, Concerns
<1>10. w \in Busy' /\ job'[w] = r
  BY <1>1, <1>2, Taking, NoneIsNoJob
<1>11. ASSUME NEW k \in Invoice, Live(k), Concerns(w, k)
       PROVE  Waiting(k)' \/ Whole(k)'
  <2>1. CASE k \in job[w].todo
    BY <1>2, <1>10, <2>1 DEF Waiting, SamePlace
  <2>2. CASE Holds(job[w], k)
    BY <1>2, <1>10, <2>2 DEF Whole, Owes, Holds, SamePlace
  <2> QED
    BY <1>11, <2>1, <2>2 DEF Concerns
<1>12. ASSUME NEW k \in Invoice, Live(k), Concerns(w, k), Waiting(k) \/ Fresh(k),
              Busy \subseteq {w}
       PROVE  Waiting(k)' \/ Fresh(k)'
  <2>1. CASE Waiting(k)
    BY <1>2, <1>4, <1>10, <1>12, <2>1 DEF Waiting, SamePlace
  <2>2. CASE Fresh(k) /\ ~Waiting(k)
    <3>1. Holds(job[w], k) /\ Half(job[w]) /\ k = i
      BY <1>3, <1>12, <2>2 DEF Fresh, Concerns, Waiting, Holds
    <3>2. Half(job[w])'
      BY <1>2, <1>3, <1>4, <1>5, <1>10, <3>1 DEF Half, SamePlace
    <3>3. Holds(job'[w], k)
      BY <1>2, <1>10, <3>1 DEF Holds, SamePlace
    <3> QED
      BY <1>10, <3>2, <3>3 DEF Fresh
  <2> QED
    BY <1>12, <2>1, <2>2
<1>13. excuse' = "none" => excuse = "none" /\ Busy \subseteq {w}
  BY <1>4 DEF EmbeddingsInv, OneRequest
<1> QED
  BY <1>1, <1>4, <1>6, <1>7, <1>8, <1>9, <1>11, <1>12, <1>13, OneWorkerSteps

\* the one that inserts the chunk of its columns,
LEMMA PutSummaryKeeps == ASSUME EmbeddingsInv, NEW w \in Busy, PutSummary(w) PROVE EmbeddingsInv'
<1>1. /\ TypeOK /\ w \in Worker /\ job[w] \in Job /\ Guided(job[w])
      /\ job[w].step = "summary"
  BY AtWork DEF EmbeddingsInv, PutSummary, At
<1>2. PICK i \in Invoice : i = job[w].inv
  BY <1>1 DEF Guided
<1>3. PICK C \in SUBSET Text : C = Windows[i]
  BY WindowsAreOfTexts
<1>4. PICK r \in Job \cup {None} :
        /\ Takes(w, r)
        /\ r = None => C = {} /\ job[w].todo = {}
        /\ r # None => /\ Keeps(r, job[w]) /\ r.todo = job[w].todo
                       /\ \/ C = {} /\ r.step = "read"
                          \/ SamePlace(r, job[w]) /\ r.left = C /\ r.step = "text"
  BY <1>1, <1>2, <1>3, PuttingTheRest DEF PutSummary
<1>5. UNCHANGED <<status, events, dead, changes, excuse, faults>>
  BY DEF PutSummary, table
<1>6. \A k \in Invoice : index'[k] = IF k = i THEN (index[i] \cap Text) \cup {job[w].copy}
                                              ELSE index[k]
  BY <1>1, <1>2 DEF PutSummary, Upserted, TypeOK
<1>7. /\ TableTypeOK' /\ faults' \in 0..MaxFaults /\ excuse' \in {"none", "raced", "lost"}
  BY <1>1, <1>5 DEF TypeOK, TableTypeOK
<1>8. job[w].copy \in Summary
  BY <1>1 DEF Guided
<1>9. index' \in [Invoice -> SUBSET Content]
  <2>1. Upserted(job[w].inv, job[w].copy) \in SUBSET Content
    BY <1>8 DEF Upserted, Content
  <2> QED
    BY <1>1, <2>1 DEF PutSummary, TypeOK
<1>10. OneSummary'
  <2> SUFFICES ASSUME NEW k \in Invoice
               PROVE  \E s \in Summary : index'[k] \subseteq {s} \cup Windows[k]
    BY DEF OneSummary
  <2>1. PICK s \in Summary : index[k] \subseteq {s} \cup Windows[k]
    BY DEF EmbeddingsInv, OneSummary
  <2>2. CASE k = i
    <3>1. index[k] \cap Text \subseteq Windows[k]
      BY <2>1, TextIsNoSummary
    <3> QED
      BY <1>6, <1>8, <2>2, <3>1
  <2>3. CASE k # i
    BY <1>6, <2>1, <2>3
  <2> QED
    BY <2>2, <2>3
<1>11. LeavesTheRest(w, r)
  BY <1>1, <1>2, <1>4, <1>5, <1>6 DEF LeavesTheRest, Holds
<1>12. r # None => Guided(r)
  BY <1>1, <1>2, <1>3, <1>4 DEF Guided, SamePlace, Keeps
<1>13. \A k \in Invoice : r # None /\ Holds(r, k) => Concerns(w, k) /\ Holds(job[w], k)
  BY <1>1, <1>4 DEF SamePlace, Keeps, Holds, Concerns
<1>14. /\ job'[w] = r /\ (r # None => w \in Busy')
       /\ \A v \in Worker \ {w} : job'[v] = job[v] /\ (v \in Busy' <=> v \in Busy)
  BY <1>1, <1>4, Taking
<1>15. ASSUME NEW k \in Invoice, k \in job[w].todo PROVE Waiting(k)'
  BY <1>4, <1>14, <1>15 DEF Waiting, SamePlace
<1>16. ASSUME NEW k \in Invoice, Concerns(w, k) PROVE Waiting(k)' \/ Whole(k)'
  <2>1. CASE Holds(job[w], k)
    <3>1. k = i /\ index'[k] \cap Summary # {}
      BY <1>2, <1>6, <1>8, <2>1 DEF Holds
    <3>2. ASSUME NEW c \in Windows[k] PROVE \E v \in Busy' : Owes(job'[v], k, c)
      <4>1. r # None /\ SamePlace(r, job[w]) /\ r.left = C /\ r.step = "text" /\ c \in C
        BY <1>3, <1>4, <3>1
      <4> QED
        BY <1>14, <2>1, <4>1 DEF Owes, Holds, SamePlace
    <3> QED
      BY <3>1, <3>2 DEF Whole
  <2> QED
    BY <1>15, <1>16, <2>1 DEF Concerns
<1>17. ASSUME NEW k \in Invoice, Concerns(w, k), Waiting(k) \/ Fresh(k), Busy \subseteq {w}
       PROVE  Waiting(k)' \/ Fresh(k)'
  <2>1. CASE k \in job[w].todo
    BY <1>15, <2>1
  <2>2. CASE \E e \in events : e.inv = k
    BY <1>5, <2>2 DEF Waiting
  <2>3. CASE Fresh(k) /\ k \notin job[w].todo
    <3>1. Holds(job[w], k) /\ Half(job[w]) /\ k = i
      BY <1>2, <1>17, <2>3 DEF Fresh, Concerns, Holds
    <3>2. index'[k] = {job[w].copy} /\ job[w].copy = status[k]
      BY <1>1, <1>2, <1>6, <3>1 DEF Half
    <3>3. CASE r # None /\ SamePlace(r, job[w]) /\ r.left = C /\ r.step = "text"
      <4>1. Half(job[w])'
        BY <1>2, <1>3, <1>5, <1>14, <3>1, <3>2, <3>3 DEF Half, SamePlace
      <4>2. Holds(job'[w], k)
        BY <1>14, <3>1, <3>3 DEF Holds, SamePlace
      <4> QED
        BY <1>14, <3>3, <4>1, <4>2 DEF Fresh
    <3>4. CASE C = {} /\ (r = None \/ r.step = "read")
      <4>1. index'[k] = Says(k)'
        BY <1>3, <1>5, <3>1, <3>2, <3>4 DEF Says
      <4>2. \A v \in Busy' : ~Holds(job'[v], k)
        BY <1>14, <1>17, <3>4 DEF Holds, Busy
      <4> QED
        BY <4>1, <4>2 DEF Fresh
    <3> QED
      BY <1>4, <3>3, <3>4
  <2> QED
    BY <1>17, <2>1, <2>2, <2>3 DEF Waiting
<1>18. excuse' = "none" => excuse = "none" /\ Busy \subseteq {w}
  BY <1>5 DEF EmbeddingsInv, OneRequest
<1> QED
  BY <1>1, <1>5, <1>7, <1>9, <1>10, <1>11, <1>12, <1>13, <1>16, <1>17, <1>18, OneWorkerSteps

\* those that insert the chunks of its text,
LEMMA PutTextKeeps == ASSUME EmbeddingsInv, NEW w \in Busy, PutText(w) PROVE EmbeddingsInv'
<1>1. /\ TypeOK /\ w \in Worker /\ job[w] \in Job /\ Guided(job[w])
      /\ job[w].step = "text"
  BY AtWork DEF EmbeddingsInv, PutText, At
<1>2. PICK i \in Invoice : i = job[w].inv
  BY <1>1 DEF Guided
<1>3. PICK c \in job[w].left : /\ index' = [index EXCEPT ![job[w].inv] = @ \cup {c}]
                               /\ Rest(w, job[w].left \ {c})
  BY DEF PutText
<1>4. /\ job[w].left \in SUBSET Text /\ c \in Windows[i] /\ c \in Content
  BY <1>1, <1>2 DEF Job, Guided, Content
<1>5. PICK C \in SUBSET Text : C = job[w].left \ {c}
  BY <1>4
<1>6. PICK r \in Job \cup {None} :
        /\ Takes(w, r)
        /\ r = None => C = {} /\ job[w].todo = {}
        /\ r # None => /\ Keeps(r, job[w]) /\ r.todo = job[w].todo
                       /\ \/ C = {} /\ r.step = "read"
                          \/ SamePlace(r, job[w]) /\ r.left = C /\ r.step = "text"
  BY <1>1, <1>3, <1>5, PuttingTheRest
<1>7. UNCHANGED <<status, events, dead, changes, excuse, faults>>
  BY DEF PutText, table
<1>8. \A k \in Invoice : index'[k] = IF k = i THEN index[i] \cup {c} ELSE index[k]
  BY <1>1, <1>2, <1>3 DEF TypeOK
<1>9. /\ TableTypeOK' /\ faults' \in 0..MaxFaults /\ excuse' \in {"none", "raced", "lost"}
  BY <1>1, <1>7 DEF TypeOK, TableTypeOK
<1>10. index' \in [Invoice -> SUBSET Content]
  BY <1>1, <1>2, <1>3, <1>4 DEF TypeOK
<1>11. OneSummary'
  <2> SUFFICES ASSUME NEW k \in Invoice
               PROVE  \E s \in Summary : index'[k] \subseteq {s} \cup Windows[k]
    BY DEF OneSummary
  <2>1. PICK s \in Summary : index[k] \subseteq {s} \cup Windows[k]
    BY DEF EmbeddingsInv, OneSummary
  <2> QED
    BY <1>4, <1>8, <2>1
<1>12. LeavesTheRest(w, r)
  BY <1>1, <1>2, <1>6, <1>7, <1>8 DEF LeavesTheRest, Holds
<1>13. r # None => Guided(r)
  BY <1>1, <1>2, <1>5, <1>6 DEF Guided, SamePlace, Keeps
<1>14. \A k \in Invoice : r # None /\ Holds(r, k) => Concerns(w, k) /\ Holds(job[w], k)
  BY <1>1, <1>6 DEF SamePlace, Keeps, Holds, Concerns
<1>15. /\ job'[w] = r /\ (r # None => w \in Busy')
       /\ \A v \in Worker \ {w} : job'[v] = job[v] /\ (v \in Busy' <=> v \in Busy)
  BY <1>1, <1>6, Taking
<1>16. ASSUME NEW k \in Invoice, Waiting(k) PROVE Waiting(k)'
  <2>1. ASSUME NEW v \in Busy, k \in job[v].todo PROVE v \in Busy' /\ k \in job'[v].todo
    BY <1>6, <1>15, <2>1 DEF Busy, SamePlace
  <2> QED
    BY <1>7, <1>16, <2>1 DEF Waiting
<1>17. ASSUME NEW k \in Invoice, Concerns(w, k), Waiting(k) \/ Whole(k)
       PROVE  Waiting(k)' \/ Whole(k)'
  <2> SUFFICES ASSUME Whole(k), ~Waiting(k) PROVE Whole(k)'
    BY <1>16, <1>17
  <2>1. k = i
    BY <1>2, <1>17 DEF Concerns, Waiting, Holds
  <2>2. \A v \in Busy : v # w => v \in Busy' /\ job'[v] = job[v]
    BY <1>15 DEF Busy
  <2>3. \/ index'[k] \cap Summary # {}
        \/ \E v \in Busy' : Holds(job'[v], k) /\ job'[v].step \in {"drop", "summary"}
    BY <1>1, <1>8, <2>1, <2>2 DEF Whole
  <2>4. ASSUME NEW d \in Windows[k], d \notin index'[k] PROVE \E v \in Busy' : Owes(job'[v], k, d)
    <3>1. PICK v \in Busy : Owes(job[v], k, d)
      BY <1>8, <2>1, <2>4 DEF Whole
    <3>2. CASE v # w
      BY <2>2, <3>1, <3>2
    <3>3. CASE v = w
      <4>1. d \in C
        BY <1>1, <1>5, <1>8, <2>1, <2>4, <3>1, <3>3 DEF Owes
      <4> QED
        BY <1>6, <1>15, <3>1, <3>3, <4>1 DEF Owes, Holds, SamePlace
    <3> QED
      BY <3>2, <3>3
  <2> QED
    BY <2>3, <2>4 DEF Whole
<1>18. ASSUME NEW k \in Invoice, Concerns(w, k), Waiting(k) \/ Fresh(k), Busy \subseteq {w}
       PROVE  Waiting(k)' \/ Fresh(k)'
  <2> SUFFICES ASSUME Fresh(k), ~Waiting(k) PROVE Fresh(k)'
    BY <1>16, <1>18
  <2>1. Holds(job[w], k) /\ Half(job[w]) /\ k = i
    BY <1>2, <1>18 DEF Fresh, Concerns, Holds, Waiting
  <2>2. index'[k] = {job[w].copy} \cup (Windows[k] \ C) /\ job[w].copy = status[k]
    BY <1>1, <1>2, <1>4, <1>5, <1>8, <2>1 DEF Half
  <2>3. CASE r # None /\ SamePlace(r, job[w]) /\ r.left = C /\ r.step = "text"
    <3>1. Half(job[w])'
      BY <1>2, <1>7, <1>15, <2>1, <2>2, <2>3 DEF Half, SamePlace
    <3>2. Holds(job'[w], k)
      BY <1>15, <2>1, <2>3 DEF Holds, SamePlace
    <3> QED
      BY <1>15, <2>3, <3>1, <3>2 DEF Fresh
  <2>4. CASE C = {} /\ (r = None \/ r.step = "read")
    <3>1. index'[k] = Says(k)'
      BY <1>7, <2>2, <2>4 DEF Says
    <3>2. \A v \in Busy' : ~Holds(job'[v], k)
      BY <1>15, <1>18, <2>4 DEF Holds, Busy
    <3> QED
      BY <3>1, <3>2 DEF Fresh
  <2> QED
    BY <1>6, <2>3, <2>4
<1>19. excuse' = "none" => excuse = "none" /\ Busy \subseteq {w}
  BY <1>7 DEF EmbeddingsInv, OneRequest
<1> QED
  BY <1>1, <1>7, <1>9, <1>10, <1>11, <1>12, <1>13, <1>14, <1>17, <1>18, <1>19, OneWorkerSteps

\* the event trigger that stops waiting,
LEMMA TimeOutKeeps == ASSUME EmbeddingsInv, NEW w \in Busy, TimeOut(w) PROVE EmbeddingsInv'
<1>1. /\ TypeOK /\ w \in Worker /\ job[w] \in Job /\ Guided(job[w]) /\ job[w].waits
      /\ job[w].ev \in Event
  BY AtWork DEF EmbeddingsInv, TimeOut, Guided
<1>2. PICK r \in Job :
        /\ Takes(w, r) /\ ~r.waits
        /\ r.inv = job[w].inv /\ r.copy = job[w].copy /\ r.left = job[w].left
        /\ r.todo = job[w].todo /\ r.step = job[w].step
  <2>1. [job[w] EXCEPT !.waits = FALSE] \in Job
    BY <1>1 DEF Job
  <2>2. Takes(w, [job[w] EXCEPT !.waits = FALSE])
    BY <1>1 DEF TimeOut, TypeOK, Takes
  <2> QED
    BY <1>1, <2>1, <2>2 DEF Job
<1>3. UNCHANGED <<index, excuse>> /\ faults' \in 0..MaxFaults
  BY <1>1, MaxFaultsIsNatural DEF TimeOut, Fault, TypeOK
<1>4. /\ TableTypeOK' /\ events \subseteq events' /\ UNCHANGED status
      /\ dead' # {} \/ dead' = dead
  BY <1>1, RepeatedOrDead DEF TimeOut, TypeOK
<1>5. LeavesTheRest(w, r)
  BY <1>2, <1>3, <1>4 DEF LeavesTheRest
<1>6. Guided(r) /\ \A k \in Invoice : Holds(r, k) => Concerns(w, k) /\ Holds(job[w], k)
  BY <1>1, <1>2 DEF Guided, Holds, Concerns
<1>7. /\ job'[w] = r /\ w \in Busy'
      /\ \A v \in Busy : v \in Busy' /\ (v # w => job'[v] = job[v])
      /\ \A v \in Busy' : v \in Busy
  BY <1>1, <1>2, Taking, NoneIsNoJob DEF Busy
<1>8. ASSUME NEW k \in Invoice, Waiting(k) \/ Whole(k) PROVE Waiting(k)' \/ Whole(k)'
  <2>1. \A v \in Busy : /\ job'[v].todo = job[v].todo /\ (Holds(job[v], k) => Holds(job'[v], k))
                        /\ job'[v].step = job[v].step /\ job'[v].left = job[v].left
    BY <1>2, <1>7 DEF Holds
  <2>2. Waiting(k) => Waiting(k)'
    BY <1>4, <1>7, <2>1 DEF Waiting
  <2>3. Whole(k) => Whole(k)'
    BY <1>3, <1>7, <2>1 DEF Whole, Owes
  <2> QED
    BY <1>8, <2>2, <2>3
<1>9. ASSUME NEW k \in Invoice, Waiting(k) \/ Fresh(k), Busy \subseteq {w}
      PROVE  Waiting(k)' \/ Fresh(k)'
  <2>1. Waiting(k) => Waiting(k)'
    BY <1>2, <1>4, <1>7 DEF Waiting
  <2>2. CASE index[k] = Says(k) /\ ~Holds(job[w], k)
    <3>1. \A v \in Busy' : ~Holds(job'[v], k)
      BY <1>2, <1>7, <1>9, <2>2 DEF Holds
    <3>2. index'[k] = Says(k)'
      BY <1>3, <1>4, <2>2 DEF Says
    <3> QED
      BY <3>1, <3>2 DEF Fresh
  <2>3. CASE Holds(job[w], k) /\ Half(job[w])
    <3>1. Half(job[w])'
      BY <1>2, <1>3, <1>4, <1>7, <2>3 DEF Half
    <3>2. Holds(job'[w], k)
      BY <1>2, <1>7, <2>3 DEF Holds
    <3> QED
      BY <1>7, <3>1, <3>2 DEF Fresh
  <2> QED
    BY <1>9, <2>1, <2>2, <2>3 DEF Fresh
<1>10. excuse' = "none" => excuse = "none" /\ Busy \subseteq {w}
  BY <1>3 DEF EmbeddingsInv, OneRequest
<1>11. /\ index' \in [Invoice -> SUBSET Content] /\ OneSummary'
       /\ excuse' \in {"none", "raced", "lost"} /\ (excuse' # "lost" => excuse # "lost")
  BY <1>1, <1>3 DEF EmbeddingsInv, TypeOK, OneSummary
<1> QED
  BY <1>1, <1>3, <1>4, <1>5, <1>6, <1>8, <1>9, <1>10, <1>11, OneWorkerSteps

\* the request that fails,
LEMMA FailKeeps == ASSUME EmbeddingsInv, NEW w \in Busy, Fail(w) PROVE EmbeddingsInv'
<1>1. /\ TypeOK /\ w \in Worker /\ job[w] \in Job /\ Guided(job[w])
      /\ job[w].waits => job[w].ev \in Event
  BY AtWork DEF EmbeddingsInv, Guided
<1>2. Takes(w, None) /\ UNCHANGED index /\ faults' \in 0..MaxFaults
  BY <1>1, MaxFaultsIsNatural DEF Fail, Finish, Takes, Fault, TypeOK
<1>3. /\ TableTypeOK' /\ events \subseteq events' /\ UNCHANGED status
      /\ dead' # {} \/ dead' = dead
      /\ \/ excuse' = "lost"
         \/ /\ excuse' = excuse /\ job[w].waits
            /\ dead' # {} \/ \E f \in events' : f.inv = job[w].ev.inv
  <2>1. CASE job[w].waits /\ Retried(job[w].ev) /\ UNCHANGED excuse
    <3>1. job[w].ev \in Event
      BY <1>1, <2>1
    <3>2. TableTypeOK
      BY <1>1 DEF TypeOK
    <3>3. Retried(job[w].ev)
      BY <2>1
    <3>4. /\ TableTypeOK' /\ events \subseteq events' /\ UNCHANGED status
          /\ dead' # {} \/ (dead' = dead /\ \E f \in events' : f.inv = job[w].ev.inv)
      BY <3>1, <3>2, <3>3, RepeatedOrDead
    <3> QED
      BY <2>1, <3>4
  <2>2. CASE excuse' = "lost" /\ UNCHANGED table
    BY <1>1, <2>2 DEF table, TypeOK, TableTypeOK
  <2> QED
    BY <2>1, <2>2 DEF Fail
<1>4. LeavesTheRest(w, None)
  BY <1>2, <1>3 DEF LeavesTheRest
<1>5. ASSUME NEW k \in Invoice, Concerns(w, k), excuse' # "lost", dead' = {} PROVE Waiting(k)'
  <2>1. job[w].waits /\ \E f \in events' : f.inv = job[w].ev.inv
    BY <1>3, <1>5
  <2>2. k = job[w].ev.inv
    BY <1>1, <1>5, <2>1 DEF Concerns, Guided, Holds
  <2> QED
    BY <2>1, <2>2 DEF Waiting
<1>6. excuse' = "none" => excuse = "none" /\ Busy \subseteq {w}
  BY <1>3 DEF EmbeddingsInv, OneRequest
<1>7. /\ index' \in [Invoice -> SUBSET Content] /\ OneSummary'
      /\ excuse' \in {"none", "raced", "lost"} /\ (excuse' # "lost" => excuse # "lost")
  BY <1>1, <1>2, <1>3 DEF EmbeddingsInv, TypeOK, OneSummary
<1> QED
  BY <1>1, <1>2, <1>3, <1>4, <1>5, <1>6, <1>7, OneWorkerSteps

\* and the changes of the invoices table.
LEMMA RowKeeps == ASSUME EmbeddingsInv, ChangeRow PROVE EmbeddingsInv'
<1>1. TypeOK /\ UNCHANGED <<job, index, excuse, faults>>
  BY DEF EmbeddingsInv, ChangeRow
<1>2. /\ TableTypeOK' /\ events \subseteq events' /\ dead' = dead
      /\ \A i \in Invoice :
           /\ Live(i)' => (Live(i) /\ status'[i] = status[i]) \/ \E e \in events' : e.inv = i
           /\ status'[i] = "absent" => status[i] = "absent"
  BY <1>1, TableSteps DEF ChangeRow, TypeOK
<1>3. TypeOK' /\ Busy' = Busy /\ OneSummary'
  BY <1>1, <1>2 DEF EmbeddingsInv, TypeOK, Busy, OneSummary
<1>4. ASSUME NEW i \in Invoice, Live(i)', ~\E e \in events' : e.inv = i
      PROVE  /\ Live(i) /\ status'[i] = status[i]
             /\ Waiting(i) => Waiting(i)'
             /\ Whole(i) => Whole(i)'
             /\ Fresh(i) => Fresh(i)'
  <2>1. Live(i) /\ status'[i] = status[i]
    BY <1>2, <1>4
  <2>2. Waiting(i) => Waiting(i)'
    BY <1>1, <1>2, <1>3 DEF Waiting
  <2>3. Whole(i) => Whole(i)'
    BY <1>1, <1>3 DEF Whole
  <2>4. Fresh(i) => Fresh(i)'
    <3>1. \A v \in Busy : Holds(job[v], i) /\ Half(job[v]) => Half(job[v])'
      BY <1>1, <2>1 DEF Holds, Half
    <3>2. Says(i)' = Says(i)
      BY <2>1 DEF Says
    <3> QED
      BY <1>1, <1>3, <3>1, <3>2 DEF Fresh
  <2> QED
    BY <2>1, <2>2, <2>3, <2>4
<1>5. excuse' # "lost" /\ dead' = {} => AllWhole'
  BY <1>1, <1>2, <1>4 DEF EmbeddingsInv, AllWhole, Waiting
<1>6. excuse' = "none" /\ dead' = {} => AllFresh'
  BY <1>1, <1>2, <1>4 DEF EmbeddingsInv, AllFresh, Waiting
<1>7. excuse' = "none" => OneRequest' /\ NoneBefore'
  BY <1>1, <1>2, <1>3 DEF EmbeddingsInv, OneRequest, NoneBefore
<1>8. \A v \in Busy' : Guided(job'[v])
  BY <1>1, <1>3 DEF EmbeddingsInv
<1> QED
  BY <1>3, <1>5, <1>6, <1>7, <1>8 DEF EmbeddingsInv

\* Whichever requests overlap or fail: an invoice has one summary in the index; unless
\* calls were lost or given up, every invoice that nothing waits for is indexed whole;
\* and while nothing excuses it, it is indexed as it is.
THEOREM EmbeddingsSafety == Spec => []EmbeddingsInv
<1>1. Init => EmbeddingsInv
  <2> SUFFICES ASSUME Init PROVE EmbeddingsInv
    OBVIOUS
  <2>1. Busy = {} /\ \A i \in Invoice : index[i] = {} /\ ~Live(i)
    BY DEF Init, TableInit, Busy, Live
  <2>2. TypeOK
    <3>1. 0 \in 0..MaxChanges /\ 0 \in 0..MaxFaults
      BY BoundsAreNatural, MaxFaultsIsNatural
    <3>2. TableTypeOK
      BY <3>1 DEF Init, TableInit, TableTypeOK, Status
    <3> QED
      BY <3>1, <3>2 DEF Init, TypeOK
  <2>3. OneSummary
    BY <2>1 DEF OneSummary, Summary
  <2> QED
    BY <2>1, <2>2, <2>3 DEF EmbeddingsInv, AllWhole, AllFresh, OneRequest, NoneBefore
<1>2. EmbeddingsInv /\ [Next]_vars => EmbeddingsInv'
  <2> SUFFICES ASSUME EmbeddingsInv, [Next]_vars PROVE EmbeddingsInv'
    OBVIOUS
  <2>1. ASSUME NEW w \in Worker, NEW e \in events, Receive(w, e) PROVE EmbeddingsInv'
    <3>1. e \in Event /\ e.inv \in Invoice
      BY DEF EmbeddingsInv, TypeOK, TableTypeOK, Event
    <3>2. {e.inv} \in SUBSET Invoice /\ e \in Event \cup {None}
      BY <3>1
    <3>3. /\ Begin(w, e, {e.inv}) /\ UNCHANGED <<status, dead, index, faults>>
          /\ events' = events \ {e} /\ changes' = changes
      BY <2>1 DEF Receive, Called
    <3>4. TableTypeOK'
      BY <3>3 DEF EmbeddingsInv, TypeOK, TableTypeOK
    <3> QED
      BY <3>2, <3>3, <3>4, BeginKeeps
  <2>2. ASSUME NEW w \in Worker, ReceiveBackfill(w) PROVE EmbeddingsInv'
    <3>1. {i \in Invoice : Live(i)} \in SUBSET Invoice
      OBVIOUS
    <3>2. /\ Begin(w, None, {i \in Invoice : Live(i)})
          /\ UNCHANGED <<status, events, dead, changes, index, faults>>
      BY <2>2 DEF ReceiveBackfill, table
    <3>3. TableTypeOK'
      BY <3>2 DEF EmbeddingsInv, TypeOK, TableTypeOK
    <3> QED
      BY <3>1, <3>2, <3>3, BeginKeeps
  <2>3. ASSUME NEW w \in Worker, Work(w) \/ TimeOut(w) \/ Fail(w) PROVE EmbeddingsInv'
    <3>1. w \in Busy
      BY <2>3 DEF Work, ReadInvoice, DropChunks, PutSummary, PutText, At, TimeOut, Fail, Busy
    <3> QED
      BY <2>3, <3>1, ReadKeeps, DropKeeps, PutSummaryKeeps, PutTextKeeps, TimeOutKeeps, FailKeeps
         DEF Work
  <2>4. CASE ChangeRow
    BY <2>4, RowKeeps
  <2>5. CASE UNCHANGED vars
    <3>1. UNCHANGED <<status, events, dead, changes, job, index, excuse, faults>> /\ Busy' = Busy
      BY <2>5 DEF vars, table, Busy
    <3>2. TypeOK' = TypeOK /\ OneSummary' = OneSummary /\ OneRequest' = OneRequest
      BY <3>1 DEF TypeOK, TableTypeOK, OneSummary, OneRequest
    <3>3. AllWhole' = AllWhole
      BY <3>1 DEF AllWhole, Waiting, Whole, Live
    <3>4. AllFresh' = AllFresh
      BY <3>1 DEF AllFresh, Waiting, Fresh, Half, Says, Live
    <3>5. NoneBefore' = NoneBefore
      BY <3>1 DEF NoneBefore
    <3> QED
      BY <3>1, <3>2, <3>3, <3>4, <3>5 DEF EmbeddingsInv
  <2> QED
    BY <2>1, <2>2, <2>3, <2>4, <2>5 DEF Next
<1> QED
  BY <1>1, <1>2, PTL DEF Spec

\* Every state of the embeddings is well typed.
THEOREM EmbeddingsTypeCorrect == Spec => []TypeOK
<1>1. EmbeddingsInv => TypeOK
  BY DEF EmbeddingsInv
<1> QED
  BY <1>1, EmbeddingsSafety, PTL

\* When all is settled, an invoice has all its chunks, each once, whatever overlapped.
THEOREM IndexEndsComplete == Spec => []IndexIsComplete
<1>1. EmbeddingsInv => IndexIsComplete
  <2> SUFFICES ASSUME EmbeddingsInv, Settled, excuse # "lost", NEW i \in Invoice, Live(i)
               PROVE  \E s \in Summary : index[i] = {s} \cup Windows[i]
    BY DEF IndexIsComplete
  <2>1. Whole(i)
    BY DEF EmbeddingsInv, AllWhole, Settled, Waiting
  <2>2. index[i] \cap Summary # {} /\ Windows[i] \subseteq index[i]
    BY <2>1 DEF Whole, Settled
  <2>3. PICK s \in Summary : index[i] \subseteq {s} \cup Windows[i]
    BY DEF EmbeddingsInv, OneSummary
  <2>4. Windows[i] \cap Summary = {}
    BY WindowsAreOfTexts, TextIsNoSummary
  <2>5. s \in index[i]
    BY <2>2, <2>3, <2>4
  <2> QED
    BY <2>2, <2>3, <2>5
<1> QED
  BY <1>1, EmbeddingsSafety, PTL

-----------------------------------------------------------------------------
\* What the table has for a question reaches the user, or Hasura refused the query, or
\* the user hears that something failed.
LEMMA NoneIsADeadEnd ==
  ASSUME NEW rows, NEW q \in Question, NEW up \in SUBSET Answerer, NEW similar \in SUBSET Invoice
  PROVE  ~DeadEnd(q, up, rows, Ask(q, up, rows, similar))
<1> DEFINE route == Route(q, up)
           asked == route \in {"structured", "both"}
           found == IF route # "structured" /\ "embeddings" \in up THEN similar ELSE {}
           reads == asked \/ FallsBack(q, up, found)
           said == IF reads THEN Structured(q, up, rows) ELSE [what |-> "none", ids |-> {}]
           declined == asked /\ said.what = "off_topic"
           silent == said.what = "none" /\ found = {}
           answered == declined \/ silent \/ (said.what # "fails" /\ "writer" \in up)
           ids == IF answered /\ ~declined THEN said.ids \cup found ELSE {}
           shown == Ask(q, up, rows, similar)
<1>1. route \in {"structured", "semantic", "both"}
  <2>1. /\ q.hints \subseteq {"structured", "semantic"}
        /\ q.route \in {"structured", "semantic", "both"}
    BY QuestionsAreAsked
  <2>2. q.hints \in {{}, {"structured"}, {"semantic"}, {"structured", "semantic"}}
    BY <2>1
  <2> QED
    BY <2>1, <2>2 DEF Route
<1>2. HandleQuery(q, up, rows, similar) = [answered |-> answered, ids |-> ids]
  BY DEF HandleQuery
<1>3. reads \/ found # {}
  BY <1>1 DEF FallsBack
<1>4. /\ reads => said = Structured(q, up, rows)
      /\ ~reads => said.what = "none" /\ said.ids = {}
  OBVIOUS
<1> HIDE DEF said, reads, found
<1>5. shown = IF ~answered THEN [what |-> "unavailable", invoices |-> {}]
              ELSE IF ids # {} /\ ~({"hasura", "database"} \subseteq up)
                     THEN [what |-> "error", invoices |-> {}]
                     ELSE [what |-> "answer", invoices |-> ids]
  <2> DEFINE a == HandleQuery(q, up, rows, similar)
  <2>1. a.answered = answered /\ a.ids = ids
    BY <1>2
  <2>2. shown = CASE ~a.answered -> [what |-> "unavailable", invoices |-> {}]
                  [] a.answered /\ a.ids # {} /\ ~({"hasura", "database"} \subseteq up) ->
                       [what |-> "error", invoices |-> {}]
                  [] a.answered /\ (a.ids = {} \/ {"hasura", "database"} \subseteq up) ->
                       [what |-> "answer", invoices |-> a.ids]
    BY DEF Ask
  <2> HIDE DEF a, answered, ids, shown
  <2> QED
    BY <2>1, <2>2
<1>6. ASSUME Selected(q, up, rows) # {}, ~OffTopic(q, up), ~Refused(q, up), answered
      PROVE  ids # {}
  <2>1. CASE reads
    <3>1. said = IF Trips(q, up) THEN [what |-> "fails", ids |-> {}]
                 ELSE [what |-> "rows", ids |-> Selected(q, up, rows)]
      BY <1>4, <1>6, <2>1 DEF Structured
    <3>2. said.what = "rows" /\ said.ids = Selected(q, up, rows)
      BY <1>6, <3>1
    <3> QED
      BY <1>6, <3>2
  <2>2. CASE ~reads
    BY <1>3, <1>4, <1>6, <2>2
  <2> QED
    BY <2>1, <2>2
<1>7. ASSUME "writer" \in up, ~Trips(q, up) PROVE answered
  <2>1. Structured(q, up, rows).what # "fails"
    BY <1>7 DEF Structured
  <2> QED
    BY <1>4, <1>7, <2>1
<1> HIDE DEF answered, ids, shown
<1>8. /\ shown.what = "answer" => answered /\ shown.invoices = ids
      /\ answered /\ {"hasura", "database"} \subseteq up => shown.what = "answer"
  BY <1>5
<1> QED
  BY <1>6, <1>7, <1>8 DEF DeadEnd, shown

\* No outcome of the search, nothing that is down, makes a dead end of a question.
THEOREM NeverADeadEnd == Spec => []NoDeadEnd
<1>1. TypeOK => NoDeadEnd
  <2> SUFFICES ASSUME TypeOK PROVE NoDeadEnd
    OBVIOUS
  <2>1. {q \in Question : \E up \in SUBSET Answerer : \E similar \in SUBSET Invoice :
           DeadEnd(q, up, status, Ask(q, up, status, similar))} = {}
    BY NoneIsADeadEnd
  <2>2. status \in [Invoice -> Status]
    BY DEF TypeOK, TableTypeOK
  <2> QED
    BY <2>1, <2>2 DEF NoDeadEnd, DeadEnds
<1> QED
  BY <1>1, EmbeddingsTypeCorrect, PTL

-----------------------------------------------------------------------------
\* Of some similarities there is a greatest, and Best finds it.
LEMMA BestIsGreatest ==
  ASSUME NEW scores \in SUBSET (0..100), scores # {}
  PROVE  Best(scores) \in scores /\ \A r \in scores : r <= Best(scores)
<1> DEFINE below == {100 - r : r \in scores}
<1>1. ASSUME NEW r \in scores PROVE r \in Int /\ 0 <= r /\ r <= 100 /\ 100 - r \in Nat
  <2>1. r \in 0..100
    OBVIOUS
  <2> QED
    BY <2>1
<1>2. below \in SUBSET Nat /\ below # {}
  BY <1>1
<1>3. PICK x \in below : \A y \in below : ~(<<y, x>> \in OpToRel(<, Nat))
  <2> HIDE DEF below
  <2> QED
    BY <1>2, WFMin, NatLessThanWellFounded
<1>4. PICK s \in scores : x = 100 - s
  BY <1>3
<1>5. ASSUME NEW r \in scores PROVE r <= s
  <2>1. 100 - r \in below /\ 100 - r \in Nat /\ x \in Nat
    BY <1>1, <1>2
  <2>2. ~(100 - r < x)
    BY <1>3, <2>1 DEF OpToRel
  <2> QED
    BY <1>1, <1>4, <2>2
<1>6. \E t \in scores : \A r \in scores : r <= t
  BY <1>5
<1> QED
  BY <1>6 DEF Best

\* A greatest score is the best.
LEMMA GreatestIsBest ==
  ASSUME NEW scores \in SUBSET (0..100), NEW s \in scores, \A r \in scores : r <= s
  PROVE  Best(scores) = s
<1>1. Best(scores) \in scores /\ s <= Best(scores)
  BY BestIsGreatest
<1>2. Best(scores) \in 0..100 /\ s \in 0..100
  BY <1>1
<1>3. Best(scores) <= s
  BY <1>1
<1> QED
  BY <1>1, <1>2, <1>3

\* The n first of pool are no more than n, and as many when they leave one out, and no
\* less than it.
LEMMA LeadersLead ==
  ASSUME NEW pool, IsFiniteSet(pool), NEW key, NEW n \in Nat, NEW F \in Leading(pool, key, n)
  PROVE  /\ F \subseteq pool /\ IsFiniteSet(F) /\ Cardinality(F) <= n
         /\ \A y \in pool \ F : Cardinality(F) = n /\ \A x \in F : key[x] >= key[y]
<1>1. /\ F \in SUBSET pool
      /\ Cardinality(F) = IF Cardinality(pool) < n THEN Cardinality(pool) ELSE n
      /\ \A x \in F, y \in pool \ F : key[x] >= key[y]
  BY DEF Leading
<1>2. /\ Cardinality(pool) \in Nat /\ IsFiniteSet(F)
      /\ Cardinality(F) = Cardinality(pool) => F = pool
  BY <1>1, FS_CardinalityType, FS_Subset
<1> QED
  BY <1>1, <1>2

-----------------------------------------------------------------------------
\* How similar a chunk is, and the best that an invoice has.
Sim(q, c) == q.sim[c[1]][c[2]]
Top(q, kept, i) == Best({q.sim[i][c] : c \in kept[i]})
CrowdOf(q, kept, i) == {c \in Chunks(kept) : c[1] # i /\ Sim(q, c) >= Top(q, kept, i)}

\* The best of an invoice is the similarity of one of its chunks, and no less than any.
LEMMA TopIsTop ==
  ASSUME NEW q \in Question, NEW kept \in [Invoice -> SUBSET Content], NEW i \in Invoice,
         kept[i] # {}
  PROVE  /\ Top(q, kept, i) \in 0..100
         /\ \E c \in kept[i] : q.sim[i][c] = Top(q, kept, i)
         /\ \A c \in kept[i] : q.sim[i][c] \in 0..100 /\ q.sim[i][c] <= Top(q, kept, i)
<1> DEFINE scores == {q.sim[i][c] : c \in kept[i]}
<1>1. scores \in SUBSET (0..100) /\ scores # {}
  BY QuestionsAreAsked
<1>2. Best(scores) \in scores /\ \A r \in scores : r <= Best(scores)
  BY <1>1, BestIsGreatest
<1> QED
  BY <1>1, <1>2 DEF Top

\* There are so many chunks, and what is fetched of them leaves out none that is nearer.
LEMMA FetchedAreNearest ==
  ASSUME NEW q \in Question, NEW kept \in [Invoice -> SUBSET Content],
         NEW fetched \in Fetched(q, Chunks(kept))
  PROVE  /\ fetched \subseteq Chunks(kept) /\ IsFiniteSet(Chunks(kept))
         /\ \A c \in Chunks(kept) \ fetched :
              /\ Cardinality(fetched) = TopK * OverFetch
              /\ \A d \in fetched : Sim(q, d) >= Sim(q, c)
<1> DEFINE near == [c \in Chunks(kept) |-> q.sim[c[1]][c[2]]]
           n == TopK * OverFetch
<1>1. IsFiniteSet(Chunks(kept))
  <2>1. IsFiniteSet({"unpaid"} \cup {"overdue"})
    BY FS_Singleton, FS_AddElement
  <2>2. IsFiniteSet(Summary)
    <3>1. IsFiniteSet(({"unpaid"} \cup {"overdue"}) \cup {"paid"})
      BY <2>1, FS_AddElement
    <3>2. ({"unpaid"} \cup {"overdue"}) \cup {"paid"} = Summary
      BY DEF Summary
    <3> QED
      BY <3>1, <3>2
  <2>3. IsFiniteSet(Content)
    BY <2>2, WindowsAreOfTexts, FS_Union DEF Content
  <2>4. IsFiniteSet(Invoice \X Content)
    BY <2>3, InvoicesAreFinite, FS_Product
  <2> QED
    BY <2>4, FS_Subset DEF Chunks
<1>2. n \in Nat
  BY SearchIsBounded
<1>3. fetched \in Leading(Chunks(kept), near, n)
  BY DEF Fetched, Nearest
<1>4. \A c \in Chunks(kept) : near[c] = Sim(q, c)
  BY DEF Sim
<1> HIDE DEF near, n
<1>5. /\ fetched \subseteq Chunks(kept)
      /\ \A c \in Chunks(kept) \ fetched :
           Cardinality(fetched) = n /\ \A d \in fetched : near[d] >= near[c]
  BY <1>1, <1>2, <1>3, LeadersLead
<1> QED
  BY <1>1, <1>4, <1>5 DEF n

\* Whatever else is fetched, an invoice of which a chunk is fetched has its true score.
LEMMA ScoresAreTrue ==
  ASSUME NEW q \in Question, NEW kept \in [Invoice -> SUBSET Content],
         NEW fetched \in Fetched(q, Chunks(kept)), NEW i \in DOMAIN Score(q, fetched)
  PROVE  i \in Invoice /\ kept[i] # {} /\ Score(q, fetched)[i] = Top(q, kept, i)
<1> DEFINE mine == {d \in fetched : d[1] = i}
           scores == {q.sim[i][d[2]] : d \in mine}
           top == Top(q, kept, i)
<1>1. /\ DOMAIN Score(q, fetched) = {c[1] : c \in fetched}
      /\ Score(q, fetched)[i] = Best(scores)
  BY DEF Score
<1>2. fetched \subseteq Chunks(kept)
  BY FetchedAreNearest
<1>3. PICK f \in fetched : f[1] = i
  BY <1>1
<1>4. i \in Invoice /\ f[2] \in kept[i] /\ f \in Chunks(kept)
  BY <1>2, <1>3 DEF Chunks
<1>5. PICK c \in kept[i] : q.sim[i][c] = top
  BY <1>4, TopIsTop
<1>6. \A d \in mine : /\ d[2] \in kept[i] /\ q.sim[i][d[2]] \in 0..100
                      /\ q.sim[i][d[2]] <= top /\ top \in 0..100
  <2>1. \A d \in mine : d[2] \in kept[i]
    BY <1>2 DEF Chunks
  <2> QED
    BY <1>4, <2>1, TopIsTop
<1>7. top \in scores
  <2> DEFINE best == <<i, c>>
  <2>1. best \in Chunks(kept) /\ Sim(q, best) = top
    <3>1. c \in Content
      BY <1>4
    <3> QED
      BY <1>4, <1>5, <3>1 DEF Chunks, Sim
  <2>2. CASE best \in fetched
    <3>1. best \in mine /\ q.sim[i][best[2]] = top
      BY <1>5, <2>2
    <3> QED
      BY <3>1
  <2>3. CASE best \notin fetched
    <3>1. Sim(q, f) >= Sim(q, best)
      BY <1>3, <2>1, <2>3, FetchedAreNearest
    <3>2. q.sim[i][f[2]] >= top
      BY <1>3, <2>1, <3>1 DEF Sim
    <3>3. f \in mine
      BY <1>3
    <3>4. q.sim[i][f[2]] = top
      <4>1. /\ q.sim[i][f[2]] \in 0..100 /\ q.sim[i][f[2]] <= top /\ top \in 0..100
        BY <1>6, <3>3
      <4>2. \A x, y \in 0..100 : x <= y /\ x >= y => x = y
        OBVIOUS
      <4> HIDE DEF top
      <4> QED
        BY <3>2, <4>1, <4>2
    <3> QED
      BY <3>3, <3>4
  <2> QED
    BY <2>2, <2>3
<1>8. scores \in SUBSET (0..100) /\ \A r \in scores : r <= top
  BY <1>6
<1> HIDE DEF scores, top
<1>9. Best(scores) = top
  BY <1>7, <1>8, GreatestIsBest
<1> QED
  BY <1>1, <1>4, <1>9 DEF top

\* So the search lists at most TopK invoices, by the best they have, and misses one only
\* for TopK that are no less similar, or for as many chunks of others as it fetches.
LEMMA SearchFinds ==
  ASSUME NEW q \in Question, NEW kept \in [Invoice -> SUBSET Content],
         NEW found \in Semantic(q, kept)
  PROVE  /\ \A i \in found : i \in Invoice /\ kept[i] # {} /\ Top(q, kept, i) >= MinSimilarity
         /\ Cardinality(found) <= TopK
         /\ \A i \in Invoice \ found :
              kept[i] # {} /\ Top(q, kept, i) >= MinSimilarity =>
                \/ Cardinality(CrowdOf(q, kept, i)) >= TopK * OverFetch
                \/ Cardinality({k \in found : Top(q, kept, k) >= Top(q, kept, i)}) = TopK
<1>1. PICK fetched \in Fetched(q, Chunks(kept)) : found \in Listed(Score(q, fetched))
  BY DEF Semantic
<1> DEFINE score == Score(q, fetched)
           hit == DOMAIN score
<1>2. PICK best \in Leading(hit, score, TopK) : found = {i \in best : score[i] >= MinSimilarity}
  BY <1>1 DEF Listed
<1>3. \A i \in hit : i \in Invoice /\ kept[i] # {} /\ score[i] = Top(q, kept, i)
  BY ScoresAreTrue
<1>4. hit = {c[1] : c \in fetched}
  BY DEF Score
<1> HIDE DEF score, hit
<1>5. IsFiniteSet(hit) /\ TopK \in Nat
  BY <1>3, InvoicesAreFinite, FS_Subset, SearchIsBounded
<1>6. /\ best \subseteq hit /\ IsFiniteSet(best) /\ Cardinality(best) <= TopK
      /\ \A j \in hit \ best : Cardinality(best) = TopK /\ \A k \in best : score[k] >= score[j]
  BY <1>5, LeadersLead
<1>7. Cardinality(found) <= TopK
  <2>1. found \subseteq best /\ IsFiniteSet(found)
    BY <1>2, <1>6, FS_Subset
  <2>2. /\ Cardinality(found) <= Cardinality(best)
        /\ Cardinality(found) \in Nat /\ Cardinality(best) \in Nat
    BY <1>6, <2>1, FS_Subset, FS_CardinalityType
  <2> QED
    BY <1>5, <1>6, <2>2
<1>8. ASSUME NEW i \in Invoice, kept[i] # {}
      PROVE  Top(q, kept, i) \in 0..100 /\ MinSimilarity \in Nat
  BY <1>8, TopIsTop, SearchIsBounded
<1>9. ASSUME NEW i \in Invoice \ found, kept[i] # {}, Top(q, kept, i) >= MinSimilarity, i \in hit
      PROVE  Cardinality({k \in found : Top(q, kept, k) >= Top(q, kept, i)}) = TopK
  <2>1. i \notin best /\ score[i] = Top(q, kept, i)
    BY <1>2, <1>3, <1>9
  <2>2. Cardinality(best) = TopK /\ \A k \in best : score[k] >= score[i]
    BY <1>6, <1>9, <2>1
  <2>3. \A k \in best : Top(q, kept, k) >= Top(q, kept, i) /\ Top(q, kept, k) = score[k]
    BY <1>3, <1>6, <2>1, <2>2
  <2>4. \A k \in best : score[k] >= MinSimilarity
    <3> SUFFICES ASSUME NEW k \in best PROVE score[k] >= MinSimilarity
      OBVIOUS
    <3>1. k \in Invoice /\ kept[k] # {}
      BY <1>3, <1>6
    <3>2. Top(q, kept, k) \in 0..100 /\ Top(q, kept, i) \in 0..100 /\ MinSimilarity \in Nat
      BY <1>8, <1>9, <3>1
    <3> QED
      BY <1>9, <2>3, <3>2
  <2>5. {k \in found : Top(q, kept, k) >= Top(q, kept, i)} = best
    BY <1>2, <2>3, <2>4
  <2> QED
    BY <2>2, <2>5
<1>10. ASSUME NEW i \in Invoice, kept[i] # {}, i \notin hit
       PROVE  Cardinality(CrowdOf(q, kept, i)) >= TopK * OverFetch
  <2>1. PICK c \in kept[i] : q.sim[i][c] = Top(q, kept, i)
    BY <1>10, TopIsTop
  <2>2. <<i, c>> \in Chunks(kept) /\ Sim(q, <<i, c>>) = Top(q, kept, i)
    BY <2>1 DEF Chunks, Sim
  <2>3. <<i, c>> \notin fetched /\ \A d \in fetched : d[1] # i
    BY <1>4, <1>10
  <2>4. /\ Cardinality(fetched) = TopK * OverFetch
        /\ \A d \in fetched : Sim(q, d) >= Top(q, kept, i)
        /\ fetched \subseteq Chunks(kept) /\ IsFiniteSet(Chunks(kept))
    BY <2>2, <2>3, FetchedAreNearest
  <2>5. fetched \subseteq CrowdOf(q, kept, i) /\ IsFiniteSet(CrowdOf(q, kept, i))
    BY <2>3, <2>4, FS_Subset DEF CrowdOf
  <2> DEFINE n == TopK * OverFetch
  <2> HIDE DEF n
  <2>6. n \in Nat /\ Cardinality(fetched) = n
    BY <2>4, SearchIsBounded DEF n
  <2>7. /\ Cardinality(fetched) <= Cardinality(CrowdOf(q, kept, i))
        /\ Cardinality(CrowdOf(q, kept, i)) \in Nat
    BY <2>5, FS_Subset, FS_CardinalityType
  <2>8. Cardinality(CrowdOf(q, kept, i)) >= n
    BY <2>6, <2>7
  <2> QED
    BY <2>8 DEF n
<1>11. \A i \in found : i \in Invoice /\ kept[i] # {} /\ Top(q, kept, i) >= MinSimilarity
  BY <1>2, <1>3, <1>6
<1>12. ASSUME NEW i \in Invoice \ found, kept[i] # {}, Top(q, kept, i) >= MinSimilarity
       PROVE  \/ Cardinality(CrowdOf(q, kept, i)) >= TopK * OverFetch
              \/ Cardinality({k \in found : Top(q, kept, k) >= Top(q, kept, i)}) = TopK
  BY <1>9, <1>10, <1>12
<1> QED
  BY <1>7, <1>11, <1>12

\* When all is settled the chunks say what the table says, so the search finds what it
\* should, but for what others' chunks crowd out.
THEOREM TheSearchIsRight == Spec => []SearchIsRight
<1>1. EmbeddingsInv => SearchIsRight
  <2> SUFFICES ASSUME EmbeddingsInv, Orderly, NEW q \in Question, NEW found \in Semantic(q, index)
               PROVE  LET enough == {i \in Invoice : Live(i) /\ Likeness(q, i) >= MinSimilarity}
                      IN  /\ found \subseteq enough /\ Cardinality(found) <= TopK
                          /\ \A i \in enough \ found :
                               \/ Crowded(q, i)
                               \/ Cardinality({k \in found :
                                                 Likeness(q, k) >= Likeness(q, i)}) = TopK
    BY DEF SearchIsRight
  <2>1. index \in [Invoice -> SUBSET Content] /\ status \in [Invoice -> Status]
    BY DEF EmbeddingsInv, TypeOK, TableTypeOK
  <2>2. ASSUME NEW i \in Invoice, Live(i) PROVE index[i] = Says(i)
    <3>1. Waiting(i) \/ Fresh(i)
      BY <2>2 DEF EmbeddingsInv, AllFresh, Orderly, Settled
    <3> QED
      BY <3>1 DEF Waiting, Fresh, Orderly, Settled
  <2>3. ASSUME NEW i \in Invoice, ~Live(i) PROVE index[i] = {}
    <3>1. status[i] = "absent"
      BY <2>1, <2>3 DEF Live, Status, Orderly
    <3> QED
      BY <3>1 DEF EmbeddingsInv, NoneBefore, Orderly
  <2>4. \A i \in Invoice : index[i] # {} <=> Live(i)
    BY <2>2, <2>3 DEF Says
  <2>5. \A i \in Invoice : Live(i) => Top(q, index, i) = Likeness(q, i)
    BY <2>2 DEF Top, Likeness
  <2>6. ASSUME NEW i \in Invoice, Live(i)
        PROVE  Crowded(q, i) <=> Cardinality(CrowdOf(q, index, i)) >= TopK * OverFetch
    <3> DEFINE others == {c \in Invoice \X Content :
                            c[1] # i /\ Live(c[1]) /\ c[2] \in Says(c[1])}
               crowd == {c \in others : q.sim[c[1]][c[2]] >= Likeness(q, i)}
    <3>1. \A c \in Invoice \X Content :
            c[2] \in index[c[1]] <=> Live(c[1]) /\ c[2] \in Says(c[1])
      BY <2>2, <2>3
    <3>2. crowd = CrowdOf(q, index, i)
      BY <2>5, <2>6, <3>1 DEF CrowdOf, Chunks, Sim
    <3>3. Crowded(q, i) <=> Cardinality(crowd) >= TopK * OverFetch
      BY DEF Crowded
    <3> HIDE DEF crowd
    <3> QED
      BY <3>2, <3>3
  <2>7. /\ \A i \in found : /\ i \in Invoice /\ index[i] # {}
                            /\ Top(q, index, i) >= MinSimilarity
        /\ Cardinality(found) <= TopK
        /\ \A i \in Invoice \ found :
             index[i] # {} /\ Top(q, index, i) >= MinSimilarity =>
               \/ Cardinality(CrowdOf(q, index, i)) >= TopK * OverFetch
               \/ Cardinality({k \in found : Top(q, index, k) >= Top(q, index, i)}) = TopK
    BY <2>1, SearchFinds
  <2>8. \A i \in found : i \in Invoice /\ Live(i) /\ Likeness(q, i) >= MinSimilarity
                         /\ Top(q, index, i) = Likeness(q, i)
    BY <2>4, <2>5, <2>7
  <2>9. ASSUME NEW i \in Invoice \ found, Live(i), Likeness(q, i) >= MinSimilarity
        PROVE  \/ Crowded(q, i)
               \/ Cardinality({k \in found : Likeness(q, k) >= Likeness(q, i)}) = TopK
    <3>1. Top(q, index, i) = Likeness(q, i) /\ index[i] # {}
      BY <2>4, <2>5, <2>9
    <3>2. {k \in found : Top(q, index, k) >= Top(q, index, i)}
            = {k \in found : Likeness(q, k) >= Likeness(q, i)}
      BY <2>8, <3>1
    <3> QED
      BY <2>6, <2>7, <2>9, <3>1, <3>2
  <2> QED
    BY <2>7, <2>8, <2>9
<1> QED
  BY <1>1, EmbeddingsSafety, PTL
=============================================================================
