----------------------------- MODULE Embeddings -----------------------------
(***************************************************************************)
(* What the genai-service derives from the invoices: the embedded chunks   *)
(* that its semantic search reads (/embed, called by an event trigger, and *)
(* /embed/backfill).  A request reads the invoice as it is now and then    *)
(* replaces its chunks in several commits; requests run concurrently.      *)
(***************************************************************************)
EXTENDS EventTrigger, Faults

CONSTANTS Question, TopK, OverFetch, MinSimilarity, Text,
          Windows  \* [Invoice -> SUBSET Text], what its document is split into

INSTANCE Asking

ASSUME InvoicesAreFinite == IsFiniteSet(Invoice)
ASSUME WindowsAreOfTexts == Windows \in [Invoice -> SUBSET Text] /\ IsFiniteSet(Text)
ASSUME TextIsNoSummary == Text \cap Summary = {}
ASSUME SearchIsBounded == {TopK, OverFetch, MinSimilarity} \subseteq Nat
\* What classify_route and the vectors' distance can come to.
ASSUME QuestionsAreAsked ==
  \A q \in Question : /\ q.hints \subseteq {"structured", "semantic"}
                      /\ q.route \in {"structured", "semantic", "both"}
                      /\ q.sim \in [Invoice -> [Content -> 0..100]]

VARIABLES
  index,  \* [Invoice -> SUBSET Content], the chunks, by what they say
  excuse  \* the worst so far: requests overlapped; work was skipped or lost for good

vars == <<table, job, index, excuse, faults>>

\* A request: its event, None for a backfill, and whether Hasura waits for it; the
\* invoice it is at, how it read it, and the windows left to put; those to come.
Job == [ev : Event \cup {None}, waits : BOOLEAN, inv : Invoice \cup {None},
        copy : Status, left : SUBSET Text, todo : SUBSET Invoice,
        step : {"read", "drop", "summary", "text"}]

ASSUME NoneIsNoJob == None \notin Job

TypeOK ==
  /\ TableTypeOK
  /\ job \in [Worker -> Job \cup {None}]
  /\ index \in [Invoice -> SUBSET Content]
  /\ excuse \in {"none", "raced", "lost"}
  /\ faults \in 0..MaxFaults

Init ==
  /\ TableInit
  /\ job = [w \in Worker |-> None]
  /\ index = [i \in Invoice |-> {}]
  /\ excuse = "none" /\ faults = 0

ChangeRow == RowChanges /\ UNCHANGED <<job, index, excuse, faults>>

-----------------------------------------------------------------------------
Begin(w, ev, invoices) ==
  /\ job[w] = None
  /\ job' = [job EXCEPT ![w] = [ev |-> ev, waits |-> ev # None, inv |-> None,
                                copy |-> "absent", left |-> {},
                                todo |-> invoices, step |-> "read"]]
  /\ excuse' = IF Busy # {} /\ excuse = "none" THEN "raced" ELSE excuse

Receive(w, e) ==
  /\ Begin(w, e, {e.inv})
  /\ Called(e)
  /\ UNCHANGED <<index, faults>>

\* embed_backfill: list_invoice_ids, then one invoice after the other.
ReceiveBackfill(w) ==
  /\ {i \in Invoice : Live(i)} # {}
  /\ Begin(w, None, {i \in Invoice : Live(i)})
  /\ UNCHANGED <<table, index, faults>>

\* Past this invoice: the next one, or the answer.
Onward(w, T) == IF T = {} THEN Finish(w)
                ELSE job' = [job EXCEPT ![w].todo = T, ![w].left = {}, ![w].step = "read"]

Found(i) == Live(i)

\* fetch_invoice_full, the chunks and their vectors.  An invoice that is gone, or a
\* model that does not load, is skipped, and the call counts as done.
ReadInvoice(w) ==
  /\ At(w, "read")
  /\ \E i \in job[w].todo :
       \/ /\ Found(i)
          /\ job' = [job EXCEPT ![w].inv = i, ![w].todo = @ \ {i},
                                ![w].copy = status[i], ![w].step = "drop"]
          /\ UNCHANGED excuse
       \/ /\ Onward(w, job[w].todo \ {i})
          /\ excuse' = IF Live(i) THEN "lost" ELSE excuse
  /\ UNCHANGED <<table, index, faults>>

\* replace_embeddings: a DELETE, and an upsert for every chunk, by its number.
DropChunks(w) ==
  /\ At(w, "drop")
  /\ index' = [index EXCEPT ![job[w].inv] = {}]
  /\ GoTo(w, "summary")
  /\ UNCHANGED <<table, excuse, faults>>

\* The windows still to put, or past this invoice.
Rest(w, windows) ==
  IF windows = {} THEN Onward(w, job[w].todo)
                  ELSE job' = [job EXCEPT ![w].left = windows, ![w].step = "text"]

\* Mutant of Upserted: a plain INSERT.
Inserted(i, summary) == index[i] \cup {summary}

\* The summary is chunk 0.
Upserted(i, summary) == (index[i] \cap Text) \cup {summary}

PutSummary(w) ==
  /\ At(w, "summary")
  /\ index' = [index EXCEPT ![job[w].inv] = Upserted(job[w].inv, job[w].copy)]
  /\ Rest(w, Windows[job[w].inv])
  /\ UNCHANGED <<table, excuse, faults>>

\* The windows in whichever order: nothing tells one from the other.
PutText(w) ==
  /\ At(w, "text")
  /\ \E c \in job[w].left :
       /\ index' = [index EXCEPT ![job[w].inv] = @ \cup {c}]
       /\ Rest(w, job[w].left \ {c})
  /\ UNCHANGED <<table, excuse, faults>>

\* timeout_sec is over; the service goes on.
TimeOut(w) ==
  /\ job[w] # None /\ job[w].waits
  /\ job' = [job EXCEPT ![w].waits = FALSE]
  /\ Retried(job[w].ev)
  /\ Fault
  /\ UNCHANGED <<index, excuse>>

\* Hasura or the database fails, or the process dies: what is committed stays, and
\* nobody repeats a backfill.
Fail(w) ==
  /\ job[w] # None
  /\ Finish(w)
  /\ \/ job[w].waits /\ Retried(job[w].ev) /\ UNCHANGED excuse
     \/ ~job[w].waits /\ excuse' = "lost" /\ UNCHANGED table
  /\ Fault
  /\ UNCHANGED index

Work(w) == ReadInvoice(w) \/ DropChunks(w) \/ PutSummary(w) \/ PutText(w)

Next ==
  \/ ChangeRow
  \/ \E w \in Worker :
       \/ \E e \in events : Receive(w, e)
       \/ ReceiveBackfill(w)
       \/ Work(w)
       \/ TimeOut(w)
       \/ Fail(w)

Spec == Init /\ [][Next]_vars

-----------------------------------------------------------------------------
\* Every call has been made and answered, and none was given up.
Settled == Busy = {} /\ events = {} /\ dead = {}

\* What the chunks of i should say.
Says(i) == {status[i]} \cup Windows[i]

\* How similar an invoice is, by its content as it is now.
Likeness(q, i) == Best({q.sim[i][c] : c \in Says(i)})

\* As many chunks of others as are fetched are at least as similar as i's best.
Crowded(q, i) ==
  LET others == {c \in Invoice \X Content : c[1] # i /\ Live(c[1]) /\ c[2] \in Says(c[1])}
  IN  Cardinality({c \in others : q.sim[c[1]][c[2]] >= Likeness(q, i)}) >= TopK * OverFetch

\* When every call has been made, none was skipped, no two requests overlapped and
\* nothing was deleted, the search finds what it should, although it reads a copy of
\* the invoices that is replaced chunk by chunk, fetches chunks and not invoices, and
\* keeps one chunk of each (replace_embeddings, _safe_semantic): at most TopK invoices,
\* each as similar as it is to the question, that is enough, and it misses one only for
\* TopK that are no less similar, or because others' chunks have crowded it out, which
\* the over-fetch puts off and does not prevent.
Orderly == Settled /\ excuse = "none" /\ \A i \in Invoice : status[i] # "deleted"

SearchIsRight ==
  Orderly =>
    \A q \in Question : \A found \in Semantic(q, index) :
      LET enough == {i \in Invoice : Live(i) /\ Likeness(q, i) >= MinSimilarity}
      IN  /\ found \subseteq enough /\ Cardinality(found) <= TopK
          /\ \A i \in enough \ found :
               \/ Crowded(q, i)
               \/ Cardinality({k \in found : Likeness(q, k) >= Likeness(q, i)}) = TopK

\* Even when requests for one invoice overlapped, it has all its chunks in the end,
\* each once: the DELETE of one request never takes what the other has put last.
IndexIsComplete ==
  Settled /\ excuse # "lost" =>
    \A i \in Invoice : Live(i) => \E s \in Summary : index[i] = {s} \cup Windows[i]

\* The questions that come to a dead end with the rows of the table, by whatever answers
\* and with whatever outcome of the search.
DeadEnd(q, up, rows, shown) ==
  \/ /\ shown.what = "answer" /\ shown.invoices = {}
     /\ Selected(q, up, rows) # {} /\ ~OffTopic(q, up) /\ ~Refused(q, up)
  \/ /\ shown.what # "answer"
     /\ {"hasura", "database", "writer"} \subseteq up /\ ~Trips(q, up)

DeadEnds ==
  {<<rows, {q \in Question :
              \E up \in SUBSET Answerer : \E similar \in SUBSET Invoice :
                DeadEnd(q, up, rows, Ask(q, up, rows, similar))}>> : rows \in [Invoice -> Status]}

\* A user is not told that there is nothing while the table has rows for the question,
\* whatever the search finds and whatever is down, unless Hasura refused the query; and
\* is not put off while Hasura and the writer are up, whether or not the router, the
\* planner and the embeddings are, unless the planner's query had no shape
\* (handle_query's fallbacks).  A model that is down when the answer is written has it
\* said that the assistant is unavailable, although the rows have been found.
NoDeadEnd == <<status, {}>> \in DeadEnds
=============================================================================
