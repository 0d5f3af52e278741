------------------------------- MODULE Asking -------------------------------
(***************************************************************************)
(* How the genai-service answers a question about the invoices (rag,       *)
(* query_builder, llm): from the table, from the embeddings, or from both, *)
(* and what the web BFF makes of the answer (ask).  Operators of the       *)
(* question, of the services that answer, of the rows of the table and of  *)
(* the embedded chunks; Embeddings.tla has the state.                      *)
(*                                                                         *)
(* A question is a record                                                  *)
(*   hints   which of the keyword lists it hits;                           *)
(*   route   what the model would call it when the keywords do not decide; *)
(*   model   what the tool call does: it "plans" a query, "declines",      *)
(*           "invents" one that the whitelist refuses, "mistakes" one that *)
(*           Hasura refuses, or "garbles" one, so that it has no shape;    *)
(*   plan, keyword   the status values that the model's query and the      *)
(*           keyword router's query select;                                *)
(*   sim     how similar (0..100) a chunk with that content is to it.      *)
(***************************************************************************)
EXTENDS Integers, FiniteSets

CONSTANTS Invoice, TopK, OverFetch,
          Text,           \* the windows of the longest document
          MinSimilarity   \* _MIN_SIMILARITY

Summary == {"unpaid", "overdue", "paid"}  \* by the payment_status that it tells
Content == Summary \cup Text

\* What answers: Hasura, the database behind it, the model at each of its three calls,
\* each of which may fail by itself, and the embeddings.  Running offline is a router
\* and a planner that never answer and a writer, a template, that always does.
Answerer == {"hasura", "database", "router", "planner", "writer", "embeddings"}

-----------------------------------------------------------------------------
\* classify_question, and llm.classify_route when the keywords are of no help.
Route(q, up) ==
  CASE q.hints = {"structured"} -> "structured"
    [] q.hints = {"semantic"} -> "semantic"
    [] q.hints = {"structured", "semantic"} -> "both"
    [] q.hints = {} -> IF "router" \in up THEN q.route ELSE "structured"

\* answer_structured: the model's query when the whitelist lets it through, the
\* keyword router's when it does not, or when the model is down.  A query returns at
\* least one of the rows it selects (build's limit); here, all of them.
Planned(q, up) == "planner" \in up /\ q.model # "invents"
Selected(q, up, states) ==
  {i \in Invoice : states[i] \in IF Planned(q, up) THEN q.plan ELSE q.keyword}

OffTopic(q, up) == "planner" \in up /\ q.model = "declines"

\* A HasuraError, which _safe_structured takes for no answer; and what it lets through:
\* Hasura out of reach, or a call whose arguments spec_from_tool_args and build trip over.
Refused(q, up) == "database" \notin up \/ (Planned(q, up) /\ q.model = "mistakes")
Trips(q, up) == "hasura" \notin up \/ (Planned(q, up) /\ q.model = "garbles")

\* _safe_structured: what it is, and the rows.
Structured(q, up, states) ==
  CASE OffTopic(q, up) -> [what |-> "off_topic", ids |-> {}]
    [] ~OffTopic(q, up) /\ Trips(q, up) -> [what |-> "fails", ids |-> {}]
    [] ~OffTopic(q, up) /\ ~Trips(q, up) /\ Refused(q, up) -> [what |-> "none", ids |-> {}]
    [] ~OffTopic(q, up) /\ ~Trips(q, up) /\ ~Refused(q, up) ->
         [what |-> "rows", ids |-> Selected(q, up, states)]

-----------------------------------------------------------------------------
\* The n first of S by key: of equals, any.
Leading(S, key, n) ==
  {F \in SUBSET S : /\ Cardinality(F) = IF Cardinality(S) < n THEN Cardinality(S) ELSE n
                    /\ \A x \in F, y \in S \ F : key[x] >= key[y]}

Chunks(kept) == {c \in Invoice \X Content : c[2] \in kept[c[1]]}

\* match_invoice_embeddings: the nearest chunks, whatever their distance; the index, which
\* is approximate (HNSW), is taken as exact.
Nearest(q, chunks, n) == Leading(chunks, [c \in chunks |-> q.sim[c[1]][c[2]]], n)

\* Mutant of Fetched: no over-fetch, so one invoice's chunks may fill the answer.
FetchedBare(q, chunks) == Nearest(q, chunks, TopK)

Fetched(q, chunks) == Nearest(q, chunks, TopK * OverFetch)

Best(scores) == CHOOSE s \in scores : \A r \in scores : r <= s

\* Every invoice by the best of its chunks.
Score(q, fetched) ==
  [i \in {c[1] : c \in fetched} |-> Best({q.sim[i][c[2]] : c \in {d \in fetched : d[1] = i}})]

\* _safe_semantic, with the embeddings there: the TopK best invoices, and of those the
\* ones that are similar enough; a set for each outcome.
Listed(score) ==
  {{i \in best : score[i] >= MinSimilarity} : best \in Leading(DOMAIN score, score, TopK)}
Semantic(q, kept) == UNION {Listed(Score(q, fetched)) : fetched \in Fetched(q, Chunks(kept))}

-----------------------------------------------------------------------------
\* Mutant of FallsBack: only when the embeddings are out of reach, not when there is
\* nothing similar enough.
FallsBackIfDown(q, up, found) == Route(q, up) = "semantic" /\ "embeddings" \notin up

FallsBack(q, up, found) == Route(q, up) = "semantic" /\ found = {}

\* handle_query: whether /query answers or fails, which is a 500, and the invoices it
\* lists; similar is what the search finds if it is asked and the embeddings are there.
\* synthesize asks the model, outside any try, unless there is nothing at all to say.
HandleQuery(q, up, states, similar) ==
  LET route == Route(q, up)
      asked == route \in {"structured", "both"}
      found == IF route # "structured" /\ "embeddings" \in up THEN similar ELSE {}
      rows == IF asked \/ FallsBack(q, up, found) THEN Structured(q, up, states)
                                                  ELSE [what |-> "none", ids |-> {}]
      declined == asked /\ rows.what = "off_topic"
      silent == rows.what = "none" /\ found = {}
      answered == declined \/ silent \/ (rows.what # "fails" /\ "writer" \in up)
  IN  [answered |-> answered,
       ids |-> IF answered /\ ~declined THEN rows.ids \cup found ELSE {}]

\* ask: what the user is shown, an answer, that the assistant is unavailable, or an
\* error when the invoices the answer names cannot be fetched.
Ask(q, up, states, similar) ==
  LET answer == HandleQuery(q, up, states, similar)
  IN  CASE ~answer.answered -> [what |-> "unavailable", invoices |-> {}]
        [] answer.answered /\ answer.ids # {} /\ ~({"hasura", "database"} \subseteq up) ->
             [what |-> "error", invoices |-> {}]
        [] answer.answered /\ (answer.ids = {} \/ {"hasura", "database"} \subseteq up) ->
             [what |-> "answer", invoices |-> answer.ids]
=============================================================================
