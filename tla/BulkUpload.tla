----------------------------- MODULE BulkUpload -----------------------------
(***************************************************************************)
(* One bulk upload of documents: the request that saves the files and      *)
(* queues a job for each (services/ocr-service/app/{main,bulk}.py), the    *)
(* consumer of the RabbitMQ queue ocr.bulk in the same process, which runs *)
(* the pipeline (pipeline.py) on each file and puts a draft into Hasura's  *)
(* review_queue, and the page that polls the status of the jobs            *)
(* (apps/web/components/upload/BulkDocumentUpload.tsx).                    *)
(* The job status is a dict of the process; the broker delivers again what *)
(* was not acknowledged, while a handler whose connection was lost runs    *)
(* on.  Each handler is known by the number of the delivery it handles.    *)
(***************************************************************************)
EXTENDS UploadState

request == <<enqueue, answer>>
broker == <<ready, unacked, delivered>>
vars == <<request, file, memory, broker, stage, drafts, poll, faults>>

TypeOK ==
  /\ enqueue \in [Job -> {"waiting", "saved", "queued", "failed"}]
  /\ answer \in {"open", "told", "failed"}
  /\ file \in SUBSET Job
  /\ memory \in [Job -> {"none"} \cup Pending \cup Over]
  /\ ready \in SUBSET Job
  /\ unacked \in SUBSET Job
  /\ delivered \in [Job -> 0..(MaxFaults + 1)]
  /\ stage \in [Job -> [Delivery -> {"none", "held", "reading", "inserted", "over"}]]
  /\ drafts \in [Job -> Nat]
  /\ poll \in [Job -> {"off", "on", "stopped"} \cup Over]
  /\ faults \in 0..MaxFaults

Init ==
  /\ enqueue = [j \in Job |-> "waiting"]
  /\ answer = "open"
  /\ file = {}
  /\ memory = [j \in Job |-> "none"]
  /\ ready = {}
  /\ unacked = {}
  /\ delivered = [j \in Job |-> 0]
  /\ stage = [j \in Job |-> [n \in Delivery |-> "none"]]
  /\ drafts = [j \in Job |-> 0]
  /\ poll = [j \in Job |-> "off"]
  /\ faults = 0

-----------------------------------------------------------------------------
(***************************************************************************)
(* The upload request: bulk_enqueue takes the files one after the other.   *)
(***************************************************************************)

Save(j) ==
  /\ answer = "open"
  /\ enqueue[j] = "waiting"
  /\ \A k \in Job : enqueue[k] # "saved"
  /\ enqueue' = [enqueue EXCEPT ![j] = "saved"]
  /\ file' = file \cup {j}
  /\ memory' = [memory EXCEPT ![j] = "queued"]
  /\ UNCHANGED <<answer, broker, stage, drafts, poll, faults>>

\* publish waits for the broker's confirm.  When it raises, the message may have
\* been accepted all the same; the request ends with an error, what was queued
\* before it stays queued, and the file and its status stay where they are.
Publish(j) ==
  /\ answer = "open"
  /\ enqueue[j] = "saved"
  /\ \E accepted, confirmed \in BOOLEAN :
       /\ confirmed => accepted
       /\ ready' = IF accepted THEN ready \cup {j} ELSE ready
       /\ enqueue' = [enqueue EXCEPT ![j] = IF accepted THEN "queued" ELSE "failed"]
       /\ answer' = IF confirmed THEN "open" ELSE "failed"
  /\ UNCHANGED <<file, memory, unacked, delivered, stage, drafts, poll, faults>>

\* The job ids reach the page, which starts to poll for them, or they do not.
Answer ==
  /\ answer = "open"
  /\ \A j \in Job : enqueue[j] = "queued"
  /\ \/ answer' = "told" /\ poll' = [j \in Job |-> "on"]
     \/ answer' = "failed" /\ UNCHANGED poll
  /\ UNCHANGED <<enqueue, file, memory, broker, stage, drafts, faults>>

-----------------------------------------------------------------------------
(***************************************************************************)
(* The consumer.  A handler yields only where it awaits Hasura or the      *)
(* broker: reading the file and the OCR run in one piece.                  *)
(***************************************************************************)

Deliver(j) ==
  /\ HandedOut(j)
  /\ delivered' = [delivered EXCEPT ![j] = @ + 1]
  /\ stage' = [stage EXCEPT ![j][delivered[j] + 1] = "held"]
  /\ UNCHANGED <<request, file, memory, drafts, poll, faults>>

\* The job's status becomes processing (setdefault brings it back after a restart),
\* the file is read and its text extracted.
Begin(j, n) ==
  /\ stage[j][n] = "held"
  /\ j \in file
  /\ memory' = [memory EXCEPT ![j] = "processing"]
  /\ stage' = [stage EXCEPT ![j][n] = "reading"]
  /\ UNCHANGED <<request, file, broker, drafts, poll, faults>>

\* There is no file, or it cannot be read as a document: failed, in one piece.
BeginFails(j, n) ==
  /\ stage[j][n] = "held"
  /\ memory' = [memory EXCEPT ![j] = "failed"]
  /\ file' = file \ {j}
  /\ stage' = [stage EXCEPT ![j][n] = "over"]
  /\ UNCHANGED <<request, broker, drafts, poll, faults>>

\* Hasura commits the draft; the handler does not know yet.
Insert(j, n) ==
  /\ stage[j][n] = "reading"
  /\ stage' = [stage EXCEPT ![j][n] = "inserted"]
  /\ drafts' = [drafts EXCEPT ![j] = @ + 1]
  /\ UNCHANGED <<request, file, memory, broker, poll, faults>>

\* Mutant of Conclude: the file is only removed when the job is done.
ConcludeKeepsFailed(j, n) ==
  /\ stage[j][n] \in {"reading", "inserted"}
  /\ \E s \in Over : /\ memory' = [memory EXCEPT ![j] = s]
                     /\ file' = IF s = "done" THEN file \ {j} ELSE file
  /\ stage' = [stage EXCEPT ![j][n] = "over"]
  /\ UNCHANGED <<request, broker, drafts, poll, faults>>

\* Mutant of Conclude: a failure is logged and nothing more.
ConcludeQuietly(j, n) ==
  /\ stage[j][n] \in {"reading", "inserted"}
  /\ \E s \in {"done", memory[j]} : memory' = [memory EXCEPT ![j] = s]
  /\ file' = file \ {j}
  /\ stage' = [stage EXCEPT ![j][n] = "over"]
  /\ UNCHANGED <<request, broker, drafts, poll, faults>>

\* done when Hasura answers, and also when it answers with an error: _try_queue
\* turns a HasuraError into a job without a draft.  Any other exception makes the
\* job failed, a lost answer to a committed insert included.  The file goes.
Conclude(j, n) ==
  /\ stage[j][n] \in {"reading", "inserted"}
  /\ \E s \in Over : memory' = [memory EXCEPT ![j] = s]
  /\ file' = file \ {j}
  /\ stage' = [stage EXCEPT ![j][n] = "over"]
  /\ UNCHANGED <<request, broker, drafts, poll, faults>>

\* message.process() acknowledges on exit; no exception gets there.
Ack(j) ==
  /\ j \in unacked
  /\ stage[j][delivered[j]] = "over"
  /\ unacked' = unacked \ {j}
  /\ UNCHANGED <<request, file, memory, ready, delivered, stage, drafts, poll, faults>>

-----------------------------------------------------------------------------
(***************************************************************************)
(* Faults.                                                                 *)
(***************************************************************************)

\* The channel is lost: its deliveries are made again, its handlers run on.
ConnectionLost ==
  /\ Fault
  /\ PutBack
  /\ UNCHANGED <<request, file, memory, delivered, stage, drafts, poll>>

\* The process stops and starts.  A handler that is cancelled while it waits for
\* Hasura still runs its finally clause, and may get to reject its message,
\* without requeue; one that is killed does not.  A new container has no files.
ServiceRestarts ==
  /\ Fault
  /\ memory' = [j \in Job |-> "none"]
  /\ stage' = [j \in Job |-> [n \in Delivery |-> "none"]]
  /\ LET running == {j \in Job : \E n \in Delivery : stage[j][n] \in {"reading", "inserted"}}
     IN \E cancelled \in SUBSET running, rejected \in SUBSET unacked :
          /\ rejected \subseteq
               {j \in cancelled : stage[j][delivered[j]] \in {"reading", "inserted"}}
          /\ \E kept \in {file \ cancelled, {}} : file' = kept
          /\ ready' = ready \cup (unacked \ rejected)
          /\ unacked' = {}
  /\ answer' = IF answer = "open" THEN "failed" ELSE answer
  /\ enqueue' = [j \in Job |-> IF enqueue[j] = "saved" THEN "failed" ELSE enqueue[j]]
  /\ UNCHANGED <<delivered, drafts, poll>>

-----------------------------------------------------------------------------
(***************************************************************************)
(* The page.                                                               *)
(***************************************************************************)

\* One tick asks for every job that is still pending; a job the service does not
\* know counts as pending.
PollTick ==
  /\ \E j \in Job : poll[j] = "on"
  /\ poll' = [j \in Job |-> IF poll[j] = "on" /\ memory[j] \in Over
                              THEN memory[j] ELSE poll[j]]
  /\ UNCHANGED <<request, file, memory, broker, stage, drafts, faults>>

\* fetch rejects: the tick returns, and it is the tick that sets the next timer.
PollFails ==
  /\ \E j \in Job : poll[j] = "on"
  /\ poll' = [j \in Job |-> IF poll[j] = "on" THEN "stopped" ELSE poll[j]]
  /\ UNCHANGED <<request, file, memory, broker, stage, drafts, faults>>

-----------------------------------------------------------------------------
Next ==
  \/ Answer
  \/ ConnectionLost
  \/ ServiceRestarts
  \/ PollTick
  \/ PollFails
  \/ \E j \in Job : \/ Save(j)
                    \/ Publish(j)
                    \/ Deliver(j)
                    \/ Ack(j)
                    \/ \E n \in Delivery : \/ Begin(j, n)
                                           \/ BeginFails(j, n)
                                           \/ Insert(j, n)
                                           \/ Conclude(j, n)

Spec == Init /\ [][Next]_vars

\* The broker delivers, the handlers run (a request to Hasura has a timeout),
\* and the page's timer fires.  Nothing has to be saved or inserted.
Fairness ==
  /\ WF_vars(PollTick)
  /\ \A j \in Job : /\ WF_vars(Deliver(j))
                    /\ WF_vars(Ack(j))
                    /\ \A n \in Delivery : /\ WF_vars(Begin(j, n) \/ BeginFails(j, n))
                                           /\ WF_vars(Conclude(j, n))

FairSpec == Spec /\ Fairness

-----------------------------------------------------------------------------
(***************************************************************************)
(* Liveness.                                                               *)
(***************************************************************************)

\* A queued job's message is used up and its file removed in the end, through
\* redeliveries, cancelled handlers and failures of Hasura.
JobsAreCleared == \A j \in Job : j \in ready ~> j \notin ready \cup unacked \cup file

\* A page that polls does not do so for ever, whatever the job's handlers met,
\* unless the service has restarted and forgotten the job.
PollEnds == \A j \in Job : poll[j] = "on" ~> poll[j] # "on" \/ memory[j] = "none"

=============================================================================
