----------------------------- MODULE Retraining -----------------------------
(***************************************************************************)
(* Training the ml-service's models again: by hand (/retrain) or because   *)
(* they have drifted (/drift/check, daily or by hand).  A company's models *)
(* are files; the process keeps what it has loaded in an lru_cache; the    *)
(* retrain events are rows of the service's own database.  The trainer     *)
(* runs in a thread of its own, and so does the model status page.         *)
(***************************************************************************)
EXTENDS Integers, Sequences, FiniteSets, Functions

CONSTANTS Company,      \* the tenants
          Worker,       \* requests that the process serves at once
          None,
          MaxEvents,    \* bound: retrains
          MaxChecks,    \* bound: drift checks
          MaxFaults     \* bound: failures and restarts

\* check_all_drift looks at the duplicate model first.
Models == <<"duplicate", "delay">>
Slot == Company \X Range(Models)

VARIABLES
  file,     \* [Slot -> ...], the pickle: Absent, Cut, or which retrain has written it
  cache,    \* [Slot -> ...], lru_cache of _load_model; Absent is the bootstrap model
  history,  \* ml_retrain_events, in the order of started_at
  task,     \* [Worker -> ...], the request it runs, or None
  panel,    \* a load by the status page's thread, between reading and caching
  checks,   \* drift checks asked for
  faults,   \* failures and restarts
  raced,    \* two retrains of one model overlapped
  crossed,  \* the cache was cleared while the status page was loading
  lost      \* the events whose retrain ended where nothing closes them

server == <<cache, task, panel>>
bounds == <<checks, faults, raced, crossed, lost>>
vars == <<file, history, server, bounds>>

Absent == 0
Cut == -1
Step == {"check", "open", "train", "dump", "clear", "close"}
Event == [slot : Slot, version : 1..MaxEvents,
          status : {"running", "succeeded", "skipped_insufficient_data", "failed"}]
Task == [todo : Seq(Slot), step : Step, event : 0..MaxEvents]
Loading == Slot \X (Absent..MaxEvents)

ASSUME Bounds == /\ MaxEvents \in Nat /\ MaxChecks \in Nat /\ MaxFaults \in Nat
                 /\ IsFiniteSet(Company)
ASSUME NoneIsNoTask == None \notin Task \cup Loading \cup (Absent..MaxEvents)

TypeOK ==
  /\ file \in [Slot -> Cut..MaxEvents]
  /\ cache \in [Slot -> (Absent..MaxEvents) \cup {None}]
  /\ history \in Seq(Event) /\ Len(history) <= MaxEvents
  /\ task \in [Worker -> Task \cup {None}]
  /\ \A w \in Worker : task[w] # None => task[w].todo # << >>
  /\ panel \in Loading \cup {None}
  /\ checks \in 0..MaxChecks /\ faults \in 0..MaxFaults
  /\ raced \in BOOLEAN /\ crossed \in BOOLEAN
  /\ lost \subseteq 1..MaxEvents

Nothing == [s \in Slot |-> None]
Idle == [w \in Worker |-> None]

Init ==
  /\ file = [s \in Slot |-> Absent]
  /\ cache = Nothing /\ task = Idle /\ panel = None
  /\ history = << >>
  /\ checks = 0 /\ faults = 0 /\ raced = FALSE /\ crossed = FALSE /\ lost = {}

-----------------------------------------------------------------------------
\* _load_model(s) returns v, from the cache or from the file, and keeps it.
Loaded(s, v) == v = (IF cache[s] # None THEN cache[s] ELSE file[s]) /\ v # Cut
Load(s) == \E v \in Absent..MaxEvents : Loaded(s, v) /\ cache' = [cache EXCEPT ![s] = v]
Unloadable(s) == cache[s] = None /\ file[s] = Cut

\* A request that needs the model (/score, /check-duplicate).
Predict(s) ==
  /\ cache[s] = None /\ Load(s)
  /\ UNCHANGED <<file, history, task, panel, bounds>>

\* maxsize=64: other companies' models push this one out.
Evict(s) ==
  /\ cache[s] # None
  /\ cache' = [cache EXCEPT ![s] = None]
  /\ UNCHANGED <<file, history, task, panel, bounds>>

\* /models is not async: its thread reads the file, and caches what it has read.
PanelReads(s) ==
  /\ panel = None /\ cache[s] = None /\ file[s] # Cut
  /\ panel' = <<s, file[s]>>
  /\ UNCHANGED <<file, history, cache, task, bounds>>

PanelCaches ==
  /\ panel # None
  /\ cache' = [cache EXCEPT ![panel[1]] = IF @ = None THEN panel[2] ELSE @]
  /\ panel' = None
  /\ UNCHANGED <<file, history, task, bounds>>

-----------------------------------------------------------------------------
At(w, step) == task[w] # None /\ task[w].step = step
Here(w) == Head(task[w].todo)
GoTo(w, step) == task' = [task EXCEPT ![w].step = step]
Abort(w) == task' = [task EXCEPT ![w] = None]

\* Past this model: the next one to check, or the answer.
Onward(w) ==
  IF Len(task[w].todo) = 1 THEN Abort(w)
  ELSE task' = [task EXCEPT ![w].todo = Tail(@), ![w].step = "check"]

Begin(w, todo, step) ==
  /\ task[w] = None /\ todo # << >>
  /\ task' = [task EXCEPT ![w] = [todo |-> todo, step |-> step, event |-> 0]]

RequestRetrain(w, s) ==
  /\ Len(history) < MaxEvents
  /\ Begin(w, <<s>>, "open")
  /\ UNCHANGED <<file, history, cache, panel, bounds>>

\* companies_with_trained_models: there is a directory.
Trained == {c \in Company : \E m \in Range(Models) : file[<<c, m>>] # Absent}

\* iterdir lists them in any order.
Listings(S) == Bijection(1..Cardinality(S), S)

\* Of the companies given, both models of each.
Slots(ask) ==
  [n \in 1..(2 * Len(ask)) |-> <<ask[(n + 1) \div 2], Models[1 + ((n + 1) % 2)]>>]

RequestCheck(w) ==
  /\ checks < MaxChecks /\ checks' = checks + 1
  /\ \E ask \in Listings(Trained) \cup {<<c>> : c \in Company} : Begin(w, Slots(ask), "check")
  /\ UNCHANGED <<file, history, cache, panel, faults, raced, crossed, lost>>

\* check_drift and the report's row.  What has drifted is trained again.
Check(w) ==
  /\ At(w, "check")
  /\ Load(Here(w))
  /\ \/ Onward(w)
     \/ GoTo(w, "open")
  /\ UNCHANGED <<file, history, panel, bounds>>

Writers(s) == {w \in Worker : task[w] # None /\ task[w].step \in {"train", "dump"} /\ Here(w) = s}

\* The row of the event, which insert_retrain_event writes.
Opening(w) ==
  /\ At(w, "open") /\ Len(history) < MaxEvents
  /\ Load(Here(w))
  /\ history' = Append(history, [slot |-> Here(w), version |-> Len(history) + 1,
                                 status |-> "running"])

\* retrain_model: model_info, the event, and the imports of the trainers.
OpenEvent(w) ==
  /\ Opening(w)
  /\ task' = [task EXCEPT ![w].step = "train", ![w].event = Len(history) + 1]
  /\ raced' = (raced \/ Writers(Here(w)) # {})
  /\ UNCHANGED <<file, panel, checks, faults, crossed, lost>>

\* update_retrain_event.
CloseAs(w, status) == history' = [history EXCEPT ![task[w].event].status = status]

\* SystemExit: too few rows.
Skip(w) ==
  /\ At(w, "train")
  /\ Onward(w) /\ CloseAs(w, "skipped_insufficient_data")
  /\ UNCHANGED <<file, cache, panel, bounds>>

\* The trainer's `open(out_path, "wb")`.
Truncate(w) ==
  /\ At(w, "train")
  /\ file' = [file EXCEPT ![Here(w)] = Cut]
  /\ GoTo(w, "dump")
  /\ UNCHANGED <<history, cache, panel, bounds>>

\* Mutant of Written: both models go to one file name.
WrittenToBoth(s, v) == [t \in Slot |-> IF t[1] = s[1] THEN v ELSE file[t]]
Written(s, v) == [file EXCEPT ![s] = v]

\* pickle.dump; two at once may leave a mix that does not load.
Dump(w) ==
  /\ At(w, "dump")
  /\ \/ file' = Written(Here(w), task[w].event)
     \/ raced /\ file' = Written(Here(w), Cut)
  /\ GoTo(w, "clear")
  /\ UNCHANGED <<history, cache, panel, bounds>>

\* Mutant of Cleared: cache_clear is left out.
ClearedNothing(model) == cache
Cleared(model) == [s \in Slot |-> IF s[2] = model THEN None ELSE cache[s]]

\* cache_clear: that model of every company.
Clear(w) ==
  /\ At(w, "clear")
  /\ cache' = Cleared(Here(w)[2])
  /\ crossed' = (crossed \/ (panel # None /\ panel[1][2] = Here(w)[2]))
  /\ GoTo(w, "close")
  /\ UNCHANGED <<file, history, panel, checks, faults, raced, lost>>

Close(w) ==
  /\ At(w, "close")
  /\ CloseAs(w, "succeeded")
  /\ Onward(w)
  /\ UNCHANGED <<file, cache, panel, bounds>>

-----------------------------------------------------------------------------
Fault == faults < MaxFaults /\ faults' = faults + 1 /\ UNCHANGED <<checks, raced, crossed>>

\* Mutant of Raised: there is no `except Exception`.
RaisedUncaught(w) == Abort(w) /\ history' = history
Raised(w) == Abort(w) /\ CloseAs(w, "failed")

\* The trainer raises: the event is closed, and the rest of the check is dropped.
TrainerFails(w) ==
  /\ At(w, "train") \/ At(w, "dump")
  /\ Raised(w)
  /\ Fault
  /\ UNCHANGED <<file, cache, panel, lost>>

\* The event that a request has opened and not closed.
Unclosed(w) ==
  IF task[w] # None /\ task[w].step \in {"train", "dump", "clear", "close"}
  THEN {task[w].event} ELSE {}

\* The row is written, but its answer is lost, or the trainers do not import: that
\* is not yet inside the try.
OpenFails(w) ==
  /\ Opening(w)
  /\ lost' = lost \cup {Len(history) + 1}
  /\ Abort(w)
  /\ Fault
  /\ UNCHANGED <<file, panel>>

\* Hasura or the service's database fails between the steps that use them; when the
\* trainer is done, whatever came of it, that is the update that closes the event.
CallFails(w) ==
  /\ task[w] # None /\ ~At(w, "clear")
  /\ lost' = lost \cup Unclosed(w)
  /\ Abort(w)
  /\ Fault
  /\ UNCHANGED <<file, history, cache, panel>>

\* EOFError: a file that does not load is no ModelUnavailable.
LoadFails(w) ==
  /\ At(w, "check") \/ At(w, "open")
  /\ Unloadable(Here(w))
  /\ Abort(w)
  /\ UNCHANGED <<file, history, cache, panel, bounds>>

Restart ==
  /\ cache' = Nothing /\ task' = Idle /\ panel' = None
  /\ lost' = lost \cup UNION {Unclosed(w) : w \in Worker}
  /\ Fault
  /\ UNCHANGED <<file, history>>

Work(w) ==
  \/ Check(w) \/ OpenEvent(w) \/ Skip(w) \/ Truncate(w) \/ Dump(w) \/ Clear(w) \/ Close(w)
  \/ LoadFails(w)

Next ==
  \/ \E s \in Slot : Predict(s) \/ Evict(s) \/ PanelReads(s)
  \/ PanelCaches
  \/ \E w \in Worker :
       \/ \E s \in Slot : RequestRetrain(w, s)
       \/ RequestCheck(w)
       \/ Work(w)
       \/ TrainerFails(w)
       \/ OpenFails(w)
       \/ CallFails(w)
  \/ Restart

Spec == Init /\ [][Next]_vars

\* A request that runs takes its next step; the trainer ends.
FairSpec == Spec /\ \A w \in Worker : WF_vars(Work(w))

-----------------------------------------------------------------------------
\* A retrain of that model has written its file and not yet cleared the cache.
Clearing(model) == \E w \in Worker : At(w, "clear") /\ Here(w)[2] = model

\* What is served is what the last retrain has written, whoever trained what at the
\* same time, failed or was restarted; unless the cache was cleared while the status
\* page was loading, or the file does not load (retrain.py's cache_clear).
ServedIsOnDisk ==
  \A s \in Slot : cache[s] # None /\ ~Clearing(s[2]) /\ ~crossed => file[s] \in {cache[s], Cut}

\* When nothing failed and no two retrains of a model overlapped, the file of a model
\* that nobody is writing is the one that its history says was the last to succeed.
HistoryIsOnDisk ==
  \A s \in Slot :
    faults = 0 /\ ~raced
        /\ (\A w \in Worker : task[w] # None /\ Here(w) = s =>
              task[w].step \notin {"dump", "clear", "close"}) =>
      LET done == {n \in 1..Len(history) :
                     history[n].slot = s /\ history[n].status = "succeeded"}
      IN  IF done = {} THEN file[s] = Absent
          ELSE file[s] \in done /\ \A n \in done : n <= file[s]

\* An event that is shown as running ends, whether its trainer succeeds, finds too few
\* rows or raises (retrain_model's except clauses), unless the process stopped or lost
\* its database before the update, or failed before it came to the try: for that very
\* event, whatever befell others.
RetrainsAreClosed ==
  \A n \in 1..MaxEvents :
    (n <= Len(history) /\ history[n].status = "running")
      ~> (n <= Len(history) /\ history[n].status # "running") \/ n \in lost
=============================================================================
