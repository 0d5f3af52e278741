-------------------------- MODULE RetrainingProofs --------------------------
(***************************************************************************)
(* What holds of the served models for any companies, requests, retrains,  *)
(* failures and restarts.                                                  *)
(***************************************************************************)
EXTENDS Retraining, SequenceTheorems, FiniteSetTheorems, TLAPS

\* The bounds and the two marks take no part and are left aside.
Types ==
  /\ file \in [Slot -> Cut..MaxEvents]
  /\ cache \in [Slot -> (Absent..MaxEvents) \cup {None}]
  /\ task \in [Worker -> Task \cup {None}]
  /\ \A w \in Worker : task[w] # None => task[w].todo # << >>
  /\ panel \in Loading \cup {None}
  /\ history \in Seq(Event)

\* Who trains has a row in the history to close.
Opened ==
  \A w \in Worker :
    task[w] # None /\ task[w].step \in {"train", "dump", "clear", "close"} =>
      task[w].event \in 1..Len(history)

\* A value that is on its way into the cache is as good as one that is in it.
LoadedIsOnDisk ==
  panel # None /\ ~Clearing(panel[1][2]) /\ ~crossed => file[panel[1]] \in {panel[2], Cut}

IInv == Types /\ Opened /\ ServedIsOnDisk /\ LoadedIsOnDisk

\* What is left of a list of models, and the one at hand.
LEMMA HereIsASlot ==
  ASSUME Types, NEW w \in Worker, task[w] # None
  PROVE  /\ Here(w) \in Slot
         /\ task[w] \in Task
         /\ Tail(task[w].todo) \in Seq(Slot)
         /\ Len(task[w].todo) # 1 => Tail(task[w].todo) # << >>
<1> DEFINE q == task[w].todo
<1>1. task[w] \in Task
  BY DEF Types
<1>2. q \in Seq(Slot) /\ q # << >>
  BY <1>1 DEF Types, Task
<1> HIDE DEF q
<1>3. Head(q) \in Slot /\ Tail(q) \in Seq(Slot) /\ Len(Tail(q)) = Len(q) - 1 /\ Len(q) \in Nat
  BY <1>2, HeadTailProperties
<1>4. Len(q) # 1 => Tail(q) # << >>
  <2>1. Len(<< >>) = 0
    OBVIOUS
  <2>2. Tail(q) = << >> => Len(Tail(q)) = 0
    BY <2>1, Zenon
  <2> QED
    BY <1>3, <2>2
<1> QED
  BY <1>1, <1>3, <1>4 DEF q, Here

\* The tasks after worker w, and no other, has moved on, to the beginning of a model.
Moved(w) ==
  /\ task' \in [Worker -> Task \cup {None}]
  /\ \A v \in Worker : task'[v] # None => task'[v].todo # << >>
  /\ \A v \in Worker \ {w} : task'[v] = task[v]
  /\ task'[w] # None => task'[w].step \in {"check", "open"}

\* What a worker that takes another step on the same model leaves as it was.
LEMMA GoToKeeps ==
  ASSUME Types, NEW w \in Worker, NEW step \in Step, task[w] # None, GoTo(w, step)
  PROVE  /\ task' \in [Worker -> Task \cup {None}]
         /\ \A v \in Worker : task'[v] # None => task'[v].todo # << >>
         /\ \A v \in Worker \ {w} : task'[v] = task[v]
         /\ task'[w] # None /\ task'[w].step = step /\ task'[w].todo = task[w].todo
         /\ task'[w].event = task[w].event
<1>1. task[w] \in Task /\ task' = [task EXCEPT ![w] = [task[w] EXCEPT !.step = step]]
  BY DEF Types, GoTo
<1>2. [task[w] EXCEPT !.step = step] \in Task
  BY <1>1 DEF Task
<1>3. [task[w] EXCEPT !.step = step].todo = task[w].todo
      /\ [task[w] EXCEPT !.step = step].step = step
      /\ [task[w] EXCEPT !.step = step].event = task[w].event
  BY <1>1 DEF Task
<1>4. [task[w] EXCEPT !.step = step] # None
  BY <1>2, NoneIsNoTask
<1> QED
  BY <1>1, <1>2, <1>3, <1>4 DEF Types

\* Dropping the request is a move.
LEMMA AbortMoves ==
  ASSUME Types, NEW w \in Worker, Abort(w)
  PROVE  Moved(w)
BY DEF Types, Abort, Moved

\* Going on to the next model, or to the answer, is a move.
LEMMA OnwardMoves ==
  ASSUME Types, NEW w \in Worker, task[w] # None, Onward(w)
  PROVE  Moved(w)
<1>1. CASE Len(task[w].todo) = 1
  BY <1>1, AbortMoves DEF Onward
<1>2. CASE Len(task[w].todo) # 1
  <2> DEFINE t == [task[w] EXCEPT !.todo = Tail(task[w].todo), !.step = "check"]
  <2>1. task' = [task EXCEPT ![w] = t]
    BY <1>2 DEF Onward, Types
  <2>2. task[w] \in Task /\ Tail(task[w].todo) \in Seq(Slot) /\ Tail(task[w].todo) # << >>
    BY <1>2, HereIsASlot
  <2>3. t \in Task /\ t.todo # << >> /\ t.step = "check"
    BY <2>2 DEF Task, Step
  <2> HIDE DEF t
  <2> QED
    BY <2>1, <2>3 DEF Types, Moved
<1> QED
  BY <1>1, <1>2

\* Such a move changes nobody's clearing, if w was not clearing itself.
LEMMA MovedClearing ==
  ASSUME NEW w \in Worker, Moved(w), task[w] # None => task[w].step # "clear", NEW m
  PROVE  Clearing(m)' <=> Clearing(m)
<1>1. ASSUME NEW v \in Worker
      PROVE  (At(v, "clear") /\ Here(v)[2] = m)' <=> At(v, "clear") /\ Here(v)[2] = m
  BY DEF Moved, At, Here
<1> QED
  BY <1>1 DEF Clearing

\* Taking a request is a move.
LEMMA BeginMoves ==
  ASSUME Types, NEW w \in Worker, NEW todo \in Seq(Slot), NEW step \in {"check", "open"},
         Begin(w, todo, step)
  PROVE  Moved(w) /\ task[w] = None
<1> DEFINE t == [todo |-> todo, step |-> step, event |-> 0]
<1>1. t \in Task
  BY Bounds DEF Task, Step
<1>2. task' = [task EXCEPT ![w] = t] /\ t.todo # << >> /\ t.step = step /\ task[w] = None
  BY DEF Begin
<1> HIDE DEF t
<1> QED
  BY <1>1, <1>2 DEF Types, Moved

\* What a drift check goes through is a list of models.
LEMMA SlotsAreListed ==
  ASSUME NEW ask \in Listings(Trained) \cup {<<c>> : c \in Company}
  PROVE  Slots(ask) \in Seq(Slot)
<1>1. PICK k \in Nat : ask \in [1..k -> Company] /\ Len(ask) = k
  <2>1. CASE ask \in Listings(Trained)
    <3>1. Trained \subseteq Company
      BY DEF Trained
    <3>2. Cardinality(Trained) \in Nat
      BY <3>1, Bounds, FS_Subset, FS_CardinalityType
    <3>3. ask \in [1..Cardinality(Trained) -> Trained]
      BY <2>1 DEF Listings, Bijection, Injection, Surjection
    <3>4. ask \in [1..Cardinality(Trained) -> Company]
      BY <3>1, <3>3
    <3>5. Len(ask) = Cardinality(Trained)
      BY <3>2, <3>4
    <3> QED
      BY <3>2, <3>4, <3>5
  <2>2. CASE ask \in {<<c>> : c \in Company}
    <3>1. PICK c \in Company : ask = <<c>>
      BY <2>2
    <3> QED
      BY <3>1
  <2> QED
    BY <2>1, <2>2
<1>2. ASSUME NEW n \in 1..(2 * k) PROVE <<ask[(n + 1) \div 2], Models[1 + ((n + 1) % 2)]>> \in Slot
  <2>1. (n + 1) \div 2 \in 1..k
    BY <1>1
  <2>2. 1 + ((n + 1) % 2) \in {1, 2}
    BY <1>1
  <2>3. Models[1 + ((n + 1) % 2)] \in Range(Models)
    BY <2>2 DEF Models, Range
  <2> QED
    BY <1>1, <2>1, <2>3 DEF Slot
<1>3. Slots(ask) \in [1..(2 * k) -> Slot]
  BY <1>1, <1>2 DEF Slots
<1> QED
  BY <1>1, <1>3

\* Loading keeps the promise: what comes into the cache is in the file.
LEMMA LoadKeeps ==
  ASSUME IInv, NEW s \in Slot, Load(s)
  PROVE  /\ cache' \in [Slot -> (Absent..MaxEvents) \cup {None}]
         /\ \A t \in Slot : \/ cache'[t] = cache[t]
                            \/ cache'[t] = file[t]
<1>1. PICK v \in Absent..MaxEvents : Loaded(s, v) /\ cache' = [cache EXCEPT ![s] = v]
  BY DEF Load
<1> QED
  BY <1>1 DEF Loaded, IInv, Types

\* IInv is inductive.  A retrain that has written a file is clearing the cache until
\* it has done so, and until then nothing is promised of that model; truncating, failing
\* and restarting leave files that the promise names, or an empty cache.
THEOREM Safety == Spec => []IInv
<1> USE Bounds, NoneIsNoTask
<1>1. Init => IInv
  <2> SUFFICES ASSUME Init PROVE IInv
    OBVIOUS
  <2>1. Types
    BY DEF Init, Types, Nothing, Idle, Absent, Cut
  <2>2. ServedIsOnDisk
    BY DEF Init, ServedIsOnDisk, Nothing
  <2>3. LoadedIsOnDisk
    BY DEF Init, LoadedIsOnDisk
  <2>4. Opened
    BY DEF Init, Opened, Idle
  <2> QED
    BY <2>1, <2>2, <2>3, <2>4 DEF IInv
<1>2. IInv /\ [Next]_vars => IInv'
  <2> SUFFICES ASSUME IInv, [Next]_vars PROVE IInv'
    OBVIOUS
  <2>0. Types /\ Opened /\ ServedIsOnDisk /\ LoadedIsOnDisk
    BY DEF IInv
  \* A worker moves, and only the cache may change, by loading.
  <2>c. ASSUME NEW w \in Worker, task[w] # None,
               task[w].step \in {"train", "dump", "clear", "close"},
               NEW status \in {"running", "succeeded", "skipped_insufficient_data", "failed"},
               CloseAs(w, status)
        PROVE  history' \in Seq(Event) /\ Len(history) <= Len(history')
    <3>1. history \in Seq(Event) /\ task[w].event \in 1..Len(history)
      BY <2>0, <2>c DEF Types, Opened
    <3> DEFINE e == [history[task[w].event] EXCEPT !.status = status]
    <3>2. history[task[w].event] \in Event
      BY <3>1
    <3>3. e \in Event
      BY <3>2, <2>c DEF Event
    <3>4. history' = [history EXCEPT ![task[w].event] = e]
      BY <2>c DEF CloseAs
    <3> HIDE DEF e
    <3>5. history' \in Seq(Event) /\ Len(history') = Len(history) /\ Len(history) \in Nat
      BY <3>1, <3>3, <3>4, ExceptSeq
    <3> QED
      BY <3>5
  <2>1. ASSUME NEW w \in Worker, Moved(w), task[w] # None => task[w].step # "clear",
               UNCHANGED <<file, panel, crossed>>,
               history' \in Seq(Event), Len(history) <= Len(history'),
               cache' \in [Slot -> (Absent..MaxEvents) \cup {None}],
               \A t \in Slot : cache'[t] = cache[t] \/ cache'[t] = file[t]
        PROVE  IInv'
    <3>1. Types'
      BY <2>0, <2>1 DEF Types, Moved
    <3>2. \A m : Clearing(m)' <=> Clearing(m)
      BY <2>1, MovedClearing
    <3>3. ServedIsOnDisk'
      BY <2>0, <2>1, <3>2 DEF ServedIsOnDisk
    <3>4. LoadedIsOnDisk'
      BY <2>0, <2>1, <3>2 DEF LoadedIsOnDisk
    <3>5. Opened'
      <4> SUFFICES ASSUME NEW v \in Worker, task'[v] # None,
                          task'[v].step \in {"train", "dump", "clear", "close"}
                   PROVE  task'[v].event \in 1..Len(history')
        BY DEF Opened
      <4>1. v # w /\ task'[v] = task[v]
        BY <2>1 DEF Moved
      <4>2. Len(history) \in Nat /\ Len(history') \in Nat
        BY <2>0, <2>1 DEF Types
      <4>3. task[v].event \in 1..Len(history)
        BY <2>0, <4>1 DEF Opened
      <4> QED
        BY <2>1, <4>1, <4>2, <4>3
    <3> QED
      BY <3>1, <3>3, <3>4, <3>5 DEF IInv
  <2>2. ASSUME NEW w \in Worker, Moved(w), task[w] # None => task[w].step # "clear",
               UNCHANGED <<file, panel, crossed, cache>>,
               history' \in Seq(Event), Len(history) <= Len(history')
        PROVE  IInv'
    <3>1. cache' \in [Slot -> (Absent..MaxEvents) \cup {None}]
      BY <2>0, <2>2 DEF Types
    <3> QED
      BY <2>1, <2>2, <3>1
  <2>h. history \in Seq(Event) /\ Len(history) <= Len(history)
    BY <2>0 DEF Types
  \* Nobody moves.
  <2>3. ASSUME UNCHANGED <<file, task, crossed, history>>,
               cache' \in [Slot -> (Absent..MaxEvents) \cup {None}],
               panel' \in Loading \cup {None},
               ServedIsOnDisk', LoadedIsOnDisk'
        PROVE  IInv'
    BY <2>0, <2>3 DEF IInv, Types, Opened
  <2>4. (UNCHANGED task) => \A m : Clearing(m)' <=> Clearing(m)
    BY DEF Clearing, At, Here
  <2>5. ASSUME NEW s \in Slot, Predict(s) PROVE IInv'
    <3>1. /\ cache' \in [Slot -> (Absent..MaxEvents) \cup {None}]
          /\ \A t \in Slot : cache'[t] = cache[t] \/ cache'[t] = file[t]
          /\ UNCHANGED <<file, task, panel, crossed, history>>
      BY <2>5, LoadKeeps DEF Predict, bounds
    <3>2. ServedIsOnDisk' /\ LoadedIsOnDisk'
      BY <2>0, <2>4, <3>1 DEF ServedIsOnDisk, LoadedIsOnDisk
    <3> QED
      BY <2>0, <2>3, <3>1, <3>2 DEF Types
  <2>6. ASSUME NEW s \in Slot, Evict(s) PROVE IInv'
    <3>1. /\ cache' \in [Slot -> (Absent..MaxEvents) \cup {None}]
          /\ \A t \in Slot : cache'[t] = cache[t] \/ cache'[t] = None
          /\ UNCHANGED <<file, task, panel, crossed, history>>
      BY <2>0, <2>6 DEF Evict, bounds, Types
    <3>2. ServedIsOnDisk' /\ LoadedIsOnDisk'
      BY <2>0, <2>4, <3>1 DEF ServedIsOnDisk, LoadedIsOnDisk
    <3> QED
      BY <2>0, <2>3, <3>1, <3>2 DEF Types
  <2>7. ASSUME NEW s \in Slot, PanelReads(s) PROVE IInv'
    <3>1. file[s] \in Absent..MaxEvents
      BY <2>0, <2>7 DEF PanelReads, Types, Absent, Cut
    <3>2. /\ panel' = <<s, file[s]>> /\ panel' \in Loading
          /\ UNCHANGED <<file, task, cache, crossed, history>>
      BY <2>7, <3>1 DEF PanelReads, bounds, Loading
    <3>3. ServedIsOnDisk' /\ LoadedIsOnDisk'
      BY <2>0, <2>4, <3>2 DEF ServedIsOnDisk, LoadedIsOnDisk
    <3> QED
      BY <2>0, <2>3, <3>2, <3>3 DEF Types
  <2>8. CASE PanelCaches
    <3>1. panel \in Loading /\ panel[1] \in Slot /\ panel[2] \in Absent..MaxEvents
      BY <2>0, <2>8 DEF PanelCaches, Types, Loading
    <3>2. /\ cache' \in [Slot -> (Absent..MaxEvents) \cup {None}]
          /\ \A t \in Slot : \/ cache'[t] = cache[t]
                             \/ t = panel[1] /\ cache'[t] = panel[2]
          /\ panel' = None
          /\ UNCHANGED <<file, task, crossed, history>>
      BY <2>0, <2>8, <3>1 DEF PanelCaches, bounds, Types
    <3>3. ServedIsOnDisk' /\ LoadedIsOnDisk'
      BY <2>0, <2>4, <2>8, <3>1, <3>2 DEF ServedIsOnDisk, LoadedIsOnDisk, PanelCaches
    <3> QED
      BY <2>3, <3>2, <3>3
  <2>9. ASSUME NEW w \in Worker, NEW s \in Slot, RequestRetrain(w, s) PROVE IInv'
    <3>1. <<s>> \in Seq(Slot) /\ "open" \in {"check", "open"}
      OBVIOUS
    <3>2. Moved(w) /\ task[w] = None
      BY <2>0, <2>9, <3>1, BeginMoves DEF RequestRetrain
    <3> QED
      BY <2>h, <2>2, <2>9, <3>2 DEF RequestRetrain, bounds
  <2>10. ASSUME NEW w \in Worker, RequestCheck(w) PROVE IInv'
    <3>1. PICK ask \in Listings(Trained) \cup {<<c>> : c \in Company} :
             Begin(w, Slots(ask), "check")
      BY <2>10 DEF RequestCheck
    <3>2. Slots(ask) \in Seq(Slot) /\ "check" \in {"check", "open"}
      BY SlotsAreListed
    <3>3. Moved(w) /\ task[w] = None
      BY <2>0, <3>1, <3>2, BeginMoves
    <3> QED
      BY <2>h, <2>2, <2>10, <3>3 DEF RequestCheck
  <2>11. ASSUME NEW w \in Worker, Check(w) PROVE IInv'
    <3>1. task[w] # None /\ task[w].step # "clear" /\ Here(w) \in Slot
      BY <2>0, <2>11, HereIsASlot DEF Check, At
    <3>2. CASE Onward(w)
      <4>1. Moved(w)
        BY <2>0, <3>1, <3>2, OnwardMoves
      <4> QED
        BY <2>h, <2>1, <2>11, <3>1, <4>1, LoadKeeps DEF Check, bounds
    <3>3. CASE GoTo(w, "open")
      <4>1. Moved(w)
        BY <2>0, <3>1, <3>3, GoToKeeps DEF Step, Moved
      <4> QED
        BY <2>h, <2>1, <2>11, <3>1, <4>1, LoadKeeps DEF Check, bounds
    <3> QED
      BY <2>11, <3>2, <3>3 DEF Check
  <2>12. ASSUME NEW w \in Worker, OpenEvent(w) PROVE IInv'
    <3> DEFINE n == Len(history) + 1
               t == [task[w] EXCEPT !.step = "train", !.event = n]
               row == [slot |-> Here(w), version |-> n, status |-> "running"]
    <3>1. task[w] # None /\ task[w].step = "open" /\ Here(w) \in Slot /\ task[w] \in Task
      BY <2>0, <2>12, HereIsASlot DEF OpenEvent, Opening, At
    <3>2. n \in 1..MaxEvents
      BY <2>0, <2>12 DEF OpenEvent, Opening, Types
    <3>3. row \in Event
      BY <3>1, <3>2 DEF Event
    <3>4. history' \in Seq(Event) /\ Len(history') = n /\ Len(history) \in Nat
      <4> HIDE DEF row
      <4> QED
        BY <2>0, <2>12, <3>3, AppendProperties DEF OpenEvent, Opening, Types, row
    <3>5. task' = [task EXCEPT ![w] = t]
      BY <2>12 DEF OpenEvent
    <3>6. t \in Task /\ t.step = "train" /\ t.todo = task[w].todo /\ t.event = n
      <4> HIDE DEF n
      <4>1. n \in 0..MaxEvents /\ "train" \in Step
        BY <3>2 DEF Step
      <4>2. task[w] \in [todo : Seq(Slot), step : Step, event : 0..MaxEvents]
        BY <3>1 DEF Task
      <4>3. t \in [todo : Seq(Slot), step : Step, event : 0..MaxEvents]
        BY <4>1, <4>2
      <4>4. t.step = "train" /\ t.todo = task[w].todo /\ t.event = n
        BY <4>2
      <4> QED
        BY <4>3, <4>4 DEF Task
    <3> HIDE DEF t, row
    <3>7. /\ UNCHANGED <<file, panel, crossed>>
          /\ cache' \in [Slot -> (Absent..MaxEvents) \cup {None}]
          /\ \A s \in Slot : cache'[s] = cache[s] \/ cache'[s] = file[s]
      BY <2>12, <3>1, LoadKeeps DEF OpenEvent, Opening
    <3>8. Types'
      BY <2>0, <3>1, <3>4, <3>5, <3>6, <3>7 DEF Types
    <3>9. ASSUME NEW m PROVE Clearing(m)' <=> Clearing(m)
      <4>1. ASSUME NEW v \in Worker
            PROVE  (At(v, "clear") /\ Here(v)[2] = m)' <=> At(v, "clear") /\ Here(v)[2] = m
        BY <2>0, <3>1, <3>5, <3>6 DEF At, Here, Types
      <4> QED
        BY <4>1 DEF Clearing
    <3>10. ServedIsOnDisk' /\ LoadedIsOnDisk'
      BY <2>0, <3>7, <3>9 DEF ServedIsOnDisk, LoadedIsOnDisk
    <3>11. Opened'
      <4> SUFFICES ASSUME NEW v \in Worker, task'[v] # None,
                          task'[v].step \in {"train", "dump", "clear", "close"}
                   PROVE  task'[v].event \in 1..Len(history')
        BY DEF Opened
      <4>1. CASE v = w
        BY <2>0, <3>4, <3>5, <3>6, <4>1 DEF Types
      <4>2. CASE v # w
        <5>1. task'[v] = task[v]
          BY <2>0, <3>5, <4>2 DEF Types
        <5>2. task[v].event \in 1..Len(history)
          BY <2>0, <5>1 DEF Opened
        <5> QED
          BY <3>4, <5>1, <5>2
      <4> QED
        BY <4>1, <4>2
    <3> QED
      BY <3>8, <3>10, <3>11 DEF IInv
  <2>13. ASSUME NEW w \in Worker, Skip(w) PROVE IInv'
    <3>1. task[w] # None /\ task[w].step = "train" /\ Onward(w)
          /\ CloseAs(w, "skipped_insufficient_data")
      BY <2>13 DEF Skip, At
    <3>2. Moved(w) /\ history' \in Seq(Event) /\ Len(history) <= Len(history')
      BY <2>0, <2>c, <3>1, OnwardMoves
    <3> QED
      BY <2>2, <2>13, <3>1, <3>2 DEF Skip, bounds
  \* The three steps of the trainer and the clearing stay on one model and one event.
  <2>g. ASSUME NEW w \in Worker, task[w] # None, NEW step \in {"dump", "clear", "close"},
               task[w].step \in {"train", "dump", "clear"}, GoTo(w, step), history' = history
        PROVE  Opened'
    <3>1. task'[w] # None /\ task'[w].event = task[w].event
          /\ \A v \in Worker \ {w} : task'[v] = task[v]
      BY <2>0, <2>g, GoToKeeps DEF Step
    <3> QED
      BY <2>0, <2>g, <3>1 DEF Opened
  <2>14. ASSUME NEW w \in Worker, Truncate(w) PROVE IInv'
    <3>1. task[w] # None /\ task[w].step = "train" /\ GoTo(w, "dump") /\ Here(w) \in Slot
      BY <2>0, <2>14, HereIsASlot DEF Truncate, At
    <3>2. /\ task' \in [Worker -> Task \cup {None}]
          /\ \A v \in Worker : task'[v] # None => task'[v].todo # << >>
          /\ \A v \in Worker \ {w} : task'[v] = task[v]
          /\ task'[w].step = "dump"
      BY <2>0, <3>1, GoToKeeps DEF Step
    <3>3. /\ file' \in [Slot -> Cut..MaxEvents]
          /\ \A s \in Slot : file'[s] = file[s] \/ file'[s] = Cut
          /\ UNCHANGED <<history, cache, panel, crossed>>
      BY <2>0, <2>14, <3>1 DEF Truncate, bounds, Types, Cut
    <3>4. Types'
      BY <2>0, <3>2, <3>3 DEF Types
    <3>5. ASSUME NEW m PROVE Clearing(m)' <=> Clearing(m)
      <4>1. ASSUME NEW v \in Worker
            PROVE  (At(v, "clear") /\ Here(v)[2] = m)' <=> At(v, "clear") /\ Here(v)[2] = m
        BY <3>1, <3>2 DEF At, Here
      <4> QED
        BY <4>1 DEF Clearing
    <3>6. ServedIsOnDisk'
      BY <2>0, <3>3, <3>5 DEF ServedIsOnDisk
    <3>7. LoadedIsOnDisk'
      BY <2>0, <3>3, <3>5 DEF LoadedIsOnDisk, Types, Loading
    <3> QED
      BY <2>g, <3>1, <3>3, <3>4, <3>6, <3>7 DEF IInv
  <2>15. ASSUME NEW w \in Worker, Dump(w) PROVE IInv'
    <3>1. task[w] # None /\ task[w].step = "dump" /\ GoTo(w, "clear") /\ Here(w) \in Slot
      BY <2>0, <2>15, HereIsASlot DEF Dump, At
    <3>2. /\ task' \in [Worker -> Task \cup {None}]
          /\ \A v \in Worker : task'[v] # None => task'[v].todo # << >>
          /\ \A v \in Worker \ {w} : task'[v] = task[v]
          /\ task'[w] # None /\ task'[w].step = "clear" /\ task'[w].todo = task[w].todo
      BY <2>0, <3>1, GoToKeeps DEF Step
    <3>3. task[w].event \in Cut..MaxEvents /\ Cut \in Cut..MaxEvents
      BY <2>0, <3>1 DEF Types, Task, Cut
    <3>4. /\ file' \in [Slot -> Cut..MaxEvents]
          /\ \A s \in Slot : file'[s] = file[s] \/ s = Here(w)
          /\ UNCHANGED <<history, cache, panel, crossed>>
      BY <2>0, <2>15, <3>1, <3>3 DEF Dump, Written, bounds, Types
    <3>5. Types'
      BY <2>0, <3>2, <3>4 DEF Types
    <3>6. Clearing(Here(w)[2])'
      BY <3>2 DEF Clearing, At, Here
    <3>7. ASSUME NEW m, ~Clearing(m)' PROVE ~Clearing(m) /\ m # Here(w)[2]
      BY <3>1, <3>2, <3>6, <3>7 DEF Clearing, At, Here
    <3>8. ServedIsOnDisk'
      BY <2>0, <3>4, <3>7 DEF ServedIsOnDisk
    <3>9. LoadedIsOnDisk'
      BY <2>0, <3>4, <3>7 DEF LoadedIsOnDisk, Types, Loading
    <3> QED
      BY <2>g, <3>1, <3>4, <3>5, <3>8, <3>9 DEF IInv
  <2>16. ASSUME NEW w \in Worker, Clear(w) PROVE IInv'
    <3>1. task[w] # None /\ task[w].step = "clear" /\ GoTo(w, "close") /\ Here(w) \in Slot
      BY <2>0, <2>16, HereIsASlot DEF Clear, At
    <3>2. /\ task' \in [Worker -> Task \cup {None}]
          /\ \A v \in Worker : task'[v] # None => task'[v].todo # << >>
          /\ \A v \in Worker \ {w} : task'[v] = task[v]
      BY <2>0, <3>1, GoToKeeps DEF Step
    <3>3. /\ cache' \in [Slot -> (Absent..MaxEvents) \cup {None}]
          /\ \A s \in Slot : cache'[s] = IF s[2] = Here(w)[2] THEN None ELSE cache[s]
          /\ UNCHANGED <<history, file, panel>>
          /\ ~crossed' => ~crossed /\ (panel # None => panel[1][2] # Here(w)[2])
      BY <2>0, <2>16 DEF Clear, Cleared, Types
    <3>4. Types'
      BY <2>0, <3>2, <3>3 DEF Types
    <3>5. ASSUME NEW m, ~Clearing(m)', m # Here(w)[2] PROVE ~Clearing(m)
      BY <3>1, <3>2, <3>5 DEF Clearing, At, Here
    <3>6. ServedIsOnDisk'
      BY <2>0, <3>3, <3>5 DEF ServedIsOnDisk
    <3>7. LoadedIsOnDisk'
      BY <2>0, <3>3, <3>5 DEF LoadedIsOnDisk
    <3> QED
      BY <2>g, <3>1, <3>3, <3>4, <3>6, <3>7 DEF IInv
  <2>17. ASSUME NEW w \in Worker, Close(w) PROVE IInv'
    <3>1. task[w] # None /\ task[w].step = "close" /\ Onward(w) /\ CloseAs(w, "succeeded")
      BY <2>17 DEF Close, At
    <3>2. Moved(w) /\ history' \in Seq(Event) /\ Len(history) <= Len(history')
      BY <2>0, <2>c, <3>1, OnwardMoves
    <3> QED
      BY <2>2, <2>17, <3>1, <3>2 DEF Close, bounds
  <2>18. ASSUME NEW w \in Worker, TrainerFails(w) PROVE IInv'
    <3>1. task[w] # None /\ task[w].step \in {"train", "dump"} /\ Abort(w) /\ CloseAs(w, "failed")
      BY <2>18 DEF TrainerFails, Raised, At
    <3>2. Moved(w) /\ history' \in Seq(Event) /\ Len(history) <= Len(history')
      BY <2>0, <2>c, <3>1, AbortMoves
    <3> QED
      BY <2>2, <2>18, <3>1, <3>2 DEF TrainerFails, Fault
  <2>19. ASSUME NEW w \in Worker, CallFails(w) \/ LoadFails(w) PROVE IInv'
    <3>1. task[w] # None /\ task[w].step # "clear" /\ Abort(w)
      BY <2>19 DEF CallFails, LoadFails, At
    <3>2. Moved(w)
      BY <2>0, <3>1, AbortMoves
    <3> QED
      BY <2>h, <2>2, <2>19, <3>1, <3>2 DEF CallFails, LoadFails, bounds, Fault
  <2>22. ASSUME NEW w \in Worker, OpenFails(w) PROVE IInv'
    <3> DEFINE row == [slot |-> Here(w), version |-> Len(history) + 1, status |-> "running"]
    <3>1. task[w] # None /\ task[w].step = "open" /\ Here(w) \in Slot /\ Abort(w)
      BY <2>0, <2>22, HereIsASlot DEF OpenFails, Opening, At
    <3>2. row \in Event
      BY <2>0, <2>22, <3>1 DEF OpenFails, Opening, Types, Event
    <3>3. history' \in Seq(Event) /\ Len(history) <= Len(history')
      <4> HIDE DEF row
      <4> QED
        BY <2>0, <2>22, <3>2, AppendProperties DEF OpenFails, Opening, Types, row
    <3>4. Moved(w)
      BY <2>0, <3>1, AbortMoves
    <3>5. /\ cache' \in [Slot -> (Absent..MaxEvents) \cup {None}]
          /\ \A s \in Slot : cache'[s] = cache[s] \/ cache'[s] = file[s]
      BY <2>22, <3>1, LoadKeeps DEF OpenFails, Opening
    <3> HIDE DEF row
    <3> QED
      BY <2>1, <2>22, <3>1, <3>3, <3>4, <3>5 DEF OpenFails, Fault
  <2>20. CASE Restart
    <3>1. cache' = Nothing /\ task' = Idle /\ panel' = None
          /\ UNCHANGED <<file, crossed, history>>
      BY <2>20 DEF Restart, Fault
    <3>2. Types'
      BY <2>0, <3>1 DEF Types, Nothing, Idle
    <3>3. ServedIsOnDisk' /\ LoadedIsOnDisk'
      BY <3>1 DEF ServedIsOnDisk, LoadedIsOnDisk, Nothing
    <3>4. Opened'
      BY <3>1 DEF Opened, Idle
    <3> QED
      BY <3>2, <3>3, <3>4 DEF IInv
  <2>21. CASE UNCHANGED vars
    BY <2>0, <2>3, <2>4, <2>21
       DEF vars, server, bounds, Types, ServedIsOnDisk, LoadedIsOnDisk
  <2> QED
    BY <2>5, <2>6, <2>7, <2>8, <2>9, <2>10, <2>11, <2>12, <2>13, <2>14, <2>15, <2>16, <2>17,
       <2>18, <2>19, <2>20, <2>21, <2>22 DEF Next, Work
<1> QED
  BY <1>1, <1>2, PTL DEF Spec

\* What a company's model answers with is what the last retrain has written, for any
\* number of retrains, drift checks, loads and failures that overlap.
THEOREM ServedModelsAreOnDisk == Spec => []ServedIsOnDisk
<1>1. IInv => ServedIsOnDisk
  BY DEF IInv
<1> QED
  BY <1>1, Safety, PTL

\* The rest of TypeOK: the bounds and the two marks.
OtherTypes ==
  /\ Len(history) <= MaxEvents
  /\ checks \in 0..MaxChecks /\ faults \in 0..MaxFaults
  /\ raced \in BOOLEAN /\ crossed \in BOOLEAN
  /\ lost \subseteq 1..MaxEvents

\* A row of the history that is closed leaves the history as long as it was.
LEMMA ClosingKeepsLength ==
  ASSUME IInv, NEW w, NEW status, CloseAs(w, status)
  PROVE  Len(history') = Len(history)
<1>1. history \in Seq(Event) /\ DOMAIN history = 1..Len(history) /\ Len(history) \in Nat
  BY DEF IInv, Types
<1>2. DOMAIN history' = DOMAIN history
  BY DEF CloseAs
<1>3. history' = [n \in 1..Len(history) |-> history'[n]]
  BY <1>1 DEF CloseAs
<1> QED
  BY <1>1, <1>2, <1>3

\* Every variable of the retraining keeps its type, whatever fails or is restarted.
THEOREM TypeCorrect == Spec => []TypeOK
<1> USE Bounds
<1>1. Init => OtherTypes
  <2> SUFFICES ASSUME Init PROVE OtherTypes
    OBVIOUS
  <2>1. Len(history) = 0
    BY DEF Init
  <2>2. Len(history) <= MaxEvents
    BY <2>1
  <2>3. checks \in 0..MaxChecks /\ faults \in 0..MaxFaults
    BY DEF Init
  <2>4. raced \in BOOLEAN /\ crossed \in BOOLEAN /\ lost \subseteq 1..MaxEvents
    BY Zenon DEF Init
  <2> QED
    BY <2>2, <2>3, <2>4 DEF OtherTypes
<1>2. IInv /\ OtherTypes /\ [Next]_vars => OtherTypes'
  <2> SUFFICES ASSUME IInv, OtherTypes, [Next]_vars PROVE OtherTypes'
    OBVIOUS
  <2>1. history \in Seq(Event)
    BY DEF IInv, Types
  <2> USE DEF OtherTypes
  <2>2. CASE UNCHANGED <<history, bounds>>
    BY <2>2 DEF bounds
  <2>u. ASSUME NEW w \in Worker PROVE Unclosed(w) \subseteq 1..MaxEvents
    <3>1. Len(history) \in Nat
      BY <2>1
    <3>2. \A n \in 1..Len(history) : n \in 1..MaxEvents
      BY <3>1
    <3> QED
      BY <3>2 DEF Unclosed, IInv, Opened
  <2>3. ASSUME NEW w \in Worker, NEW s \in Slot, RequestRetrain(w, s) PROVE OtherTypes'
    BY <2>2, <2>3 DEF RequestRetrain
  <2>4. ASSUME NEW w \in Worker, RequestCheck(w) PROVE OtherTypes'
    BY <2>4 DEF RequestCheck
  <2>5. ASSUME NEW w \in Worker, OpenEvent(w) PROVE OtherTypes'
    <3>1. Len(history') = Len(history) + 1
      BY <2>1, <2>5 DEF OpenEvent, Opening
    <3>2. Len(history) < MaxEvents /\ Len(history) \in Nat
      BY <2>1, <2>5 DEF OpenEvent, Opening
    <3>3. raced' \in BOOLEAN
      BY <2>5, Zenon DEF OpenEvent
    <3> QED
      BY <2>5, <3>1, <3>2, <3>3 DEF OpenEvent
  <2>6. ASSUME NEW w \in Worker, Skip(w) \/ Close(w) PROVE OtherTypes'
    BY <2>6, ClosingKeepsLength DEF Skip, Close, bounds
  <2>7. ASSUME NEW w \in Worker, Clear(w) PROVE OtherTypes'
    <3>1. crossed' \in BOOLEAN
      BY <2>7, Zenon DEF Clear
    <3> QED
      BY <2>7, <3>1 DEF Clear
  <2>8. ASSUME NEW w \in Worker, TrainerFails(w) PROVE OtherTypes'
    BY <2>8, ClosingKeepsLength DEF TrainerFails, Raised, Fault
  <2>9. ASSUME NEW w \in Worker, CallFails(w) PROVE OtherTypes'
    <3>1. lost' \subseteq 1..MaxEvents
      BY <2>9, <2>u DEF CallFails
    <3> QED
      BY <2>9, <3>1 DEF CallFails, Fault
  <2>10. CASE Restart
    <3>1. lost' \subseteq 1..MaxEvents
      BY <2>10, <2>u DEF Restart
    <3> QED
      BY <2>10, <3>1 DEF Restart, Fault
  <2>15. ASSUME NEW w \in Worker, OpenFails(w) PROVE OtherTypes'
    <3>1. Len(history') = Len(history) + 1
      BY <2>1, <2>15 DEF OpenFails, Opening
    <3>2. Len(history) < MaxEvents /\ Len(history) \in Nat
      BY <2>1, <2>15 DEF OpenFails, Opening
    <3>3. Len(history) + 1 \in 1..MaxEvents
      BY <3>2
    <3>4. lost' \subseteq 1..MaxEvents
      BY <2>15, <3>3 DEF OpenFails
    <3>5. Len(history') <= MaxEvents
      BY <3>1, <3>2
    <3> QED
      BY <2>15, <3>4, <3>5 DEF OpenFails, Fault
  <2>11. ASSUME NEW w \in Worker, Check(w) \/ Truncate(w) \/ Dump(w) \/ LoadFails(w)
         PROVE  OtherTypes'
    BY <2>2, <2>11 DEF Check, Truncate, Dump, LoadFails
  <2>12. ASSUME NEW s \in Slot, Predict(s) \/ Evict(s) \/ PanelReads(s) PROVE OtherTypes'
    BY <2>2, <2>12 DEF Predict, Evict, PanelReads
  <2>13. CASE PanelCaches
    BY <2>2, <2>13 DEF PanelCaches
  <2>14. CASE UNCHANGED vars
    BY <2>2, <2>14 DEF vars
  <2> QED
    BY <2>3, <2>4, <2>5, <2>6, <2>7, <2>8, <2>9, <2>10, <2>11, <2>12, <2>13, <2>14, <2>15
       DEF Next, Work
<1>3. IInv /\ OtherTypes => TypeOK
  BY DEF IInv, Types, OtherTypes, TypeOK
<1> QED
  BY <1>1, <1>2, <1>3, Safety, PTL DEF Spec

-----------------------------------------------------------------------------
(***************************************************************************)
(* The history and the files.                                              *)
(***************************************************************************)

\* A retrain that has its row, and one that may still write the file.
Active(w) == task[w] # None /\ task[w].step \in {"train", "dump", "clear", "close"}
Writing(w) == task[w] # None /\ task[w].step \in {"train", "dump"}

\* The rows whose retrain has written its file, whether or not they say so yet.
Saved(n) ==
  \/ history[n].status = "succeeded"
  \/ \E w \in Worker : task[w] # None /\ task[w].step \in {"clear", "close"} /\ task[w].event = n
Results(s) == {n \in 1..Len(history) : history[n].slot = s /\ Saved(n)}

\* Nobody closes the row of somebody else.
RowsAreOwned ==
  \A w \in Worker : Active(w) =>
    /\ task[w].event \in 1..Len(history)
    /\ history[task[w].event].slot = Here(w)
    /\ history[task[w].event].status = "running"
    /\ \A v \in Worker \ {w} : Active(v) => task[v].event # task[w].event

\* Who is about to write a file is alone with it and younger than what is in it.
WritersTakeTurns ==
  \A w \in Worker : Writing(w) =>
    /\ \A n \in Results(Here(w)) : n < task[w].event
    /\ \A v \in Worker \ {w} : Writing(v) => Here(v) # Here(w)

\* A file that is not being written is the youngest of those that were.
FileIsTheLast ==
  \A s \in Slot : (\A w \in Worker : At(w, "dump") => Here(w) # s) =>
    IF Results(s) = {} THEN file[s] = Absent
    ELSE file[s] \in Results(s) /\ \A n \in Results(s) : n <= file[s]

Unspoilt == faults = 0 /\ ~raced
Books == Unspoilt => RowsAreOwned /\ WritersTakeTurns /\ FileIsTheLast

\* Whoever has no row, before and after, leaves the books alone.
LEMMA OthersKeepBooks ==
  ASSUME Books, Unspoilt, UNCHANGED <<file, history>>,
         \A v \in Worker : task'[v] = task[v] \/ (~Active(v) /\ ~Active(v)')
  PROVE  Books'
<1>1. RowsAreOwned /\ WritersTakeTurns /\ FileIsTheLast
  BY DEF Books
<1>2. ASSUME NEW v \in Worker
      PROVE  /\ Active(v)' <=> Active(v)
             /\ Active(v) => task'[v] = task[v]
             /\ Writing(v)' <=> Writing(v)
             /\ At(v, "dump")' <=> At(v, "dump")
  BY DEF Active, Writing, At
<1>3. ASSUME NEW n PROVE Saved(n)' <=> Saved(n)
  BY <1>2 DEF Saved, Active
<1>4. ASSUME NEW s PROVE Results(s)' = Results(s)
  BY <1>3 DEF Results
<1>5. \A v \in Worker : Active(v) => Here(v)' = Here(v)
  BY <1>2 DEF Here
<1>6. RowsAreOwned'
  BY <1>1, <1>2, <1>5 DEF RowsAreOwned
<1>7. \A v \in Worker : Writing(v) => Active(v)
  BY DEF Writing, Active
<1>8. WritersTakeTurns'
  BY <1>1, <1>2, <1>4, <1>5, <1>7 DEF WritersTakeTurns
<1>9. \A v \in Worker : At(v, "dump") => Active(v)
  BY DEF At, Active
<1>10. FileIsTheLast'
  BY <1>1, <1>2, <1>4, <1>5, <1>9 DEF FileIsTheLast
<1> QED
  BY <1>6, <1>8, <1>10 DEF Books

\* What closing a row changes of the history.
LEMMA ClosingChangesOneRow ==
  ASSUME IInv, NEW w \in Worker, Active(w), NEW status, CloseAs(w, status)
  PROVE  /\ Len(history') = Len(history)
         /\ \A n \in 1..Len(history) :
              /\ history'[n].slot = history[n].slot
              /\ history'[n].status = IF n = task[w].event THEN status ELSE history[n].status
<1>1. history \in Seq(Event) /\ task[w].event \in 1..Len(history)
  BY DEF IInv, Types, Opened, Active
<1>2. Len(history') = Len(history)
  BY ClosingKeepsLength
<1>3. ASSUME NEW n \in 1..Len(history)
      PROVE  /\ history'[n].slot = history[n].slot
             /\ history'[n].status = IF n = task[w].event THEN status ELSE history[n].status
  <2>1. n \in DOMAIN history /\ history[n] \in Event
    BY <1>1
  <2>2. CASE n # task[w].event
    BY <2>1, <2>2 DEF CloseAs
  <2>3. CASE n = task[w].event
    <3>1. history'[n] = [history[n] EXCEPT !.status = status]
      BY <2>1, <2>3 DEF CloseAs
    <3> QED
      BY <2>1, <2>3, <3>1 DEF Event
  <2> QED
    BY <2>2, <2>3
<1> QED
  BY <1>2, <1>3

\* A retrain that ends closes its row: with a result if it has cleared the cache, and
\* without one if it never wrote.
LEMMA EndingKeepsBooks ==
  ASSUME IInv, Books, Unspoilt, NEW w \in Worker, Moved(w), file' = file,
         \/ At(w, "close") /\ CloseAs(w, "succeeded")
         \/ At(w, "train") /\ CloseAs(w, "skipped_insufficient_data")
  PROVE  Books'
<1>1. RowsAreOwned /\ WritersTakeTurns /\ FileIsTheLast
  BY DEF Books
<1>2. Active(w) /\ ~Active(w)' /\ ~Writing(w)' /\ ~At(w, "dump")' /\ ~At(w, "dump")
  BY DEF Active, At, Moved, Writing
<1>3. \A v \in Worker \ {w} : task'[v] = task[v]
  BY DEF Moved
<1>4. /\ Len(history') = Len(history)
      /\ \A n \in 1..Len(history) :
           /\ history'[n].slot = history[n].slot
           /\ n # task[w].event => history'[n].status = history[n].status
           /\ n = task[w].event
                 => history'[n].status \in {"succeeded", "skipped_insufficient_data"}
           /\ n = task[w].event => (history'[n].status = "succeeded" <=> At(w, "close"))
  BY <1>2, ClosingChangesOneRow DEF At
<1>5. \A v \in Worker \ {w} :
         /\ Active(v)' <=> Active(v)
         /\ Writing(v)' <=> Writing(v)
         /\ At(v, "dump")' <=> At(v, "dump")
         /\ Here(v)' = Here(v)
  BY <1>3 DEF Active, Writing, At, Here
<1>6. RowsAreOwned'
  BY <1>1, <1>2, <1>3, <1>4, <1>5 DEF RowsAreOwned
<1>7. ASSUME NEW n \in 1..Len(history) PROVE Saved(n)' <=> Saved(n)
  <2>1. CASE n = task[w].event
    <3>1. CASE At(w, "close")
      BY <1>4, <2>1, <3>1 DEF Saved, At
    <3>2. CASE ~At(w, "close")
      <4>1. ~Saved(n)
        BY <1>1, <1>2, <2>1, <3>2 DEF Saved, RowsAreOwned, Active, At
      <4>2. ~Saved(n)'
        BY <1>1, <1>2, <1>3, <1>4, <2>1, <3>2 DEF Saved, RowsAreOwned, Active, At
      <4> QED
        BY <4>1, <4>2
    <3> QED
      BY <3>1, <3>2
  <2>2. CASE n # task[w].event
    BY <1>2, <1>3, <1>4, <2>2 DEF Saved, Active
  <2> QED
    BY <2>1, <2>2
<1>8. ASSUME NEW s PROVE Results(s)' = Results(s)
  BY <1>4, <1>7 DEF Results
<1>9. WritersTakeTurns'
  BY <1>1, <1>2, <1>3, <1>5, <1>8 DEF WritersTakeTurns
<1>10. FileIsTheLast'
  BY <1>1, <1>2, <1>5, <1>8 DEF FileIsTheLast
<1> QED
  BY <1>6, <1>9, <1>10 DEF Books

\* What a worker's next step on the same model changes of who has a row.
LEMMA StepChangesOne ==
  ASSUME Types, NEW w \in Worker, NEW step \in Step, task[w] # None, GoTo(w, step)
  PROVE  /\ task'[w] # None /\ task'[w].step = step /\ task'[w].event = task[w].event
         /\ Here(w)' = Here(w)
         /\ \A v \in Worker \ {w} :
              /\ task'[v] = task[v]
              /\ Active(v)' <=> Active(v)
              /\ Writing(v)' <=> Writing(v)
              /\ At(v, "dump")' <=> At(v, "dump")
              /\ Here(v)' = Here(v)
<1>1. /\ task'[w] # None /\ task'[w].step = step /\ task'[w].event = task[w].event
      /\ task'[w].todo = task[w].todo
      /\ \A v \in Worker \ {w} : task'[v] = task[v]
  BY GoToKeeps
<1> QED
  BY <1>1 DEF Active, Writing, At, Here

\* Opening the event: the row is the youngest, and nobody else is writing that file,
\* or the two have raced.
LEMMA OpeningKeepsBooks ==
  ASSUME IInv, Books, NEW w \in Worker, OpenEvent(w), Unspoilt'
  PROVE  Books'
<1>0. PICK m : m = Len(history) + 1
  OBVIOUS
<1>1. Unspoilt /\ Writers(Here(w)) = {}
  BY DEF Unspoilt, OpenEvent
<1>2. RowsAreOwned /\ WritersTakeTurns /\ FileIsTheLast
  BY <1>1 DEF Books
<1>3. task[w] # None /\ task[w].step = "open" /\ task[w] \in Task /\ history \in Seq(Event)
      /\ Here(w) \in Slot
  BY HereIsASlot DEF OpenEvent, Opening, At, IInv, Types
<1>4. ~Active(w) /\ ~Writing(w) /\ file' = file
  BY <1>3 DEF Active, Writing, OpenEvent
<1>5. /\ Len(history') = m /\ Len(history) \in Nat
      /\ \A n \in 1..Len(history) : history'[n] = history[n]
      /\ history'[m].slot = Here(w) /\ history'[m].status = "running"
  BY <1>0, <1>3 DEF OpenEvent, Opening
<1>6. /\ task'[w].step = "train" /\ task'[w].event = m /\ task'[w] # None
      /\ Here(w)' = Here(w)
      /\ \A v \in Worker \ {w} : task'[v] = task[v]
  <2> DEFINE t == [task[w] EXCEPT !.step = "train", !.event = m]
  <2>1. task' = [task EXCEPT ![w] = t]
    BY <1>0 DEF OpenEvent
  <2>2. t.step = "train" /\ t.event = m /\ t.todo = task[w].todo
    BY <1>3 DEF Task
  <2>3. t # None
    <3>1. m \in 0..MaxEvents
      BY <1>5, Bounds DEF OpenEvent, Opening
    <3>2. t \in [todo : Seq(Slot), step : Step, event : 0..MaxEvents]
      BY <1>3, <3>1 DEF Task, Step
    <3> QED
      BY <3>2, NoneIsNoTask DEF Task
  <2> HIDE DEF t
  <2> QED
    BY <2>1, <2>2, <2>3 DEF IInv, Types, Here
<1>7. \A v \in Worker \ {w} :
        /\ Active(v)' <=> Active(v)
        /\ Writing(v)' <=> Writing(v)
        /\ At(v, "dump")' <=> At(v, "dump")
        /\ Here(v)' = Here(v)
  BY <1>6 DEF Active, Writing, At, Here
<1>8. Active(w)' /\ Writing(w)' /\ ~At(w, "dump")' /\ ~At(w, "dump")
  BY <1>3, <1>6 DEF Active, Writing, At
<1>9. \A v \in Worker : Active(v) => task[v].event \in 1..Len(history)
  BY <1>2 DEF RowsAreOwned
<1>10. m \notin 1..Len(history) /\ m \in 1..m /\ 1..m = (1..Len(history)) \cup {m}
       /\ \A n \in 1..Len(history) : n < m
  BY <1>0, <1>5
<1>11. RowsAreOwned'
  <2>1. ASSUME NEW v \in Worker, v # w, Active(v)'
        PROVE  /\ task'[v].event \in 1..Len(history')
               /\ history'[task'[v].event].slot = Here(v)'
               /\ history'[task'[v].event].status = "running"
    BY <1>2, <1>5, <1>6, <1>7, <1>10, <2>1 DEF RowsAreOwned
  <2>2. \A v, u \in Worker : v # u /\ Active(v)' /\ Active(u)' => task'[v].event # task'[u].event
    BY <1>2, <1>6, <1>7, <1>9, <1>10 DEF RowsAreOwned
  <2>3. /\ task'[w].event \in 1..Len(history')
        /\ history'[task'[w].event].slot = Here(w)'
        /\ history'[task'[w].event].status = "running"
    BY <1>5, <1>6, <1>10
  <2> QED
    BY <2>1, <2>2, <2>3 DEF RowsAreOwned
<1>12. ASSUME NEW n \in 1..Len(history) PROVE Saved(n)' <=> Saved(n)
  BY <1>3, <1>5, <1>6 DEF Saved
<1>13. ~Saved(m)'
  <2>1. history'[m].status # "succeeded"
    BY <1>5
  <2>2. \A v \in Worker : task'[v] # None /\ task'[v].step \in {"clear", "close"}
                            => task'[v].event # m
    BY <1>6, <1>7, <1>9, <1>10 DEF Active
  <2> QED
    BY <2>1, <2>2 DEF Saved
<1>14. ASSUME NEW s PROVE Results(s)' = Results(s)
  BY <1>5, <1>10, <1>12, <1>13 DEF Results
<1>15. WritersTakeTurns'
  <2>1. \A n \in Results(Here(w)) : n < m
    BY <1>10 DEF Results
  <2>2. \A v \in Worker \ {w} : Writing(v) => Here(v) # Here(w)
    BY <1>1 DEF Writers, Writing
  <2> QED
    BY <1>2, <1>6, <1>7, <1>8, <1>14, <2>1, <2>2 DEF WritersTakeTurns
<1>16. FileIsTheLast'
  BY <1>2, <1>4, <1>7, <1>8, <1>14 DEF FileIsTheLast
<1> QED
  BY <1>11, <1>15, <1>16 DEF Books

\* Truncating leaves only the file being written without a retrain.
LEMMA TruncatingKeepsBooks ==
  ASSUME IInv, Books, Unspoilt, NEW w \in Worker, Truncate(w)
  PROVE  Books'
<1>1. RowsAreOwned /\ WritersTakeTurns /\ FileIsTheLast
  BY DEF Books
<1>2. /\ task[w] # None /\ task[w].step = "train" /\ GoTo(w, "dump") /\ Types /\ history' = history
      /\ file' = [file EXCEPT ![Here(w)] = Cut]
  BY DEF Truncate, At, IInv
<1>3. /\ task'[w] # None /\ task'[w].step = "dump" /\ task'[w].event = task[w].event
      /\ Here(w)' = Here(w)
      /\ \A v \in Worker \ {w} :
           /\ task'[v] = task[v]
           /\ Active(v)' <=> Active(v)
           /\ Writing(v)' <=> Writing(v)
           /\ At(v, "dump")' <=> At(v, "dump")
           /\ Here(v)' = Here(v)
  BY <1>2, StepChangesOne DEF Step
<1>4. Active(w) /\ Active(w)' /\ Writing(w) /\ Writing(w)' /\ At(w, "dump")'
  BY <1>2, <1>3 DEF Active, Writing, At
<1>5. RowsAreOwned'
  BY <1>1, <1>2, <1>3, <1>4 DEF RowsAreOwned
<1>6. ASSUME NEW s PROVE Results(s)' = Results(s)
  BY <1>2, <1>3 DEF Results, Saved
<1>7. WritersTakeTurns'
  BY <1>1, <1>3, <1>4, <1>6 DEF WritersTakeTurns
<1>8. FileIsTheLast'
  <2>1. \A s \in Slot : s # Here(w) => file'[s] = file[s]
    BY <1>2 DEF Types
  <2>2. ~At(w, "dump")
    BY <1>2 DEF At
  <2> QED
    BY <1>1, <1>3, <1>4, <1>6, <2>1, <2>2 DEF FileIsTheLast
<1> QED
  BY <1>5, <1>7, <1>8 DEF Books

\* The dump leaves the file of the retrain that is now the youngest to have written.
LEMMA DumpingKeepsBooks ==
  ASSUME IInv, Books, Unspoilt, NEW w \in Worker, Dump(w)
  PROVE  Books'
<1>1. RowsAreOwned /\ WritersTakeTurns /\ FileIsTheLast
  BY DEF Books
<1>2. /\ task[w] # None /\ task[w].step = "dump" /\ GoTo(w, "clear") /\ Types /\ history' = history
      /\ file' = [file EXCEPT ![Here(w)] = task[w].event]
  BY DEF Dump, At, IInv, Unspoilt, Written
<1>3. /\ task'[w] # None /\ task'[w].step = "clear" /\ task'[w].event = task[w].event
      /\ Here(w)' = Here(w)
      /\ \A v \in Worker \ {w} :
           /\ task'[v] = task[v]
           /\ Active(v)' <=> Active(v)
           /\ Writing(v)' <=> Writing(v)
           /\ At(v, "dump")' <=> At(v, "dump")
           /\ Here(v)' = Here(v)
  BY <1>2, StepChangesOne DEF Step
<1>4. Active(w) /\ Active(w)' /\ Writing(w) /\ ~Writing(w)' /\ ~At(w, "dump")' /\ Here(w) \in Slot
  BY <1>2, <1>3, HereIsASlot DEF Active, Writing, At
<1>5. RowsAreOwned'
  BY <1>1, <1>2, <1>3, <1>4 DEF RowsAreOwned
<1>6. task[w].event \in 1..Len(history) /\ history[task[w].event].slot = Here(w)
  BY <1>1, <1>4 DEF RowsAreOwned
<1>7. ASSUME NEW n PROVE Saved(n)' <=> Saved(n) \/ n = task[w].event
  BY <1>2, <1>3 DEF Saved
<1>8. ASSUME NEW s
      PROVE  Results(s)' = IF s = Here(w) THEN Results(s) \cup {task[w].event} ELSE Results(s)
  BY <1>2, <1>6, <1>7 DEF Results
<1>9. WritersTakeTurns'
  <2>1. \A v \in Worker \ {w} : Writing(v) => Here(v) # Here(w)
    BY <1>1, <1>4 DEF WritersTakeTurns
  <2> QED
    BY <1>1, <1>3, <1>4, <1>8, <2>1 DEF WritersTakeTurns
<1>10. FileIsTheLast'
  <2> SUFFICES ASSUME NEW s \in Slot, \A v \in Worker : At(v, "dump")' => Here(v)' # s
               PROVE  IF Results(s)' = {} THEN file'[s] = Absent
                      ELSE file'[s] \in Results(s)' /\ \A n \in Results(s)' : n <= file'[s]
    BY DEF FileIsTheLast
  <2>1. CASE s = Here(w)
    <3>1. file'[s] = task[w].event
      BY <1>2, <2>1 DEF Types
    <3>2. \A n \in Results(s) : n < task[w].event /\ n \in Nat
      BY <1>1, <1>4, <2>1 DEF WritersTakeTurns, Results
    <3>3. task[w].event \in Nat
      BY <1>6
    <3> QED
      BY <1>8, <2>1, <3>1, <3>2, <3>3
  <2>2. CASE s # Here(w)
    <3>1. file'[s] = file[s] /\ Results(s)' = Results(s)
      BY <1>2, <1>8, <2>2 DEF Types
    <3>2. \A v \in Worker : At(v, "dump") => Here(v) # s
      BY <1>3, <2>2
    <3> QED
      BY <1>1, <3>1, <3>2 DEF FileIsTheLast
  <2> QED
    BY <2>1, <2>2
<1> QED
  BY <1>5, <1>9, <1>10 DEF Books

\* Clearing the cache is no matter of the books.
LEMMA ClearingKeepsBooks ==
  ASSUME IInv, Books, Unspoilt, NEW w \in Worker, Clear(w)
  PROVE  Books'
<1>1. RowsAreOwned /\ WritersTakeTurns /\ FileIsTheLast
  BY DEF Books
<1>2. /\ task[w] # None /\ task[w].step = "clear" /\ GoTo(w, "close")
      /\ Types /\ history' = history
      /\ file' = file
  BY DEF Clear, At, IInv
<1>3. /\ task'[w] # None /\ task'[w].step = "close" /\ task'[w].event = task[w].event
      /\ Here(w)' = Here(w)
      /\ \A v \in Worker \ {w} :
           /\ task'[v] = task[v]
           /\ Active(v)' <=> Active(v)
           /\ Writing(v)' <=> Writing(v)
           /\ At(v, "dump")' <=> At(v, "dump")
           /\ Here(v)' = Here(v)
  BY <1>2, StepChangesOne DEF Step
<1>4. Active(w) /\ Active(w)' /\ ~Writing(w)' /\ ~At(w, "dump")' /\ ~At(w, "dump")
  BY <1>2, <1>3 DEF Active, Writing, At
<1>5. RowsAreOwned'
  BY <1>1, <1>2, <1>3, <1>4 DEF RowsAreOwned
<1>6. ASSUME NEW s PROVE Results(s)' = Results(s)
  BY <1>2, <1>3 DEF Results, Saved
<1>7. WritersTakeTurns'
  BY <1>1, <1>3, <1>4, <1>6 DEF WritersTakeTurns
<1>8. FileIsTheLast'
  BY <1>1, <1>2, <1>3, <1>4, <1>6 DEF FileIsTheLast
<1> QED
  BY <1>5, <1>7, <1>8 DEF Books

\* The books are kept by every step: who overlaps another is marked, and a failure
\* is counted.
LEMMA BooksAreKept ==
  ASSUME IInv, TypeOK, Books, [Next]_vars
  PROVE  Books'
<1> SUFFICES ASSUME Unspoilt' PROVE Books'
  BY Zenon DEF Books
<1>0. Types
  BY DEF IInv
<1>1. ASSUME Fault PROVE FALSE
  BY <1>1, Bounds DEF Fault, Unspoilt, TypeOK
<1>2. ASSUME UNCHANGED <<file, history, task>>, Unspoilt PROVE Books'
  BY <1>2, OthersKeepBooks
<1>3. ASSUME NEW w \in Worker, ~Active(w), Moved(w), UNCHANGED <<file, history>>, Unspoilt
      PROVE  Books'
  <2>1. ~Active(w)'
    BY <1>3 DEF Active, Moved
  <2>2. \A v \in Worker : task'[v] = task[v] \/ (~Active(v) /\ ~Active(v)')
    BY <1>3, <2>1 DEF Moved
  <2> QED
    BY <1>3, <2>2, OthersKeepBooks
<1>4. ASSUME NEW s \in Slot, Predict(s) \/ Evict(s) \/ PanelReads(s) PROVE Books'
  BY <1>2, <1>4 DEF Predict, Evict, PanelReads, bounds, Unspoilt
<1>5. CASE PanelCaches
  BY <1>2, <1>5 DEF PanelCaches, bounds, Unspoilt
<1>6. ASSUME NEW w \in Worker, NEW s \in Slot, RequestRetrain(w, s) PROVE Books'
  <2>1. <<s>> \in Seq(Slot) /\ "open" \in {"check", "open"}
    OBVIOUS
  <2>2. Moved(w) /\ task[w] = None
    BY <1>0, <1>6, <2>1, BeginMoves DEF RequestRetrain
  <2> QED
    BY <1>3, <1>6, <2>2 DEF RequestRetrain, bounds, Unspoilt, Active
<1>7. ASSUME NEW w \in Worker, RequestCheck(w) PROVE Books'
  <2>1. PICK ask \in Listings(Trained) \cup {<<c>> : c \in Company} : Begin(w, Slots(ask), "check")
    BY <1>7 DEF RequestCheck
  <2>2. Slots(ask) \in Seq(Slot) /\ "check" \in {"check", "open"}
    BY SlotsAreListed
  <2>3. Moved(w) /\ task[w] = None
    BY <1>0, <2>1, <2>2, BeginMoves
  <2> QED
    BY <1>3, <1>7, <2>3 DEF RequestCheck, Unspoilt, Active
<1>8. ASSUME NEW w \in Worker, Check(w) PROVE Books'
  <2>1. task[w] # None /\ task[w].step = "check" /\ UNCHANGED <<file, history>> /\ Unspoilt
    BY <1>8 DEF Check, At, bounds, Unspoilt
  <2>2. Moved(w)
    <3>1. CASE Onward(w)
      BY <1>0, <2>1, <3>1, OnwardMoves
    <3>2. CASE GoTo(w, "open")
      BY <1>0, <2>1, <3>2, GoToKeeps DEF Step, Moved
    <3> QED
      BY <1>8, <3>1, <3>2 DEF Check
  <2> QED
    BY <1>3, <2>1, <2>2 DEF Active
<1>9. ASSUME NEW w \in Worker, OpenEvent(w) PROVE Books'
  BY <1>9, OpeningKeepsBooks
<1>10. ASSUME NEW w \in Worker, Skip(w) \/ Close(w) PROVE Books'
  <2>1. /\ task[w] # None /\ Onward(w) /\ file' = file /\ Unspoilt
        /\ \/ At(w, "close") /\ CloseAs(w, "succeeded")
           \/ At(w, "train") /\ CloseAs(w, "skipped_insufficient_data")
    BY <1>10 DEF Skip, Close, At, bounds, Unspoilt
  <2>2. Moved(w)
    BY <1>0, <2>1, OnwardMoves
  <2> QED
    BY <2>1, <2>2, EndingKeepsBooks
<1>11. ASSUME NEW w \in Worker, Truncate(w) PROVE Books'
  BY <1>11, TruncatingKeepsBooks DEF Truncate, bounds, Unspoilt
<1>12. ASSUME NEW w \in Worker, Dump(w) PROVE Books'
  BY <1>12, DumpingKeepsBooks DEF Dump, bounds, Unspoilt
<1>13. ASSUME NEW w \in Worker, Clear(w) PROVE Books'
  BY <1>13, ClearingKeepsBooks DEF Clear, Unspoilt
<1>14. ASSUME NEW w \in Worker, LoadFails(w) PROVE Books'
  <2>1. /\ task[w] # None /\ task[w].step \in {"check", "open"} /\ Abort(w) /\ Unspoilt
        /\ UNCHANGED <<file, history>>
    BY <1>14 DEF LoadFails, At, bounds, Unspoilt
  <2>2. Moved(w)
    BY <1>0, <2>1, AbortMoves
  <2> QED
    BY <1>3, <2>1, <2>2 DEF Active
<1>15. ASSUME NEW w \in Worker, TrainerFails(w) \/ OpenFails(w) \/ CallFails(w) PROVE Books'
  BY <1>1, <1>15 DEF TrainerFails, OpenFails, CallFails
<1>16. CASE Restart
  BY <1>1, <1>16 DEF Restart
<1>17. CASE UNCHANGED vars
  BY <1>2, <1>17 DEF vars, bounds, server, Unspoilt
<1> QED
  BY <1>4, <1>5, <1>6, <1>7, <1>8, <1>9, <1>10, <1>11, <1>12, <1>13, <1>14, <1>15, <1>16, <1>17
     DEF Next, Work

\* As long as nothing fails and no two retrains of one model overlap, what the history
\* says was the last to succeed is what is in the file, for any number of companies,
\* requests and retrains, whatever overtakes what between the file and the row.
THEOREM TheHistoryIsOnDisk == Spec => []HistoryIsOnDisk
<1>1. Init => Books
  <2> SUFFICES ASSUME Init PROVE Books
    OBVIOUS
  <2>1. Len(history) = 0 /\ \A w \in Worker : task[w] = None
    BY DEF Init, Idle
  <2>2. \A s : Results(s) = {}
    BY <2>1 DEF Results
  <2>3. RowsAreOwned /\ WritersTakeTurns
    BY <2>1 DEF RowsAreOwned, WritersTakeTurns, Active, Writing
  <2>4. FileIsTheLast
    BY <2>2 DEF FileIsTheLast, Init
  <2> QED
    BY <2>3, <2>4 DEF Books
<1>2. IInv /\ TypeOK /\ Books /\ [Next]_vars => Books'
  BY BooksAreKept
<1>3. Books => HistoryIsOnDisk
  <2> SUFFICES ASSUME Books, NEW s \in Slot, faults = 0, ~raced,
                      \A w \in Worker : task[w] # None /\ Here(w) = s =>
                        task[w].step \notin {"dump", "clear", "close"}
               PROVE  LET done == {n \in 1..Len(history) :
                                    history[n].slot = s /\ history[n].status = "succeeded"}
                      IN  IF done = {} THEN file[s] = Absent
                          ELSE file[s] \in done /\ \A n \in done : n <= file[s]
    BY DEF HistoryIsOnDisk
  <2>1. RowsAreOwned /\ FileIsTheLast
    BY DEF Books, Unspoilt
  <2>2. ASSUME NEW n \in 1..Len(history), history[n].slot = s, Saved(n)
        PROVE  history[n].status = "succeeded"
    BY <2>1, <2>2 DEF Saved, RowsAreOwned, Active
  <2>3. Results(s) = {n \in 1..Len(history) :
                        history[n].slot = s /\ history[n].status = "succeeded"}
    BY <2>2 DEF Results, Saved
  <2>4. \A w \in Worker : At(w, "dump") => Here(w) # s
    BY DEF At
  <2> QED
    BY <2>1, <2>3, <2>4 DEF FileIsTheLast
<1> QED
  BY <1>1, <1>2, <1>3, Safety, TypeCorrect, PTL DEF Spec
====
