--------------------------- MODULE DeliveryProofs ---------------------------
(***************************************************************************)
(* What holds of whatever is delivered at least once: the notifications of *)
(* Outbox, for any number of messages, any prefetch count and any number   *)
(* of restarts; the bulk upload of BulkUpload, here as B, for any number of*)
(* documents, lost connections and restarts; and the customer reminders of *)
(* Reminders, here as R, for any number of invoices and overlapping runs,  *)
(* any reminder interval and any number of retries.                        *)
(***************************************************************************)
EXTENDS Outbox, UploadState, ReminderState, FiniteSetTheorems, TLAPS

\* The three run apart from each other, each with a Next of its own.
B == INSTANCE BulkUpload
R == INSTANCE Reminders

-----------------------------------------------------------------------------
(***************************************************************************)
(* The notifications.                                                      *)
(***************************************************************************)

Unsent == Calls \ {"sent", "failed"}

\* A message is in one place at a time: with its call, in the queue, or delivered;
\* and what is delivered is what has a handler.
OnePlace ==
  \A m \in Msg :
    /\ task[m] # "none" <=> m \in unacked
    /\ m \notin ready \cap unacked
    /\ call[m] \in Unsent => m \notin ready \cup unacked

\* A handler that got through has tried to mail.
DoneHasTried ==
  \A m \in Msg : task[m] = "done" => mails[m] > 0 \/ m \in refused

\* The mails of m that may still come: one from its place, one from a handler
\* whose channel is gone.
FromPlace(m) == IF call[m] \in Unsent \/ m \in ready \/ task[m] = "held" THEN 1 ELSE 0
FromStale(m) == IF m \in stale THEN 1 ELSE 0

\* The mails sent and the mails that may come are one more than the restarts.
BudgetHolds ==
  \A m \in Msg : mails[m] + FromPlace(m) + FromStale(m) <= 1 + faults

IInv ==
  /\ TypeOK
  /\ OnePlace
  /\ DoneHasTried
  /\ BudgetHolds
  /\ QueuedIsKept
  /\ CacheRecovers

\* IInv is inductive: no restart, lost channel or interleaving of publishers
\* breaks any part of it.
THEOREM Safety == Spec => []IInv
<1> USE PrefetchIsPositive, MaxFaultsIsNatural, NoneIsNoMessage
<1> USE DEF IInv, TypeOK, OnePlace, DoneHasTried, BudgetHolds, FromPlace, FromStale,
            QueuedIsKept, Attempted, CacheRecovers, Unsent, Calls, HandedOut, PutBack, Fault,
            publisher, broker, consumer, history
<1>1. Init => IInv
  <2> SUFFICES ASSUME Init PROVE IInv
    OBVIOUS
  <2>1. TypeOK
    <3>1. call \in [Msg -> Calls] /\ task \in [Msg -> {"none", "held", "done", "raised"}]
      BY DEF Init
    <3>2. mails \in [Msg -> Nat] /\ faults \in 0..MaxFaults
      BY DEF Init
    <3>3. up \in BOOLEAN /\ declared \in BOOLEAN /\ subscribed \in BOOLEAN
      BY Zenon DEF Init
    <3>4. /\ channel \in Msg \cup {None}
          /\ {alive, closing, ready, unacked, dead, stale, routed, refused} \subseteq SUBSET Msg
      BY DEF Init
    <3> QED
      BY <3>1, <3>2, <3>3, <3>4
  <2>2. OnePlace /\ DoneHasTried /\ QueuedIsKept /\ CacheRecovers
    BY DEF Init
  <2>3. BudgetHolds
    BY DEF Init
  <2> QED
    BY <2>1, <2>2, <2>3
<1>2. IInv /\ [Next]_vars => IInv'
  <2> SUFFICES ASSUME IInv, [Next]_vars PROVE IInv'
    OBVIOUS
  <2>1. CASE BrokerStops
    <3>1. TypeOK'
      <4>1. (up \in BOOLEAN /\ declared \in BOOLEAN /\ subscribed \in BOOLEAN)'
        BY <2>1, Zenon DEF BrokerStops, ChannelLost
      <4>2. (task \in [Msg -> {"none", "held", "done", "raised"}])'
        BY <2>1 DEF BrokerStops, ChannelLost
      <4>3. ({ready, unacked, stale, alive, closing} \subseteq SUBSET Msg)'
        BY <2>1 DEF BrokerStops, ChannelLost
      <4> QED
        BY <2>1, <4>1, <4>2, <4>3 DEF BrokerStops, ChannelLost
    <3>2. OnePlace' /\ DoneHasTried'
      BY <2>1 DEF BrokerStops, ChannelLost
    <3>3. QueuedIsKept' /\ CacheRecovers'
      BY <2>1 DEF BrokerStops, ChannelLost
    <3>4. BudgetHolds'
      BY <2>1 DEF BrokerStops, ChannelLost
    <3> QED
      BY <3>1, <3>2, <3>3, <3>4
  <2>2. CASE BrokerStarts
    BY <2>2 DEF BrokerStarts
  <2>3. CASE ServiceRestarts
    <3>1. TypeOK'
      <4>1. (up \in BOOLEAN /\ declared \in BOOLEAN /\ subscribed \in BOOLEAN)'
        BY <2>3, Zenon DEF ServiceRestarts, ChannelLost
      <4>2. (task \in [Msg -> {"none", "held", "done", "raised"}])'
        BY <2>3 DEF ServiceRestarts, ChannelLost
      <4>3. ({ready, unacked, stale, alive, closing} \subseteq SUBSET Msg)'
        BY <2>3 DEF ServiceRestarts, ChannelLost
      <4> QED
        BY <2>3, <4>1, <4>2, <4>3 DEF ServiceRestarts, ChannelLost
    <3>2. OnePlace' /\ DoneHasTried'
      BY <2>3 DEF ServiceRestarts, ChannelLost
    <3>3. QueuedIsKept' /\ CacheRecovers'
      BY <2>3 DEF ServiceRestarts, ChannelLost
    <3>4. BudgetHolds'
      BY <2>3 DEF ServiceRestarts, ChannelLost
    <3> QED
      BY <3>1, <3>2, <3>3, <3>4
  <2>4. CASE Subscribe
    BY <2>4 DEF Subscribe
  <2>5. ASSUME NEW m \in Msg, PublishOnCached(m) PROVE IInv'
    BY <2>5 DEF PublishOnCached, Routes
  <2>6. ASSUME NEW m \in Msg, PublishConnects(m) PROVE IInv'
    BY <2>6 DEF PublishConnects
  <2>7. ASSUME NEW m \in Msg, Connected(m) PROVE IInv'
    BY <2>7 DEF Connected
  <2>8. ASSUME NEW m \in Msg, ChannelCreated(m) PROVE IInv'
    BY <2>8 DEF ChannelCreated
  <2>9. ASSUME NEW m \in Msg, DlqAsserted(m) PROVE IInv'
    BY <2>9 DEF DlqAsserted
  <2>10. ASSUME NEW m \in Msg, QueueAsserted(m) PROVE IInv'
    <3>1. TypeOK'
      BY <2>10 DEF QueueAsserted, Routes
    <3>2. OnePlace' /\ DoneHasTried'
      BY <2>10 DEF QueueAsserted, Routes
    <3>3. QueuedIsKept' /\ CacheRecovers'
      BY <2>10 DEF QueueAsserted, Routes
    <3>4. BudgetHolds'
      BY <2>10 DEF QueueAsserted, Routes
    <3> QED
      BY <3>1, <3>2, <3>3, <3>4
  <2>11. ASSUME NEW m \in Msg, CloseEvent(m) PROVE IInv'
    BY <2>11 DEF CloseEvent
  <2>12. ASSUME NEW m \in Msg, Deliver(m) PROVE IInv'
    BY <2>12 DEF Deliver
  <2>13. ASSUME NEW m \in Msg, Handle(m) PROVE IInv'
    BY <2>13 DEF Handle, Mailing
  <2>14. ASSUME NEW m \in Msg, HandleStale(m) PROVE IInv'
    BY <2>14 DEF HandleStale, Mailing
  <2>15. ASSUME NEW m \in Msg, Settle(m) PROVE IInv'
    BY <2>15 DEF Settle
  <2>16. CASE UNCHANGED vars
    BY <2>16 DEF vars
  <2> HIDE DEF IInv
  <2> QED
    BY <2>1, <2>2, <2>3, <2>4, <2>5, <2>6, <2>7, <2>8, <2>9, <2>10, <2>11, <2>12,
       <2>13, <2>14, <2>15, <2>16 DEF Next
<1> QED
  BY <1>1, <1>2, PTL DEF Spec

\* Every state has its type.
THEOREM TypeCorrect == Spec => []TypeOK
BY Safety, PTL DEF IInv

\* What the queue has accepted is kept, is with the consumer, or was attempted.
THEOREM AcceptedIsKept == Spec => []QueuedIsKept
BY Safety, PTL DEF IInv

\* The publisher's cached channel is alive or has a close event coming.
THEOREM CacheIsCleared == Spec => []CacheRecovers
BY Safety, PTL DEF IInv

\* A message is mailed once, and once more for each restart at most.
THEOREM RepetitionsNeedRestarts == Spec => []MailsAreBounded
<1>1. IInv => MailsAreBounded
  BY DEF IInv, TypeOK, BudgetHolds, FromPlace, FromStale, MailsAreBounded
<1> QED
  BY <1>1, Safety, PTL

-----------------------------------------------------------------------------
(***************************************************************************)
(* The bulk upload.                                                        *)
(***************************************************************************)

\* A message is in the queue or delivered, and only if its job is queued.
MessagesAreQueued ==
  /\ ready \cap unacked = {}
  /\ \A j \in ready \cup unacked : enqueue[j] = "queued"
  /\ \A j \in unacked : delivered[j] > 0

\* Handlers belong to deliveries, and deliveries to queued jobs.
HandlersAreDelivered ==
  \A j \in Job, n \in Delivery :
    stage[j][n] # "none" => enqueue[j] = "queued" /\ n <= delivered[j]

\* Each redelivery is the work of a fault.
Redelivery ==
  \A j \in Job :
    delivered[j] + (IF j \in ready \/ enqueue[j] # "queued" THEN 1 ELSE 0) <= 1 + faults

\* A handler that is over leaves no file and a status that is final: nothing
\* begins after it.
OverIsFinal ==
  \A j \in Job, n \in Delivery :
    stage[j][n] = "over" => j \notin file /\ memory[j] \notin Pending

\* As long as a queued job has its file, the broker has its message.
FilesAreHeld ==
  \A j \in file : enqueue[j] = "queued" => j \in ready \cup unacked

UploadInv ==
  /\ B!TypeOK
  /\ MessagesAreQueued
  /\ HandlersAreDelivered
  /\ Redelivery
  /\ OverIsFinal
  /\ FilesAreHeld
  /\ PendingIsHeld

\* What an upload is described by is what its steps are described by.
LEMMA OneVocabulary == B!Delivery = Delivery /\ B!Over = Over /\ B!Pending = Pending
BY DEF Delivery, Over, Pending, B!Delivery, B!Over, B!Pending

\* UploadInv is inductive: no overlap of handlers, lost connection or restart breaks
\* any part of it.
THEOREM UploadSafety == B!Spec => []UploadInv
<1> USE PrefetchIsPositive, MaxFaultsIsNatural
<1> USE DEF UploadInv, B!TypeOK, MessagesAreQueued, HandlersAreDelivered, Redelivery, OverIsFinal,
            FilesAreHeld, PendingIsHeld, Delivery, Over, Pending, B!request, B!broker,
            B!Delivery, B!Over, B!Pending, B!HandedOut, B!PutBack, B!Fault
<1>1. B!Init => UploadInv
  BY DEF B!Init
<1>2. UploadInv /\ [B!Next]_(B!vars) => UploadInv'
  <2> SUFFICES ASSUME UploadInv, [B!Next]_(B!vars) PROVE UploadInv'
    OBVIOUS
  <2>1. CASE B!Answer
    BY <2>1 DEF B!Answer
  <2>2. CASE B!ConnectionLost
    BY <2>2 DEF B!ConnectionLost
  <2>3. CASE B!ServiceRestarts
    BY <2>3 DEF B!ServiceRestarts
  <2>4. CASE B!PollTick
    BY <2>4 DEF B!PollTick
  <2>5. CASE B!PollFails
    BY <2>5 DEF B!PollFails
  <2>6. ASSUME NEW j \in Job, B!Save(j) PROVE UploadInv'
    BY <2>6 DEF B!Save
  <2>7. ASSUME NEW j \in Job, B!Publish(j) PROVE UploadInv'
    BY <2>7 DEF B!Publish
  <2>8. ASSUME NEW j \in Job, B!Deliver(j) PROVE UploadInv'
    BY <2>8 DEF B!Deliver
  <2>9. ASSUME NEW j \in Job, B!Ack(j) PROVE UploadInv'
    BY <2>9 DEF B!Ack
  <2>10. ASSUME NEW j \in Job, NEW n \in Delivery, B!Begin(j, n) PROVE UploadInv'
    BY <2>10 DEF B!Begin
  <2>11. ASSUME NEW j \in Job, NEW n \in Delivery, B!BeginFails(j, n) PROVE UploadInv'
    BY <2>11 DEF B!BeginFails
  <2>12. ASSUME NEW j \in Job, NEW n \in Delivery, B!Insert(j, n) PROVE UploadInv'
    BY <2>12 DEF B!Insert
  <2>13. ASSUME NEW j \in Job, NEW n \in Delivery, B!Conclude(j, n) PROVE UploadInv'
    <3>1. /\ B!TypeOK' /\ MessagesAreQueued' /\ HandlersAreDelivered' /\ Redelivery'
          /\ FilesAreHeld'
      BY <2>13 DEF B!Conclude
    <3>2. PendingIsHeld'
      BY <2>13 DEF B!Conclude
    <3>3. OverIsFinal'
      BY <2>13 DEF B!Conclude
    <3> QED
      BY <3>1, <3>2, <3>3
  <2>14. CASE UNCHANGED B!vars
    BY <2>14 DEF B!vars
  <2> HIDE DEF UploadInv
  <2> QED
    BY <2>1, <2>2, <2>3, <2>4, <2>5, <2>6, <2>7, <2>8, <2>9, <2>10, <2>11, <2>12,
       <2>13, <2>14 DEF B!Next
<1> QED
  BY <1>1, <1>2, PTL DEF B!Spec

\* Every state has its type.
THEOREM UploadTypeCorrect == B!Spec => []B!TypeOK
BY UploadSafety, PTL DEF UploadInv

\* A queued job that shows as pending is one the broker holds a message for.
THEOREM PendingJobsAreHeld == B!Spec => []PendingIsHeld
BY UploadSafety, PTL DEF UploadInv

-----------------------------------------------------------------------------
\* The handlers of j that have not inserted its draft and still may.
Undecided(j) == {n \in Delivery : stage[j][n] \in {"held", "reading"}}

\* The drafts there are and those that may come are no more than the deliveries.
DraftBudget ==
  \A j \in Job : drafts[j] + Cardinality(Undecided(j)) <= delivered[j]

\* The handlers of a job are finitely many, as its deliveries are.
LEMMA UndecidedIsFinite ==
  \A j \in Job : IsFiniteSet(Undecided(j)) /\ Cardinality(Undecided(j)) \in Nat
<1> SUFFICES ASSUME NEW j \in Job
             PROVE IsFiniteSet(Undecided(j)) /\ Cardinality(Undecided(j)) \in Nat
  OBVIOUS
<1>1. IsFiniteSet(Delivery)
  BY MaxFaultsIsNatural, FS_Interval DEF Delivery
<1>2. Undecided(j) \subseteq Delivery
  BY DEF Undecided
<1> QED
  BY <1>1, <1>2, FS_Subset, FS_CardinalityType

\* A delivery adds one handler that may insert, an insert takes one away.
LEMMA BudgetIsKept == UploadInv /\ DraftBudget /\ [B!Next]_(B!vars) => DraftBudget'
<1> SUFFICES ASSUME UploadInv, DraftBudget, [B!Next]_(B!vars), NEW k \in Job
             PROVE (drafts[k] + Cardinality(Undecided(k)) <= delivered[k])'
  BY DEF DraftBudget
<1> USE MaxFaultsIsNatural, OneVocabulary
<1> USE DEF UploadInv, B!TypeOK, B!request, B!broker, B!HandedOut, B!PutBack, B!Fault
<1> DEFINE Kept == drafts'[k] = drafts[k] /\ delivered'[k] = delivered[k]
<1>1. drafts[k] + Cardinality(Undecided(k)) <= delivered[k]
  BY DEF DraftBudget
<1>2. IsFiniteSet(Undecided(k)) /\ Cardinality(Undecided(k)) \in Nat
  BY UndecidedIsFinite
<1>3. ASSUME Kept, Undecided(k)' \subseteq Undecided(k)
      PROVE (drafts[k] + Cardinality(Undecided(k)) <= delivered[k])'
  <2>1. /\ Cardinality(Undecided(k)') <= Cardinality(Undecided(k))
        /\ Cardinality(Undecided(k)') \in Nat
    BY <1>2, <1>3, FS_Subset, FS_CardinalityType
  <2> QED
    BY <1>1, <1>2, <1>3, <2>1
<1>4. CASE UNCHANGED <<stage, drafts, delivered>>
  BY <1>3, <1>4 DEF Undecided
<1>5. CASE B!ServiceRestarts
  <2>1. Undecided(k)' = {}
    BY <1>5 DEF B!ServiceRestarts, Undecided
  <2> QED
    BY <1>3, <1>5, <2>1 DEF B!ServiceRestarts
<1>6. ASSUME NEW j \in Job, B!Deliver(j)
      PROVE (drafts[k] + Cardinality(Undecided(k)) <= delivered[k])'
  <2>1. CASE j # k
    <3>1. Undecided(k)' = Undecided(k) /\ Kept
      BY <1>6, <2>1 DEF B!Deliver, Undecided
    <3> QED
      BY <1>3, <3>1
  <2>2. CASE j = k
    <3> DEFINE n == delivered[k] + 1
    <3>1. n \in Delivery /\ n \notin Undecided(k)
      BY <1>6, <2>2 DEF B!Deliver, Redelivery, HandlersAreDelivered, Undecided, Delivery
    <3>2. Undecided(k)' = Undecided(k) \cup {n}
      BY <1>6, <2>2, <3>1 DEF B!Deliver, Undecided
    <3>3. Cardinality(Undecided(k)') = Cardinality(Undecided(k)) + 1
      BY <1>2, <3>1, <3>2, FS_AddElement
    <3>4. drafts'[k] = drafts[k] /\ delivered'[k] = delivered[k] + 1
      BY <1>6, <2>2 DEF B!Deliver
    <3> QED
      BY <1>1, <1>2, <3>3, <3>4
  <2> QED
    BY <2>1, <2>2
<1>7. ASSUME NEW j \in Job, NEW n \in Delivery,
             B!Begin(j, n) \/ B!BeginFails(j, n) \/ B!Conclude(j, n)
      PROVE (drafts[k] + Cardinality(Undecided(k)) <= delivered[k])'
  <2>1. Undecided(k)' \subseteq Undecided(k) /\ Kept
    BY <1>7 DEF B!Begin, B!BeginFails, B!Conclude, Undecided
  <2> QED
    BY <1>3, <2>1
<1>8. ASSUME NEW j \in Job, NEW n \in Delivery, B!Insert(j, n)
      PROVE (drafts[k] + Cardinality(Undecided(k)) <= delivered[k])'
  <2>1. CASE j # k
    <3>1. Undecided(k)' = Undecided(k) /\ Kept
      BY <1>8, <2>1 DEF B!Insert, Undecided
    <3> QED
      BY <1>3, <3>1
  <2>2. CASE j = k
    <3>1. n \in Undecided(k)
      BY <1>8, <2>2 DEF B!Insert, Undecided
    <3>2. Undecided(k)' = Undecided(k) \ {n}
      BY <1>8, <2>2 DEF B!Insert, Undecided
    <3>3. Cardinality(Undecided(k)') = Cardinality(Undecided(k)) - 1
      BY <1>2, <3>1, <3>2, FS_RemoveElement
    <3>4. drafts'[k] = drafts[k] + 1 /\ delivered'[k] = delivered[k]
      BY <1>8, <2>2 DEF B!Insert
    <3> QED
      BY <1>1, <1>2, <3>3, <3>4
  <2> QED
    BY <2>1, <2>2
<1> HIDE DEF UploadInv
<1> QED
  BY <1>4, <1>5, <1>6, <1>7, <1>8
     DEF B!Next, B!vars, B!request, B!broker, B!Answer, B!ConnectionLost, B!PollTick,
         B!PollFails, B!Save,
         B!Publish, B!Ack

\* More than one draft of a document means more than one delivery of its message,
\* and that a fault for each.
THEOREM DraftsNeedDeliveries == B!Spec => []DraftsAreBounded
<1>1. B!Init => DraftBudget
  <2> SUFFICES ASSUME B!Init, NEW j \in Job
               PROVE drafts[j] + Cardinality(Undecided(j)) <= delivered[j]
    BY DEF DraftBudget
  <2>1. Undecided(j) = {}
    BY DEF B!Init, Undecided, Delivery, B!Delivery
  <2> QED
    BY <2>1, FS_EmptySet DEF B!Init
<1>2. UploadInv /\ DraftBudget => DraftsAreBounded
  BY UndecidedIsFinite, MaxFaultsIsNatural
     DEF UploadInv, B!TypeOK, DraftBudget, Redelivery, DraftsAreBounded
<1> QED
  BY <1>1, <1>2, BudgetIsKept, UploadSafety, PTL DEF B!Spec

-----------------------------------------------------------------------------
(***************************************************************************)
(* The customer reminders.                                                 *)
(***************************************************************************)

\* Only runs in progress hold rows.
IdleRunsAreEmpty ==
  \A r \in Run \ active : todo[r] = {} /\ mailed[r] = Nobody

\* A row some run still holds was due when the run read it, which was today: it
\* is still due, or another run has marked it today.
HeldRowsWereDue ==
  \A r \in Run, i \in Invoice : i \in todo[r] \/ mailed[r] = i => age[i] \in {0, Every}

\* Between its mail and its mark a row's latest mail is of today.
MailedToday ==
  \A r \in Run, i \in Invoice : mailed[r] = i => mailAge[i] = 0

\* The count a run read, and after the mail the count it will write, are no more
\* than the mails sent.
SeenIsHonest ==
  \A r \in Run, i \in Invoice :
    /\ seen[r][i] <= sent[i]
    /\ mailed[r] = i => R!Plus1(seen[r][i]) <= sent[i]

RemindersInv ==
  /\ R!TypeOK
  /\ IdleRunsAreEmpty
  /\ HeldRowsWereDue
  /\ MailedToday
  /\ SeenIsHonest
  /\ MarkedWasMailed
  /\ CountIsHonest

\* RemindersInv is inductive: no failure, timeout or overlap breaks any part of it.
THEOREM RemindersSafety == R!Spec => []RemindersInv
<1> USE EveryIsPositive, RetriesIsNatural, MaxCountIsNatural, NobodyIsNone
<1> USE DEF RemindersInv, R!TypeOK, IdleRunsAreEmpty, HeldRowsWereDue, MailedToday, SeenIsHonest,
            MarkedWasMailed, CountIsHonest, R!row, R!cron, R!work, R!history, R!Later, R!Plus1
<1>1. R!Init => RemindersInv
  BY DEF R!Init
<1>2. RemindersInv /\ [R!Next]_(R!vars) => RemindersInv'
  <2> SUFFICES ASSUME RemindersInv, [R!Next]_(R!vars) PROVE RemindersInv'
    OBVIOUS
  <2>1. ASSUME NEW i \in Invoice, R!Pay(i) PROVE RemindersInv'
    BY <2>1 DEF R!Pay
  <2>2. CASE R!SweepFind
    BY <2>2 DEF R!SweepFind
  <2>3. CASE R!SweepMark
    BY <2>3 DEF R!SweepMark
  <2>4. CASE R!AttemptTimesOut
    BY <2>4 DEF R!AttemptTimesOut
  <2>5. CASE R!NextDay
    BY <2>5 DEF R!NextDay
  <2>6. ASSUME NEW r \in Run, R!Attempt(r) PROVE RemindersInv'
    <3>1. CASE UNCHANGED <<waiting, again, R!work>>
      BY <2>6, <3>1 DEF R!Attempt
    <3>2. CASE /\ waiting' = r
               /\ again' = FALSE
               /\ active' = active \cup {r}
               /\ todo' = [todo EXCEPT ![r] = R!Due]
               /\ seen' = [seen EXCEPT
                             ![r] = [i \in Invoice |-> IF i \in R!Due THEN count[i] ELSE 0]]
               /\ UNCHANGED mailed
      <4>1. R!TypeOK'
        <5>1. R!Due \in SUBSET Invoice
          BY DEF R!Due
        <5>2. [i \in Invoice |-> IF i \in R!Due THEN count[i] ELSE 0] \in [Invoice -> 0..MaxCount]
          OBVIOUS
        <5>3. attempts' \in 0..(Retries + 1)
          BY <2>6 DEF R!Attempt
        <5> QED
          BY <2>6, <3>2, <5>1, <5>2, <5>3 DEF R!Attempt
      <4>2. SeenIsHonest'
        BY <2>6, <3>2 DEF R!Attempt, R!Due
      <4>3. IdleRunsAreEmpty' /\ HeldRowsWereDue'
        BY <2>6, <3>2 DEF R!Attempt, R!Due
      <4> QED
        BY <2>6, <3>2, <4>1, <4>2, <4>3 DEF R!Attempt
    <3> QED
      BY <2>6, <3>1, <3>2 DEF R!Attempt
  <2>7. ASSUME NEW r \in Run, NEW i \in Invoice, R!Send(r, i) PROVE RemindersInv'
    BY <2>7 DEF R!Send
  <2>8. ASSUME NEW r \in Run, NEW i \in Invoice, R!Skip(r, i) PROVE RemindersInv'
    BY <2>8 DEF R!Skip
  <2>9. ASSUME NEW r \in Run, R!Mark(r) PROVE RemindersInv'
    BY <2>9 DEF R!Mark
  <2>10. ASSUME NEW r \in Run, R!Finish(r) PROVE RemindersInv'
    BY <2>10 DEF R!Finish, R!Ends
  <2>11. ASSUME NEW r \in Run, R!Abort(r) PROVE RemindersInv'
    BY <2>11 DEF R!Abort, R!Ends
  <2>12. CASE UNCHANGED R!vars
    BY <2>12 DEF R!vars
  <2> HIDE DEF RemindersInv
  <2> QED
    BY <2>1, <2>2, <2>3, <2>4, <2>5, <2>6, <2>7, <2>8, <2>9, <2>10, <2>11, <2>12 DEF R!Next
<1> QED
  BY <1>1, <1>2, PTL DEF R!Spec

\* Every state has its type.
THEOREM RemindersTypeCorrect == R!Spec => []R!TypeOK
BY RemindersSafety, PTL DEF RemindersInv

\* An invoice marked as reminded was mailed on that day or later.
THEOREM MarkFollowsMail == R!Spec => []MarkedWasMailed
<1>1. RemindersInv => MarkedWasMailed
  BY DEF RemindersInv
<1> QED
  BY <1>1, RemindersSafety, PTL

\* reminder_count never counts a mail that was not sent.
THEOREM CountStaysHonest == R!Spec => []CountIsHonest
<1>1. RemindersInv => CountIsHonest
  BY DEF RemindersInv
<1> QED
  BY <1>1, RemindersSafety, PTL

\* last_reminder_on only moves when it is due to.
THEOREM MarksStaySpaced == R!Spec => R!MarksAreSpaced
<1>1. RemindersInv /\ [R!Next]_(R!vars)
        => [\A i \in Invoice : age'[i] < age[i] => age[i] = Every]_(R!vars)
  <2> SUFFICES ASSUME RemindersInv, [R!Next]_(R!vars), NEW i \in Invoice, age'[i] < age[i]
               PROVE  age[i] = Every
    OBVIOUS
  <2> USE EveryIsPositive, NobodyIsNone DEF R!row, R!work, R!history, R!cron
  <2>1. PICK r \in Run : R!Mark(r)
    <3>1. age' # age
      BY DEF RemindersInv, R!TypeOK
    <3>2. ~R!NextDay
      BY EveryIsPositive DEF R!NextDay, R!Later, RemindersInv, R!TypeOK
    <3> QED
      BY <3>1, <3>2 DEF R!Next, R!vars, R!Pay, R!SweepFind, R!SweepMark, R!AttemptTimesOut,
                        R!Attempt, R!Send, R!Skip, R!Finish, R!Abort, R!Ends
  <2> QED
    BY <2>1 DEF R!Mark, RemindersInv, R!TypeOK, HeldRowsWereDue
<1> QED
  BY <1>1, RemindersSafety, PTL DEF R!Spec, R!MarksAreSpaced

-----------------------------------------------------------------------------
(***************************************************************************)
(* At most one mail per attempt: the attempts made today cover the mails   *)
(* sent today and the runs that still hold the row.                        *)
(***************************************************************************)

Holders(i) == {r \in Run : i \in todo[r]}

MailsAreCovered ==
  \A i \in Invoice : mailsToday[i] + Cardinality(Holders(i)) <= attempts

\* A set of runs is finite, and has a natural number of members.
LEMMA HoldersAreFinite ==
  ASSUME NEW S \in SUBSET Run
  PROVE  IsFiniteSet(S) /\ Cardinality(S) \in Nat
BY RunIsFinite, FS_Subset, FS_CardinalityType

\* Fewer holders, no new mail and no fewer attempts keep the mails covered.
LEMMA FewerHolders ==
  ASSUME R!TypeOK, MailsAreCovered, UNCHANGED <<attempts, mailsToday>>,
         \A i \in Invoice : Holders(i)' \subseteq Holders(i)
  PROVE  MailsAreCovered'
<1> SUFFICES ASSUME NEW i \in Invoice
             PROVE  mailsToday[i] + Cardinality(Holders(i)') <= attempts
  BY DEF MailsAreCovered
<1>1. Holders(i) \in SUBSET Run /\ Holders(i)' \in SUBSET Holders(i)
  BY DEF Holders
<1>2. Cardinality(Holders(i)') <= Cardinality(Holders(i))
  BY <1>1, HoldersAreFinite, FS_Subset
<1>3. Cardinality(Holders(i)') \in Nat /\ Cardinality(Holders(i)) \in Nat
  BY <1>1, HoldersAreFinite
<1> QED
  BY <1>2, <1>3, RetriesIsNatural DEF MailsAreCovered, R!TypeOK

\* An attempt of the cron mails an invoice at most once.
THEOREM OneMailEach == R!Spec => []OneMailPerAttempt
<1> USE RetriesIsNatural
<1>1. R!Init => MailsAreCovered
  BY FS_EmptySet DEF R!Init, MailsAreCovered, Holders
<1>2. RemindersInv /\ MailsAreCovered /\ [R!Next]_(R!vars) => MailsAreCovered'
  <2> SUFFICES ASSUME RemindersInv, MailsAreCovered, [R!Next]_(R!vars) PROVE MailsAreCovered'
    OBVIOUS
  <2>0. R!TypeOK
    BY DEF RemindersInv
  <2> USE DEF R!row, R!cron, R!work, R!history
  <2>1. CASE R!NextDay
    <3>1. ASSUME NEW i \in Invoice PROVE Holders(i)' = {}
      BY <2>1 DEF R!NextDay, Holders, RemindersInv, IdleRunsAreEmpty
    <3>2. ASSUME NEW i \in Invoice PROVE mailsToday'[i] + Cardinality(Holders(i)') <= attempts'
      <4>1. mailsToday'[i] = 0 /\ attempts' = 0
        BY <2>1 DEF R!NextDay
      <4> QED
        BY <3>1, <4>1, FS_EmptySet
    <3> QED
      BY <3>2 DEF MailsAreCovered
  <2>2. ASSUME NEW r \in Run, R!Attempt(r) PROVE MailsAreCovered'
    <3> SUFFICES ASSUME NEW i \in Invoice
                 PROVE  mailsToday'[i] + Cardinality(Holders(i)') <= attempts'
      BY DEF MailsAreCovered
    <3>1. Holders(i) \in SUBSET Run /\ Holders(i)' \in SUBSET (Holders(i) \cup {r})
      BY <2>0, <2>2 DEF R!Attempt, Holders, R!TypeOK
    <3>2. Cardinality(Holders(i) \cup {r}) <= Cardinality(Holders(i)) + 1
      BY <3>1, HoldersAreFinite, FS_AddElement
    <3>3. Cardinality(Holders(i)') <= Cardinality(Holders(i) \cup {r})
      BY <3>1, HoldersAreFinite, FS_Subset, FS_AddElement
    <3>4. Cardinality(Holders(i)') \in Nat /\ Cardinality(Holders(i)) \in Nat
           /\ Cardinality(Holders(i) \cup {r}) \in Nat
      BY <3>1, HoldersAreFinite
    <3>5. attempts' = attempts + 1 /\ mailsToday' = mailsToday
      BY <2>2 DEF R!Attempt
    <3> QED
      BY <2>0, <3>2, <3>3, <3>4, <3>5 DEF MailsAreCovered, R!TypeOK
  <2>3. ASSUME NEW r \in Run, NEW i \in Invoice, R!Send(r, i) PROVE MailsAreCovered'
    <3> SUFFICES ASSUME NEW j \in Invoice
                 PROVE  mailsToday'[j] + Cardinality(Holders(j)') <= attempts'
      BY DEF MailsAreCovered
    <3>1. Holders(j) \in SUBSET Run
      BY DEF Holders
    <3>2. mailsToday[j] \in Nat /\ Cardinality(Holders(j)) \in Nat /\ attempts \in Nat
           /\ attempts' = attempts
      BY <2>0, <2>3, <3>1, HoldersAreFinite DEF R!TypeOK, R!Send
    <3>3. CASE j = i
      <4>1. r \in Holders(i) /\ Holders(i)' = Holders(i) \ {r} /\ mailsToday'[i] = mailsToday[i] + 1
        BY <2>0, <2>3 DEF R!Send, Holders, R!TypeOK
      <4>2. Cardinality(Holders(i)') = Cardinality(Holders(i)) - 1
        BY <3>1, <3>3, <4>1, HoldersAreFinite, FS_RemoveElement
      <4> QED
        BY <3>2, <3>3, <4>1, <4>2 DEF MailsAreCovered
    <3>4. CASE j # i
      <4>1. Holders(j)' = Holders(j) /\ mailsToday'[j] = mailsToday[j]
        BY <2>0, <2>3, <3>4 DEF R!Send, Holders, R!TypeOK
      <4> QED
        BY <3>2, <4>1 DEF MailsAreCovered
    <3> QED
      BY <3>3, <3>4
  <2>4. ASSUME UNCHANGED <<attempts, mailsToday, todo>> PROVE MailsAreCovered'
    BY <2>0, <2>4, FewerHolders DEF Holders
  <2>5. ASSUME NEW r \in Run, NEW i \in Invoice, R!Skip(r, i) PROVE MailsAreCovered'
    BY <2>0, <2>5, FewerHolders DEF R!Skip, Holders, R!TypeOK
  <2>6. ASSUME NEW r \in Run, R!Finish(r) \/ R!Abort(r) PROVE MailsAreCovered'
    BY <2>0, <2>6, FewerHolders DEF R!Finish, R!Abort, R!Ends, Holders, R!TypeOK
  <2> QED
    BY <2>1, <2>2, <2>3, <2>4, <2>5, <2>6
       DEF R!Next, R!vars, R!Pay, R!SweepFind, R!SweepMark, R!AttemptTimesOut, R!Mark
<1>3. RemindersInv /\ MailsAreCovered => OneMailPerAttempt
  <2> SUFFICES ASSUME RemindersInv, MailsAreCovered, NEW i \in Invoice
               PROVE  mailsToday[i] <= attempts
    BY DEF OneMailPerAttempt
  <2>1. Cardinality(Holders(i)) \in Nat
    BY HoldersAreFinite DEF Holders
  <2> QED
    BY <2>1 DEF MailsAreCovered, RemindersInv, R!TypeOK
<1> QED
  BY <1>1, <1>2, <1>3, RemindersSafety, PTL DEF R!Spec
=============================================================================
