------------------------------- MODULE Outbox -------------------------------
(***************************************************************************)
(* Outbound notifications: the web BFF publishes one message per payment   *)
(* received or invoice sent (apps/web/server/queue.ts) to the RabbitMQ     *)
(* queue notify.outbound, and the notification service mails it            *)
(* (services/notification-service/app/queue.py).                           *)
(* The publisher caches a connection and a channel in module variables,    *)
(* set and read across awaits by concurrent calls; a connection is named   *)
(* by the call that opened it.  The broker keeps what a durable queue has  *)
(* accepted, and delivers again what was not acknowledged.                 *)
(***************************************************************************)
EXTENDS Queue

CONSTANTS Msg,        \* messages, one publishNotification call each
          None        \* no channel cached

ASSUME NoneIsNoMessage == None \notin Msg

VARIABLES
  call,       \* [Msg -> ...], where the publishNotification call is
  channel,    \* the publisher's cached channel, by the call that opened it
  alive,      \* connections of the publisher that still reach the broker
  closing,    \* lost connections whose close event is not handled yet
  up,         \* the broker is up
  declared,   \* the queue notify.outbound exists
  dead,       \* messages in notify.outbound.dlq
  subscribed, \* the consumer's channel is open and consuming
  task,       \* [Msg -> ...], the handler of the delivery that is unacked
  stale,      \* handlers of deliveries whose channel is gone, not run yet
  routed,     \* history: messages the queue has accepted
  refused,    \* history: messages whose mail the SMTP server did not take
  mails       \* history: [Msg -> Nat], mails sent

publisher == <<call, channel, alive, closing>>
broker == <<up, declared, ready, dead>>
consumer == <<unacked, subscribed, task, stale>>
history == <<routed, refused, mails, faults>>
vars == <<publisher, broker, consumer, history>>

Calls == {"new", "connecting", "creating", "assertingDlq", "assertingQueue", "sent", "failed"}

TypeOK ==
  /\ call \in [Msg -> Calls]
  /\ channel \in Msg \cup {None}
  /\ alive \in SUBSET Msg
  /\ closing \in SUBSET Msg
  /\ up \in BOOLEAN
  /\ declared \in BOOLEAN
  /\ ready \in SUBSET Msg
  /\ unacked \in SUBSET Msg
  /\ dead \in SUBSET Msg
  /\ subscribed \in BOOLEAN
  /\ task \in [Msg -> {"none", "held", "done", "raised"}]
  /\ stale \in SUBSET Msg
  /\ routed \in SUBSET Msg
  /\ refused \in SUBSET Msg
  /\ mails \in [Msg -> Nat]
  /\ faults \in 0..MaxFaults

Init ==
  /\ call = [m \in Msg |-> "new"]
  /\ channel = None
  /\ alive = {}
  /\ closing = {}
  /\ up \in BOOLEAN
  /\ declared = FALSE
  /\ ready = {}
  /\ unacked = {}
  /\ dead = {}
  /\ subscribed = FALSE
  /\ task = [m \in Msg |-> "none"]
  /\ stale = {}
  /\ routed = {}
  /\ refused = {}
  /\ mails = [m \in Msg |-> 0]
  /\ faults = 0

-----------------------------------------------------------------------------
(***************************************************************************)
(* The publisher.                                                          *)
(***************************************************************************)

\* What the broker makes of m on connection c: a message for a queue that does
\* not exist is dropped, and one written to a lost connection goes nowhere.
Routes(m, c, exists) ==
  IF c \in alive /\ exists
    THEN ready' = ready \cup {m} /\ routed' = routed \cup {m}
    ELSE UNCHANGED <<ready, routed>>

\* getChannel returns a cached channel at once, and sendToQueue writes to it:
\* there is no confirm, so the call ends well whatever happens to the message.
PublishOnCached(m) ==
  /\ call[m] = "new"
  /\ channel # None
  /\ call' = [call EXCEPT ![m] = "sent"]
  /\ Routes(m, channel, declared)
  /\ UNCHANGED <<channel, alive, closing, up, declared, dead, consumer,
                 refused, mails, faults>>

PublishConnects(m) ==
  /\ call[m] = "new"
  /\ channel = None
  /\ call' = [call EXCEPT ![m] = "connecting"]
  /\ UNCHANGED <<channel, alive, closing, broker, consumer, history>>

\* amqp.connect resolves, or rejects when the broker is down; publishNotification
\* swallows any error.
Connected(m) ==
  /\ call[m] = "connecting"
  /\ IF up THEN /\ call' = [call EXCEPT ![m] = "creating"]
                /\ alive' = alive \cup {m}
           ELSE /\ call' = [call EXCEPT ![m] = "failed"]
                /\ UNCHANGED alive
  /\ UNCHANGED <<channel, closing, broker, consumer, history>>

\* The channel is cached as soon as it exists, before its queues are asserted.
ChannelCreated(m) ==
  /\ call[m] = "creating"
  /\ IF m \in alive THEN /\ call' = [call EXCEPT ![m] = "assertingDlq"]
                         /\ channel' = m
                    ELSE /\ call' = [call EXCEPT ![m] = "failed"]
                         /\ UNCHANGED channel
  /\ UNCHANGED <<alive, closing, broker, consumer, history>>

\* Mutant of DlqAsserted: the wait for the broker's answer has no error path.
DlqAssertedOrWaiting(m) ==
  /\ call[m] = "assertingDlq"
  /\ channel \in alive
  /\ call' = [call EXCEPT ![m] = "assertingQueue"]
  /\ UNCHANGED <<channel, alive, closing, broker, consumer, history>>

\* Both asserts go to the module's channel, which may be another call's by now,
\* or none: then the call throws.
DlqAsserted(m) ==
  /\ call[m] = "assertingDlq"
  /\ call' = [call EXCEPT ![m] = IF channel \in alive THEN "assertingQueue" ELSE "failed"]
  /\ UNCHANGED <<channel, alive, closing, broker, consumer, history>>

\* The queue exists, and the call sends on the module's channel.
QueueAsserted(m) ==
  /\ call[m] = "assertingQueue"
  /\ IF channel \in alive
       THEN /\ declared' = TRUE
            /\ call' = [call EXCEPT ![m] = "sent"]
            /\ Routes(m, channel, TRUE)
       ELSE /\ call' = [call EXCEPT ![m] = "failed"]
            /\ UNCHANGED <<declared, ready, routed>>
  /\ UNCHANGED <<channel, alive, closing, up, dead, consumer, refused, mails, faults>>

\* Mutant of CloseEvent: only the connection variable is cleared.
CloseEventKeepsChannel(m) ==
  /\ m \in closing
  /\ closing' = closing \ {m}
  /\ UNCHANGED <<call, channel, alive, broker, consumer, history>>

\* The close event of a connection clears the cache, whoever's channel is in it.
CloseEvent(m) ==
  /\ m \in closing
  /\ closing' = closing \ {m}
  /\ channel' = None
  /\ UNCHANGED <<call, alive, broker, consumer, history>>

-----------------------------------------------------------------------------
(***************************************************************************)
(* The broker and the restarts.                                            *)
(***************************************************************************)

\* The consumer's channel is gone: what was unacked is ready again, and handlers
\* that have not run yet will run all the same; those that ran cannot ack.
ChannelLost ==
  /\ subscribed' = FALSE
  /\ PutBack
  /\ task' = [m \in Msg |-> "none"]

BrokerStops ==
  /\ up
  /\ Fault
  /\ up' = FALSE
  /\ alive' = {}
  /\ closing' = closing \cup alive
  /\ ChannelLost
  /\ stale' = stale \cup {m \in Msg : task[m] = "held"}
  /\ UNCHANGED <<call, channel, declared, dead, routed, refused, mails>>

BrokerStarts ==
  /\ ~up
  /\ up' = TRUE
  /\ UNCHANGED <<publisher, declared, ready, dead, consumer, history>>

ServiceRestarts ==
  /\ Fault
  /\ ChannelLost
  /\ stale' = {}
  /\ UNCHANGED <<publisher, up, declared, dead, routed, refused, mails>>

-----------------------------------------------------------------------------
(***************************************************************************)
(* The consumer.                                                           *)
(***************************************************************************)

\* Mutant of Subscribe: a connection that is not robust.
SubscribeOnce ==
  /\ up
  /\ ~subscribed
  /\ faults = 0
  /\ subscribed' = TRUE
  /\ declared' = TRUE
  /\ UNCHANGED <<publisher, up, ready, dead, unacked, task, stale, history>>

\* start_consumer retries until the broker is up, the robust connection comes
\* back after that; either declares the queues.
Subscribe ==
  /\ up
  /\ ~subscribed
  /\ subscribed' = TRUE
  /\ declared' = TRUE
  /\ UNCHANGED <<publisher, up, ready, dead, unacked, task, stale, history>>

Deliver(m) ==
  /\ subscribed
  /\ HandedOut(m)
  /\ task' = [task EXCEPT ![m] = "held"]
  /\ UNCHANGED <<publisher, up, declared, dead, subscribed, stale, history>>

\* send_direct_email blocks the loop, so a handler runs in one piece.  It mails,
\* or is refused by SMTP and returns False, which the handler ignores, ...
Mailing(m) ==
  \/ mails' = [mails EXCEPT ![m] = @ + 1] /\ UNCHANGED refused
  \/ refused' = refused \cup {m} /\ UNCHANGED mails

\* ... or raises before any mail went out (a payload that is not as expected).
Handle(m) ==
  /\ task[m] = "held"
  /\ \/ Mailing(m) /\ task' = [task EXCEPT ![m] = "done"]
     \/ task' = [task EXCEPT ![m] = "raised"] /\ UNCHANGED <<mails, refused>>
  /\ UNCHANGED <<publisher, broker, unacked, subscribed, stale, routed, faults>>

\* A handler whose channel is gone still mails; its ack goes nowhere.
HandleStale(m) ==
  /\ m \in stale
  /\ stale' = stale \ {m}
  /\ Mailing(m) \/ UNCHANGED <<mails, refused>>
  /\ UNCHANGED <<publisher, broker, unacked, subscribed, task, routed, faults>>

\* Mutants of Settle: an exception is swallowed, as in the OCR bulk consumer;
\* and a message put back where it should be acknowledged.
SettleSilently(m) ==
  /\ task[m] \in {"done", "raised"}
  /\ task' = [task EXCEPT ![m] = "none"]
  /\ unacked' = unacked \ {m}
  /\ UNCHANGED <<publisher, broker, subscribed, stale, history>>

SettleByRequeue(m) ==
  /\ task[m] \in {"done", "raised"}
  /\ task' = [task EXCEPT ![m] = "none"]
  /\ unacked' = unacked \ {m}
  /\ ready' = ready \cup {m}
  /\ UNCHANGED <<publisher, up, declared, dead, subscribed, stale, history>>

\* message.process() on exit: ack, or reject without requeue, which the queue's
\* arguments turn into a dead letter.
Settle(m) ==
  /\ task[m] \in {"done", "raised"}
  /\ task' = [task EXCEPT ![m] = "none"]
  /\ unacked' = unacked \ {m}
  /\ dead' = IF task[m] = "raised" THEN dead \cup {m} ELSE dead
  /\ UNCHANGED <<publisher, up, declared, ready, subscribed, stale, history>>

-----------------------------------------------------------------------------
Next ==
  \/ BrokerStops
  \/ BrokerStarts
  \/ ServiceRestarts
  \/ Subscribe
  \/ \E m \in Msg : \/ PublishOnCached(m)
                    \/ PublishConnects(m)
                    \/ Connected(m)
                    \/ ChannelCreated(m)
                    \/ DlqAsserted(m)
                    \/ QueueAsserted(m)
                    \/ CloseEvent(m)
                    \/ Deliver(m)
                    \/ Handle(m)
                    \/ HandleStale(m)
                    \/ Settle(m)

Spec == Init /\ [][Next]_vars

\* Sockets answer or fail, the broker comes back, and the consumer keeps going.
\* Nobody has to publish.
Fairness ==
  /\ WF_vars(BrokerStarts)
  /\ WF_vars(Subscribe)
  /\ \A m \in Msg : /\ WF_vars(Connected(m))
                    /\ WF_vars(ChannelCreated(m))
                    /\ WF_vars(DlqAsserted(m))
                    /\ WF_vars(QueueAsserted(m))
                    /\ WF_vars(Deliver(m))
                    /\ WF_vars(Handle(m))
                    /\ WF_vars(Settle(m))

FairSpec == Spec /\ Fairness

-----------------------------------------------------------------------------
(***************************************************************************)
(* Safety.                                                                 *)
(***************************************************************************)

Attempted(m) == mails[m] > 0 \/ m \in refused \/ m \in dead

\* What the queue has accepted is never lost: it waits, is with the consumer, or
\* a mail of it was tried, and a handler that raised left a dead letter.
QueuedIsKept ==
  \A m \in routed : m \in ready \cup unacked \/ Attempted(m)

\* Delivery is at least once, and a repetition is always the work of a restart.
MailsAreBounded == \A m \in Msg : mails[m] <= 1 + faults

\* The publisher never sits on a dead channel for good: a cached channel whose
\* connection is lost has a close event coming that clears the cache, however
\* many concurrent calls have overwritten it.
CacheRecovers == channel \in alive \cup closing \cup {None}

(***************************************************************************)
(* Liveness.                                                               *)
(***************************************************************************)

\* An accepted message is mailed, refused by SMTP or dead-lettered in the end.
QueuedIsAttempted == \A m \in Msg : m \in routed ~> Attempted(m)

\* A publishNotification call returns, also when the connection is lost or the
\* cache is cleared between two of its awaits: the mutation waits for it.
PublishReturns == \A m \in Msg : call[m] # "new" ~> call[m] \in {"sent", "failed"}

=============================================================================
