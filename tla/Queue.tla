------------------------------- MODULE Queue --------------------------------
(***************************************************************************)
(* A durable queue of RabbitMQ as its consumer sees it, with manual        *)
(* acknowledgements and a prefetch count: notify.outbound (Outbox) and     *)
(* ocr.bulk (BulkUpload).  The broker keeps what it has accepted, and      *)
(* delivers again what was not acknowledged when the channel is lost.      *)
(***************************************************************************)
EXTENDS Faults

CONSTANT Prefetch  \* prefetch_count of the consumer's channel

ASSUME PrefetchIsPositive == Prefetch \in Nat \ {0}

VARIABLES
  ready,   \* messages in the queue, not delivered
  unacked  \* messages delivered on the consumer's channel, not acknowledged

\* prefetch_count bounds what is delivered and not settled.
HandedOut(m) ==
  /\ m \in ready
  /\ Cardinality(unacked) < Prefetch
  /\ ready' = ready \ {m}
  /\ unacked' = unacked \cup {m}

\* The channel is gone: what was unacked is ready again.
PutBack == ready' = ready \cup unacked /\ unacked' = {}
=============================================================================
