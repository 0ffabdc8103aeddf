---------------------------- MODULE MCMessaging -----------------------------
(***************************************************************************)
(* The message queue: its connection, with three connections, two          *)
(* reconnection attempts and two application calls, or the delivery of two *)
(* messages through two service queues and one queue of a subscriber, with *)
(* two concurrent users of the dead letter handler; three webhooks over a  *)
(* log of two; one call under the retry policy; and two read replicas with *)
(* two queries.  Delivery begins on an established connection, and the     *)
(* others use none, so each behaviour exercises one of them.               *)
(***************************************************************************)
EXTENDS MessageQueue, MessageDelivery, Webhooks, Resilience

CONSTANTS Parts, m1, m2

MCServices == {"payment", "wallet"}
MCSubscribers == {"events"}
MCKey == [id \in Ids |-> "payment"]

\* The pattern of a subscription: one service's keys, or none at all.
MCPatterns == {{"payment"}, {}}

\* The binding _setupInfrastructure() makes, and the same with one service's
\* dead letter key bound by an operator.
DlqAsShipped == {Hash}
DlqRebound == {Hash, "payment"}

-----------------------------------------------------------------------------
VARIABLE part

MCVars == <<part, vars, deliveryVars, webhookVars, retryVars, replicaVars>>

MCInit ==
  /\ part \in Parts
  /\ Init
  /\ DeliveryInit
  /\ WebhooksInit
  /\ RetryInit
  /\ ReplicaInit

MCNext ==
  /\ UNCHANGED part
  /\ \/ part = "connection" /\ Next /\ UNCHANGED <<deliveryVars, webhookVars, retryVars, replicaVars>>
     \/ part = "delivery" /\ DeliveryNext /\ UNCHANGED <<vars, webhookVars, retryVars, replicaVars>>
     \/ part = "webhooks" /\ WebhooksNext /\ UNCHANGED <<vars, deliveryVars, retryVars, replicaVars>>
     \/ part = "retries" /\ RetryNext /\ UNCHANGED <<vars, deliveryVars, webhookVars, replicaVars>>
     \/ part = "replicas" /\ ReplicaNext /\ UNCHANGED <<vars, deliveryVars, webhookVars, retryVars>>

MCSpec ==
  /\ MCInit /\ [][MCNext]_MCVars
  /\ Fairness /\ WebhooksFairness /\ RetryFair /\ ReplicaFair

-----------------------------------------------------------------------------
(* A dispatched webhook and a call under the retry policy end, by an       *)
(* answer, an error, or their last attempt (webhook-manager.js,            *)
(* retry-policy.js).                                                       *)
CallsEnd == DispatchesEnd /\ ExecuteEnds
=============================================================================
