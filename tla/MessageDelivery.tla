-------------------------- MODULE MessageDelivery --------------------------
(***************************************************************************)
(* What happens to a message between publish() and its end: the broker     *)
(* topology of _setupInfrastructure(), the consumer callback of subscribe()*)
(* with its retries (message-queue.js), the event bus on top of it         *)
(* (event-bus.js) and the dead letter handler that replays messages        *)
(* (dead-letter-handler.js).                                               *)
(*                                                                         *)
(* Routing keys are abstracted to the service they belong to: the topic    *)
(* pattern `${service}.#` of a service queue matches the keys of that      *)
(* service.  RabbitMQ itself is external and is modelled by the AMQP rules *)
(* the code relies on: a direct exchange compares keys literally, a queue  *)
(* cannot be redeclared with other arguments, a rejected message goes to   *)
(* the dead letter exchange of its queue or nowhere, a full                *)
(* 'reject-publish' queue drops what an unconfirmed channel publishes, and *)
(* unacknowledged messages return to the queue when the channel is lost.   *)
(***************************************************************************)
EXTENDS Integers, Sequences, FiniteSets, SequencesExt

CONSTANTS
  Services,      \* keys of config.rabbitmq.queues, each with its own queue
  Subscribers,   \* queues declared by subscribe() itself
  Replayers,     \* concurrent calls into the dead letter handler
  Ids,           \* messages
  Key,           \* Key[id]: the service whose routing key id is sent with
  Patterns,      \* routing patterns in use, as the services they match
  RequeueOnError,\* options.requeueOnError of the subscriptions
  MaxRetries,    \* options.maxRetries || 3
  MaxReplayAttempts,  \* DeadLetterHandler.maxReplayAttempts
  MaxLength,     \* 'x-max-length' of a service queue
  DlqBindings,   \* binding keys of the dead letter queue
  Backpressure,  \* may channel.publish() return false?
  MaxMessages    \* bound: one is published only when there are fewer others

Hash == "#"      \* the binding key _setupInfrastructure() uses for the DLQ

ASSUME DeliveryAssumption ==
  /\ Services \cap Subscribers = {}
  /\ Key \in [Ids -> Services \cup {"none"}]
  /\ Patterns \subseteq SUBSET (Services \cup {"none"})
  /\ RequeueOnError \in BOOLEAN /\ Backpressure \in BOOLEAN
  /\ {MaxRetries, MaxReplayAttempts, MaxLength, MaxMessages} \subseteq Nat
  /\ DlqBindings \subseteq Services \cup {Hash}

VARIABLES
  queue,      \* queue[q]: messages ready in q, oldest first
  unacked,    \* unacked[q]: the message delivered to q's consumer (prefetch 1)
  consuming,  \* queues with a consumer
  binding,    \* binding[q]: the keys q is bound to the event exchange with
  dlq,        \* dead.letter.queue
  held,       \* held[r]: the dead letter r has fetched and not settled
  published,  \* messages publish() has been called with
  routed,     \* messages some service queue has accepted
  discarded   \* messages removed on purpose: purge, TTL, spent replays

deliveryVars == <<queue, unacked, consuming, binding, dlq, held, published, routed, discarded>>

Queues == Services \cup Subscribers

RoutingKeys == Services \cup {"none"}

(* key is the routing key a message was last published with, the one a     *)
(* dead letter's x-death header remembers; x-retry-count and               *)
(* x-replay-count are message headers; expires stands for the expiration   *)
(* property a retry is published with.                                     *)
Message == [id : Ids, key : RoutingKeys, retry : 0 .. MaxRetries,
            replay : 0 .. MaxReplayAttempts, expires : BOOLEAN]

DeliveryTypeOK ==
  /\ \A q \in Queues : queue[q] \in Seq(Message) /\ unacked[q] \in Seq(Message)
  /\ \A q \in Queues : Len(unacked[q]) <= 1
  /\ consuming \subseteq Subscribers
  /\ \A q \in Queues : binding[q] \subseteq Services \cup {"none"}
  /\ dlq \in Seq(Message)
  /\ \A r \in Replayers : held[r] \in Seq(Message) /\ Len(held[r]) <= 1
  /\ published \subseteq Ids /\ routed \subseteq published
  /\ discarded \subseteq Ids

DeliveryInit ==
  /\ queue = [q \in Queues |-> <<>>] /\ unacked = [q \in Queues |-> <<>>]
  /\ consuming = {} /\ binding = [q \in Queues |-> {}]
  /\ dlq = <<>> /\ held = [r \in Replayers |-> <<>>]
  /\ published = {} /\ routed = {} /\ discarded = {}

-----------------------------------------------------------------------------
(* Where a message published to the event exchange with key k ends up.     *)
Bound(q, k) == IF q \in Services THEN q = k ELSE k \in binding[q]

Accepts(q) == q \in Subscribers \/ Len(queue[q]) < MaxLength

Route(ready, m) ==
  [q \in Queues |->
     IF Bound(q, m.key) /\ Accepts(q) THEN Append(ready[q], m) ELSE ready[q]]

(* A service queue takes what is published with key k.                     *)
Taken(k) == \E q \in Services : Bound(q, k) /\ Accepts(q)

(* A message rejected by, or expired in, queue q.  Only the service queues *)
(* have a dead letter exchange; the exchange is direct, so the message     *)
(* reaches the dead letter queue when the key `${service}.dead` is itself  *)
(* one of its binding keys.                                                *)
DeadLetters(q, m) ==
  IF q \in Services /\ q \in DlqBindings
  THEN <<[m EXCEPT !.expires = FALSE]>> ELSE <<>>

(* How many messages there are, copies included.                           *)
Messages ==
  Len(dlq) + FoldSet(LAMBDA q, n : n + Len(queue[q]) + Len(unacked[q]), 0, Queues)
           + FoldSet(LAMBDA r, n : n + Len(held[r]), 0, Replayers)

(* publish(): MessageQueue.publish with the event bus above it.  A true or *)
(* false result makes no difference to what has been written.              *)
publish(id) ==
  LET m == [id |-> id, key |-> Key[id], retry |-> 0, replay |-> 0, expires |-> FALSE]
  IN  /\ id \notin published /\ Messages < MaxMessages
      /\ published' = published \cup {id}
      /\ queue' = Route(queue, m)
      /\ routed' = IF Taken(Key[id]) THEN routed \cup {id} ELSE routed
      /\ UNCHANGED <<unacked, consuming, binding, dlq, held, discarded>>

(* subscribe(): asserts the queue as merely durable.  For a service queue, *)
(* which exists with dead-letter, TTL and length arguments, the broker     *)
(* refuses the redeclaration and subscribe() throws.                       *)
CanSubscribe(q) == q \in Subscribers

subscribe(q, routingPattern) ==
  /\ q \notin consuming
  /\ CanSubscribe(q)
  /\ consuming' = consuming \cup {q}
  /\ binding' = [binding EXCEPT ![q] = @ \cup routingPattern]
  /\ UNCHANGED <<queue, unacked, dlq, held, published, routed, discarded>>

(* EventBus.subscribe computes the routing pattern and logs it; what it    *)
(* hands to MessageQueue.subscribe has no routingPattern option.           *)
EventBusSubscribe(q) == subscribe(q, {})

Deliver(q) ==
  /\ q \in consuming /\ queue[q] # <<>> /\ unacked[q] = <<>>
  /\ unacked' = [unacked EXCEPT ![q] = <<Head(queue[q])>>]
  /\ queue' = [queue EXCEPT ![q] = Tail(@)]
  /\ UNCHANGED <<consuming, binding, dlq, held, published, routed, discarded>>

(* The handler returns and the message is acknowledged.                    *)
HandlerReturns(q) ==
  /\ unacked[q] # <<>>
  /\ unacked' = [unacked EXCEPT ![q] = <<>>]
  /\ UNCHANGED <<queue, consuming, binding, dlq, held, published, routed, discarded>>

(* The handler throws.  Either way the message is rejected first; with     *)
(* retries left a copy with a higher retry count and a short expiration is *)
(* then published to the event exchange under the same routing key.        *)
HandlerThrows(q) ==
  LET m     == unacked[q][1]
      retry == RequeueOnError /\ m.retry + 1 <= MaxRetries
      again == [m EXCEPT !.retry = m.retry + 1, !.expires = TRUE]
  IN  /\ unacked[q] # <<>>
      /\ unacked' = [unacked EXCEPT ![q] = <<>>]
      /\ dlq' = dlq \o DeadLetters(q, m)
      /\ IF retry
         THEN /\ Messages <= MaxMessages
              /\ queue' = Route(queue, again)
              /\ routed' = IF Taken(m.key) THEN routed \cup {m.id} ELSE routed
         ELSE UNCHANGED <<queue, routed>>
      /\ UNCHANGED <<consuming, binding, held, published, discarded>>

(* The oldest message of a queue expires: a retry in any queue, any        *)
(* message in a service queue ('x-message-ttl').                           *)
Expire(q) ==
  /\ queue[q] # <<>>
  /\ q \in Services \/ Head(queue[q]).expires
  /\ queue' = [queue EXCEPT ![q] = Tail(@)]
  /\ dlq' = dlq \o DeadLetters(q, Head(queue[q]))
  /\ UNCHANGED <<unacked, consuming, binding, held, published, routed, discarded>>

(* The consumer's channel is lost: what it had not acknowledged returns to *)
(* the front of the queue, and nothing subscribes again.                   *)
ConsumerLost(q) ==
  /\ q \in consuming
  /\ consuming' = consuming \ {q}
  /\ queue' = [queue EXCEPT ![q] = unacked[q] \o @]
  /\ unacked' = [unacked EXCEPT ![q] = <<>>]
  /\ UNCHANGED <<binding, dlq, held, published, routed, discarded>>

-----------------------------------------------------------------------------
(* channel.get of replayMessage(), replayAll() and inspectMessages().      *)
Get(r) ==
  /\ held[r] = <<>> /\ dlq # <<>>
  /\ held' = [held EXCEPT ![r] = <<Head(dlq)>>]
  /\ dlq' = Tail(dlq)
  /\ UNCHANGED <<queue, unacked, consuming, binding, published, routed, discarded>>

\* Mutant: the message is not put back.
PutBack_Dropped(r) ==
  /\ held[r] # <<>>
  /\ held' = [held EXCEPT ![r] = <<>>]
  /\ UNCHANGED <<queue, unacked, consuming, binding, dlq, published, routed, discarded>>

(* nack(msg, false, true): back to its place at the front.  This is what   *)
(* inspectMessages() does with every message, replayAll() with a filtered  *)
(* one, and what happens when the replayer's channel is lost.              *)
PutBack(r) ==
  /\ held[r] # <<>>
  /\ dlq' = held[r] \o dlq
  /\ held' = [held EXCEPT ![r] = <<>>]
  /\ UNCHANGED <<queue, unacked, consuming, binding, published, routed, discarded>>

(* The republishing step shared by both replays.  publish() returning      *)
(* false means that the write buffer is full, not that the message was     *)
(* refused: it is sent all the same, and then put back.                    *)
Republish(r, m) ==
  /\ held[r] # <<>>
  /\ Messages <= MaxMessages
  /\ queue' = Route(queue, m)
  /\ held' = [held EXCEPT ![r] = <<>>]
  /\ \/ UNCHANGED dlq
     \/ /\ Backpressure
        /\ dlq' = held[r] \o dlq
  /\ UNCHANGED <<unacked, consuming, binding, published, routed, discarded>>

(* replayMessage(messageId, routingKey): the message at the head of the    *)
(* queue, whichever it is, with its counts unchanged, under the key the    *)
(* caller names or else under its own.                                     *)
replayMessage(r, k) == held[r] # <<>> /\ Republish(r, [held[r][1] EXCEPT !.key = k])

(* One iteration of replayAll() on the fetched message: removed for good   *)
(* when its replays are spent, republished with a higher count otherwise.  *)
replayAll(r) ==
  /\ held[r] # <<>>
  /\ LET m == held[r][1]
     IN  IF m.replay >= MaxReplayAttempts
         THEN /\ held' = [held EXCEPT ![r] = <<>>]
              /\ discarded' = discarded \cup {m.id}
              /\ UNCHANGED <<queue, unacked, consuming, binding, dlq, published, routed>>
         ELSE Republish(r, [m EXCEPT !.replay = m.replay + 1])

(* purge(), and the seven-day TTL of the dead letter queue.                *)
purge ==
  /\ dlq # <<>>
  /\ discarded' = discarded \cup {dlq[i].id : i \in DOMAIN dlq}
  /\ dlq' = <<>>
  /\ UNCHANGED <<queue, unacked, consuming, binding, held, published, routed>>

DeadLetterExpires ==
  /\ dlq # <<>>
  /\ discarded' = discarded \cup {Head(dlq).id}
  /\ dlq' = Tail(dlq)
  /\ UNCHANGED <<queue, unacked, consuming, binding, held, published, routed>>

-----------------------------------------------------------------------------
DeliveryNext ==
  \/ \E id \in Ids : publish(id)
  \/ \E q \in Queues :
       \/ \E p \in Patterns : subscribe(q, p)
       \/ EventBusSubscribe(q)
       \/ Deliver(q) \/ HandlerReturns(q) \/ HandlerThrows(q)
       \/ Expire(q) \/ ConsumerLost(q)
  \/ \E r \in Replayers :
       \/ Get(r) \/ PutBack(r) \/ replayAll(r)
       \/ \E k \in RoutingKeys : replayMessage(r, k)
  \/ purge \/ DeadLetterExpires

DeliverySpec == DeliveryInit /\ [][DeliveryNext]_deliveryVars

-----------------------------------------------------------------------------
(* A copy of the message that is on its way to a service or kept for it.   *)
Kept(id) ==
  LET holds(s) == \E i \in DOMAIN s : s[i].id = id
  IN  \/ \E q \in Services : holds(queue[q])
      \/ holds(dlq)
      \/ \E r \in Replayers : holds(held[r])

(* Dead letters that are removed on purpose: purge(), their TTL, and       *)
(* replays that are spent (dead-letter-handler.js:229).                    *)
Discards(id) ==
  \/ purge
  \/ DeadLetterExpires /\ Head(dlq).id = id
  \/ \E r \in Replayers :
       replayAll(r) /\ held[r][1].id = id /\ held[r][1].replay >= MaxReplayAttempts

(* A message that expires where no dead letter key is bound                *)
(* (message-queue.js:241).                                                 *)
ExpiresForGood(id) == \E q \in Services \ DlqBindings : Expire(q) /\ Head(queue[q]).id = id

(* A replay that is acknowledged although no service queue took it: the    *)
(* queue is full, or no queue is bound to the key the caller named         *)
(* (dead-letter-handler.js:140-160, message-queue.js:220).                 *)
ReplaysIntoNothing(id) ==
  \E r \in Replayers :
    /\ held[r] # <<>> /\ held[r][1].id = id
    /\ \/ \E k \in RoutingKeys : replayMessage(r, k) /\ ~Taken(k)
       \/ replayAll(r) /\ ~Taken(held[r][1].key)

(* What becomes of messages a service queue has accepted, whatever is      *)
(* bound and however full the queues are: through retries, concurrent      *)
(* replays, backpressure and lost channels a message stays in a service    *)
(* queue, among the dead letters or in a replayer's hands, and it leaves   *)
(* these places in the three ways above only.                              *)
LossesExplained ==
  [][\A id \in Ids :
       /\ id \in routed' \ routed => Kept(id)'
       /\ Kept(id) /\ ~Kept(id)' =>
            Discards(id) \/ ExpiresForGood(id) \/ ReplaysIntoNothing(id)]_deliveryVars

(* "Guaranteed delivery, retry policies, and dead letter handling"         *)
(* (messaging/index.js:6): no message a service queue has accepted         *)
(* vanishes, but for those removed on purpose.                             *)
NoSilentLoss == \A id \in routed : Kept(id) \/ id \in discarded
=============================================================================
