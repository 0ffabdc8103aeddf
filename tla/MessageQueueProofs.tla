------------------------- MODULE MessageQueueProofs -------------------------
(* Proofs about the connection life cycle, for every number of attempts,   *)
(* connections and concurrent connect() calls, about the delivery of       *)
(* messages, for every set of messages, queues and dead letter handlers,   *)
(* and about webhooks, retries and replicas, for every number of them and  *)
(* every policy.                                                           *)
EXTENDS MessageQueue, MessageDelivery, Webhooks, Resilience, Collections

(* The inductive invariant: the three invariants of the runs, plus two     *)
(* facts that make them inductive.  closing names the connection being     *)
(* closed only while shutdown() waits for it.                              *)
Inv ==
  /\ TypeOK
  /\ ConnectedIsOpen
  /\ NeverStranded
  /\ stopPc = "closing" => closing \in Conns

(* Armed(k) never exceeds the attempts that are left, and is positive      *)
(* whenever an attempt is left and no shutdown is under way.               *)
LEMMA ArmedBounds ==
  ASSUME TypeOK, NEW k \in 1 .. 2
  PROVE  /\ Armed(k) \in Nat
         /\ reconnectAttempts + Armed(k) \in 0 .. MaxReconnectAttempts
         /\ (~isShuttingDown /\ reconnectAttempts < MaxReconnectAttempts) => Armed(k) > 0
BY MessageQueueAssumption DEF TypeOK, Armed

(* What _handleDisconnect() leaves behind.                                 *)
LEMMA AfterDisconnect ==
  ASSUME TypeOK, NEW k \in 1 .. 2, _handleDisconnect(k)
  PROVE  /\ isConnected' \in BOOLEAN /\ ~isConnected'
         /\ reconnectAttempts' \in 0 .. MaxReconnectAttempts
         /\ timers' \in Nat
         /\ (~isShuttingDown /\ reconnectAttempts' < MaxReconnectAttempts) => timers' > 0
<1>1. reconnectAttempts' = reconnectAttempts + Armed(k) /\ timers' = timers + Armed(k)
  BY DEF _handleDisconnect
<1>2. ASSUME ~isShuttingDown, reconnectAttempts' < MaxReconnectAttempts
      PROVE  timers' > 0
  <2>1. reconnectAttempts < MaxReconnectAttempts
    BY <1>1, <1>2, ArmedBounds, MessageQueueAssumption DEF TypeOK
  <2>2. Armed(k) \in Nat /\ Armed(k) > 0
    BY <1>2, <2>1, ArmedBounds
  <2> QED BY <1>1, <2>2 DEF TypeOK
<1>3. isConnected' \in BOOLEAN /\ ~isConnected'
  BY Zenon DEF _handleDisconnect
<1> QED BY <1>1, <1>2, <1>3, ArmedBounds DEF TypeOK

LEMMA InitInv == Init => Inv
<1> SUFFICES ASSUME Init PROVE Inv
  OBVIOUS
<1>1. isConnected \in BOOLEAN /\ isShuttingDown \in BOOLEAN /\ ~isConnected
  BY Zenon DEF Init
<1>2. open \in SUBSET Conns /\ settingUp \in SUBSET Conns
  BY Zenon DEF Init
<1>3. TypeOK
  BY <1>1, <1>2, MessageQueueAssumption DEF Init, TypeOK
<1>4. NeverStranded
  BY DEF Init, NeverStranded, Attempted
<1> QED BY <1>1, <1>3, <1>4 DEF Init, Inv, ConnectedIsOpen

(* Every step that ends in _handleDisconnect() preserves the invariant:    *)
(* connections and set-ups only go away, and the flags are left alone.     *)
LEMMA DisconnectInv ==
  ASSUME Inv, NEW k \in 1 .. 2, _handleDisconnect(k),
         UNCHANGED <<isShuttingDown, connection, opened>>,
         open' \subseteq open, settingUp' \subseteq settingUp,
         dialing' \in Nat, closing' \in 0 .. opened,
         stopPc' \in {"idle", "draining", "closing", "done"},
         stopPc' = "closing" => closing' \in Conns
  PROVE  Inv'
<1>1. TypeOK BY DEF Inv
<1>2. /\ isConnected' \in BOOLEAN /\ ~isConnected'
      /\ reconnectAttempts' \in 0 .. MaxReconnectAttempts
      /\ timers' \in Nat
      /\ (~isShuttingDown /\ reconnectAttempts' < MaxReconnectAttempts) => timers' > 0
  BY <1>1, AfterDisconnect
<1>3. TypeOK'
  BY <1>1, <1>2 DEF TypeOK, Conns
<1>4. NeverStranded'
  <2>0. timers' \in Nat /\ dialing' \in Nat
    BY <1>3, Zenon DEF TypeOK
  <2>1. ASSUME NEW x \in Nat, NEW y \in Nat PROVE x > 0 => x + y > 0
    OBVIOUS
  <2>2. timers' > 0 => timers' + dialing' > 0
    BY <2>0, <2>1, Zenon
  <2> QED BY <1>2, <2>2, Zenon DEF NeverStranded
<1>5. stopPc' = "closing" => closing' \in Conns'
  BY DEF Conns
<1> QED BY <1>2, <1>3, <1>4, <1>5 DEF Inv, ConnectedIsOpen

LEMMA NextInv == Inv /\ [Next]_vars => Inv'
<1> SUFFICES ASSUME Inv, [Next]_vars PROVE Inv'
  OBVIOUS
<1> USE MessageQueueAssumption
<1>0. TypeOK BY DEF Inv
<1>1. CASE connect
  BY <1>1 DEF Inv, connect, TypeOK, ConnectedIsOpen, NeverStranded, Attempted, Conns
<1>2. CASE TimerFires
  <2>1. UNCHANGED <<isConnected, isShuttingDown, connection, opened, open,
                    reconnectAttempts, settingUp, stopPc, closing>>
    BY <1>2 DEF TimerFires
  <2>2. timers > 0 /\ timers' = timers - 1
    BY <1>2 DEF TimerFires
  <2>3. \/ isConnected /\ dialing' = dialing
        \/ dialing' = dialing + 1
    BY <1>2, Zenon DEF TimerFires
  <2>4. TypeOK'
    BY <1>0, <2>1, <2>2, <2>3 DEF TypeOK, Conns
  <2>5. isConnected \/ timers' + dialing' > 0
    BY <1>0, <2>2, <2>3 DEF TypeOK
  <2>6. NeverStranded'
    BY <2>1, <2>5 DEF NeverStranded
  <2> QED BY <2>1, <2>4, <2>6 DEF Inv, ConnectedIsOpen, Conns
<1>3. CASE DialSucceeds
  <2>1. isConnected' \in BOOLEAN /\ isShuttingDown' \in BOOLEAN /\ isConnected'
    BY <1>3, Zenon DEF DialSucceeds
  <2>2. TypeOK'
    BY <1>3, <2>1 DEF Inv, DialSucceeds, TypeOK, Conns
  <2>3. connection' \in open'
    BY <1>3 DEF DialSucceeds
  <2>4. stopPc' = "closing" => closing' \in Conns'
    BY <1>3 DEF Inv, DialSucceeds, TypeOK, Conns
  <2> QED BY <2>1, <2>2, <2>3, <2>4 DEF Inv, ConnectedIsOpen, NeverStranded
<1>4. CASE DialFails
  <2>1. /\ _handleDisconnect(1)
        /\ UNCHANGED <<isShuttingDown, connection, opened>>
        /\ open' \subseteq open /\ settingUp' \subseteq settingUp
    BY <1>4, Zenon DEF DialFails
  <2>2. /\ dialing' \in Nat /\ closing' \in 0 .. opened
        /\ stopPc' \in {"idle", "draining", "closing", "done"}
        /\ stopPc' = "closing" => closing' \in Conns
    BY <1>4 DEF Inv, TypeOK, DialFails
  <2> QED BY <2>1, <2>2, DisconnectInv
<1>5. ASSUME NEW c \in settingUp, SetupSucceeds(c) PROVE Inv'
  BY <1>5 DEF Inv, SetupSucceeds, TypeOK, ConnectedIsOpen, NeverStranded, Attempted, Conns
<1>6. ASSUME NEW c \in settingUp, SetupFails(c) PROVE Inv'
  <2>1. /\ _handleDisconnect(1)
        /\ UNCHANGED <<isShuttingDown, connection, opened>>
        /\ open' \subseteq open /\ settingUp' \subseteq settingUp
    BY <1>6, Zenon DEF SetupFails
  <2>2. /\ dialing' \in Nat /\ closing' \in 0 .. opened
        /\ stopPc' \in {"idle", "draining", "closing", "done"}
        /\ stopPc' = "closing" => closing' \in Conns
    BY <1>6 DEF Inv, TypeOK, SetupFails
  <2> QED BY <2>1, <2>2, DisconnectInv
<1>7. ASSUME NEW c \in open, NEW k \in 1 .. 2, ConnectionLost(c, k) PROVE Inv'
  <2>1. /\ _handleDisconnect(k)
        /\ UNCHANGED <<isShuttingDown, connection, opened>>
        /\ open' \subseteq open /\ settingUp' \subseteq settingUp
    BY <1>7, Zenon DEF ConnectionLost
  <2>2. /\ dialing' \in Nat /\ closing' \in 0 .. opened
        /\ stopPc' \in {"idle", "draining", "closing", "done"}
        /\ stopPc' = "closing" => closing' \in Conns
    BY <1>7 DEF Inv, TypeOK, ConnectionLost
  <2> QED BY <2>1, <2>2, DisconnectInv
<1>8. CASE shutdown
  BY <1>8 DEF Inv, shutdown, TypeOK, ConnectedIsOpen, NeverStranded, Attempted, Conns
<1>9. CASE ShutdownCloses
  BY <1>9 DEF Inv, ShutdownCloses, TypeOK, ConnectedIsOpen, NeverStranded, Attempted, Conns
<1>10. CASE ShutdownDone
  <2>1. /\ _handleDisconnect(1)
        /\ UNCHANGED <<isShuttingDown, connection, opened>>
        /\ open' \subseteq open /\ settingUp' \subseteq settingUp
    BY <1>10, Zenon DEF ShutdownDone
  <2>2. /\ dialing' \in Nat /\ closing' \in 0 .. opened
        /\ stopPc' \in {"idle", "draining", "closing", "done"}
        /\ stopPc' = "closing" => closing' \in Conns
    BY <1>10 DEF Inv, TypeOK, ShutdownDone
  <2> QED BY <2>1, <2>2, DisconnectInv
<1>11. CASE UNCHANGED vars
  BY <1>11 DEF Inv, vars, TypeOK, ConnectedIsOpen, NeverStranded, Attempted, Conns
<1> QED
  BY <1>1, <1>2, <1>3, <1>4, <1>5, <1>6, <1>7, <1>8, <1>9, <1>10, <1>11 DEF Next

LEMMA InvHolds == Spec => []Inv
BY InitInv, NextInv, PTL DEF Spec

(* The counters stay in their ranges: in particular _handleDisconnect()    *)
(* never spends more than the configured attempts.                         *)
THEOREM TypeCorrect == Spec => []TypeOK
<1>1. Inv => TypeOK BY DEF Inv
<1> QED BY <1>1, InvHolds, PTL

(* isConnected always speaks of a live this.connection.                    *)
THEOREM ConnectedIsOpenHolds == Spec => []ConnectedIsOpen
<1>1. Inv => ConnectedIsOpen BY DEF Inv
<1> QED BY <1>1, InvHolds, PTL

(* A disconnected queue with attempts left has a reconnection under way.   *)
THEOREM NeverStrandedHolds == Spec => []NeverStranded
<1>1. Inv => NeverStranded BY DEF Inv
<1> QED BY <1>1, InvHolds, PTL

-----------------------------------------------------------------------------
(* The messages a sequence of them is about.                               *)
IdsOf(s) == {s[i].id : i \in DOMAIN s}

LEMMA IdsOfNone == IdsOf(<<>>) = {}
BY DEF IdsOf

LEMMA IdsOfOne == ASSUME NEW m PROVE IdsOf(<<m>>) = {m.id}
BY DEF IdsOf

LEMMA IdsOfAppend ==
  ASSUME NEW s \in Seq(Message), NEW m \in Message
  PROVE  /\ Append(s, m) \in Seq(Message)
         /\ IdsOf(Append(s, m)) = IdsOf(s) \cup {m.id}
BY DEF IdsOf

LEMMA IdsOfConcat ==
  ASSUME NEW s \in Seq(Message), NEW t \in Seq(Message)
  PROVE  /\ s \o t \in Seq(Message)
         /\ IdsOf(s \o t) = IdsOf(s) \cup IdsOf(t)
<1>1. IdsOf(s \o t) \subseteq IdsOf(s) \cup IdsOf(t)
  BY DEF IdsOf
<1>2. IdsOf(s) \subseteq IdsOf(s \o t)
  BY DEF IdsOf
<1>3. ASSUME NEW i \in DOMAIN t PROVE t[i].id \in IdsOf(s \o t)
  <2>1. /\ Len(s) + i \in DOMAIN (s \o t)
        /\ (s \o t)[Len(s) + i] = t[i]
    BY <1>3
  <2> QED BY <2>1 DEF IdsOf
<1> QED BY <1>1, <1>2, <1>3 DEF IdsOf

LEMMA IdsOfHeadTail ==
  ASSUME NEW s \in Seq(Message), s # <<>>
  PROVE  /\ Head(s) \in Message /\ Tail(s) \in Seq(Message)
         /\ IdsOf(s) = {Head(s).id} \cup IdsOf(Tail(s))
<1>1. Head(s) \in Message /\ Tail(s) \in Seq(Message) /\ Head(s) = s[1]
  OBVIOUS
<1>2. \A i \in DOMAIN Tail(s) : i + 1 \in DOMAIN s /\ Tail(s)[i] = s[i + 1]
  OBVIOUS
<1>3. \A i \in DOMAIN s : i = 1 \/ (i - 1 \in DOMAIN Tail(s) /\ s[i] = Tail(s)[i - 1])
  OBVIOUS
<1>4. 1 \in DOMAIN s
  OBVIOUS
<1>5. IdsOf(s) \subseteq {Head(s).id} \cup IdsOf(Tail(s))
  BY <1>1, <1>3 DEF IdsOf
<1>6. {Head(s).id} \cup IdsOf(Tail(s)) \subseteq IdsOf(s)
  BY <1>1, <1>2, <1>4 DEF IdsOf
<1> QED BY <1>1, <1>5, <1>6

(* What the queues, the dead letter queue and the replayers hold.          *)
DeliveryShape ==
  /\ queue \in [Queues -> Seq(Message)]
  /\ unacked \in [Queues -> Seq(Message)]
  /\ held \in [Replayers -> Seq(Message)]
  /\ dlq \in Seq(Message)
  /\ consuming \subseteq Subscribers
  /\ routed \subseteq Ids

(* subscribe() is refused on a service queue, so nothing consumes one, and *)
(* a replayer holds one dead letter at a time.                             *)
Unconsumed == \A q \in Services : unacked[q] = <<>>
OneHeld == \A r \in Replayers : held[r] = <<>> \/ \E m \in Message : held[r] = <<m>>

DeliveryInv == DeliveryShape /\ Unconsumed /\ OneHeld

(* A message is among dead letters d or in the replayers' hands h, or in   *)
(* one of the service queues of Q.                                         *)
DeadIn(id, d, h) == id \in IdsOf(d) \/ \E r \in Replayers : id \in IdsOf(h[r])
KeptIn(id, Q, d, h) == DeadIn(id, d, h) \/ \E q \in Services : id \in IdsOf(Q[q])

(* A step that loses the message in one of the three known ways, and what  *)
(* is shown of every step.                                                 *)
LossNamed(id) == Discards(id) \/ ExpiresForGood(id) \/ ReplaysIntoNothing(id)

StepSound ==
  /\ \A id \in routed' \ routed : KeptIn(id, queue', dlq', held')
  /\ \A id \in Ids :
       KeptIn(id, queue, dlq, held) => KeptIn(id, queue', dlq', held') \/ LossNamed(id)

LEMMA KeptIs ==
  /\ \A id : Kept(id) <=> KeptIn(id, queue, dlq, held)
  /\ \A id : Kept(id)' <=> KeptIn(id, queue', dlq', held')
BY DEF Kept, KeptIn, DeadIn, IdsOf

(* Publishing a message to the event exchange: every queue keeps what it   *)
(* had, and some service queue gets the message if one takes its key.      *)
LEMMA Routed ==
  ASSUME DeliveryAssumption, DeliveryShape, NEW m \in Message
  PROVE  /\ Route(queue, m) \in [Queues -> Seq(Message)]
         /\ \A q \in Queues : IdsOf(queue[q]) \subseteq IdsOf(Route(queue, m)[q])
         /\ Taken(m.key) => \E q \in Services : m.id \in IdsOf(Route(queue, m)[q])
<1> DEFINE R == Route(queue, m)
<1>1. \A q \in Queues :
        /\ queue[q] \in Seq(Message)
        /\ R[q] = queue[q] \/ R[q] = Append(queue[q], m)
        /\ Bound(q, m.key) /\ Accepts(q) => R[q] = Append(queue[q], m)
  BY DEF DeliveryShape, Route
<1>2. R = [q \in Queues |-> R[q]]
  BY DEF Route
<1> HIDE DEF R
<1>3. \A q \in Queues : /\ Append(queue[q], m) \in Seq(Message)
                        /\ IdsOf(Append(queue[q], m)) = IdsOf(queue[q]) \cup {m.id}
  BY <1>1, IdsOfAppend
<1>4. \A q \in Queues : R[q] \in Seq(Message) /\ IdsOf(queue[q]) \subseteq IdsOf(R[q])
  BY <1>1, <1>3
<1>5. ASSUME Taken(m.key) PROVE \E q \in Services : m.id \in IdsOf(R[q])
  <2>1. PICK q \in Services : Bound(q, m.key) /\ Accepts(q)
    BY <1>5 DEF Taken
  <2>2. q \in Queues
    BY DEF Queues
  <2> QED BY <1>1, <1>3, <2>1, <2>2
<1>6. R \in [Queues -> Seq(Message)]
  BY <1>2, <1>4
<1> QED BY <1>4, <1>5, <1>6 DEF R

LEMMA DeliveryInitInv == DeliveryInit => DeliveryInv
<1> SUFFICES ASSUME DeliveryInit PROVE DeliveryInv
  OBVIOUS
<1>1. <<>> \in Seq(Message)
  OBVIOUS
<1>2. DeliveryShape
  BY <1>1, Zenon DEF DeliveryInit, DeliveryShape
<1>3. Unconsumed /\ OneHeld
  BY DEF DeliveryInit, Unconsumed, OneHeld, Queues
<1> QED BY <1>2, <1>3 DEF DeliveryInv

(* Steps that leave the service queues, the dead letters and the replayers *)
(* alone: subscriptions, deliveries to subscribers and their answers.      *)
LEMMA ElsewhereStep ==
  ASSUME DeliveryInv,
         queue' \in [Queues -> Seq(Message)], unacked' \in [Queues -> Seq(Message)],
         consuming' \subseteq Subscribers,
         \A q \in Services : queue'[q] = queue[q] /\ unacked'[q] = unacked[q],
         UNCHANGED <<dlq, held, routed>>
  PROVE  DeliveryInv' /\ StepSound
<1>1. DeliveryShape' /\ Unconsumed' /\ OneHeld'
  BY DEF DeliveryInv, DeliveryShape, Unconsumed, OneHeld
<1>2. \A id : KeptIn(id, queue, dlq, held) => KeptIn(id, queue', dlq', held')
  BY DEF KeptIn, DeadIn
<1> QED BY <1>1, <1>2 DEF DeliveryInv, StepSound

(* Steps that publish: the queues become Route(queue, m), and a message    *)
(* counts as routed only when a service queue took it.                     *)
LEMMA RoutedStep ==
  ASSUME DeliveryAssumption, DeliveryInv, NEW m \in Message,
         queue' = Route(queue, m),
         UNCHANGED <<dlq, held, consuming>>,
         unacked' \in [Queues -> Seq(Message)],
         \A q \in Services : unacked'[q] = <<>>,
         routed' = IF Taken(m.key) THEN routed \cup {m.id} ELSE routed
  PROVE  DeliveryInv' /\ StepSound
<1> USE DEF DeliveryInv
<1>1. /\ queue' \in [Queues -> Seq(Message)]
      /\ \A q \in Queues : IdsOf(queue[q]) \subseteq IdsOf(queue'[q])
      /\ Taken(m.key) => \E q \in Services : m.id \in IdsOf(queue'[q])
  BY Routed
<1>2. m.id \in Ids
  BY DEF Message
<1>3. DeliveryShape' /\ Unconsumed' /\ OneHeld'
  BY <1>1, <1>2 DEF DeliveryShape, Unconsumed, OneHeld
<1>4. \A id : KeptIn(id, queue, dlq, held) => KeptIn(id, queue', dlq', held')
  BY <1>1, Zenon DEF KeptIn, DeadIn, Queues
<1>5. Taken(m.key) => KeptIn(m.id, queue', dlq', held')
  BY <1>1 DEF KeptIn
<1>6. StepSound
  BY <1>4, <1>5 DEF StepSound
<1> QED BY <1>3, <1>6

(* Steps of the dead letters: what leaves the dead letter queue and a      *)
(* replayer's hands is in one of them afterwards, or lost in a known way.  *)
LEMMA DeadStep ==
  ASSUME DeliveryInv,
         UNCHANGED <<queue, unacked, consuming, routed>>,
         dlq' \in Seq(Message), held' \in [Replayers -> Seq(Message)],
         \A r \in Replayers : held'[r] = <<>> \/ \E m \in Message : held'[r] = <<m>>,
         \A id \in Ids : DeadIn(id, dlq, held) => DeadIn(id, dlq', held') \/ LossNamed(id)
  PROVE  DeliveryInv' /\ StepSound
<1>1. DeliveryShape' /\ Unconsumed' /\ OneHeld'
  BY DEF DeliveryInv, DeliveryShape, Unconsumed, OneHeld
<1>2. \A id \in Ids : KeptIn(id, queue, dlq, held) => KeptIn(id, queue', dlq', held') \/ LossNamed(id)
  BY Zenon DEF KeptIn
<1> QED BY <1>1, <1>2 DEF DeliveryInv, StepSound

(* Handing a dead letter over: held[r] takes the sequence s, the others    *)
(* keep theirs.                                                            *)
LEMMA HeldBy ==
  ASSUME DeliveryShape, NEW r \in Replayers, NEW s \in Seq(Message),
         held' = [held EXCEPT ![r] = s]
  PROVE  /\ held' \in [Replayers -> Seq(Message)]
         /\ held'[r] = s
         /\ \A t \in Replayers \ {r} : held'[t] = held[t]
BY DEF DeliveryShape

LEMMA MessageFields ==
  ASSUME NEW m \in Message
  PROVE  /\ m.id \in Ids /\ m.key \in RoutingKeys /\ m.retry \in 0 .. MaxRetries
         /\ m.replay \in 0 .. MaxReplayAttempts /\ m.expires \in BOOLEAN
BY DEF Message

(* The copy a retry is published as.                                       *)
LEMMA RetryCopy ==
  ASSUME DeliveryAssumption, NEW m \in Message, m.retry + 1 <= MaxRetries
  PROVE  LET again == [m EXCEPT !.retry = m.retry + 1, !.expires = TRUE]
         IN  again \in Message /\ again.id = m.id /\ again.key = m.key
<1> DEFINE k == m.retry + 1
           e == [id |-> m.id, key |-> m.key, retry |-> k, replay |-> m.replay,
                 expires |-> m.expires]
<1>1. k \in 0 .. MaxRetries
  BY MessageFields DEF DeliveryAssumption
<1> HIDE DEF k
<1>2. [m EXCEPT !.retry = k] = e
  BY DEF Message
<1>3. e \in Message /\ e.id = m.id /\ e.key = m.key
  BY <1>1, MessageFields DEF Message
<1> HIDE DEF e
<1>4. /\ [e EXCEPT !.expires = TRUE] \in Message
      /\ [e EXCEPT !.expires = TRUE].id = e.id /\ [e EXCEPT !.expires = TRUE].key = e.key
  BY <1>3 DEF Message
<1> QED BY <1>2, <1>3, <1>4 DEF k

LEMMA PublishStep ==
  ASSUME DeliveryAssumption, DeliveryInv, NEW id \in Ids, publish(id)
  PROVE  DeliveryInv' /\ StepSound
<1> DEFINE m == [id |-> id, key |-> Key[id], retry |-> 0, replay |-> 0, expires |-> FALSE]
<1>1. m \in Message /\ m.id = id /\ m.key = Key[id]
  BY DEF Message, DeliveryAssumption, RoutingKeys
<1>2. /\ queue' = Route(queue, m) /\ UNCHANGED <<unacked, consuming, dlq, held>>
      /\ routed' = IF Taken(Key[id]) THEN routed \cup {id} ELSE routed
  BY DEF publish
<1> HIDE DEF m
<1> QED BY <1>1, <1>2, RoutedStep DEF DeliveryInv, DeliveryShape, Unconsumed

LEMMA SubscribeStep ==
  ASSUME DeliveryAssumption, DeliveryInv, NEW q \in Queues, NEW p, subscribe(q, p)
  PROVE  DeliveryInv' /\ StepSound
BY ElsewhereStep DEF subscribe, CanSubscribe, DeliveryInv, DeliveryShape

LEMMA SubscriberQueue ==
  ASSUME DeliveryAssumption, DeliveryInv, NEW q \in Queues, unacked[q] # <<>> \/ q \in consuming
  PROVE  q \in Subscribers /\ q \notin Services
BY DEF DeliveryAssumption, DeliveryInv, DeliveryShape, Unconsumed, Queues

LEMMA DeliverStep ==
  ASSUME DeliveryAssumption, DeliveryInv, NEW q \in Queues, Deliver(q)
  PROVE  DeliveryInv' /\ StepSound
<1>1. q \in Subscribers /\ q \notin Services
  BY SubscriberQueue DEF Deliver
<1>2. queue[q] \in Seq(Message) /\ queue[q] # <<>>
  BY DEF Deliver, DeliveryInv, DeliveryShape
<1>3. <<Head(queue[q])>> \in Seq(Message) /\ Tail(queue[q]) \in Seq(Message)
  BY <1>2, IdsOfHeadTail
<1> QED BY <1>1, <1>3, ElsewhereStep DEF Deliver, DeliveryInv, DeliveryShape

LEMMA HandlerReturnsStep ==
  ASSUME DeliveryAssumption, DeliveryInv, NEW q \in Queues, HandlerReturns(q)
  PROVE  DeliveryInv' /\ StepSound
<1>1. q \in Subscribers /\ q \notin Services
  BY SubscriberQueue DEF HandlerReturns
<1> QED BY <1>1, ElsewhereStep DEF HandlerReturns, DeliveryInv, DeliveryShape

(* The retry of a subscriber also reaches the service's queue; the         *)
(* rejection itself loses nothing, for a subscriber's copy never counted.  *)
LEMMA HandlerThrowsStep ==
  ASSUME DeliveryAssumption, DeliveryInv, NEW q \in Queues, HandlerThrows(q)
  PROVE  DeliveryInv' /\ StepSound
<1> DEFINE m == unacked[q][1]
           again == [m EXCEPT !.retry = m.retry + 1, !.expires = TRUE]
<1>1. unacked[q] # <<>> /\ q \notin Services
  BY SubscriberQueue DEF HandlerThrows
<1>2. m \in Message
  BY <1>1 DEF DeliveryInv, DeliveryShape
<1>3. unacked' \in [Queues -> Seq(Message)] /\ \A s \in Services : unacked'[s] = unacked[s]
  BY <1>1 DEF HandlerThrows, DeliveryInv, DeliveryShape, Queues
<1>4. dlq' = dlq /\ UNCHANGED <<consuming, held>>
  <2>1. dlq' = dlq \o DeadLetters(q, m) /\ UNCHANGED <<consuming, held>>
    BY DEF HandlerThrows
  <2>2. DeadLetters(q, m) = <<>>
    BY <1>1 DEF DeadLetters
  <2> QED BY <2>1, <2>2 DEF DeliveryInv, DeliveryShape
<1>5. CASE RequeueOnError /\ m.retry + 1 <= MaxRetries
  <2>1. again \in Message /\ again.id = m.id /\ again.key = m.key
    BY <1>2, <1>5, RetryCopy
  <2>2. queue' = Route(queue, again)
    BY <1>5 DEF HandlerThrows
  <2>3. routed' = IF Taken(m.key) THEN routed \cup {m.id} ELSE routed
    BY <1>5 DEF HandlerThrows
  <2> HIDE DEF m, again
  <2> QED BY <1>3, <1>4, <2>1, <2>2, <2>3, RoutedStep DEF DeliveryInv, Unconsumed
<1>6. CASE ~(RequeueOnError /\ m.retry + 1 <= MaxRetries)
  <2>1. UNCHANGED <<queue, routed>>
    BY <1>6 DEF HandlerThrows
  <2> QED BY <2>1, <1>3, <1>4, ElsewhereStep DEF DeliveryInv, DeliveryShape
<1> QED BY <1>5, <1>6

(* What expires in a service queue is a dead letter, unless the service's  *)
(* dead letter key is not bound.                                           *)
LEMMA ExpireStep ==
  ASSUME DeliveryAssumption, DeliveryInv, NEW q \in Queues, Expire(q)
  PROVE  DeliveryInv' /\ StepSound
<1> USE DEF DeliveryInv
<1> DEFINE h == Head(queue[q])
           t == Tail(queue[q])
           d == DeadLetters(q, h)
           e == [h EXCEPT !.expires = FALSE]
<1>1. queue[q] \in Seq(Message) /\ queue[q] # <<>>
  BY DEF Expire, DeliveryShape
<1>2. h \in Message /\ t \in Seq(Message) /\ IdsOf(queue[q]) = {h.id} \cup IdsOf(t)
  BY <1>1, IdsOfHeadTail
<1>3. /\ queue' = [queue EXCEPT ![q] = t] /\ dlq' = dlq \o d
      /\ UNCHANGED <<unacked, consuming, held, routed>>
  BY DEF Expire
<1>4. q \in Services \ DlqBindings => ExpiresForGood(h.id)
  BY DEF ExpiresForGood
<1>5. d = IF q \in Services /\ q \in DlqBindings THEN <<e>> ELSE <<>>
  BY DEF DeadLetters
<1> HIDE DEF h, t, d
<1>6. e \in Message /\ e.id = h.id
  BY <1>2 DEF Message
<1> HIDE DEF e
<1>7. <<e>> \in Seq(Message) /\ <<>> \in Seq(Message) /\ IdsOf(<<e>>) = {h.id}
  BY <1>6, IdsOfOne
<1>8. d \in Seq(Message) /\ (q \in Services /\ q \in DlqBindings => h.id \in IdsOf(d))
  BY <1>5, <1>7
<1>9. /\ queue' \in [Queues -> Seq(Message)] /\ queue'[q] = t
      /\ \A s \in Queues \ {q} : queue'[s] = queue[s]
  BY <1>2, <1>3 DEF DeliveryShape
<1>10. dlq' \in Seq(Message) /\ IdsOf(dlq') = IdsOf(dlq) \cup IdsOf(d)
  BY <1>3, <1>8, IdsOfConcat DEF DeliveryShape
<1>11. DeliveryShape' /\ Unconsumed' /\ OneHeld'
  BY <1>3, <1>9, <1>10 DEF DeliveryShape, Unconsumed, OneHeld
<1>12. ASSUME NEW id, KeptIn(id, queue, dlq, held)
       PROVE  KeptIn(id, queue', dlq', held') \/ ExpiresForGood(id)
  <2>1. ASSUME NEW s \in Services, id \in IdsOf(queue[s])
        PROVE  id \in IdsOf(queue'[s]) \/ id \in IdsOf(dlq') \/ ExpiresForGood(id)
    <3>1. CASE s # q
      BY <1>9, <2>1, <3>1 DEF Queues
    <3>2. CASE s = q
      BY <1>2, <1>4, <1>8, <1>9, <1>10, <2>1, <3>2
    <3> QED BY <3>1, <3>2
  <2> QED BY <1>3, <1>10, <1>12, <2>1 DEF KeptIn, DeadIn
<1>13. StepSound
  BY <1>3, <1>12 DEF StepSound, LossNamed
<1> QED BY <1>11, <1>13

LEMMA ConsumerLostStep ==
  ASSUME DeliveryAssumption, DeliveryInv, NEW q \in Queues, ConsumerLost(q)
  PROVE  DeliveryInv' /\ StepSound
<1>1. q \in Subscribers /\ q \notin Services
  BY SubscriberQueue DEF ConsumerLost
<1>2. unacked[q] \o queue[q] \in Seq(Message) /\ <<>> \in Seq(Message)
  BY DEF DeliveryInv, DeliveryShape
<1> QED BY <1>1, <1>2, ElsewhereStep DEF ConsumerLost, DeliveryInv, DeliveryShape

LEMMA GetStep ==
  ASSUME DeliveryInv, NEW r \in Replayers, Get(r)
  PROVE  DeliveryInv' /\ StepSound
<1>1. dlq \in Seq(Message) /\ dlq # <<>> /\ held[r] = <<>>
  BY DEF Get, DeliveryInv, DeliveryShape
<1> DEFINE h == Head(dlq)
           one == <<h>>
<1>2. h \in Message /\ Tail(dlq) \in Seq(Message) /\ IdsOf(dlq) = {h.id} \cup IdsOf(Tail(dlq))
  BY <1>1, IdsOfHeadTail
<1>3. /\ held' = [held EXCEPT ![r] = one] /\ dlq' = Tail(dlq)
      /\ UNCHANGED <<queue, unacked, consuming, routed>>
  BY DEF Get
<1> HIDE DEF h
<1>4. one \in Seq(Message) /\ IdsOf(one) = {h.id} /\ IdsOf(held[r]) = {}
  BY <1>1, <1>2, IdsOfOne, IdsOfNone
<1> HIDE DEF one
<1>5. /\ held' \in [Replayers -> Seq(Message)] /\ held'[r] = one
      /\ \A t \in Replayers \ {r} : held'[t] = held[t]
  BY <1>3, <1>4, HeldBy DEF DeliveryInv
<1>6. \A t \in Replayers : held'[t] = <<>> \/ \E m \in Message : held'[t] = <<m>>
  BY <1>2, <1>5, Zenon DEF DeliveryInv, OneHeld, one
<1>7. \A id : DeadIn(id, dlq, held) => DeadIn(id, dlq', held')
  BY <1>2, <1>3, <1>4, <1>5 DEF DeadIn
<1> QED BY <1>2, <1>3, <1>5, <1>6, <1>7, DeadStep

(* A replayer lets go of its dead letter.                                  *)
LEMMA LetGo ==
  ASSUME DeliveryInv, NEW r \in Replayers, held' = [held EXCEPT ![r] = <<>>]
  PROVE  /\ held' \in [Replayers -> Seq(Message)]
         /\ IdsOf(held'[r]) = {}
         /\ \A t \in Replayers \ {r} : held'[t] = held[t]
         /\ \A t \in Replayers : held'[t] = <<>> \/ \E n \in Message : held'[t] = <<n>>
<1>1. <<>> \in Seq(Message)
  OBVIOUS
<1>2. /\ held' \in [Replayers -> Seq(Message)] /\ held'[r] = <<>>
      /\ \A t \in Replayers \ {r} : held'[t] = held[t]
  BY <1>1, HeldBy DEF DeliveryInv
<1> QED BY <1>1, <1>2, IdsOfNone DEF DeliveryInv, OneHeld

LEMMA PutBackStep ==
  ASSUME DeliveryInv, NEW r \in Replayers, PutBack(r)
  PROVE  DeliveryInv' /\ StepSound
<1>1. /\ held' = [held EXCEPT ![r] = <<>>] /\ dlq' = held[r] \o dlq
      /\ UNCHANGED <<queue, unacked, consuming, routed>>
  BY DEF PutBack
<1>2. held[r] \in Seq(Message) /\ dlq \in Seq(Message)
  BY DEF DeliveryInv, DeliveryShape
<1>3. dlq' \in Seq(Message) /\ IdsOf(dlq') = IdsOf(held[r]) \cup IdsOf(dlq)
  BY <1>1, <1>2, IdsOfConcat
<1>4. /\ held' \in [Replayers -> Seq(Message)] /\ IdsOf(held'[r]) = {}
      /\ \A t \in Replayers \ {r} : held'[t] = held[t]
      /\ \A t \in Replayers : held'[t] = <<>> \/ \E n \in Message : held'[t] = <<n>>
  BY <1>1, LetGo
<1>5. \A id : DeadIn(id, dlq, held) => DeadIn(id, dlq', held')
  BY <1>3, <1>4 DEF DeadIn
<1> QED BY <1>1, <1>3, <1>4, <1>5, DeadStep

LEMMA OneDeadLetter ==
  ASSUME DeliveryInv, NEW r \in Replayers, held[r] # <<>>
  PROVE  /\ held[r] \in Seq(Message) /\ held[r][1] \in Message
         /\ IdsOf(held[r]) = {held[r][1].id}
<1>1. held[r] \in Seq(Message)
  BY DEF DeliveryInv, DeliveryShape
<1>2. PICK m \in Message : held[r] = <<m>>
  BY DEF DeliveryInv, OneHeld
<1>3. held[r][1] = m
  BY <1>2
<1> QED BY <1>1, <1>2, <1>3, IdsOfOne

(* A replay publishes the message and lets go of it, and may put it back   *)
(* as well.                                                                *)
LEMMA RepublishStep ==
  ASSUME DeliveryAssumption, DeliveryInv, NEW r \in Replayers,
         NEW m \in Message, m.id = held[r][1].id, Republish(r, m),
         ~Taken(m.key) => ReplaysIntoNothing(m.id)
  PROVE  DeliveryInv' /\ StepSound
<1> USE DEF DeliveryInv
<1>1. /\ queue' = Route(queue, m) /\ held' = [held EXCEPT ![r] = <<>>]
      /\ dlq' = dlq \/ dlq' = held[r] \o dlq
      /\ UNCHANGED <<unacked, consuming, routed>>
      /\ held[r] # <<>>
  BY DEF Republish
<1>2. held[r] \in Seq(Message) /\ dlq \in Seq(Message)
  BY <1>1, OneDeadLetter DEF DeliveryShape
<1>3. IdsOf(held[r]) = {m.id}
  BY <1>1, OneDeadLetter
<1>4. /\ held' \in [Replayers -> Seq(Message)] /\ IdsOf(held'[r]) = {}
      /\ \A t \in Replayers \ {r} : held'[t] = held[t]
      /\ \A t \in Replayers : held'[t] = <<>> \/ \E n \in Message : held'[t] = <<n>>
  BY <1>1, LetGo
<1>5. dlq' \in Seq(Message) /\ IdsOf(dlq) \subseteq IdsOf(dlq')
  <2>1. CASE dlq' = dlq
    BY <1>2, <2>1
  <2>2. CASE dlq' = held[r] \o dlq
    <3>1. held[r] \o dlq \in Seq(Message) /\ IdsOf(held[r] \o dlq) = IdsOf(held[r]) \cup IdsOf(dlq)
      BY <1>2, IdsOfConcat
    <3> QED BY <2>2, <3>1
  <2> QED BY <1>1, <2>1, <2>2
<1>6. /\ queue' \in [Queues -> Seq(Message)]
      /\ \A q \in Queues : IdsOf(queue[q]) \subseteq IdsOf(queue'[q])
      /\ Taken(m.key) => \E q \in Services : m.id \in IdsOf(queue'[q])
  BY <1>1, Routed
<1>7. DeliveryShape' /\ Unconsumed' /\ OneHeld'
  BY <1>1, <1>4, <1>5, <1>6 DEF DeliveryShape, Unconsumed, OneHeld
<1>8. ASSUME NEW id, KeptIn(id, queue, dlq, held)
      PROVE  KeptIn(id, queue', dlq', held') \/ ReplaysIntoNothing(id)
  <2>1. KeptIn(m.id, queue', dlq', held') \/ ReplaysIntoNothing(m.id)
    BY <1>6 DEF KeptIn
  <2>2. ASSUME NEW q \in Services, id \in IdsOf(queue[q]) PROVE id \in IdsOf(queue'[q])
    BY <1>6, <2>2 DEF Queues
  <2>3. ASSUME NEW t \in Replayers, id \in IdsOf(held[t])
        PROVE  id \in IdsOf(held'[t]) \/ id = m.id
    BY <1>3, <1>4, <2>3
  <2> QED BY <1>5, <1>8, <2>1, <2>2, <2>3 DEF KeptIn, DeadIn
<1>9. StepSound
  BY <1>1, <1>8 DEF StepSound, LossNamed
<1> QED BY <1>7, <1>9

LEMMA ReplayMessageStep ==
  ASSUME DeliveryAssumption, DeliveryInv, NEW r \in Replayers, NEW k \in RoutingKeys,
         replayMessage(r, k)
  PROVE  DeliveryInv' /\ StepSound
<1> DEFINE m == [held[r][1] EXCEPT !.key = k]
<1>1. held[r] # <<>> /\ Republish(r, m)
  BY DEF replayMessage
<1>2. held[r][1] \in Message
  BY <1>1, OneDeadLetter
<1>3. m \in Message /\ m.id = held[r][1].id /\ m.key = k
  BY <1>2 DEF Message
<1>4. ~Taken(k) => ReplaysIntoNothing(held[r][1].id)
  BY <1>1 DEF ReplaysIntoNothing
<1> HIDE DEF m
<1> QED BY <1>1, <1>3, <1>4, RepublishStep

LEMMA ReplayAllStep ==
  ASSUME DeliveryAssumption, DeliveryInv, NEW r \in Replayers, replayAll(r)
  PROVE  DeliveryInv' /\ StepSound
<1> DEFINE m == held[r][1]
<1>0. held[r] # <<>>
  BY DEF replayAll
<1>1. m \in Message /\ IdsOf(held[r]) = {m.id}
  BY <1>0, OneDeadLetter
<1>2. CASE m.replay >= MaxReplayAttempts
  <2>1. /\ held' = [held EXCEPT ![r] = <<>>]
        /\ UNCHANGED <<queue, unacked, consuming, dlq, routed>>
    BY <1>2 DEF replayAll
  <2>2. LossNamed(m.id)
    BY <1>2 DEF LossNamed, Discards
  <2> HIDE DEF m
  <2>3. /\ held' \in [Replayers -> Seq(Message)] /\ IdsOf(held'[r]) = {}
        /\ \A t \in Replayers \ {r} : held'[t] = held[t]
        /\ \A t \in Replayers : held'[t] = <<>> \/ \E n \in Message : held'[t] = <<n>>
    BY <2>1, LetGo
  <2>4. \A id : DeadIn(id, dlq, held) => DeadIn(id, dlq', held') \/ id = m.id
    BY <1>1, <2>1, <2>3 DEF DeadIn
  <2>5. dlq' \in Seq(Message)
    BY <2>1 DEF DeliveryInv, DeliveryShape
  <2> QED BY <2>1, <2>2, <2>3, <2>4, <2>5, DeadStep
<1>3. CASE ~(m.replay >= MaxReplayAttempts)
  <2> DEFINE again == [m EXCEPT !.replay = m.replay + 1]
  <2>1. Republish(r, again)
    BY <1>3 DEF replayAll
  <2>2. m.replay + 1 \in 0 .. MaxReplayAttempts
    BY <1>1, <1>3, MessageFields DEF DeliveryAssumption
  <2>3. again \in Message /\ again.id = m.id /\ again.key = m.key
    BY <1>1, <2>2 DEF Message
  <2>4. ~Taken(m.key) => ReplaysIntoNothing(m.id)
    BY <1>0 DEF ReplaysIntoNothing
  <2> HIDE DEF again
  <2> QED BY <2>1, <2>3, <2>4, RepublishStep
<1> QED BY <1>2, <1>3

LEMMA PurgeStep ==
  ASSUME DeliveryInv, purge
  PROVE  DeliveryInv' /\ StepSound
<1>1. dlq' = <<>> /\ UNCHANGED <<queue, unacked, consuming, held, routed>>
  BY DEF purge
<1>2. \A id : LossNamed(id)
  BY DEF LossNamed, Discards
<1>3. dlq' \in Seq(Message) /\ held' \in [Replayers -> Seq(Message)]
  BY <1>1 DEF DeliveryInv, DeliveryShape
<1>4. \A t \in Replayers : held'[t] = <<>> \/ \E n \in Message : held'[t] = <<n>>
  BY <1>1 DEF DeliveryInv, OneHeld
<1> QED BY <1>1, <1>2, <1>3, <1>4, DeadStep

LEMMA DeadLetterExpiresStep ==
  ASSUME DeliveryInv, DeadLetterExpires
  PROVE  DeliveryInv' /\ StepSound
<1> DEFINE h == Head(dlq)
<1>1. dlq \in Seq(Message) /\ dlq # <<>>
  BY DEF DeadLetterExpires, DeliveryInv, DeliveryShape
<1>2. Tail(dlq) \in Seq(Message) /\ IdsOf(dlq) = {h.id} \cup IdsOf(Tail(dlq))
  BY <1>1, IdsOfHeadTail
<1>3. dlq' = Tail(dlq) /\ UNCHANGED <<queue, unacked, consuming, held, routed>>
  BY DEF DeadLetterExpires
<1>4. LossNamed(h.id)
  BY DEF LossNamed, Discards
<1> HIDE DEF h
<1>5. \A id : DeadIn(id, dlq, held) => DeadIn(id, dlq', held') \/ id = h.id
  BY <1>2, <1>3 DEF DeadIn
<1>6. held' \in [Replayers -> Seq(Message)] /\ \A t \in Replayers : held'[t] = <<>> \/ \E n \in Message : held'[t] = <<n>>
  BY <1>3 DEF DeliveryInv, DeliveryShape, OneHeld
<1> QED BY <1>2, <1>3, <1>4, <1>5, <1>6, DeadStep

LEMMA DeliveryStep ==
  ASSUME DeliveryAssumption, DeliveryInv, [DeliveryNext]_deliveryVars
  PROVE  DeliveryInv' /\ StepSound
<1>1. CASE UNCHANGED deliveryVars
  BY <1>1, ElsewhereStep DEF deliveryVars, DeliveryInv, DeliveryShape
<1>2. ASSUME NEW id \in Ids, publish(id) PROVE DeliveryInv' /\ StepSound
  BY <1>2, PublishStep
<1>3. ASSUME NEW q \in Queues, NEW p \in Patterns, subscribe(q, p) PROVE DeliveryInv' /\ StepSound
  BY <1>3, SubscribeStep
<1>4. ASSUME NEW q \in Queues, EventBusSubscribe(q) PROVE DeliveryInv' /\ StepSound
  BY <1>4, SubscribeStep DEF EventBusSubscribe
<1>5. ASSUME NEW q \in Queues, Deliver(q) PROVE DeliveryInv' /\ StepSound
  BY <1>5, DeliverStep
<1>6. ASSUME NEW q \in Queues, HandlerReturns(q) PROVE DeliveryInv' /\ StepSound
  BY <1>6, HandlerReturnsStep
<1>7. ASSUME NEW q \in Queues, HandlerThrows(q) PROVE DeliveryInv' /\ StepSound
  BY <1>7, HandlerThrowsStep
<1>8. ASSUME NEW q \in Queues, Expire(q) PROVE DeliveryInv' /\ StepSound
  BY <1>8, ExpireStep
<1>9. ASSUME NEW q \in Queues, ConsumerLost(q) PROVE DeliveryInv' /\ StepSound
  BY <1>9, ConsumerLostStep
<1>10. ASSUME NEW r \in Replayers, Get(r) PROVE DeliveryInv' /\ StepSound
  BY <1>10, GetStep
<1>11. ASSUME NEW r \in Replayers, PutBack(r) PROVE DeliveryInv' /\ StepSound
  BY <1>11, PutBackStep
<1>12. ASSUME NEW r \in Replayers, NEW k \in RoutingKeys, replayMessage(r, k)
       PROVE  DeliveryInv' /\ StepSound
  BY <1>12, ReplayMessageStep
<1>13. ASSUME NEW r \in Replayers, replayAll(r) PROVE DeliveryInv' /\ StepSound
  BY <1>13, ReplayAllStep
<1>14. CASE purge
  BY <1>14, PurgeStep
<1>15. CASE DeadLetterExpires
  BY <1>15, DeadLetterExpiresStep
<1> QED
  BY <1>1, <1>2, <1>3, <1>4, <1>5, <1>6, <1>7, <1>8, <1>9, <1>10, <1>11, <1>12, <1>13,
     <1>14, <1>15 DEF DeliveryNext

(* Whatever keys are bound and however full the queues are, a message a    *)
(* service queue has accepted stays in a service queue, a dead letter or   *)
(* in a replayer's hands through retries, replays of several operators,    *)
(* backpressure and lost channels; it is lost only when it is discarded on *)
(* purpose, expires where no dead letter key is bound, or is replayed to a *)
(* full queue or under a key no service has (message-queue.js,             *)
(* dead-letter-handler.js).                                                *)
THEOREM LossesExplainedHolds == DeliverySpec => LossesExplained
<1>1. DeliveryInit => DeliveryInv
  BY DeliveryInitInv
<1>2. DeliveryInv /\ [DeliveryNext]_deliveryVars => DeliveryInv'
  BY DeliveryStep, DeliveryAssumption
<1>3. ASSUME DeliveryInv, [DeliveryNext]_deliveryVars
      PROVE  \A id \in Ids :
               /\ id \in routed' \ routed => Kept(id)'
               /\ Kept(id) /\ ~Kept(id)' =>
                    Discards(id) \/ ExpiresForGood(id) \/ ReplaysIntoNothing(id)
  <2>1. StepSound
    BY <1>3, DeliveryStep, DeliveryAssumption
  <2> QED BY <2>1, KeptIs DEF StepSound, LossNamed
<1> QED BY <1>1, <1>2, <1>3, PTL DEF DeliverySpec, LossesExplained

-----------------------------------------------------------------------------
(* The retry policy: powers of two are numbers, and so are the delays.     *)
LEMMA PowerType == \A n \in 0 .. policyRetries : Power[n] \in Nat
<1> DEFINE N == policyRetries
           st == [n \in 1 .. N |-> [x \in Nat |-> 2 * x]]
           Body(p) == [n \in 0 .. N |-> IF n = 0 THEN 1 ELSE 2 * p[n - 1]]
           one == 1
<1>0. N \in Nat
  BY ResilienceAssumption
<1>1. st \in [1 .. N -> [Nat -> Nat]] /\ one \in Nat
  OBVIOUS
<1>2. \A n \in 1 .. N, x \in Nat : st[n][x] = 2 * x
  OBVIOUS
<1>3. Power = CHOOSE p : p = Body(p)
  BY DEF Power
<1> HIDE DEF st, N, one
<1>4. PICK f \in [0 .. N -> Nat] : Solves(f, N, one, st)
  BY <1>0, <1>1, Recursion
<1>5. \A n \in 1 .. N : n \in 0 .. N /\ n - 1 \in 0 .. N /\ n # 0
  BY <1>0
<1>6. \A n \in 1 .. N : f[n] = 2 * f[n - 1]
  BY <1>2, <1>4, <1>5 DEF Solves
<1>7. f = Body(f)
  <2>1. \A n \in 0 .. N : n # 0 => n \in 1 .. N
    BY <1>0
  <2>2. \A n \in 0 .. N : f[n] = Body(f)[n]
    BY <1>4, <1>6, <2>1 DEF Solves, one
  <2>3. f = [n \in 0 .. N |-> f[n]]
    BY <1>4
  <2> QED BY <2>2, <2>3
<1>8. Power = Body(Power)
  BY <1>3, <1>7
<1> DEFINE U == {n \in 0 .. N : Power[n] \in Nat}
<1>9. 0 \in U
  BY <1>0, <1>8
<1>10. ASSUME NEW n \in 0 .. N, n < N, n \in U PROVE n + 1 \in U
  <2>1. n + 1 \in 0 .. N /\ n + 1 # 0 /\ (n + 1) - 1 = n
    BY <1>0, <1>10
  <2>2. Power[n + 1] = 2 * Power[n]
    BY <1>8, <2>1
  <2>3. Power[n] \in Nat
    BY <1>10
  <2> QED BY <2>1, <2>2, <2>3
<1> HIDE DEF U
<1>11. \A n \in 0 .. N : n \in U
  BY <1>0, <1>9, <1>10, UpTo, Zenon
<1> QED BY <1>11 DEF U, N

LEMMA MinOfTwo ==
  ASSUME NEW a \in Int, NEW b \in Int
  PROVE  Min({a, b}) = IF a <= b THEN a ELSE b
<1>1. CASE a <= b
  <2>1. \A x \in {a, b} : (\A y \in {a, b} : x <= y) => x = a
    BY <1>1
  <2>2. a \in {a, b} /\ \A y \in {a, b} : a <= y
    BY <1>1
  <2> QED BY <1>1, <2>1, <2>2 DEF Min
<1>2. CASE ~(a <= b)
  <2>1. \A x \in {a, b} : (\A y \in {a, b} : x <= y) => x = b
    BY <1>2
  <2>2. b \in {a, b} /\ \A y \in {a, b} : b <= y
    BY <1>2
  <2> QED BY <1>2, <2>1, <2>2 DEF Min
<1> QED BY <1>1, <1>2

LEMMA MaxOfTwo ==
  ASSUME NEW a \in Int, NEW b \in Int
  PROVE  Max({a, b}) = IF a >= b THEN a ELSE b
<1>1. CASE a >= b
  <2>1. \A x \in {a, b} : (\A y \in {a, b} : x >= y) => x = a
    BY <1>1
  <2>2. a \in {a, b} /\ \A y \in {a, b} : a >= y
    BY <1>1
  <2> QED BY <1>1, <2>1, <2>2 DEF Max
<1>2. CASE ~(a >= b)
  <2>1. \A x \in {a, b} : (\A y \in {a, b} : x >= y) => x = b
    BY <1>2
  <2>2. b \in {a, b} /\ \A y \in {a, b} : b >= y
    BY <1>2
  <2> QED BY <1>2, <2>1, <2>2 DEF Max
<1> QED BY <1>1, <1>2

(* No strategy delays by more than the cap, before the jitter.             *)
LEMMA DelaysCapped ==
  ASSUME NEW strategy, NEW tries \in 0 .. policyRetries
  PROVE  \A d \in Delays(strategy, tries) : d \in Int /\ d <= maxDelay
<1> USE ResilienceAssumption
<1>1. ASSUME NEW x \in Int PROVE Min({x, maxDelay}) \in Int /\ Min({x, maxDelay}) <= maxDelay
  BY MinOfTwo
<1>2. Power[tries] \in Nat
  BY PowerType
<1>3. baseDelay \in Int /\ baseDelay * (tries + 1) \in Int /\ baseDelay * Power[tries] \in Int
  BY <1>2
<1> DEFINE grown == Min({baseDelay * Power[tries], maxDelay})
           low == Min({baseDelay, grown})
           high == Max({baseDelay, grown})
<1>4. low \in Int /\ high \in Int
  <2>1. grown \in Int
    BY <1>1, <1>3
  <2> HIDE DEF grown
  <2> QED BY <1>3, <2>1, MinOfTwo, MaxOfTwo
<1>5. \A d \in low .. high : d \in Int
  BY <1>4
<1> HIDE DEF low, high
<1>6. \A d \in low .. high : Min({d, maxDelay}) \in Int /\ Min({d, maxDelay}) <= maxDelay
  BY <1>1, <1>5
<1>7. CASE strategy = "fixed"
  BY <1>1, <1>3, <1>7 DEF Delays
<1>8. CASE strategy = "linear"
  BY <1>1, <1>3, <1>8 DEF Delays
<1>9. CASE strategy = "decorrelated"
  <2>1. Delays(strategy, tries) = {Min({d, maxDelay}) : d \in low .. high}
    BY <1>9 DEF Delays, low, high
  <2> QED BY <1>6, <2>1
<1>10. CASE strategy \notin {"fixed", "linear", "decorrelated"}
  <2>1. Delays(strategy, tries) = {grown}
    BY <1>10 DEF Delays
  <2> QED BY <1>1, <1>3, <2>1
<1> QED BY <1>7, <1>8, <1>9, <1>10

LEMMA DelayBounded ==
  ASSUME NEW strategy, NEW tries \in 0 .. policyRetries, NEW delay \in getDelay(strategy, tries)
  PROVE  delay \in Int /\ 4 * delay <= 5 * maxDelay + 3
<1> USE ResilienceAssumption
<1>1. CASE tries >= policyRetries
  BY <1>1 DEF getDelay
<1>2. CASE ~(tries >= policyRetries)
  <2>1. PICK d \in Delays(strategy, tries) : delay \in (4 * d - d) \div 4 .. (4 * d + d + 3) \div 4
    BY <1>2 DEF getDelay
  <2>2. d \in Int /\ d <= maxDelay
    BY <2>1, DelaysCapped
  <2>3. /\ (4 * d - d) \div 4 \in Int /\ (4 * d + d + 3) \div 4 \in Int
        /\ 4 * ((4 * d + d + 3) \div 4) <= 5 * d + 3
    BY <2>2
  <2>4. delay \in Int /\ delay <= (4 * d + d + 3) \div 4
    BY <2>1, <2>3
  <2> QED BY <2>2, <2>3, <2>4
<1> QED BY <1>1, <1>2

Permanent == {"permanentName", "permanentText"}

(* A call has met one error per attempt that is over, the last of them     *)
(* alone may be one that is not retried, and an attempt that sleeps is not *)
(* the last.                                                               *)
RetryIInv ==
  /\ call.attempt \in 0 .. policyRetries
  /\ call.errors \in Seq(ErrorKinds)
  /\ call.st \in {"idle", "running"} => Len(call.errors) = call.attempt
  /\ call.st = "sleeping" => call.attempt < policyRetries /\ Len(call.errors) = call.attempt + 1
  /\ call.st \in {"resolved", "rejected"} => Len(call.errors) \in 0 .. policyRetries + 1
  /\ call.st \in {"idle", "running", "sleeping", "resolved", "rejected"}
  /\ \A n \in 1 .. Len(call.errors) :
       (call.st = "rejected" /\ n = Len(call.errors)) \/ call.errors[n] \notin Permanent
  /\ call.wait \in Int /\ 4 * call.wait <= 5 * maxDelay + 3
  /\ DOMAIN call = {"st", "attempt", "wait", "errors"}
  /\ call = [st |-> call.st, attempt |-> call.attempt, wait |-> call.wait, errors |-> call.errors]

LEMMA FailsInv ==
  ASSUME RetryIInv, NEW error \in ErrorKinds, NEW strategy, FnFails(error, strategy)
  PROVE  RetryIInv'
<1> USE ResilienceAssumption
<1> DEFINE a == call.attempt
           es == call.errors
           more == Append(es, error)
           verdict == shouldRetry(error, a)
<1>1. PICK delay \in getDelay(strategy, a) :
        call' = [call EXCEPT
          !.errors = Append(@, error),
          !.st = IF verdict # "retry" \/ delay < 0 THEN "rejected" ELSE "sleeping",
          !.wait = IF verdict # "retry" THEN 0 ELSE delay]
  BY DEF FnFails
<1> DEFINE st == IF verdict # "retry" \/ delay < 0 THEN "rejected" ELSE "sleeping"
           w == IF verdict # "retry" THEN 0 ELSE delay
<1>2. a \in 0 .. policyRetries /\ es \in Seq(ErrorKinds) /\ Len(es) = a /\ call.st = "running"
  BY DEF RetryIInv, FnFails
<1>3. delay \in Int /\ 4 * delay <= 5 * maxDelay + 3
  BY <1>2, DelayBounded
<1>4. verdict = "retry" => a < policyRetries /\ error \notin Permanent
  BY <1>2 DEF shouldRetry, Permanent
<1>5. more \in Seq(ErrorKinds) /\ Len(more) = a + 1 /\ more[a + 1] = error
      /\ \A n \in 1 .. a : more[n] = es[n]
  BY <1>2
<1>6. w \in Int /\ 4 * w <= 5 * maxDelay + 3
  BY <1>3
<1>7. st \in {"rejected", "sleeping"} /\ (st = "sleeping" => verdict = "retry")
  OBVIOUS
<1>8. call' = [st |-> st, attempt |-> a, wait |-> w, errors |-> more]
  BY <1>1 DEF RetryIInv
<1> HIDE DEF verdict, st, w, more, a, es
<1>9. /\ call'.st = st /\ call'.attempt = a /\ call'.wait = w /\ call'.errors = more
      /\ DOMAIN call' = {"st", "attempt", "wait", "errors"}
  BY <1>8
<1>10. \A n \in 1 .. a : es[n] \notin Permanent
  BY <1>2 DEF RetryIInv, a, es
<1>11. \A n \in 1 .. Len(more) : (st = "rejected" /\ n = Len(more)) \/ more[n] \notin Permanent
  <2> SUFFICES ASSUME NEW n \in 1 .. Len(more) PROVE (st = "rejected" /\ n = Len(more)) \/ more[n] \notin Permanent
    OBVIOUS
  <2>1. n \in 1 .. a \/ n = a + 1
    BY <1>2, <1>5
  <2> QED BY <1>4, <1>5, <1>7, <1>10, <2>1
<1>12. st = "sleeping" => a < policyRetries
  BY <1>4, <1>7
<1>13. call'.st \in {"idle", "running"} => Len(call'.errors) = call'.attempt
  BY <1>7, <1>9
<1>14. call'.st = "sleeping" => call'.attempt < policyRetries /\ Len(call'.errors) = call'.attempt + 1
  BY <1>5, <1>9, <1>12
<1>15. call'.st \in {"resolved", "rejected"} => Len(call'.errors) \in 0 .. policyRetries + 1
  BY <1>2, <1>5, <1>9
<1>16. call'.attempt \in 0 .. policyRetries /\ call'.errors \in Seq(ErrorKinds)
  BY <1>2, <1>5, <1>9
<1>17. call'.wait \in Int /\ 4 * call'.wait <= 5 * maxDelay + 3
  BY <1>6, <1>9
<1>18. call'.st \in {"idle", "running", "sleeping", "resolved", "rejected"}
  BY <1>7, <1>9
<1>19. \A n \in 1 .. Len(call'.errors) :
         (call'.st = "rejected" /\ n = Len(call'.errors)) \/ call'.errors[n] \notin Permanent
  BY <1>9, <1>11
<1>20. call' = [st |-> call'.st, attempt |-> call'.attempt, wait |-> call'.wait, errors |-> call'.errors]
  BY <1>8, <1>9
<1> QED BY <1>9, <1>13, <1>14, <1>15, <1>16, <1>17, <1>18, <1>19, <1>20 DEF RetryIInv

LEMMA RetryStepInv == RetryIInv /\ [RetryNext]_retryVars => RetryIInv'
<1> SUFFICES ASSUME RetryIInv, [RetryNext]_retryVars PROVE RetryIInv'
  OBVIOUS
<1> USE ResilienceAssumption
<1>1. CASE UNCHANGED retryVars
  BY <1>1 DEF RetryIInv, retryVars
<1>2. CASE execute
  BY <1>2 DEF execute, Attempt, RetryIInv
<1>3. CASE FnSucceeds
  <2>1. call' = [st |-> "resolved", attempt |-> call.attempt, wait |-> call.wait, errors |-> call.errors]
    BY <1>3 DEF FnSucceeds, RetryIInv
  <2>2. Len(call.errors) \in 0 .. policyRetries + 1
    BY <1>3 DEF FnSucceeds, RetryIInv
  <2> QED BY <1>3, <2>1, <2>2 DEF FnSucceeds, RetryIInv
<1>4. ASSUME NEW error \in ErrorKinds, NEW strategy \in Strategies, FnFails(error, strategy)
      PROVE  RetryIInv'
  BY <1>4, FailsInv
<1>5. CASE Wakes
  <2>1. call.st = "sleeping" /\ call.attempt + 1 <= policyRetries /\ Len(call.errors) = call.attempt + 1
    BY <1>5 DEF Wakes, RetryIInv
  <2>2. call' = [st |-> "running", attempt |-> call.attempt + 1, wait |-> 0, errors |-> call.errors]
    BY <1>5, <2>1 DEF Wakes, RetryIInv
  <2> QED BY <2>1, <2>2 DEF RetryIInv
<1> QED BY <1>1, <1>2, <1>3, <1>4, <1>5 DEF RetryNext, RetryGoesOn

(* For every number of retries, base delay, cap and strategy a call under  *)
(* the retry policy meets at most one error more than it may retry, none   *)
(* after one the tables call permanent, and waits no longer than the cap   *)
(* and its jitter (retry-policy.js).                                       *)
THEOREM RetriesSoundHolds == RetrySpec => []RetriesSound
<1>1. RetryInit => RetryIInv
  BY ResilienceAssumption DEF RetryInit, Attempt, RetryIInv
<1>2. RetryIInv => RetriesSound
  <2> SUFFICES ASSUME RetryIInv PROVE RetriesSound
    OBVIOUS
  <2>1. Len(call.errors) \in Nat /\ Len(call.errors) <= policyRetries + 1
    BY ResilienceAssumption DEF RetryIInv
  <2>2. ASSUME NEW n \in 1 .. Len(call.errors) - 1 PROVE call.errors[n] \notin Permanent
    BY <2>1, <2>2 DEF RetryIInv
  <2> QED BY <2>1, <2>2 DEF RetriesSound, RetryIInv, Permanent
<1> QED BY <1>1, <1>2, RetryStepInv, PTL DEF RetrySpec

(* Timers are pairs of a replica and the time left.                        *)
ReplicaIInv ==
  /\ health = [i \in ReplicaIds |-> health[i]]
  /\ \A t \in rests : t = <<t[1], t[2]>>
  /\ UnhealthyHasTimer

LEMMA MarkedInv ==
  ASSUME ReplicaIInv, NEW i, Marked(i)
  PROVE  ReplicaIInv'
<1>1. health' = [health EXCEPT ![i] = "unhealthy"] /\ rests' = rests \cup {<<i, restTicks>>}
  BY DEF Marked, Rest
<1>2. /\ health' = [j \in ReplicaIds |-> health'[j]]
      /\ \A j \in ReplicaIds : health'[j] = health[j] \/ j = i
  BY <1>1 DEF ReplicaIInv
<1>3. \A t \in rests' : t = <<t[1], t[2]>>
  BY <1>1 DEF ReplicaIInv
<1>4. ASSUME NEW j \in ReplicaIds, health'[j] = "unhealthy" PROVE \E t \in rests' : t[1] = j
  <2>1. CASE j = i
    <3> DEFINE u == <<i, restTicks>>
    <3>1. u \in rests' /\ u[1] = i
      BY <1>1
    <3> HIDE DEF u
    <3> QED BY <2>1, <3>1
  <2>2. CASE health'[j] = health[j]
    BY <1>1, <1>4, <2>2 DEF ReplicaIInv, UnhealthyHasTimer
  <2> QED BY <1>2, <2>1, <2>2
<1> QED BY <1>2, <1>3, <1>4 DEF ReplicaIInv, UnhealthyHasTimer

LEMMA ReplicaStepInv == ReplicaIInv /\ [ReplicaNext]_replicaVars => ReplicaIInv'
<1> SUFFICES ASSUME ReplicaIInv, [ReplicaNext]_replicaVars PROVE ReplicaIInv'
  OBVIOUS
<1>1. CASE UNCHANGED <<health, rests>>
  BY <1>1 DEF ReplicaIInv, UnhealthyHasTimer
<1>2. ASSUME NEW q \in Readers, ReadBegins(q) \/ PrimaryBegins(q) \/ Answered(q)
      PROVE  ReplicaIInv'
  BY <1>1, <1>2 DEF ReadBegins, PrimaryBegins, Answered
<1>3. ASSUME NEW q \in Readers, ReplicaFails(q) PROVE ReplicaIInv'
  BY <1>3, MarkedInv DEF ReplicaFails
<1>4. ASSUME NEW t \in rests, RestOver(t) PROVE ReplicaIInv'
  <2>1. /\ rests' = rests \ {t}
        /\ health' = [health EXCEPT ![t[1]] = IF @ = "unhealthy" THEN "unknown" ELSE @]
    BY <1>4 DEF RestOver
  <2>2. /\ health' = [j \in ReplicaIds |-> health'[j]]
        /\ \A j \in ReplicaIds : IF j = t[1] THEN health'[j] # "unhealthy" ELSE health'[j] = health[j]
    BY <2>1 DEF ReplicaIInv
  <2>3. ASSUME NEW j \in ReplicaIds, health'[j] = "unhealthy" PROVE \E u \in rests' : u[1] = j
    <3>1. j # t[1] /\ health[j] = "unhealthy"
      BY <2>2, <2>3
    <3>2. PICK u \in rests : u[1] = j
      BY <3>1 DEF ReplicaIInv, UnhealthyHasTimer
    <3>3. u # t
      BY <3>1, <3>2, Zenon
    <3>4. u \in rests'
      BY <2>1, <3>2, <3>3
    <3> QED BY <3>2, <3>4
  <2> QED BY <2>1, <2>2, <2>3 DEF ReplicaIInv, UnhealthyHasTimer
<1>5. CASE CheckBegins
  BY <1>1, <1>5 DEF CheckBegins
<1>6. CASE CheckAnswers
  <2>1. health' = [health EXCEPT ![checking] = "healthy"] /\ rests' = rests
    BY <1>6 DEF CheckAnswers
  <2>2. /\ health' = [j \in ReplicaIds |-> health'[j]]
        /\ \A j \in ReplicaIds : health'[j] = health[j] \/ health'[j] = "healthy"
    BY <2>1 DEF ReplicaIInv
  <2> QED BY <2>1, <2>2 DEF ReplicaIInv, UnhealthyHasTimer
<1>7. ASSUME NEW connected \in BOOLEAN, CheckFails(connected) PROVE ReplicaIInv'
  BY <1>7, MarkedInv DEF CheckFails
<1>8. CASE ReplicaTick
  <2>1. rests' = {<<t[1], t[2] - 1>> : t \in rests} /\ health' = health
    BY <1>8 DEF ReplicaTick
  <2>2. \A t \in rests : <<t[1], t[2] - 1>> \in rests' /\ <<t[1], t[2] - 1>>[1] = t[1]
    BY <2>1
  <2>3. \A t \in rests' : t = <<t[1], t[2]>>
    BY <2>1
  <2>4. UnhealthyHasTimer'
    BY <2>1, <2>2 DEF ReplicaIInv, UnhealthyHasTimer
  <2> QED BY <2>1, <2>3, <2>4 DEF ReplicaIInv
<1>9. CASE UNCHANGED replicaVars
  BY <1>1, <1>9 DEF replicaVars
<1> QED BY <1>2, <1>3, <1>4, <1>5, <1>6, <1>7, <1>8, <1>9 DEF ReplicaNext

(* However queries, the health check and older timers interleave, an       *)
(* unhealthy replica has a timer that will have it tried again             *)
(* (read-replica.js, _markReplicaUnhealthy): what RecoversAgain needs      *)
(* beyond fair timers.                                                     *)
THEOREM UnhealthyHasTimerHolds == ReplicaSpec => []UnhealthyHasTimer
<1>1. ReplicaInit => ReplicaIInv
  BY DEF ReplicaInit, ReplicaIInv, UnhealthyHasTimer
<1>2. ReplicaIInv => UnhealthyHasTimer
  BY DEF ReplicaIInv
<1> QED BY <1>1, <1>2, ReplicaStepInv, PTL DEF ReplicaSpec

-----------------------------------------------------------------------------
(* Webhooks.  The log holds one entry for each of the dispatches that ended*)
(* last, with what became of it; a dispatch that ended and is not in it    *)
(* has been dropped from a full log.                                       *)
Ended == {d \in Deliveries : state[d] = "done"}
Outcome(d, agreed) == IF d \in agreed THEN "delivered" ELSE "failed"

Logged ==
  /\ \A i \in 1 .. Len(deliveryLog) : /\ deliveryLog[i][1] \in Ended
                                      /\ deliveryLog[i][2] = Outcome(deliveryLog[i][1], accepted)
  /\ \A i, j \in 1 .. Len(deliveryLog) : deliveryLog[i][1] = deliveryLog[j][1] => i = j
  /\ \A d \in Ended : Len(deliveryLog) < MaxLog =>
       \E i \in 1 .. Len(deliveryLog) : deliveryLog[i][1] = d

WebhookIInv ==
  /\ WebhooksTypeOK
  /\ \A d \in Deliveries : state[d] = "sleeping" => attempt[d] < maxRetries
  /\ IsFiniteSet(Ended) /\ accepted \subseteq Ended /\ accepted \subseteq received
  /\ Logged

(* Tracking adds an entry at the end and drops the first k, one if the log *)
(* was full and none otherwise.                                            *)
LEMMA Tracked ==
  ASSUME WebhookIInv, NEW d \in Deliveries, NEW status \in {"delivered", "failed"},
         _trackDelivery(d, status)
  PROVE  \E k \in 0 .. 1 :
           /\ deliveryLog' \in Seq(Deliveries \X {"delivered", "failed"})
           /\ Len(deliveryLog') = Len(deliveryLog) + 1 - k /\ Len(deliveryLog') \in 1 .. MaxLog
           /\ k = 1 => Len(deliveryLog') = MaxLog
           /\ \A i \in 1 .. Len(deliveryLog') - 1 : deliveryLog'[i] = deliveryLog[i + k]
           /\ deliveryLog'[Len(deliveryLog')][1] = d /\ deliveryLog'[Len(deliveryLog')][2] = status
<1> DEFINE E == Deliveries \X {"delivered", "failed"}
           log == Append(deliveryLog, <<d, status>>)
<1>1. /\ deliveryLog \in Seq(E) /\ Len(deliveryLog) \in 0 .. MaxLog
      /\ <<d, status>> \in E /\ MaxLog \in Nat \ {0}
  BY WebhooksAssumption DEF WebhookIInv, WebhooksTypeOK
<1>2. deliveryLog' = IF Len(log) > MaxLog THEN Tail(log) ELSE log
  BY DEF _trackDelivery
<1> HIDE DEF E
<1>3. /\ log \in Seq(E) /\ Len(log) = Len(deliveryLog) + 1 /\ log[Len(log)][1] = d /\ log[Len(log)][2] = status
      /\ \A i \in 1 .. Len(deliveryLog) : log[i] = deliveryLog[i]
  BY <1>1
<1> HIDE DEF log
<1>4. CASE Len(log) > MaxLog
  <2>1. deliveryLog' = Tail(log) /\ Len(log) = MaxLog + 1 /\ log # <<>>
    BY <1>1, <1>2, <1>3, <1>4
  <2>2. /\ Tail(log) \in Seq(E) /\ Len(Tail(log)) = MaxLog
        /\ \A i \in 1 .. MaxLog : Tail(log)[i] = log[i + 1]
    BY <1>1, <1>3, <2>1
  <2>3. Len(deliveryLog) = MaxLog /\ Tail(log)[MaxLog][1] = d /\ Tail(log)[MaxLog][2] = status
    BY <1>1, <1>3, <2>1, <2>2
  <2>4. \A i \in 1 .. MaxLog - 1 : Tail(log)[i] = deliveryLog[i + 1]
    BY <1>1, <1>3, <2>2, <2>3
  <2>5. 1 \in 0 .. 1 /\ MaxLog = Len(deliveryLog) + 1 - 1 /\ MaxLog \in 1 .. MaxLog
    BY <1>1, <2>3
  <2> QED BY <2>1, <2>2, <2>3, <2>4, <2>5 DEF E
<1>5. CASE Len(log) <= MaxLog
  <2>1. deliveryLog' = log
    BY <1>1, <1>2, <1>3, <1>5
  <2> QED BY <1>1, <1>3, <1>5, <2>1 DEF E
<1> QED BY <1>1, <1>3, <1>4, <1>5

(* An attempt that is over changes nothing but where its own dispatch      *)
(* stands, and the dispatch sleeps or has ended and is tracked.            *)
LEMMA PostKeeps ==
  ASSUME WebhookIInv, NEW d \in Deliveries, NEW answer \in Answers, NEW arrives \in BOOLEAN,
         Post(d, answer, arrives)
  PROVE  WebhookIInv'
<1> DEFINE status == IF answer = "2xx" THEN "delivered" ELSE "failed"
<1>1. /\ state \in [Deliveries -> {"idle", "posting", "sleeping", "done"}]
      /\ attempt \in [Deliveries -> 0 .. maxRetries]
      /\ received \subseteq Deliveries /\ accepted \subseteq Deliveries
      /\ accepted \subseteq Ended /\ accepted \subseteq received /\ IsFiniteSet(Ended)
      /\ attempt' = attempt /\ state[d] = "posting"
  BY DEF WebhookIInv, WebhooksTypeOK, Post
<1>2. d \notin Ended /\ d \notin accepted
  BY <1>1 DEF Ended
<1>3. CASE Retried(d, answer)
  <2>1. /\ answer # "2xx" /\ attempt[d] < maxRetries
        /\ state' = [state EXCEPT ![d] = "sleeping"] /\ deliveryLog' = deliveryLog
        /\ accepted' = accepted /\ received' \in {received, received \cup {d}}
    BY <1>3 DEF Retried, Post
  <2>2. Ended' = Ended /\ \A e : Outcome(e, accepted') = Outcome(e, accepted)
    BY <1>1, <2>1 DEF Ended, Outcome
  <2>3. Logged'
    BY <2>1, <2>2 DEF WebhookIInv, Logged
  <2>4. WebhooksTypeOK'
    BY <1>1, <2>1 DEF WebhookIInv, WebhooksTypeOK
  <2>5. \A e \in Deliveries : state'[e] = "sleeping" => attempt'[e] < maxRetries
    BY <1>1, <2>1 DEF WebhookIInv
  <2> QED BY <1>1, <2>1, <2>2, <2>3, <2>4, <2>5 DEF WebhookIInv
<1>4. CASE ~Retried(d, answer)
  <2>1. /\ state' = [state EXCEPT ![d] = "done"] /\ _trackDelivery(d, status)
        /\ accepted' = IF answer = "2xx" THEN accepted \cup {d} ELSE accepted
        /\ received' \in {received, received \cup {d}}
        /\ answer = "2xx" => received' = received \cup {d}
    BY <1>4 DEF Post
  <2>2. Ended' = Ended \cup {d}
    BY <1>1, <2>1 DEF Ended
  <2>3. IsFiniteSet(Ended') /\ accepted' \subseteq Ended' /\ accepted' \subseteq received'
    BY <1>1, <2>1, <2>2, FS_AddElement
  <2>4. status \in {"delivered", "failed"} /\ status = Outcome(d, accepted')
    BY <1>2, <2>1 DEF Outcome
  <2>5. \A e \in Ended : e # d /\ Outcome(e, accepted') = Outcome(e, accepted)
    BY <1>2, <2>1 DEF Outcome
  <2> HIDE DEF status
  <2>6. PICK k \in 0 .. 1 :
           /\ deliveryLog' \in Seq(Deliveries \X {"delivered", "failed"})
           /\ Len(deliveryLog') = Len(deliveryLog) + 1 - k /\ Len(deliveryLog') \in 1 .. MaxLog
           /\ k = 1 => Len(deliveryLog') = MaxLog
           /\ \A i \in 1 .. Len(deliveryLog') - 1 : deliveryLog'[i] = deliveryLog[i + k]
           /\ deliveryLog'[Len(deliveryLog')][1] = d /\ deliveryLog'[Len(deliveryLog')][2] = status
    BY <2>1, <2>4, Tracked
  <2>7. WebhooksTypeOK'
    <3>1. Len(deliveryLog') <= MaxLog
      BY <2>6, WebhooksAssumption
    <3>2. state' \in [Deliveries -> {"idle", "posting", "sleeping", "done"}]
      BY <1>1, <2>1
    <3> QED BY <1>1, <2>1, <2>6, <3>1, <3>2 DEF WebhooksTypeOK
  <2>8. \A e \in Deliveries : state'[e] = "sleeping" => attempt'[e] < maxRetries
    BY <1>1, <2>1 DEF WebhookIInv
  <2> DEFINE n == Len(deliveryLog)
             m == Len(deliveryLog')
  <2>9. n \in Nat /\ m \in Nat /\ m >= 1 /\ m = n + 1 - k /\ k \in 0 .. 1 /\ n <= MaxLog /\ MaxLog \in Nat
    BY <2>6, WebhooksAssumption DEF WebhookIInv, WebhooksTypeOK
  <2>10. \A i \in 1 .. m : i = m \/ (i \in 1 .. m - 1 /\ i + k \in 1 .. n)
    BY <2>9
  <2>11. \A i \in 1 .. m : /\ i = m => deliveryLog'[i][1] = d /\ deliveryLog'[i][2] = status
                           /\ i # m => i + k \in 1 .. n /\ deliveryLog'[i] = deliveryLog[i + k]
    BY <2>6, <2>10
  <2>12. \A i \in 1 .. n : deliveryLog[i][1] \in Ended /\ deliveryLog[i][2] = Outcome(deliveryLog[i][1], accepted)
    BY DEF WebhookIInv, Logged
  <2>13. \A i \in 1 .. m : /\ deliveryLog'[i][1] \in Ended'
                           /\ deliveryLog'[i][2] = Outcome(deliveryLog'[i][1], accepted')
    <3> SUFFICES ASSUME NEW i \in 1 .. m
                 PROVE  /\ deliveryLog'[i][1] \in Ended'
                        /\ deliveryLog'[i][2] = Outcome(deliveryLog'[i][1], accepted')
      OBVIOUS
    <3>1. CASE i = m
      <4>1. deliveryLog'[i][1] = d /\ deliveryLog'[i][2] = status
        BY <2>11, <3>1
      <4> QED BY <2>2, <2>4, <4>1
    <3>2. CASE i # m
      <4>1. i + k \in 1 .. n /\ deliveryLog'[i] = deliveryLog[i + k]
        BY <2>11, <3>2
      <4>2. deliveryLog[i + k][1] \in Ended /\ deliveryLog[i + k][2] = Outcome(deliveryLog[i + k][1], accepted)
        BY <2>12, <4>1
      <4> QED BY <2>2, <2>5, <4>1, <4>2
    <3> QED BY <3>1, <3>2
  <2>14. \A i, j \in 1 .. m : deliveryLog'[i][1] = deliveryLog'[j][1] => i = j
    <3> SUFFICES ASSUME NEW i \in 1 .. m, NEW j \in 1 .. m, deliveryLog'[i][1] = deliveryLog'[j][1]
                 PROVE  i = j
      OBVIOUS
    <3>1. i = m <=> j = m
      <4>1. \A l \in 1 .. m : l # m => deliveryLog'[l][1] # d
        BY <2>5, <2>11, <2>12
      <4>2. \A l \in 1 .. m : l = m => deliveryLog'[l][1] = d
        BY <2>11
      <4> QED BY <4>1, <4>2
    <3>2. CASE i # m
      <4>1. deliveryLog[i + k][1] = deliveryLog[j + k][1] /\ i + k \in 1 .. n /\ j + k \in 1 .. n
        BY <2>11, <3>1, <3>2
      <4>2. i + k = j + k
        BY <4>1 DEF WebhookIInv, Logged
      <4> QED BY <2>9, <4>2
    <3> QED BY <3>1, <3>2
  <2>15. ASSUME NEW e \in Ended', m < MaxLog PROVE \E i \in 1 .. m : deliveryLog'[i][1] = e
    <3>1. k = 0 /\ n < MaxLog /\ m = n + 1
      BY <2>6, <2>9, <2>15
    <3>2. CASE e = d
      <4>1. m \in 1 .. m /\ deliveryLog'[m][1] = d
        BY <2>9, <2>11
      <4> QED BY <3>2, <4>1
    <3>3. CASE e \in Ended
      <4>1. PICK i \in 1 .. n : deliveryLog[i][1] = e
        BY <3>1, <3>3 DEF WebhookIInv, Logged
      <4>2. i \in 1 .. m /\ i # m /\ i + k = i
        BY <2>9, <3>1, <4>1
      <4> QED BY <2>11, <4>1, <4>2
    <3> QED BY <2>2, <2>15, <3>2, <3>3
  <2>16. Logged'
    BY <2>13, <2>14, <2>15 DEF Logged
  <2> QED BY <2>3, <2>7, <2>8, <2>16 DEF WebhookIInv
<1> QED BY <1>3, <1>4

LEMMA WebhookStep == WebhookIInv /\ [WebhooksNext]_webhookVars => WebhookIInv'
<1> SUFFICES ASSUME WebhookIInv, [WebhooksNext]_webhookVars PROVE WebhookIInv'
  OBVIOUS
<1>1. /\ state \in [Deliveries -> {"idle", "posting", "sleeping", "done"}]
      /\ attempt \in [Deliveries -> 0 .. maxRetries] /\ maxRetries \in Nat
  BY WebhooksAssumption DEF WebhookIInv, WebhooksTypeOK
<1>2. ASSUME Ended' = Ended, UNCHANGED <<deliveryLog, received, accepted>>
      PROVE  /\ IsFiniteSet(Ended') /\ accepted' \subseteq Ended' /\ accepted' \subseteq received'
             /\ Logged'
  BY <1>2 DEF WebhookIInv, Logged, Outcome
<1>3. ASSUME NEW d \in Deliveries, dispatch(d) PROVE WebhookIInv'
  <2>1. /\ state[d] = "idle" /\ state' = [state EXCEPT ![d] = "posting"]
        /\ UNCHANGED <<attempt, deliveryLog, received, accepted>>
    BY <1>3 DEF dispatch
  <2>2. Ended' = Ended
    BY <1>1, <2>1 DEF Ended
  <2>3. WebhooksTypeOK'
    BY <2>1 DEF WebhookIInv, WebhooksTypeOK
  <2>4. \A e \in Deliveries : state'[e] = "sleeping" => attempt'[e] < maxRetries
    BY <1>1, <2>1 DEF WebhookIInv
  <2> QED BY <1>2, <2>1, <2>2, <2>3, <2>4 DEF WebhookIInv
<1>4. ASSUME NEW d \in Deliveries, _sleep(d) PROVE WebhookIInv'
  <2>1. /\ state[d] = "sleeping" /\ state' = [state EXCEPT ![d] = "posting"]
        /\ attempt' = [attempt EXCEPT ![d] = @ + 1]
        /\ UNCHANGED <<deliveryLog, received, accepted>>
    BY <1>4 DEF _sleep
  <2>2. Ended' = Ended
    BY <1>1, <2>1 DEF Ended
  <2>3. attempt[d] + 1 \in 0 .. maxRetries
    BY <1>1, <2>1 DEF WebhookIInv
  <2>4. attempt' \in [Deliveries -> 0 .. maxRetries]
    BY <1>1, <2>1, <2>3
  <2>5. WebhooksTypeOK'
    BY <2>1, <2>4 DEF WebhookIInv, WebhooksTypeOK
  <2>6. \A e \in Deliveries : state'[e] = "sleeping" => attempt'[e] < maxRetries
    BY <1>1, <2>1 DEF WebhookIInv
  <2> QED BY <1>2, <2>1, <2>2, <2>5, <2>6 DEF WebhookIInv
<1>5. CASE UNCHANGED webhookVars
  BY <1>5 DEF webhookVars, WebhookIInv, WebhooksTypeOK, Ended, Logged, Outcome
<1> QED BY <1>3, <1>4, <1>5, PostKeeps DEF WebhooksNext, _sendWithRetry

(* While the log has dropped an entry it is full of others that ended.     *)
LEMMA WebhookReports ==
  ASSUME WebhookIInv, NEW d \in Deliveries, state[d] = "done"
  PROVE  Reported(d)
<1> DEFINE n == Len(deliveryLog)
           known == {i \in DOMAIN deliveryLog : deliveryLog[i][1] = d}
           others == {e \in Deliveries \ {d} : state[e] = "done"}
<1>1. deliveryLog \in Seq(Deliveries \X {"delivered", "failed"}) /\ n \in Nat /\ n <= MaxLog
      /\ DOMAIN deliveryLog = 1 .. n /\ MaxLog \in Nat
  BY WebhooksAssumption DEF WebhookIInv, WebhooksTypeOK
<1>2. d \in Ended /\ others \subseteq Ended /\ IsFiniteSet(others)
  BY FS_Subset DEF Ended, WebhookIInv
<1>3. CASE known # {}
  <2> DEFINE i == CHOOSE i \in known : TRUE
  <2>1. i \in known
    BY <1>3
  <2>2. getDeliveryStatus(d) = deliveryLog[i][2]
    BY <1>3 DEF getDeliveryStatus
  <2> HIDE DEF i
  <2>3. getDeliveryStatus(d) = Outcome(d, accepted)
    BY <1>1, <2>1, <2>2 DEF WebhookIInv, Logged
  <2> QED BY <2>3 DEF Reported, Outcome, WebhookIInv
<1>4. CASE known = {}
  <2>1. getDeliveryStatus(d) = "unknown"
    BY <1>4 DEF getDeliveryStatus
  <2>2. n = MaxLog
    <3>1. ~\E i \in 1 .. n : deliveryLog[i][1] = d
      BY <1>1, <1>4
    <3>2. ~(n < MaxLog)
      BY <1>2, <3>1 DEF WebhookIInv, Logged
    <3>3. n \in Nat /\ n <= MaxLog /\ MaxLog \in Nat
      BY <1>1
    <3> HIDE DEF n
    <3> QED BY <3>2, <3>3
  <2> DEFINE f == [i \in 1 .. n |-> deliveryLog[i][1]]
  <2>3. \A i \in 1 .. n : f[i] \in others
    BY <1>1, <1>4 DEF WebhookIInv, Logged, Ended
  <2>4. f \in Injection(1 .. n, others)
    BY <2>3 DEF Injection, IsInjective, WebhookIInv, Logged
  <2>5. Cardinality(1 .. n) <= Cardinality(others)
    BY <1>2, <2>4, FS_Injection
  <2>6. Cardinality(others) >= MaxLog
    BY <1>1, <1>2, <2>2, <2>5, FS_Interval, FS_CardinalityType
  <2> QED BY <2>1, <2>6 DEF Reported, WebhookIInv
<1> QED BY <1>3, <1>4

(* Whatever the endpoint does (webhook-manager.js:10), a dispatch that has *)
(* ended stays ended, its status says whether the endpoint accepted the    *)
(* event for as long as the log holds it, and that is until as many others *)
(* have ended: DispatchesEnd without the promise that it ends.             *)
THEOREM ReportsStay ==
  ASSUME NEW d \in Deliveries
  PROVE  WebhooksSpec => [](state[d] = "done" => []Reported(d))
<1>1. WebhooksInit => WebhookIInv
  <2> SUFFICES ASSUME WebhooksInit PROVE WebhookIInv
    OBVIOUS
  <2>1. Ended = {} /\ IsFiniteSet(Ended)
    BY FS_EmptySet DEF WebhooksInit, Ended
  <2>2. 0 \in 0 .. maxRetries /\ 0 <= MaxLog /\ <<>> \in Seq(Deliveries \X {"delivered", "failed"})
        /\ Len(<<>>) = 0
    BY WebhooksAssumption
  <2>3. WebhooksTypeOK
    BY <2>2 DEF WebhooksInit, WebhooksTypeOK
  <2>4. Logged
    BY <2>1, <2>2 DEF WebhooksInit, Logged
  <2> QED BY <2>1, <2>3, <2>4 DEF WebhooksInit, WebhookIInv
<1>2. WebhookIInv /\ [WebhooksNext]_webhookVars => (state[d] = "done" => (state[d] = "done")')
  <2> SUFFICES ASSUME WebhookIInv, [WebhooksNext]_webhookVars, state[d] = "done"
               PROVE  state'[d] = "done"
    OBVIOUS
  <2>1. ASSUME NEW e \in Deliveries, dispatch(e) \/ _sendWithRetry(e) PROVE state'[d] = state[d]
    <3>1. state[e] # "done" /\ \E s : state' = [state EXCEPT ![e] = s]
      BY <2>1 DEF dispatch, _sendWithRetry, Post, _sleep
    <3> QED BY <3>1
  <2> QED BY <2>1 DEF WebhooksNext, webhookVars
<1>3. WebhookIInv => (state[d] = "done" => Reported(d))
  BY WebhookReports
<1> QED BY <1>1, <1>2, <1>3, WebhookStep, PTL DEF WebhooksSpec
=============================================================================
