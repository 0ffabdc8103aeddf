------------------------------ MODULE Webhooks ------------------------------
(***************************************************************************)
(* Outbound webhooks: messaging/webhook-manager.js.  Deliveries are        *)
(* independent, each a loop of posting and sleeping, and share one log.    *)
(*                                                                         *)
(* The endpoint is external: it may not get the request, may get it and    *)
(* not answer in time, or answer with any status.  The delays between      *)
(* attempts only order them; signatures and wording are left out.          *)
(***************************************************************************)
EXTENDS Integers, Sequences, FiniteSets, SequencesExt

CONSTANTS
  Deliveries,   \* delivery ids; _generateDeliveryId() never repeats one
  maxRetries,
  MaxLog        \* 10000 in _trackDelivery()

ASSUME WebhooksAssumption == maxRetries \in Nat /\ MaxLog \in Nat \ {0}

VARIABLES
  state,        \* id |-> "idle", "posting", "sleeping" or "done"
  attempt,      \* id |-> attempts made before the current one
  deliveryLog,  \* <<id, status>> in the order of tracking
  received,     \* deliveries the endpoint has got, in time or not
  accepted      \* deliveries the endpoint has answered 2xx in time

webhookVars == <<state, attempt, deliveryLog, received, accepted>>

WebhooksTypeOK ==
  /\ state \in [Deliveries -> {"idle", "posting", "sleeping", "done"}]
  /\ attempt \in [Deliveries -> 0 .. maxRetries]
  /\ deliveryLog \in Seq(Deliveries \X {"delivered", "failed"}) /\ Len(deliveryLog) <= MaxLog
  /\ received \subseteq Deliveries /\ accepted \subseteq Deliveries

WebhooksInit ==
  /\ state = [d \in Deliveries |-> "idle"] /\ attempt = [d \in Deliveries |-> 0]
  /\ deliveryLog = <<>> /\ received = {} /\ accepted = {}

-----------------------------------------------------------------------------
\* A 5xx status is an error to axios like a lost connection or a timeout.
Answers == {"2xx", "3xx", "4xx", "error"}

dispatch(d) ==
  /\ state[d] = "idle"
  /\ state' = [state EXCEPT ![d] = "posting"]
  /\ UNCHANGED <<attempt, deliveryLog, received, accepted>>

_trackDelivery(d, status) ==
  LET log == Append(deliveryLog, <<d, status>>)
  IN  deliveryLog' = IF Len(log) > MaxLog THEN Tail(log) ELSE log

\* Whether the loop goes on after an answer.
Retried(d, answer) == answer \in {"3xx", "error"} /\ attempt[d] < maxRetries

\* One attempt; the endpoint gets the event whenever it answers a status.
Post(d, answer, arrives) ==
  /\ state[d] = "posting"
  /\ answer # "error" => arrives
  /\ received' = IF arrives THEN received \cup {d} ELSE received
  /\ accepted' = IF answer = "2xx" THEN accepted \cup {d} ELSE accepted
  /\ IF Retried(d, answer)
     THEN /\ state' = [state EXCEPT ![d] = "sleeping"]
          /\ UNCHANGED deliveryLog
     ELSE /\ state' = [state EXCEPT ![d] = "done"]
          /\ _trackDelivery(d, IF answer = "2xx" THEN "delivered" ELSE "failed")
  /\ UNCHANGED attempt

\* Mutant: the attempts are not counted.
_sleep_Uncounted(d) ==
  /\ state[d] = "sleeping"
  /\ state' = [state EXCEPT ![d] = "posting"]
  /\ UNCHANGED <<attempt, deliveryLog, received, accepted>>

_sleep(d) ==
  /\ state[d] = "sleeping"
  /\ state' = [state EXCEPT ![d] = "posting"]
  /\ attempt' = [attempt EXCEPT ![d] = @ + 1]
  /\ UNCHANGED <<deliveryLog, received, accepted>>

_sendWithRetry(d) ==
  \/ \E answer \in Answers, arrives \in BOOLEAN : Post(d, answer, arrives)
  \/ _sleep(d)

WebhooksNext == \E d \in Deliveries : dispatch(d) \/ _sendWithRetry(d)

\* axios settles each request within its timeout, and timers fire.
WebhooksFairness == \A d \in Deliveries : WF_webhookVars(_sendWithRetry(d))

WebhooksSpec == WebhooksInit /\ [][WebhooksNext]_webhookVars /\ WebhooksFairness

-----------------------------------------------------------------------------
\* getDeliveryStatus(); a delivery that has left the log is unknown again.
getDeliveryStatus(d) ==
  LET known == {i \in DOMAIN deliveryLog : deliveryLog[i][1] = d}
  IN  IF known = {} THEN "unknown" ELSE deliveryLog[CHOOSE i \in known : TRUE][2]

(* "Handles retry logic, signature generation, and delivery tracking"      *)
(* (webhook-manager.js:10): every dispatch comes to an end, after which    *)
(* nothing more is sent; its status, as long as the log holds it, is       *)
(* "delivered" exactly if the endpoint accepted the event, and a delivery  *)
(* is only unknown again once as many others have ended as the log holds.  *)
Reported(d) ==
  /\ state[d] = "done"
  /\ getDeliveryStatus(d) \in {"unknown", IF d \in accepted THEN "delivered" ELSE "failed"}
  /\ getDeliveryStatus(d) = "unknown" =>
       Cardinality({e \in Deliveries \ {d} : state[e] = "done"}) >= MaxLog
  /\ d \in accepted => d \in received

DispatchesEnd == \A d \in Deliveries : state[d] = "posting" ~> []Reported(d)
=============================================================================
