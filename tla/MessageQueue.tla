---------------------------- MODULE MessageQueue ----------------------------
(***************************************************************************)
(* The connection life cycle of the RabbitMQ singleton                     *)
(* (shared-utils/src/messaging/message-queue.js): connect(), the           *)
(* 'error'/'close' handlers, _handleDisconnect() with its back-off timers, *)
(* _setupInfrastructure() and shutdown().                                  *)
(*                                                                         *)
(* The process is one Node event loop, so a step runs from one await to    *)
(* the next.  Several connect() calls may be waiting for amqp.connect at   *)
(* once: the guard "if (this.isConnected) return" is read before the await *)
(* and isConnected is only set after it.  Connections are numbered in the  *)
(* order in which they are opened; 0 stands for null.                      *)
(***************************************************************************)
EXTENDS Integers, FiniteSets

CONSTANTS
  MaxReconnectAttempts,   \* config.rabbitmq.options.retry.maxAttempts
  MaxConns,               \* bound: connections opened in one behaviour
  MaxDials                \* bound: application connect() calls in flight

ASSUME MessageQueueAssumption ==
  /\ MaxReconnectAttempts \in Nat \ {0}
  /\ MaxConns \in Nat \ {0}
  /\ MaxDials \in Nat \ {0}

VARIABLES
  isConnected, isShuttingDown, reconnectAttempts,   \* fields of the singleton
  connection,     \* this.connection: the connection last opened, 0 = null
  opened,         \* how many connections have been opened so far
  open,           \* connections whose socket is alive
  settingUp,      \* connections whose _setupInfrastructure() is awaiting
  timers,         \* armed setTimeout(() => this.connect())
  dialing,        \* connect() calls awaiting amqp.connect
  stopPc,         \* progress of shutdown()
  closing         \* the connection shutdown() is closing, 0 = none

vars == <<isConnected, isShuttingDown, reconnectAttempts, connection, opened,
          open, settingUp, timers, dialing, stopPc, closing>>

Conns == 1 .. opened

TypeOK ==
  /\ isConnected \in BOOLEAN /\ isShuttingDown \in BOOLEAN
  /\ reconnectAttempts \in 0 .. MaxReconnectAttempts
  /\ opened \in Nat
  /\ connection \in 0 .. opened /\ closing \in 0 .. opened
  /\ open \in SUBSET Conns /\ settingUp \in SUBSET Conns
  /\ timers \in Nat /\ dialing \in Nat
  /\ stopPc \in {"idle", "draining", "closing", "done"}

Init ==
  /\ isConnected = FALSE /\ isShuttingDown = FALSE
  /\ reconnectAttempts = 0 /\ connection = 0 /\ opened = 0
  /\ open = {} /\ settingUp = {} /\ timers = 0 /\ dialing = 0
  /\ stopPc = "idle" /\ closing = 0

-----------------------------------------------------------------------------
(* _handleDisconnect(), called k times in a row.  Each call clears         *)
(* isConnected and, unless a shutdown is under way, spends one attempt on  *)
(* a new reconnection timer while attempts are left.                       *)
Armed(k) ==
  IF isShuttingDown THEN 0
  ELSE LET left == MaxReconnectAttempts - reconnectAttempts
       IN  IF k <= left THEN k ELSE left

\* Mutant: the timer is never armed.
_handleDisconnect_NoTimer(k) ==
  /\ isConnected' = FALSE
  /\ reconnectAttempts' = reconnectAttempts + Armed(k)
  /\ UNCHANGED timers

\* Mutant: during a shutdown the flag is left alone.
_handleDisconnect_EarlyReturn(k) ==
  /\ isConnected' = (isConnected /\ isShuttingDown)
  /\ reconnectAttempts' = reconnectAttempts + Armed(k)
  /\ timers' = timers + Armed(k)

_handleDisconnect(k) ==
  /\ isConnected' = FALSE
  /\ reconnectAttempts' = reconnectAttempts + Armed(k)
  /\ timers' = timers + Armed(k)

(* The application calls connect(), though not while it awaits its own     *)
(* shutdown(); a call on a connected queue returns.                        *)
connect ==
  /\ ~isConnected
  /\ stopPc \in {"idle", "done"}
  /\ dialing < MaxDials
  /\ dialing' = dialing + 1
  /\ stopPc' = "idle"
  /\ UNCHANGED <<isConnected, isShuttingDown, reconnectAttempts, connection,
                 opened, open, settingUp, timers, closing>>

(* A back-off timer calls connect(), which returns at once if some other   *)
(* call has connected in the meantime.                                     *)
TimerFires ==
  /\ timers > 0
  /\ timers' = timers - 1
  /\ dialing' = IF isConnected THEN dialing ELSE dialing + 1
  /\ UNCHANGED <<isConnected, isShuttingDown, reconnectAttempts, connection,
                 opened, open, settingUp, stopPc, closing>>

(* amqp.connect resolves: the flags are set, the handlers are registered   *)
(* and the set-up of exchanges and queues starts.                          *)
DialSucceeds ==
  /\ dialing > 0
  /\ opened < MaxConns
  /\ dialing' = dialing - 1
  /\ opened' = opened + 1
  /\ connection' = opened + 1
  /\ open' = open \cup {opened + 1}
  /\ settingUp' = settingUp \cup {opened + 1}
  /\ isConnected' = TRUE
  /\ isShuttingDown' = FALSE
  /\ reconnectAttempts' = 0
  /\ UNCHANGED <<timers, stopPc, closing>>

\* Mutant: a failed dial is not followed by another.
DialFails_NoRetry ==
  /\ dialing > 0
  /\ dialing' = dialing - 1
  /\ UNCHANGED <<isConnected, isShuttingDown, reconnectAttempts, connection,
                 opened, open, settingUp, timers, stopPc, closing>>

(* amqp.connect rejects: the catch block.                                  *)
DialFails ==
  /\ dialing > 0
  /\ dialing' = dialing - 1
  /\ _handleDisconnect(1)
  /\ UNCHANGED <<isShuttingDown, connection, opened, open, settingUp, stopPc,
                 closing>>

SetupSucceeds(c) ==
  /\ c \in settingUp /\ c \in open
  /\ settingUp' = settingUp \ {c}
  /\ UNCHANGED <<isConnected, isShuttingDown, reconnectAttempts, connection,
                 opened, open, timers, dialing, stopPc, closing>>

(* _setupInfrastructure() throws, because the broker refuses a declaration *)
(* or because the connection is gone.  The catch block of connect() runs;  *)
(* it does not close the connection.                                       *)
SetupFails(c) ==
  /\ c \in settingUp
  /\ settingUp' = settingUp \ {c}
  /\ _handleDisconnect(1)
  /\ UNCHANGED <<isShuttingDown, connection, opened, open, dialing, stopPc,
                 closing>>

(* A socket is lost.  amqplib emits 'close', and 'error' before it unless  *)
(* the broker closed the connection in an orderly way, so the handler runs *)
(* once or twice.  It is the same handler whichever connection is lost.    *)
ConnectionLost(c, k) ==
  /\ c \in open /\ c # closing
  /\ open' = open \ {c}
  /\ _handleDisconnect(k)
  /\ UNCHANGED <<isShuttingDown, connection, opened, settingUp, dialing,
                 stopPc, closing>>

-----------------------------------------------------------------------------
(* shutdown(): the flag first, then an await per consumer and channel ...  *)
shutdown ==
  /\ stopPc = "idle"
  /\ isShuttingDown' = TRUE
  /\ stopPc' = "draining"
  /\ UNCHANGED <<isConnected, reconnectAttempts, connection, opened, open,
                 settingUp, timers, dialing, closing>>

(* ... then this.connection.close(), whose rejection is swallowed when the *)
(* socket is already gone ...                                              *)
ShutdownCloses ==
  /\ stopPc = "draining"
  /\ \/ /\ connection \in open
        /\ stopPc' = "closing" /\ closing' = connection
        /\ UNCHANGED isConnected
     \/ /\ connection \notin open
        /\ stopPc' = "done" /\ isConnected' = FALSE
        /\ UNCHANGED closing
  /\ UNCHANGED <<isShuttingDown, reconnectAttempts, connection, opened, open,
                 settingUp, timers, dialing>>

(* ... whose 'close' event runs _handleDisconnect(), and isConnected is    *)
(* cleared once more.                                                      *)
ShutdownDone ==
  /\ stopPc = "closing"
  /\ stopPc' = "done" /\ closing' = 0
  /\ open' = open \ {closing}
  /\ _handleDisconnect(1)
  /\ UNCHANGED <<isShuttingDown, connection, opened, settingUp, dialing>>

-----------------------------------------------------------------------------
Next ==
  \/ connect \/ TimerFires \/ DialSucceeds \/ DialFails
  \/ \E c \in settingUp : SetupSucceeds(c) \/ SetupFails(c)
  \/ \E c \in open : \E k \in 1 .. 2 : ConnectionLost(c, k)
  \/ shutdown \/ ShutdownCloses \/ ShutdownDone

Spec == Init /\ [][Next]_vars

(* Timers fire, and a dial ends one way or the other (amqp.connect has a   *)
(* timeout).  Nothing is assumed of the broker or of the application.      *)
Fairness ==
  /\ WF_vars(TimerFires)
  /\ WF_vars(DialSucceeds \/ DialFails)

FairSpec == Spec /\ Fairness

-----------------------------------------------------------------------------
(* isConnected is never a stale claim: while it is set, this.connection is *)
(* a live socket, although the handlers of older connections share the     *)
(* flag with it.                                                           *)
ConnectedIsOpen == isConnected => connection \in open

(* The queue never gives up silently: once a connection was attempted, a   *)
(* disconnected queue that is not shutting down and has attempts left      *)
(* always has a timer armed or a dial in flight, whatever the order of     *)
(* failures, set-up errors, stale close events and shutdowns.              *)
Attempted == opened > 0 \/ reconnectAttempts > 0 \/ dialing > 0

NeverStranded ==
  (/\ Attempted /\ ~isConnected /\ ~isShuttingDown
   /\ reconnectAttempts < MaxReconnectAttempts)
  => timers + dialing > 0

(* A queue that is disconnected and waiting to reconnect does connect,     *)
(* uses up its attempts, or is shut down.                                  *)
ReconnectResolves ==
  (timers + dialing > 0 /\ ~isConnected)
    ~> (\/ isConnected \/ isShuttingDown
        \/ reconnectAttempts = MaxReconnectAttempts
        \/ opened = MaxConns)

(* "Channels are lightweight connections that share a TCP connection"      *)
(* (message-queue.js:260): at most one socket of this process is open.     *)
SingleConnection == Cardinality(open) <= 1

(* After "RabbitMQ shutdown complete" the process stays disconnected until *)
(* the application connects again ("Not reconnecting - graceful shutdown   *)
(* in progress", message-queue.js:136).                                    *)
StaysDown == stopPc = "done" => ~isConnected
=============================================================================
