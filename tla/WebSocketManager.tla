-------------------------- MODULE WebSocketManager --------------------------
(***************************************************************************)
(* The WebSocket connection registry of realtime/websocket-manager.js.     *)
(* Three maps of the manager describe the same connections: clients, with  *)
(* the user and the rooms of each, and two indexes over them,              *)
(* userConnections and rooms, which sending to a user or a room goes by.   *)
(*                                                                         *)
(* A socket's readyState and what its peer does (vanish, answer pings,     *)
(* close) belong to the ws library and the network.  A map entry with an   *)
(* empty set is treated like a missing one: both send to nobody.  Counters *)
(* and logging are left out.                                               *)
(***************************************************************************)
EXTENDS Integers

CONSTANTS
  Sockets,   \* connections, each used once: a reconnect has a new client id
  Users,
  Groups,    \* names of WebSocket rooms
  NoUser     \* userId of a client that has not authenticated

ASSUME WSAssumption == NoUser \notin Users

VARIABLES
  socket,          \* readyState of each socket
  vanished,        \* sockets whose peer is gone without a close
  owed,            \* sockets with a ping their peer has not answered
  clients,         \* keys of this.clients
  userId, roomsOf, \* client.userId and client.rooms
  isAlive,         \* clients whose isAlive is true
  pingCount,       \* client.pingCount
  userConnections, \* userConnections[u]: client ids
  rooms,           \* rooms[g]: client ids
  serving          \* the server is up and its heartbeat runs

wsIndexes == <<userConnections, rooms>>
wsClients == <<clients, userId, roomsOf, isAlive, pingCount>>
wsVars == <<socket, vanished, owed, wsClients, wsIndexes, serving>>

WSTypeOK ==
  /\ socket \in [Sockets -> {"none", "open", "closing", "closed"}]
  /\ vanished \subseteq Sockets /\ owed \subseteq Sockets
  /\ clients \subseteq Sockets
  /\ userId \in [Sockets -> Users \cup {NoUser}]
  /\ roomsOf \in [Sockets -> SUBSET Groups]
  /\ isAlive \subseteq clients
  /\ pingCount \in [Sockets -> 0 .. 1]
  /\ userConnections \in [Users -> SUBSET Sockets]
  /\ rooms \in [Groups -> SUBSET Sockets]
  /\ serving \in BOOLEAN

WSInit ==
  /\ socket = [c \in Sockets |-> "none"]
  /\ vanished = {} /\ owed = {} /\ clients = {}
  /\ userId = [c \in Sockets |-> NoUser]
  /\ roomsOf = [c \in Sockets |-> {}]
  /\ isAlive = {}
  /\ pingCount = [c \in Sockets |-> 0]
  /\ userConnections = [u \in Users |-> {}]
  /\ rooms = [g \in Groups |-> {}]
  /\ serving = TRUE

-----------------------------------------------------------------------------
\* The library still delivers what the peer of c has sent.
Heard(c) == socket[c] \in {"open", "closing"} /\ c \notin vanished

_handleConnection(c) ==
  /\ serving /\ socket[c] = "none"
  /\ socket' = [socket EXCEPT ![c] = "open"]
  /\ clients' = clients \cup {c}
  /\ isAlive' = isAlive \cup {c}
  /\ UNCHANGED <<vanished, owed, userId, roomsOf, pingCount, wsIndexes, serving>>

\* Mutant: a client that authenticates again stays with its former user.
_handleAuth_KeepsOld(c, u) ==
  /\ Heard(c) /\ c \in clients
  /\ userId' = [userId EXCEPT ![c] = u]
  /\ userConnections' = [userConnections EXCEPT ![u] = @ \cup {c}]
  /\ UNCHANGED <<socket, vanished, owed, clients, roomsOf, isAlive, pingCount, rooms, serving>>

\* An "auth" message with a user id; without one, or from a client that is not
\* registered any more, nothing changes.
_handleAuth(c, u) ==
  /\ Heard(c) /\ c \in clients
  /\ userId' = [userId EXCEPT ![c] = u]
  /\ userConnections' =
       [v \in Users |-> IF v = u THEN userConnections[v] \cup {c}
                        ELSE IF v = userId[c] THEN userConnections[v] \ {c}
                        ELSE userConnections[v]]
  /\ UNCHANGED <<socket, vanished, owed, clients, roomsOf, isAlive, pingCount, rooms, serving>>

\* A "join" message, or a call of the application, which may hold an id that
\* has been closed since: the room gains it all the same.
joinRoom(c, g) ==
  /\ socket[c] # "none"
  /\ rooms' = [rooms EXCEPT ![g] = @ \cup {c}]
  /\ roomsOf' = IF c \in clients THEN [roomsOf EXCEPT ![c] = @ \cup {g}] ELSE roomsOf
  /\ UNCHANGED <<socket, vanished, owed, clients, userId, isAlive, pingCount,
                 userConnections, serving>>

leaveRoom(c, g) ==
  /\ socket[c] # "none"
  /\ rooms' = [rooms EXCEPT ![g] = @ \ {c}]
  /\ roomsOf' = IF c \in clients THEN [roomsOf EXCEPT ![c] = @ \ {g}] ELSE roomsOf
  /\ UNCHANGED <<socket, vanished, owed, clients, userId, isAlive, pingCount,
                 userConnections, serving>>

\* The 'close' event, after a close by either side, an error or terminate().
\* The entry of a client the heartbeat has deleted is not found.
_handleClose(c) ==
  /\ socket[c] \in {"open", "closing"}
  /\ socket' = [socket EXCEPT ![c] = "closed"]
  /\ IF c \in clients
     THEN /\ rooms' = [g \in Groups |-> IF g \in roomsOf[c] THEN rooms[g] \ {c} ELSE rooms[g]]
          /\ userConnections' =
               [u \in Users |-> IF u = userId[c] THEN userConnections[u] \ {c}
                                ELSE userConnections[u]]
          /\ clients' = clients \ {c}
          /\ isAlive' = isAlive \ {c}
     ELSE UNCHANGED <<wsIndexes, clients, isAlive>>
  /\ UNCHANGED <<vanished, owed, userId, roomsOf, pingCount, serving>>

\* The peer answers a ping.
pong(c) ==
  /\ Heard(c) /\ c \in owed
  /\ owed' = owed \ {c}
  /\ isAlive' = IF c \in clients THEN isAlive \cup {c} ELSE isAlive
  /\ pingCount' = [pingCount EXCEPT ![c] = 0]
  /\ UNCHANGED <<socket, vanished, clients, userId, roomsOf, wsIndexes, serving>>

\* The peer disappears: nothing of it arrives any more.
vanish(c) ==
  /\ socket[c] = "open" /\ c \notin vanished
  /\ vanished' = vanished \cup {c}
  /\ UNCHANGED <<socket, owed, wsClients, wsIndexes, serving>>

\* Mutant: the heartbeat pings without ever expecting an answer.
_startHeartbeat_Lenient ==
  /\ serving /\ clients # {}
  /\ owed' = owed \cup {c \in clients : socket[c] = "open"}
  /\ UNCHANGED <<socket, vanished, wsClients, wsIndexes, serving>>

\* Mutant: the heartbeat terminates a client as soon as it has pinged it.
_startHeartbeat_Hasty ==
  /\ serving /\ clients # {}
  /\ socket' = [c \in Sockets |-> IF c \in clients /\ socket[c] = "open" THEN "closing"
                                  ELSE socket[c]]
  /\ clients' = {} /\ isAlive' = {} /\ UNCHANGED pingCount
  /\ UNCHANGED <<vanished, owed, userId, roomsOf, wsIndexes, serving>>

\* One tick: clients that have not answered since the last one are terminated
\* and deleted, with their index entries left behind, and the others pinged.
_startHeartbeat ==
  /\ serving /\ clients # {}
  /\ LET dead   == clients \ isAlive
         pinged == clients \cap isAlive
         missed == {c \in pinged : pingCount[c] + 1 > 3}
         gone   == dead \cup missed
     IN  /\ socket' = [c \in Sockets |-> IF c \in gone /\ socket[c] = "open" THEN "closing"
                                         ELSE socket[c]]
         /\ clients' = clients \ gone
         /\ isAlive' = {}
         /\ pingCount' = [c \in Sockets |-> IF c \in pinged THEN pingCount[c] + 1
                                            ELSE pingCount[c]]
         /\ owed' = owed \cup {c \in pinged : socket[c] = "open"}
  /\ UNCHANGED <<vanished, userId, roomsOf, wsIndexes, serving>>

\* shutdown(): the heartbeat stops and every client is asked to close.
wsShutdown ==
  /\ serving
  /\ serving' = FALSE
  /\ socket' = [c \in Sockets |-> IF c \in clients /\ socket[c] = "open" THEN "closing"
                                  ELSE socket[c]]
  /\ UNCHANGED <<vanished, owed, wsClients, wsIndexes>>

WSStep(c) ==
  \/ _handleConnection(c) \/ _handleClose(c) \/ pong(c) \/ vanish(c)
  \/ \E u \in Users : _handleAuth(c, u)
  \/ \E g \in Groups : joinRoom(c, g) \/ leaveRoom(c, g)

WSNext == (\E c \in Sockets : WSStep(c)) \/ _startHeartbeat \/ wsShutdown

\* Ticks keep coming, and the library ends a closing handshake on a timeout.
WSFairness ==
  /\ WF_wsVars(_startHeartbeat)
  /\ \A c \in Sockets : WF_wsVars(socket[c] = "closing" /\ _handleClose(c))

WSSpec == WSInit /\ [][WSNext]_wsVars /\ WSFairness

-----------------------------------------------------------------------------
\* send() returns true: what was written reaches the peer unless it is gone.
Sendable(c) == c \in clients /\ socket[c] = "open"

\* Recipients of sendToUser(), broadcastToRoom() and broadcastAll().
WSToUser(u) == {c \in userConnections[u] : Sendable(c)}
WSToRoom(g) == {c \in rooms[g] : Sendable(c)}
WSToAll == {c \in clients : Sendable(c)}

(* The two indexes and the client records tell the same story about every  *)
(* registered client, whatever it authenticated as, joined and left in     *)
(* between: a message for a user or a room goes to its members only.       *)
WSIndexesAgree ==
  /\ \A u \in Users : userConnections[u] \cap clients = {c \in clients : userId[c] = u}
  /\ \A g \in Groups : rooms[g] \cap clients = {c \in clients : g \in roomsOf[c]}

(* "Remove from user connections" (websocket-manager.js:410): once the     *)
(* 'close' event of a connection is over, no user lists the connection.    *)
CloseCleansUp ==
  \A c \in Sockets : socket[c] = "closed" => \A u \in Users : c \notin userConnections[u]

(* The heartbeat ends only connections that left a ping unanswered.        *)
AnsweringKept ==
  [][_startHeartbeat => clients \ clients' \subseteq owed \cup {c \in Sockets : socket[c] # "open"}]_wsVars

(* "Heartbeat/ping-pong for connection health" (websocket-manager.js:11):  *)
(* a peer that disappears without a close does not stay registered, and    *)
(* neither does any client after a shutdown.                               *)
VanishedRemoved ==
  \A c \in Sockets : (c \in vanished \/ ~serving) ~> c \notin clients
=============================================================================
