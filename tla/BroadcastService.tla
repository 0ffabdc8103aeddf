-------------------------- MODULE BroadcastService --------------------------
(***************************************************************************)
(* The broadcast service of realtime/broadcast-service.js over the two     *)
(* registries it sends through.  A group is a WebSocket room and an SSE    *)
(* channel of one name, and one user may hold connections of both kinds.   *)
(*                                                                         *)
(* A broadcast is written to one connection after the other without an     *)
(* await, so it is one step; streams that throw are unregistered in it.    *)
(* The history of broadcasts and its counters are left out, and so are the *)
(* wrappers that only name an event: notifyUsers(), alertAdmins(),         *)
(* sendDeliveryUpdate() and broadcastPriceUpdate().                        *)
(***************************************************************************)
EXTENDS WebSocketManager, SSEManager

CONSTANT Fleets   \* sets of connections: the ones that appear together

ASSUME BroadcastAssumption ==
  /\ {} \in Fleets /\ Fleets \subseteq SUBSET (Sockets \cup Streams)
  /\ SSEUsers = Users /\ Channels = Groups
  /\ Sockets \cap Streams = {}

VARIABLE fleet    \* the connections of this behaviour

hubVars == <<fleet, wsVars, sseVars>>

HubInit == WSInit /\ SSEInit /\ fleet \in Fleets

HubTypeOK == WSTypeOK /\ SSETypeOK /\ fleet \in Fleets

\* Recipients, by what the two registries are asked for.  WebSocket clients
\* that are not open are skipped by send(), unregistered ids by both.
AllRecipients == WSToAll \cup sseClients
GroupRecipients(g) == WSToRoom(g) \cup (channelClients[g] \cap sseClients)

UserRecipients(u) == WSToUser(u) \cup (userClients[u] \cap sseClients)

\* Broadcasting writes to every recipient, by the transports options.ws and
\* options.sse leave on, and unregisters the streams whose write throws.
SentTo(recipients) ==
  /\ \E failed \in SUBSET broken : Written(recipients \cap Streams, failed)
  /\ UNCHANGED wsVars

sendAll == SentTo(AllRecipients)
sendToGroup(g) == SentTo(GroupRecipients(g))
sendToUsers(us) == SentTo(UNION {UserRecipients(u) : u \in us})

\* sendToClient(): the id is tried as a WebSocket client, then as a stream.
sendToClient(c) == SentTo({c} \cap AllRecipients)

Broadcast ==
  \/ sendAll
  \/ \E g \in Groups : sendToGroup(g)
  \/ \E us \in SUBSET Users : sendToUsers(us)
  \/ \E c \in Sockets \cup Streams : sendToClient(c)

HubNext ==
  /\ \/ (WSNext /\ UNCHANGED sseVars)
     \/ (SSENext /\ UNCHANGED wsVars)
     \/ Broadcast
  /\ opened' \subseteq fleet /\ \A c \in Sockets \ fleet : socket'[c] = "none"
  /\ UNCHANGED fleet

HubSpec == HubInit /\ [][HubNext]_hubVars /\ WSFairness

-----------------------------------------------------------------------------
\* Connections a write can still reach, as far as the server knows.
Writable == {c \in clients : socket[c] = "open"} \cup sseClients

\* The connections that joined a group, or belong to a user, by the records
\* the registries keep of each.
MembersOf(g) ==
  {c \in clients : g \in roomsOf[c]} \cup {c \in sseClients : g \in channels[c]}
ConnectionsOf(u) ==
  {c \in clients : userId[c] = u} \cup {c \in sseClients : sseUser[c] = u}

(* "Unified interface for broadcasting messages across all real-time       *)
(* channels" (broadcast-service.js:8): a broadcast goes to every writable  *)
(* connection of the group's members, or the user's, and to no other,      *)
(* whatever joins, leaves, repeated authentications, closes, heartbeats    *)
(* and failed writes came before on either transport.                      *)
BroadcastExact ==
  /\ \A g \in Groups : GroupRecipients(g) = MembersOf(g) \cap Writable
  /\ \A u \in Users : UserRecipients(u) = ConnectionsOf(u) \cap Writable
=============================================================================
