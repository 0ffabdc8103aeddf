----------------------------- MODULE SSEManager -----------------------------
(***************************************************************************)
(* The registry of server-sent event streams of realtime/sse-manager.js:   *)
(* clients with the user and the channels of each, and the indexes         *)
(* userClients and channelClients over them.                               *)
(*                                                                         *)
(* A stream whose response is broken may make res.write() throw; a send    *)
(* that throws unregisters its client.  Whether it does throw is left to   *)
(* the caller, who passes the streams that failed.  An empty set in an     *)
(* index is a missing entry: the code deletes it.                          *)
(***************************************************************************)
EXTENDS Integers, FiniteSets

CONSTANTS
  Streams,           \* connections, each used once: a reconnect has a new id
  SSEUsers,
  Channels,
  Anonymous,         \* userId of a stream without a user
  maxClientsPerUser

ASSUME SSEAssumption ==
  /\ Anonymous \notin SSEUsers
  /\ maxClientsPerUser \in Nat
  /\ IsFiniteSet(Streams)

VARIABLES
  opened,            \* streams connect() has accepted
  broken,            \* streams whose response cannot be written any more
  sseClients,        \* keys of this.clients
  sseUser, channels, \* client.userId and client.channels
  userClients,       \* userClients[u]: client ids
  channelClients,    \* channelClients[ch]: client ids
  beating            \* the heartbeat interval runs

sseVars == <<opened, broken, sseClients, sseUser, channels,
             userClients, channelClients, beating>>

SSETypeOK ==
  /\ opened \subseteq Streams /\ broken \subseteq opened
  /\ sseClients \subseteq opened
  /\ sseUser \in [Streams -> SSEUsers \cup {Anonymous}]
  /\ channels \in [Streams -> SUBSET Channels]
  /\ userClients \in [SSEUsers -> SUBSET Streams]
  /\ channelClients \in [Channels -> SUBSET Streams]
  /\ beating \in {"never", "on", "cleared"}

SSEInit ==
  /\ opened = {} /\ broken = {} /\ sseClients = {}
  /\ sseUser = [c \in Streams |-> Anonymous]
  /\ channels = [c \in Streams |-> {}]
  /\ userClients = [u \in SSEUsers |-> {}]
  /\ channelClients = [ch \in Channels |-> {}]
  /\ beating = "never"

-----------------------------------------------------------------------------
\* Mutant: the limit is compared after the client has been counted in.
Full_Late(u) == u # Anonymous /\ Cardinality(userClients[u]) > maxClientsPerUser

Full(u) == u # Anonymous /\ Cardinality(userClients[u]) >= maxClientsPerUser

\* connect() for a user and initial channels.  A request for a user who is Full
\* is answered with 429 and changes nothing.  The heartbeat starts unless the
\* interval has ever been set.
connect(c, u, chs) ==
  /\ c \notin opened /\ ~Full(u)
  /\ opened' = opened \cup {c}
  /\ sseClients' = sseClients \cup {c}
  /\ sseUser' = [sseUser EXCEPT ![c] = u]
  /\ channels' = [channels EXCEPT ![c] = chs]
  /\ userClients' = [v \in SSEUsers |-> IF v = u THEN userClients[v] \cup {c}
                                        ELSE userClients[v]]
  /\ channelClients' = [ch \in Channels |-> IF ch \in chs THEN channelClients[ch] \cup {c}
                                            ELSE channelClients[ch]]
  /\ beating' = IF beating = "never" THEN "on" ELSE beating
  /\ UNCHANGED broken

\* _handleDisconnect() for every client of cs: only what the client records
\* name is looked up.
Disconnected(cs) ==
  LET known == cs \cap sseClients
  IN  /\ userClients' =
           [u \in SSEUsers |-> userClients[u] \ {c \in known : sseUser[c] = u}]
      /\ channelClients' =
           [ch \in Channels |-> channelClients[ch] \ {c \in known : ch \in channels[c]}]
      /\ sseClients' = sseClients \ known

\* The request's 'close' or 'error' event; repeated events find nothing.
_handleDisconnect(c) ==
  /\ c \in opened
  /\ Disconnected({c})
  /\ broken' = broken \cup {c}
  /\ UNCHANGED <<opened, sseUser, channels, beating>>

\* The response breaks before any event says so.
break(c) ==
  /\ c \in sseClients \ broken
  /\ broken' = broken \cup {c}
  /\ UNCHANGED <<opened, sseClients, sseUser, channels, userClients, channelClients, beating>>

\* joinChannel() of the application, which may hold an id that has been
\* closed since: the channel gains it all the same.
joinChannel(c, ch) ==
  /\ c \in opened
  /\ channelClients' = [channelClients EXCEPT ![ch] = @ \cup {c}]
  /\ channels' = IF c \in sseClients THEN [channels EXCEPT ![c] = @ \cup {ch}] ELSE channels
  /\ UNCHANGED <<opened, broken, sseClients, sseUser, userClients, beating>>

leaveChannel(c, ch) ==
  /\ c \in opened
  /\ channelClients' = [channelClients EXCEPT ![ch] = @ \ {c}]
  /\ channels' = IF c \in sseClients THEN [channels EXCEPT ![c] = @ \ {ch}] ELSE channels
  /\ UNCHANGED <<opened, broken, sseClients, sseUser, userClients, beating>>

\* closeClient(): a write that throws leaves the client registered.
closeClient(c) ==
  /\ c \in sseClients
  /\ Disconnected({c})
  /\ broken' = broken \cup {c}
  /\ UNCHANGED <<opened, sseUser, channels, beating>>

\* Writes to the clients of cs, one after the other: the ones in failed throw
\* and are disconnected, which changes the set that is being iterated.
Written(cs, failed) ==
  /\ failed \subseteq cs \cap broken
  /\ Disconnected(failed)
  /\ UNCHANGED <<opened, broken, sseUser, channels, beating>>

\* One tick of _startHeartbeat().
sseHeartbeat ==
  /\ beating = "on" /\ sseClients # {}
  /\ \E failed \in SUBSET broken : Written(sseClients, failed)

\* shutdown() clears the interval without forgetting it and closes the clients
\* in turn; closeClient() throws at the first broken one whose write throws,
\* and those after it stay.
sseShutdown ==
  /\ beating' = IF beating = "on" THEN "cleared" ELSE beating
  /\ \E closed \in SUBSET sseClients :
       /\ closed = sseClients \/ (sseClients \ closed) \cap broken # {}
       /\ Disconnected(closed)
       /\ broken' = broken \cup closed
  /\ UNCHANGED <<opened, sseUser, channels>>

SSEStep(c) ==
  \/ \E u \in SSEUsers \cup {Anonymous}, chs \in SUBSET Channels : connect(c, u, chs)
  \/ _handleDisconnect(c) \/ break(c) \/ closeClient(c)
  \/ \E ch \in Channels : joinChannel(c, ch) \/ leaveChannel(c, ch)

SSENext == (\E c \in Streams : SSEStep(c)) \/ sseHeartbeat \/ sseShutdown

SSESpec == SSEInit /\ [][SSENext]_sseVars

-----------------------------------------------------------------------------
(* The user index is exact at every moment, so the limit of connections    *)
(* per user counts the connections there are: one that is gone never locks *)
(* its user out, and none escapes the count.                               *)
UserIndexExact ==
  \A u \in SSEUsers : userClients[u] = {c \in sseClients : sseUser[c] = u}

(* "Check max connections per user" (sse-manager.js:59).                   *)
PerUserLimit ==
  \A u \in SSEUsers : Cardinality({c \in sseClients : sseUser[c] = u}) <= maxClientsPerUser

(* A registered client is in the set of a channel exactly when its record  *)
(* lists the channel: an event for a channel reaches its members only, and *)
(* a disconnect can find every entry it has to remove.                     *)
ChannelIndexAgrees ==
  \A ch \in Channels : channelClients[ch] \cap sseClients = {c \in sseClients : ch \in channels[c]}
=============================================================================
