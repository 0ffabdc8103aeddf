--------------------------- MODULE RealtimeProofs ---------------------------
(***************************************************************************)
(* Proofs about what processes keep in memory, for every number of users,  *)
(* connections, rooms, processes and keys.  Both registries keep every     *)
(* connection twice, in its own record and in the indexes; rooms keep      *)
(* every membership twice; presence keeps a time it stamps anew; caches    *)
(* keep copies.  The proofs show that no order of events makes them stray. *)
(***************************************************************************)
EXTENDS BroadcastService, RoomManager, PresenceTracker, CacheStrategies, FiniteSetTheorems, TLAPS

(* WebSocket side: a socket that has not connected is in no index, so a    *)
(* connection starts from a clean slate.                                   *)
WSIInv ==
  /\ WSTypeOK
  /\ WSIndexesAgree
  /\ \A c \in Sockets : socket[c] = "none" =>
       /\ c \notin clients /\ userId[c] = NoUser /\ roomsOf[c] = {}
       /\ \A u \in Users : c \notin userConnections[u]
       /\ \A g \in Groups : c \notin rooms[g]
  /\ \A c \in Sockets : (c \in isAlive \/ socket[c] = "none") => pingCount[c] = 0

(* SSE side: the same, by connect() having accepted the stream.            *)
SSEIInv ==
  /\ SSETypeOK
  /\ UserIndexExact
  /\ ChannelIndexAgrees
  /\ \A ch \in Channels : channelClients[ch] \subseteq opened

-----------------------------------------------------------------------------
LEMMA WSInitIInv == WSInit => WSIInv
BY WSAssumption DEF WSInit, WSIInv, WSTypeOK, WSIndexesAgree

LEMMA WSConnectKeeps ==
  ASSUME WSIInv, NEW c \in Sockets, _handleConnection(c)
  PROVE  WSIInv'
BY WSAssumption DEF WSIInv, WSTypeOK, WSIndexesAgree, wsIndexes, _handleConnection

LEMMA WSAuthKeeps ==
  ASSUME WSIInv, NEW c \in Sockets, NEW u \in Users, _handleAuth(c, u)
  PROVE  WSIInv'
BY WSAssumption DEF WSIInv, WSTypeOK, WSIndexesAgree, _handleAuth, Heard

LEMMA WSRoomKeeps ==
  ASSUME WSIInv, NEW c \in Sockets, NEW g \in Groups, joinRoom(c, g) \/ leaveRoom(c, g)
  PROVE  WSIInv'
BY DEF WSIInv, WSTypeOK, WSIndexesAgree, joinRoom, leaveRoom

LEMMA WSCloseKeeps ==
  ASSUME WSIInv, NEW c \in Sockets, _handleClose(c)
  PROVE  WSIInv'
BY DEF WSIInv, WSTypeOK, WSIndexesAgree, wsIndexes, _handleClose

LEMMA WSRestKeeps ==
  ASSUME WSIInv,
         \/ \E c \in Sockets : pong(c) \/ vanish(c)
         \/ _startHeartbeat \/ wsShutdown \/ UNCHANGED wsVars
  PROVE  WSIInv'
<1>1. CASE \E c \in Sockets : pong(c) \/ vanish(c)
  BY <1>1 DEF WSIInv, WSTypeOK, WSIndexesAgree, wsIndexes, wsClients, pong, vanish
<1>2. CASE _startHeartbeat
  <2> DEFINE gone == (clients \ isAlive) \cup {c \in clients \cap isAlive : pingCount[c] + 1 > 3}
  <2>1. /\ clients' = clients \ gone /\ isAlive' = {}
        /\ socket' = [c \in Sockets |-> IF c \in gone /\ socket[c] = "open" THEN "closing"
                                        ELSE socket[c]]
        /\ pingCount' = [c \in Sockets |-> IF c \in clients \cap isAlive THEN pingCount[c] + 1
                                           ELSE pingCount[c]]
        /\ owed' = owed \cup {c \in clients \cap isAlive : socket[c] = "open"}
        /\ UNCHANGED <<vanished, userId, roomsOf, userConnections, rooms, serving>>
    BY <1>2 DEF _startHeartbeat, wsIndexes
  <2> HIDE DEF gone
  <2>2. pingCount' \in [Sockets -> 0 .. 1]
    BY <2>1 DEF WSIInv, WSTypeOK
  <2>3. WSTypeOK'
    BY <2>1, <2>2 DEF WSIInv, WSTypeOK
  <2>4. WSIndexesAgree'
    BY <2>1 DEF WSIInv, WSIndexesAgree
  <2>5. \A c \in Sockets : socket'[c] = "none" => socket[c] = "none" /\ c \notin clients
    BY <2>1 DEF WSIInv, WSTypeOK
  <2>6. \A c \in Sockets : socket'[c] = "none" => pingCount'[c] = 0
    BY <2>1, <2>5 DEF WSIInv
  <2> QED
    BY <2>1, <2>3, <2>4, <2>5, <2>6 DEF WSIInv
<1>3. CASE wsShutdown
  BY <1>3 DEF WSIInv, WSTypeOK, WSIndexesAgree, wsIndexes, wsClients, wsShutdown
<1>4. CASE UNCHANGED wsVars
  BY <1>4 DEF WSIInv, WSTypeOK, WSIndexesAgree, wsIndexes, wsClients, wsVars
<1> QED
  BY <1>1, <1>2, <1>3, <1>4

LEMMA WSStepKeeps == WSIInv /\ [WSNext]_wsVars => WSIInv'
BY WSConnectKeeps, WSAuthKeeps, WSRoomKeeps, WSCloseKeeps, WSRestKeeps DEF WSNext, WSStep

-----------------------------------------------------------------------------
LEMMA SSEInitIInv == SSEInit => SSEIInv
BY SSEAssumption DEF SSEInit, SSEIInv, SSETypeOK, UserIndexExact, ChannelIndexAgrees

LEMMA ConnectKeeps ==
  ASSUME SSEIInv, NEW c \in Streams, NEW u \in SSEUsers \cup {Anonymous},
         NEW chs \in SUBSET Channels, connect(c, u, chs)
  PROVE  SSEIInv'
BY SSEAssumption DEF SSEIInv, SSETypeOK, UserIndexExact, ChannelIndexAgrees, connect

LEMMA ChannelKeeps ==
  ASSUME SSEIInv, NEW c \in Streams, NEW ch \in Channels,
         joinChannel(c, ch) \/ leaveChannel(c, ch)
  PROVE  SSEIInv'
BY DEF SSEIInv, SSETypeOK, UserIndexExact, ChannelIndexAgrees, joinChannel, leaveChannel

(* Whatever set of clients is disconnected, by whatever event.             *)
LEMMA DisconnectedKeeps ==
  ASSUME SSEIInv, NEW cs \in SUBSET Streams, Disconnected(cs),
         broken' \subseteq opened, beating' \in {"never", "on", "cleared"},
         UNCHANGED <<opened, sseUser, channels>>
  PROVE  SSEIInv'
BY DEF SSEIInv, SSETypeOK, UserIndexExact, ChannelIndexAgrees, Disconnected

LEMMA WrittenKeeps ==
  ASSUME SSEIInv, NEW cs, NEW failed \in SUBSET Streams, Written(cs, failed)
  PROVE  SSEIInv'
BY DisconnectedKeeps DEF Written, SSEIInv, SSETypeOK

LEMMA SSEStepKeeps == SSEIInv /\ [SSENext]_sseVars => SSEIInv'
<1> SUFFICES ASSUME SSEIInv, [SSENext]_sseVars PROVE SSEIInv'
  OBVIOUS
<1>1. CASE \E c \in Streams, u \in SSEUsers \cup {Anonymous}, chs \in SUBSET Channels :
             connect(c, u, chs)
  BY <1>1, ConnectKeeps
<1>2. CASE \E c \in Streams, ch \in Channels : joinChannel(c, ch) \/ leaveChannel(c, ch)
  BY <1>2, ChannelKeeps
<1>3. ASSUME NEW c \in Streams, _handleDisconnect(c) \/ closeClient(c)
      PROVE  SSEIInv'
  <2>1. /\ Disconnected({c}) /\ broken' = broken \cup {c} /\ c \in opened
        /\ UNCHANGED <<opened, sseUser, channels, beating>>
    BY <1>3 DEF _handleDisconnect, closeClient, SSEIInv, SSETypeOK
  <2> QED
    BY <2>1, DisconnectedKeeps DEF SSEIInv, SSETypeOK
<1>4. CASE \E c \in Streams : break(c)
  BY <1>4 DEF break, SSEIInv, SSETypeOK, UserIndexExact, ChannelIndexAgrees
<1>5. CASE sseHeartbeat
  <2>1. PICK failed \in SUBSET broken : Written(sseClients, failed)
    BY <1>5 DEF sseHeartbeat
  <2> QED
    BY <2>1, WrittenKeeps DEF SSEIInv, SSETypeOK
<1>6. CASE sseShutdown
  <2>1. PICK closed \in SUBSET sseClients :
          Disconnected(closed) /\ broken' = broken \cup closed
    BY <1>6 DEF sseShutdown
  <2>2. beating' \in {"never", "on", "cleared"} /\ UNCHANGED <<opened, sseUser, channels>>
    BY <1>6 DEF sseShutdown, SSEIInv, SSETypeOK
  <2> QED
    BY <2>1, <2>2, DisconnectedKeeps DEF SSEIInv, SSETypeOK
<1>7. CASE UNCHANGED sseVars
  BY <1>7 DEF sseVars, SSEIInv, SSETypeOK, UserIndexExact, ChannelIndexAgrees
<1> QED
  BY <1>1, <1>2, <1>3, <1>4, <1>5, <1>6, <1>7 DEF SSENext, SSEStep

-----------------------------------------------------------------------------
LEMMA HubInitIInv == HubInit => WSIInv /\ SSEIInv
BY WSInitIInv, SSEInitIInv DEF HubInit

LEMMA HubStepKeeps ==
  ASSUME WSIInv, SSEIInv, [HubNext]_hubVars
  PROVE  WSIInv' /\ SSEIInv'
<1>1. CASE UNCHANGED hubVars
  BY <1>1, WSStepKeeps, SSEStepKeeps DEF hubVars
<1>2. CASE WSNext /\ UNCHANGED sseVars
  BY <1>2, WSStepKeeps, SSEStepKeeps
<1>3. CASE SSENext /\ UNCHANGED wsVars
  BY <1>3, WSStepKeeps, SSEStepKeeps
<1>4. CASE Broadcast
  <2>1. PICK recipients : SentTo(recipients)
    BY <1>4 DEF Broadcast, sendAll, sendToGroup, sendToUsers, sendToClient
  <2>2. PICK failed \in SUBSET broken : Written(recipients \cap Streams, failed)
    BY <2>1 DEF SentTo
  <2>3. SSEIInv'
    BY <2>2, WrittenKeeps DEF SSEIInv, SSETypeOK
  <2>4. UNCHANGED wsVars
    BY <2>1 DEF SentTo
  <2> QED
    BY <2>3, <2>4, WSStepKeeps
<1> QED
  BY <1>1, <1>2, <1>3, <1>4 DEF HubNext

THEOREM HubInvariance == HubSpec => [](WSIInv /\ SSEIInv)
BY HubInitIInv, HubStepKeeps, PTL DEF HubSpec

-----------------------------------------------------------------------------
(* A broadcast goes to the writable connections of its group or user and   *)
(* to no other, on both transports, for any number of connections: the     *)
(* indexes it goes by and the records of the connections never disagree.   *)
THEOREM BroadcastExactHolds == HubSpec => []BroadcastExact
<1>1. WSIInv /\ SSEIInv => BroadcastExact
  <2> SUFFICES ASSUME WSIInv, SSEIInv PROVE BroadcastExact
    OBVIOUS
  <2>1. clients \cap sseClients = {}
    BY BroadcastAssumption DEF WSIInv, WSTypeOK, SSEIInv, SSETypeOK
  <2>2. ASSUME NEW g \in Groups
        PROVE  GroupRecipients(g) = MembersOf(g) \cap Writable
    BY <2>1, BroadcastAssumption
       DEF WSIInv, WSIndexesAgree, SSEIInv, SSETypeOK, ChannelIndexAgrees,
           GroupRecipients, WSToRoom, Sendable, MembersOf, Writable
  <2>3. ASSUME NEW u \in Users
        PROVE  UserRecipients(u) = ConnectionsOf(u) \cap Writable
    BY <2>1, BroadcastAssumption
       DEF WSIInv, WSIndexesAgree, SSEIInv, SSETypeOK, UserIndexExact,
           UserRecipients, WSToUser, Sendable, ConnectionsOf, Writable
  <2> QED
    BY <2>2, <2>3 DEF BroadcastExact
<1> QED
  BY <1>1, HubInvariance, PTL

-----------------------------------------------------------------------------
(* What connect() checks is a count of the user's own connections, so the  *)
(* limit holds for every user and every limit.                             *)
LEMMA LimitKept ==
  ASSUME SSEIInv, SSEIInv', PerUserLimit, [SSENext]_sseVars
  PROVE  PerUserLimit'
<1> DEFINE Own(u) == {c \in sseClients : sseUser[c] = u}
<1>1. \A u \in SSEUsers : IsFiniteSet(userClients[u])
  BY SSEAssumption, FS_Subset DEF SSEIInv, SSETypeOK
<1>2. \A u \in SSEUsers : Own(u) = userClients[u]
  BY DEF SSEIInv, UserIndexExact
<1>3. \A u \in SSEUsers : {c \in sseClients' : sseUser'[c] = u} = userClients'[u]
  BY DEF SSEIInv, UserIndexExact
<1>4. ASSUME NEW c \in Streams, NEW v \in SSEUsers \cup {Anonymous},
             NEW chs \in SUBSET Channels, connect(c, v, chs), NEW u \in SSEUsers
      PROVE  Cardinality(userClients'[u]) <= maxClientsPerUser
  <2>1. CASE u = v
    <3>1. userClients'[u] = userClients[u] \cup {c}
      BY <1>4, <2>1 DEF connect
    <3>2. Cardinality(userClients[u]) < maxClientsPerUser
      <4>1. u # Anonymous /\ ~Full(v)
        BY <1>4, SSEAssumption DEF connect
      <4>2. Cardinality(userClients[u]) \in Nat
        BY <1>1, FS_CardinalityType
      <4> QED
        BY <2>1, <4>1, <4>2, SSEAssumption DEF Full
    <3>3. \/ Cardinality(userClients[u] \cup {c}) = Cardinality(userClients[u]) + 1
          \/ Cardinality(userClients[u] \cup {c}) = Cardinality(userClients[u])
      <4> DEFINE S == userClients[u]
      <4>1. IsFiniteSet(S)
        BY <1>1
      <4> HIDE DEF S
      <4>2. Cardinality(S \cup {c}) = IF c \in S THEN Cardinality(S) ELSE Cardinality(S) + 1
        BY <4>1, FS_AddElement
      <4> QED
        BY <4>2 DEF S
    <3>4. Cardinality(userClients[u]) \in Nat
      BY <1>1, FS_CardinalityType
    <3> QED
      BY <3>1, <3>2, <3>3, <3>4, SSEAssumption
  <2>2. CASE u # v
    <3>1. userClients'[u] = userClients[u]
      BY <1>4, <2>2 DEF connect
    <3> QED
      BY <3>1, <1>2 DEF PerUserLimit
  <2> QED
    BY <2>1, <2>2
<1>5. CASE \A u \in SSEUsers : userClients'[u] \subseteq userClients[u]
  <2> SUFFICES ASSUME NEW u \in SSEUsers
               PROVE  Cardinality({c \in sseClients' : sseUser'[c] = u}) <= maxClientsPerUser
    BY DEF PerUserLimit
  <2>1. /\ Cardinality(userClients'[u]) <= Cardinality(userClients[u])
        /\ Cardinality(userClients'[u]) \in Nat /\ Cardinality(userClients[u]) \in Nat
    BY <1>1, <1>5, FS_Subset, FS_CardinalityType
  <2>2. Cardinality(userClients[u]) <= maxClientsPerUser
    BY <1>2 DEF PerUserLimit
  <2>3. Cardinality(userClients'[u]) <= maxClientsPerUser
    BY <2>1, <2>2, SSEAssumption
  <2>4. userClients'[u] = {c \in sseClients' : sseUser'[c] = u}
    BY <1>3
  <2> QED
    BY <2>3, <2>4
<1>6. \/ \E c \in Streams, v \in SSEUsers \cup {Anonymous}, chs \in SUBSET Channels :
           connect(c, v, chs)
      \/ \A u \in SSEUsers : userClients'[u] \subseteq userClients[u]
  <2>1. CASE sseHeartbeat
    BY <2>1 DEF sseHeartbeat, Written, Disconnected
  <2>2. CASE sseShutdown
    BY <2>2 DEF sseShutdown, Disconnected
  <2>3. CASE UNCHANGED sseVars
    BY <2>3 DEF sseVars
  <2>4. ASSUME NEW c \in Streams, _handleDisconnect(c) \/ closeClient(c)
        PROVE  \A u \in SSEUsers : userClients'[u] \subseteq userClients[u]
    BY <2>4 DEF _handleDisconnect, closeClient, Disconnected
  <2>5. ASSUME NEW c \in Streams,
               break(c) \/ \E ch \in Channels : joinChannel(c, ch) \/ leaveChannel(c, ch)
        PROVE  userClients' = userClients
    BY <2>5 DEF break, joinChannel, leaveChannel
  <2> QED
    BY <2>1, <2>2, <2>3, <2>4, <2>5 DEF SSENext, SSEStep
<1> QED
  <2>1. CASE \E c \in Streams, v \in SSEUsers \cup {Anonymous}, chs \in SUBSET Channels :
               connect(c, v, chs)
    <3>1. \A u \in SSEUsers : Cardinality(userClients'[u]) <= maxClientsPerUser
      BY <1>4, <2>1
    <3> QED
      BY <1>3, <3>1 DEF PerUserLimit
  <2> QED
    BY <1>5, <1>6, <2>1

(* No user ever has more event streams than maxClientsPerUser.             *)
THEOREM PerUserLimitHolds == SSESpec => []PerUserLimit
<1>1. SSEInit => PerUserLimit
  <2> SUFFICES ASSUME SSEInit PROVE PerUserLimit
    OBVIOUS
  <2>1. \A u \in SSEUsers : {c \in sseClients : sseUser[c] = u} = {}
    BY DEF SSEInit
  <2> QED
    BY <2>1, FS_EmptySet, SSEAssumption DEF PerUserLimit
<1>2. SSEIInv /\ PerUserLimit /\ [SSENext]_sseVars => (SSEIInv /\ PerUserLimit)'
  BY SSEStepKeeps, LimitKept
<1> QED
  BY <1>1, <1>2, SSEInitIInv, PTL DEF SSESpec

-----------------------------------------------------------------------------
(* A registered client without isAlive has a ping to answer, unless its    *)
(* socket was closing when the ping was due.                               *)
Silent == \A c \in clients \ isAlive : c \in owed \/ socket[c] # "open"

LEMMA SilentKept ==
  ASSUME WSTypeOK, Silent, [WSNext]_wsVars
  PROVE  Silent'
<1>1. CASE \E c \in Sockets : _handleConnection(c) \/ _handleClose(c) \/ pong(c) \/ vanish(c)
  BY <1>1 DEF Silent, WSTypeOK, _handleConnection, _handleClose, pong, vanish, wsClients
<1>2. CASE \E c \in Sockets : \/ \E u \in Users : _handleAuth(c, u)
                              \/ \E g \in Groups : joinRoom(c, g) \/ leaveRoom(c, g)
  BY <1>2 DEF Silent, _handleAuth, joinRoom, leaveRoom
<1>3. CASE _startHeartbeat
  BY <1>3 DEF Silent, WSTypeOK, _startHeartbeat
<1>4. CASE wsShutdown
  BY <1>4 DEF Silent, WSTypeOK, wsShutdown, wsClients
<1>5. CASE UNCHANGED wsVars
  BY <1>5 DEF Silent, wsVars, wsClients
<1> QED
  BY <1>1, <1>2, <1>3, <1>4, <1>5 DEF WSNext, WSStep

(* The heartbeat terminates no client that has answered its last ping, for *)
(* any number of clients and any timing of pings and answers.              *)
THEOREM AnsweringKeptHolds == WSSpec => AnsweringKept
<1>1. WSInit => Silent
  BY DEF WSInit, Silent
<1>2. WSIInv /\ Silent /\ [WSNext]_wsVars => (WSIInv /\ Silent)'
  BY WSStepKeeps, SilentKept DEF WSIInv
<1>3. WSIInv /\ Silent /\ [WSNext]_wsVars =>
        [_startHeartbeat => clients \ clients' \subseteq
                              owed \cup {c \in Sockets : socket[c] # "open"}]_wsVars
  <2> SUFFICES ASSUME WSIInv, Silent, _startHeartbeat
               PROVE  clients \ clients' \subseteq
                        owed \cup {c \in Sockets : socket[c] # "open"}
    OBVIOUS
  <2>1. \A c \in clients \cap isAlive : pingCount[c] = 0
    BY DEF WSIInv, WSTypeOK
  <2>2. clients \ clients' \subseteq clients \ isAlive
    BY <2>1 DEF _startHeartbeat
  <2> QED
    BY <2>2 DEF Silent, WSIInv, WSTypeOK
<1> QED
  BY <1>1, <1>2, <1>3, WSInitIInv, PTL DEF WSSpec, AnsweringKept

-----------------------------------------------------------------------------
(***************************************************************************)
(* Proofs about RoomManager: members and memberRooms mirror each other and *)
(* no room outgrows its limit, for any rooms, members, limits and options. *)
(***************************************************************************)
RoomIInv == RoomTypeOK /\ RoomsBothWays /\ CapacityKept

-----------------------------------------------------------------------------
LEMMA RoomInitIInv == RoomInit => RoomIInv
BY RoomAssumption DEF RoomInit, RoomIInv, RoomTypeOK, RoomsBothWays, CapacityKept

LEMMA CountsAreNaturals ==
  ASSUME RoomTypeOK, NEW r \in RoomNames
  PROVE  /\ IsFiniteSet(members[r]) /\ Cardinality(members[r]) \in Nat
         /\ maxMembers[r] \in Nat
BY RoomAssumption, FS_Subset, FS_CardinalityType DEF RoomTypeOK

(* What becomes of the limits when rooms are dropped and every room that   *)
(* stays keeps its limit and gains no member.                              *)
LEMMA ShrinkingKeepsCapacity ==
  ASSUME RoomIInv, existing' \subseteq existing, maxMembers' = maxMembers,
         \A r \in RoomNames : members'[r] \subseteq members[r]
  PROVE  CapacityKept'
<1> SUFFICES ASSUME NEW r \in existing', maxMembers'[r] > 0
             PROVE  Cardinality(members'[r]) <= maxMembers'[r]
  BY DEF CapacityKept
<1>1. r \in existing /\ r \in RoomNames
  BY DEF RoomIInv, RoomTypeOK
<1>2. Cardinality(members[r]) <= maxMembers[r]
  BY <1>1 DEF RoomIInv, CapacityKept
<1>3. /\ IsFiniteSet(members[r]) /\ Cardinality(members[r]) \in Nat
      /\ maxMembers[r] \in Nat
  BY <1>1, CountsAreNaturals DEF RoomIInv
<1>4. IsFiniteSet(members'[r]) /\ Cardinality(members'[r]) <= Cardinality(members[r])
  BY <1>1, <1>3, FS_Subset
<1>5. Cardinality(members'[r]) \in Nat
  BY <1>4, FS_CardinalityType
<1> QED
  BY <1>2, <1>3, <1>4, <1>5

LEMMA RoomCreateKeeps ==
  ASSUME RoomIInv, NEW r \in RoomNames, NEW o \in Options, create(r, o)
  PROVE  RoomIInv'
<1>1. RoomTypeOK' /\ RoomsBothWays'
  BY DEF RoomIInv, RoomTypeOK, RoomsBothWays, Options, create, Created
<1>2. members[r] = {}
  BY DEF RoomIInv, RoomsBothWays, create
<1>3. CapacityKept'
  <2>1. Cardinality(members'[r]) = 0 /\ o.max \in Nat
    BY <1>2, FS_EmptySet, RoomAssumption DEF Options, create
  <2>2. maxMembers'[r] = o.max /\ members' = members
    BY DEF RoomIInv, RoomTypeOK, create, Created
  <2>3. \A q \in existing' : q # r => q \in existing /\ maxMembers'[q] = maxMembers[q]
    BY DEF RoomIInv, RoomTypeOK, create, Created
  <2> QED
    BY <2>1, <2>2, <2>3 DEF RoomIInv, CapacityKept
<1> QED
  BY <1>1, <1>3 DEF RoomIInv

LEMMA RoomJoinKeeps ==
  ASSUME RoomIInv, NEW r \in RoomNames, NEW m \in Members, NEW o \in Options,
         NEW bypassLock \in BOOLEAN, NEW knows \in BOOLEAN,
         join(r, m, o, bypassLock, knows)
  PROVE  RoomIInv'
<1>0. /\ members' = [members EXCEPT ![r] = @ \cup {m}]
      /\ memberRooms' = [memberRooms EXCEPT ![m] = @ \cup {r}]
  BY DEF join
<1>1. RoomTypeOK'
  BY <1>0 DEF RoomIInv, RoomTypeOK, Options, join, Created
<1>2. existing' = existing \cup {r}
  BY DEF join, Created
<1>3. RoomsBothWays'
  BY <1>0, <1>2 DEF RoomIInv, RoomTypeOK, RoomsBothWays
<1>4. \A q \in RoomNames : q # r => members'[q] = members[q] /\ maxMembers'[q] = maxMembers[q]
  BY DEF RoomIInv, RoomTypeOK, join, Created
<1>5. members'[r] = members[r] \cup {m}
  BY <1>0 DEF RoomIInv, RoomTypeOK
<1>6. maxMembers'[r] > 0 => Cardinality(members'[r]) <= maxMembers'[r]
  <2>0. /\ IsFiniteSet(members[r]) /\ Cardinality(members[r]) \in Nat
        /\ maxMembers[r] \in Nat
    BY CountsAreNaturals DEF RoomIInv
  <2>1. \/ Cardinality(members'[r]) = Cardinality(members[r]) + 1
        \/ Cardinality(members'[r]) = Cardinality(members[r])
    <3> DEFINE S == members[r]
    <3>1. IsFiniteSet(S)
      BY <2>0
    <3> HIDE DEF S
    <3>2. Cardinality(S \cup {m}) = IF m \in S THEN Cardinality(S) ELSE Cardinality(S) + 1
      BY <3>1, FS_AddElement
    <3> QED
      BY <1>5, <3>2 DEF S
  <2>2. CASE r \in existing
    <3>1. maxMembers' = maxMembers /\ Admits(r, bypassLock, knows)
      BY <2>2 DEF join
    <3> QED
      BY <2>0, <2>1, <3>1 DEF Admits
  <2>3. CASE r \notin existing
    <3>1. members[r] = {}
      BY <2>3 DEF RoomIInv, RoomsBothWays
    <3>2. Cardinality(members[r]) = 0
      BY <3>1, FS_EmptySet
    <3>3. maxMembers'[r] \in Nat
      BY <1>1, RoomAssumption DEF RoomTypeOK
    <3> QED
      BY <2>1, <3>2, <3>3
  <2> QED
    BY <2>2, <2>3
<1>7. CapacityKept'
  BY <1>1, <1>2, <1>4, <1>6 DEF RoomIInv, RoomTypeOK, CapacityKept
<1> QED
  BY <1>1, <1>3, <1>7 DEF RoomIInv

LEMMA RoomLeaveKeeps ==
  ASSUME RoomIInv, NEW r \in RoomNames, NEW m \in Members, leave(r, m)
  PROVE  RoomIInv'
<1>0. /\ members' = [members EXCEPT ![r] = @ \ {m}]
      /\ memberRooms' = [memberRooms EXCEPT ![m] = @ \ {r}]
      /\ existing' \in {existing, existing \ {r}}
      /\ existing' = existing \/ members[r] \subseteq {m}
      /\ maxMembers' = maxMembers
  BY DEF leave, Dropped
<1>1. RoomTypeOK'
  BY <1>0, RoomAssumption DEF RoomIInv, RoomTypeOK, leave, Dropped
<1>2. RoomsBothWays'
  BY <1>0 DEF RoomIInv, RoomTypeOK, RoomsBothWays
<1>3. CapacityKept'
  BY <1>0, ShrinkingKeepsCapacity DEF RoomIInv, RoomTypeOK
<1> QED
  BY <1>1, <1>2, <1>3 DEF RoomIInv

LEMMA RoomDeleteKeeps ==
  ASSUME RoomIInv, NEW r \in RoomNames, delete(r)
  PROVE  RoomIInv'
<1>1. RoomTypeOK'
  BY RoomAssumption DEF RoomIInv, RoomTypeOK, delete, Dropped
<1>2. RoomsBothWays'
  BY DEF RoomIInv, RoomTypeOK, RoomsBothWays, delete, Dropped
<1>3. CapacityKept'
  BY ShrinkingKeepsCapacity DEF RoomIInv, RoomTypeOK, delete, Dropped
<1> QED
  BY <1>1, <1>2, <1>3 DEF RoomIInv

LEMMA RoomRestKeeps ==
  ASSUME RoomIInv,
         \/ \E r \in RoomNames : addMessage(r) \/ \E locked \in BOOLEAN : setLock(r, locked)
         \/ _cleanupEmptyRooms \/ UNCHANGED roomVars
  PROVE  RoomIInv'
<1>1. CASE \E r \in RoomNames : addMessage(r) \/ \E locked \in BOOLEAN : setLock(r, locked)
  <2>1. UNCHANGED <<existing, members, maxMembers, memberRooms>>
    BY <1>1 DEF addMessage, setLock
  <2>2. RoomTypeOK'
    BY <1>1, RoomAssumption DEF RoomIInv, RoomTypeOK, addMessage, setLock
  <2> QED
    BY <2>1, <2>2 DEF RoomIInv, RoomsBothWays, CapacityKept
<1>2. CASE _cleanupEmptyRooms
  <2>1. RoomTypeOK'
    BY <1>2, RoomAssumption DEF RoomIInv, RoomTypeOK, _cleanupEmptyRooms, Dropped
  <2>2. RoomsBothWays'
    BY <1>2 DEF RoomIInv, RoomTypeOK, RoomsBothWays, _cleanupEmptyRooms, Dropped
  <2>3. CapacityKept'
    BY <1>2, ShrinkingKeepsCapacity DEF _cleanupEmptyRooms, Dropped
  <2> QED
    BY <2>1, <2>2, <2>3 DEF RoomIInv
<1>3. CASE UNCHANGED roomVars
  BY <1>3 DEF RoomIInv, RoomTypeOK, RoomsBothWays, CapacityKept, roomVars
<1> QED
  BY <1>1, <1>2, <1>3

LEMMA RoomStepKeeps == RoomIInv /\ [RoomNext]_roomVars => RoomIInv'
BY RoomCreateKeeps, RoomJoinKeeps, RoomLeaveKeeps, RoomDeleteKeeps, RoomRestKeeps DEF RoomNext

THEOREM RoomInvariance == RoomSpec => []RoomIInv
BY RoomInitIInv, RoomStepKeeps, PTL DEF RoomSpec

-----------------------------------------------------------------------------
(* getMembers() and getMemberRooms() mirror each other, whichever way a    *)
(* room ends, and no name comes back with the members of an earlier room.  *)
THEOREM RoomsBothWaysHolds == RoomSpec => []RoomsBothWays
BY RoomInvariance, PTL DEF RoomIInv

(* No room has more members than its maxMembers, auto-created ones too.    *)
THEOREM CapacityKeptHolds == RoomSpec => []CapacityKept
BY RoomInvariance, PTL DEF RoomIInv
-----------------------------------------------------------------------------
(* Presence.                                                               *)

(* How long a tracked user can have been quiet in each status.  The timer  *)
(* stamps whom it moves on, so the bounds add up; a call resets both.      *)
PresenceIInv ==
  /\ PresenceTypeOK
  /\ \A u \in tracked :
       /\ status[u] = "online" => quiet[u] = age[u] /\ age[u] <= idleTimeout
       /\ status[u] = "idle" => quiet[u] <= idleTimeout + 1 + age[u] /\ age[u] <= awayTimeout
       /\ status[u] = "away" => quiet[u] <= idleTimeout + awayTimeout + 2 + age[u]
       /\ age[u] <= offlineTimeout
       /\ status[u] = "offline" => quiet[u] = age[u]

LEMMA SeenKeeps ==
  ASSUME PresenceIInv, NEW u \in Persons, NEW s \in {"online", "idle", "away", "offline"},
         Seen(u, s), tracked' = tracked \cup {u}
  PROVE  PresenceIInv'
<1>1. \A v \in Persons : /\ status'[v] = IF v = u THEN s ELSE status[v]
                         /\ age'[v] = IF v = u THEN 0 ELSE age[v]
                         /\ quiet'[v] = IF v = u THEN 0 ELSE quiet[v]
  BY DEF PresenceIInv, PresenceTypeOK, Seen
<1>2. PresenceTypeOK'
  BY PresenceAssumption DEF PresenceIInv, PresenceTypeOK, Seen, LongestQuiet
<1> QED
  BY <1>1, <1>2, PresenceAssumption DEF PresenceIInv, PresenceTypeOK

LEMMA TimerKeeps ==
  ASSUME PresenceIInv, _startCleanup
  PROVE  PresenceIInv'
<1>1. tracked' \subseteq tracked
  BY DEF _startCleanup
<1>2. \A u \in Persons \ tracked' : age'[u] = 0 \/ u \in tracked
  BY DEF _startCleanup, PresenceIInv, PresenceTypeOK
<1>3. ASSUME NEW u \in tracked
      PROVE  \/ /\ Fate(u) = "stay" /\ u \in tracked'
                /\ status'[u] = status[u] /\ age'[u] = age[u] + 1 /\ quiet'[u] = quiet[u] + 1
             \/ /\ Fate(u) \in {"idle", "away"} /\ u \in tracked'
                /\ status'[u] = Fate(u) /\ age'[u] = 0 /\ quiet'[u] = quiet[u] + 1
             \/ /\ Fate(u) = "gone" /\ u \notin tracked'
                /\ status'[u] = "offline" /\ age'[u] = 0 /\ quiet'[u] = 0
  <2>1. u \in Persons /\ Fate(u) \in {"stay", "idle", "away", "gone"}
    BY DEF PresenceIInv, PresenceTypeOK, Fate
  <2> QED
    BY <2>1 DEF _startCleanup
<1>4. \A u \in Persons \ tracked : status'[u] = status[u] /\ age'[u] = 0 /\ quiet'[u] = 0
  BY DEF _startCleanup
<1>5. ASSUME NEW u \in tracked
      PROVE  /\ age[u] \in Nat /\ quiet[u] \in Nat
             /\ status'[u] \in {"online", "idle", "away", "offline"}
             /\ age'[u] \in 0 .. offlineTimeout + 1
             /\ quiet'[u] \in 0 .. LongestQuiet
             /\ u \in tracked' =>
                  /\ status'[u] = "online" => quiet'[u] = age'[u] /\ age'[u] <= idleTimeout
                  /\ status'[u] = "idle" => quiet'[u] <= idleTimeout + 1 + age'[u] /\ age'[u] <= awayTimeout
                  /\ status'[u] = "away" => quiet'[u] <= idleTimeout + awayTimeout + 2 + age'[u]
                  /\ age'[u] <= offlineTimeout
                  /\ status'[u] = "offline" => quiet'[u] = age'[u]
  <2>1. /\ age[u] \in Nat /\ quiet[u] \in Nat
        /\ status[u] \in {"online", "idle", "away", "offline"}
    BY DEF PresenceIInv, PresenceTypeOK
  <2> QED
    BY <1>3, <2>1, PresenceAssumption DEF PresenceIInv, Fate, LongestQuiet
<1>6. /\ status' \in [Persons -> {"online", "idle", "away", "offline"}]
      /\ age' \in [Persons -> 0 .. offlineTimeout + 1]
      /\ quiet' \in [Persons -> 0 .. LongestQuiet]
  <2>1. /\ status' = [u \in Persons |-> status'[u]]
        /\ age' = [u \in Persons |-> age'[u]]
        /\ quiet' = [u \in Persons |-> quiet'[u]]
    BY DEF _startCleanup
  <2>2. \A u \in Persons : /\ status'[u] \in {"online", "idle", "away", "offline"}
                           /\ age'[u] \in 0 .. offlineTimeout + 1
                           /\ quiet'[u] \in 0 .. LongestQuiet
    BY <1>4, <1>5, PresenceAssumption DEF PresenceIInv, PresenceTypeOK, LongestQuiet
  <2> QED
    BY <2>1, <2>2
<1> QED
  BY <1>1, <1>5, <1>6 DEF PresenceIInv, PresenceTypeOK

LEMMA PresenceStepKeeps == PresenceIInv /\ [PresenceNext]_presenceVars => PresenceIInv'
<1> SUFFICES ASSUME PresenceIInv, [PresenceNext]_presenceVars
             PROVE  PresenceIInv'
  OBVIOUS
<1>1. CASE \E u \in Persons : setOnline(u) \/ heartbeat(u)
  BY <1>1, SeenKeeps DEF setOnline, heartbeat
<1>2. CASE \E u \in Persons : setOffline(u) \/ setAway(u) \/ setIdle(u)
  <2>1. PICK u \in Persons : setOffline(u) \/ setAway(u) \/ setIdle(u)
    BY <1>2
  <2>2. tracked' = tracked \cup {u}
    BY <2>1 DEF setOffline, setAway, setIdle
  <2> QED
    BY <2>1, <2>2, SeenKeeps DEF setOffline, setAway, setIdle
<1>3. CASE _startCleanup
  BY <1>3, TimerKeeps
<1>4. CASE UNCHANGED presenceVars
  BY <1>4 DEF PresenceIInv, PresenceTypeOK, presenceVars
<1> QED
  BY <1>1, <1>2, <1>3, <1>4 DEF PresenceNext

LEMMA PresenceInitIInv == PresenceInit => PresenceIInv
BY PresenceAssumption DEF PresenceInit, PresenceIInv, PresenceTypeOK, LongestQuiet

(* A status is no staler than its timeouts allow, whatever calls come      *)
(* between the runs of the timer (presence-tracker.js:244).                *)
THEOREM PresenceFreshHolds == PresenceSpec => []PresenceFresh
<1>1. PresenceIInv => PresenceFresh
  BY PresenceAssumption DEF PresenceIInv, PresenceTypeOK, PresenceFresh
<1> QED
  BY <1>1, PresenceInitIInv, PresenceStepKeeps, PTL DEF PresenceSpec

(* Nobody who has been heard of within idleTimeout is taken off: for a     *)
(* user who is online, the age the timer goes by is the time since the     *)
(* last call about that user.                                              *)
THEOREM HeardStaysOnlineHolds == PresenceSpec => HeardStaysOnline
<1> DEFINE StaysOn == _startCleanup =>
       \A u \in tracked : status[u] = "online" /\ quiet[u] < idleTimeout => status'[u] = "online"
<1>1. PresenceIInv => StaysOn
  <2> SUFFICES ASSUME PresenceIInv, _startCleanup, NEW u \in tracked,
                      status[u] = "online", quiet[u] < idleTimeout
               PROVE  status'[u] = "online"
    OBVIOUS
  <2>1. age[u] \in Nat /\ age[u] = quiet[u] /\ age[u] <= offlineTimeout /\ u \in Persons
    BY DEF PresenceIInv, PresenceTypeOK
  <2>2. Fate(u) = "stay"
    BY <2>1, PresenceAssumption DEF Fate
  <2> QED
    BY <2>1, <2>2 DEF _startCleanup
<1> QED
  BY <1>1, PresenceInitIInv, PresenceStepKeeps, PTL DEF PresenceSpec, HeardStaysOnline

-----------------------------------------------------------------------------
(* The cache.  While no two calls have overlapped and Redis has taken      *)
(* every write, at most one call is in flight; what it has still to do is  *)
(* all that can be wrong, and it knows the value it brings.                *)

Entries == [value : Nat, left : Int, idle : Int]
Copies == [value : Nat, left : Int]
Waiting == [at : {"get", "fetch", "put", "fill"}, key : Keys, value : Nat, useMemory : BOOLEAN]

CacheTypes ==
  /\ database \in [Keys -> Nat]
  /\ redis \in [Keys -> Copies \cup {NoEntry}]
  /\ memory \in [Processes -> [Keys -> Entries \cup {NoEntry}]]
  /\ call \in [Calls -> Waiting \cup Deletions \cup {Idle}]
  /\ DOMAIN writer = Keys
  /\ undisturbed \in BOOLEAN

(* What a call in flight still has to make good.                           *)
RedisHolds(k) == redis[k] # NoEntry => redis[k].value = database[k]
MemoryHolds(p, k) ==
  writer[k] \in {p, Nobody} /\ Live(memory[p][k]) => memory[p][k].value = database[k]

Brings(c) ==
  /\ call[c].at \in {"put", "fill"} => call[c].value = database[call[c].key]
  /\ call[c].at = "fill" => call[c].useMemory
  /\ call[c].at \in {"delAndWrite", "write"} => memory[ProcessOf[c]][call[c].key] = NoEntry
  /\ call[c].at = "write" => redis[call[c].key] = NoEntry

(* What holds while c is the only call in flight, or none is.              *)
Alone(c) ==
  /\ Brings(c)
  /\ \A k \in Keys : RedisHolds(k) \/ (call[c].at = "put" /\ call[c].key = k)
  /\ \A p \in Processes, k \in Keys :
       \/ MemoryHolds(p, k)
       \/ /\ call[c].at \in {"put", "fill"} /\ call[c].useMemory
          /\ call[c].key = k /\ ProcessOf[c] = p

CacheIInv ==
  /\ CacheTypes
  /\ undisturbed =>
       /\ \A c, d \in Calls : call[c] # Idle /\ call[d] # Idle => c = d
       /\ \A c \in Calls : (\A d \in Calls \ {c} : call[d] = Idle) => Alone(c)

LEMMA IdleIs ==
  ASSUME CacheTypes, NEW c \in Calls
  PROVE  /\ call[c] = Idle <=> call[c].at = "idle"
         /\ call[c] # Idle => /\ call[c].key \in Keys
                              /\ call[c].at \in {"get", "fetch", "put", "fill", "del", "delAndWrite", "write"}
         /\ call[c].at \in {"get", "fetch", "put", "fill"} =>
              /\ call[c].value \in Nat /\ call[c].useMemory \in BOOLEAN
              /\ DOMAIN call[c] = {"at", "key", "value", "useMemory"}
         /\ call[c].at \in {"del", "delAndWrite", "write"} => DOMAIN call[c] = {"at", "key"}
BY DEF CacheTypes, Waiting, Deletions, Idle

(* A step of one call: what the others rely on is that they are idle, or   *)
(* that calls have overlapped anyway.                                      *)
LEMMA OwnStep ==
  ASSUME CacheIInv, CacheTypes', NEW c \in Calls,
         \A d \in Calls \ {c} : call'[d] = call[d],
         undisturbed' => undisturbed,
         undisturbed' /\ call[c] = Idle => \A d \in Calls : call[d] = Idle,
         undisturbed' /\ Alone(c) => Alone(c)'
  PROVE  CacheIInv'
<1> SUFFICES ASSUME undisturbed'
             PROVE  /\ \A a, b \in Calls : call'[a] # Idle /\ call'[b] # Idle => a = b
                    /\ \A a \in Calls : (\A d \in Calls \ {a} : call'[d] = Idle) => Alone(a)'
  BY DEF CacheIInv, Idle
<1>1. \A d \in Calls \ {c} : call[d] = Idle
  BY DEF CacheIInv
<1>2. Alone(c)'
  BY <1>1 DEF CacheIInv
<1>3. ASSUME NEW a \in Calls, a # c, call'[c] = Idle
      PROVE  Alone(a)'
  <2>1. call'[a] = Idle /\ call'[a].at = "idle" /\ call'[c].at = "idle"
    BY <1>1, <1>3 DEF Idle
  <2> QED
    BY <1>2, <2>1 DEF Alone, Brings
<1> QED
  BY <1>1, <1>2, <1>3

LEMMA StartsAlone ==
  ASSUME CacheIInv, NEW c \in Calls, Starts(c)
  PROVE  /\ undisturbed' \in BOOLEAN
         /\ undisturbed' => undisturbed
         /\ undisturbed' => \A d \in Calls : call[d] = Idle
         /\ call[c] = Idle
         /\ undisturbed' => Alone(c)
BY DEF CacheIInv, CacheTypes, Starts

LEMMA AsideKeeps ==
  ASSUME CacheIInv, NEW c \in Calls, NEW k \in Keys, NEW useMemory \in BOOLEAN,
         cacheAside(c, k, useMemory)
  PROVE  CacheIInv'
<1> DEFINE p == ProcessOf[c]
           new == [at |-> "get", key |-> k, value |-> 0, useMemory |-> useMemory]
<1>1. /\ Starts(c) /\ CacheTypes /\ p \in Processes
      /\ UNCHANGED <<database, redis, writer>>
      /\ memory' = IF useMemory THEN [memory EXCEPT ![p] = Accessed(memory[p], k)] ELSE memory
      /\ call' = IF useMemory /\ Live(memory[p][k]) THEN call ELSE [call EXCEPT ![c] = new]
  BY CacheAssumption DEF CacheIInv, cacheAside
<1>2. /\ Accessed(memory[p], k) \in [Keys -> Entries \cup {NoEntry}]
      /\ \A j \in Keys : Live(Accessed(memory[p], k)[j]) =>
           Live(memory[p][j]) /\ Accessed(memory[p], k)[j].value = memory[p][j].value
  <2>1. memory[p] \in [Keys -> Entries \cup {NoEntry}]
    BY <1>1 DEF CacheTypes
  <2>2. CASE Live(memory[p][k])
    <3> DEFINE used == [memory[p][k] EXCEPT !.idle = 0]
    <3>1. memory[p][k] \in Entries
      BY <2>1, <2>2 DEF Live
    <3>2. used \in Entries /\ used.value = memory[p][k].value
      BY <3>1 DEF Entries
    <3>3. Accessed(memory[p], k) = [memory[p] EXCEPT ![k] = used]
      BY <2>2 DEF Accessed
    <3> HIDE DEF used
    <3> QED
      BY <2>1, <2>2, <3>2, <3>3
  <2>3. CASE ~Live(memory[p][k])
    BY <2>1, <2>3 DEF Accessed, Live
  <2> QED
    BY <2>2, <2>3
<1>3. /\ memory' \in [Processes -> [Keys -> Entries \cup {NoEntry}]]
      /\ \A q \in Processes, j \in Keys : Live(memory'[q][j]) =>
           Live(memory[q][j]) /\ memory'[q][j].value = memory[q][j].value
  BY <1>1, <1>2 DEF CacheTypes
<1>4. /\ \A d \in Calls \ {c} : call'[d] = call[d]
      /\ call'[c] = call[c] \/ call'[c] = new
      /\ CacheTypes'
  <2>1. new \in Waiting
    BY DEF Waiting
  <2> HIDE DEF new
  <2> QED
    BY <1>1, <1>3, <2>1, StartsAlone DEF CacheTypes
<1>5. ASSUME undisturbed', Alone(c)
      PROVE  Alone(c)'
  <2>1. call[c].at = "idle" /\ call'[c].at \in {"idle", "get"}
    BY <1>1, <1>4, StartsAlone DEF Idle
  <2>2. \A j \in Keys : RedisHolds(j)'
    BY <1>1, <1>5, <2>1 DEF Alone, RedisHolds
  <2>3. \A q \in Processes, j \in Keys : MemoryHolds(q, j)'
    BY <1>1, <1>3, <1>5, <2>1 DEF Alone, MemoryHolds
  <2> QED
    BY <2>1, <2>2, <2>3 DEF Alone, Brings
<1> QED
  BY <1>1, <1>4, <1>5, StartsAlone, OwnStep

LEMMA ThroughKeeps ==
  ASSUME CacheIInv, NEW c \in Calls, NEW k \in Keys, writeThrough(c, k)
  PROVE  CacheIInv'
<1> DEFINE new == [at |-> "put", key |-> k, value |-> database[k] + 1, useMemory |-> TRUE]
<1>1. /\ Starts(c) /\ CacheTypes /\ ProcessOf[c] \in Processes
      /\ UNCHANGED <<redis, memory>>
      /\ \A j \in Keys : database'[j] = IF j = k THEN database[k] + 1 ELSE database[j]
      /\ \A j \in Keys : writer'[j] = IF j = k THEN ProcessOf[c] ELSE writer[j]
      /\ call' = [call EXCEPT ![c] = new]
  BY CacheAssumption DEF CacheIInv, CacheTypes, writeThrough
<1>2. new \in Waiting
  BY <1>1 DEF CacheTypes, Waiting
<1>3. new.at = "put" /\ new.key = k /\ new.useMemory = TRUE /\ new.value = database[k] + 1
  OBVIOUS
<1> HIDE DEF new
<1>4. /\ \A d \in Calls \ {c} : call'[d] = call[d]
      /\ call'[c] = new
      /\ CacheTypes'
  <2>1. database' \in [Keys -> Nat] /\ DOMAIN writer' = Keys
    BY <1>1 DEF CacheTypes, writeThrough
  <2> QED
    BY <1>1, <1>2, <2>1, StartsAlone DEF CacheTypes
<1>5. ASSUME undisturbed', Alone(c)
      PROVE  Alone(c)'
  <2>1. call[c].at = "idle"
    BY <1>1, StartsAlone DEF Idle
  <2>2. \A j \in Keys : j # k => RedisHolds(j)'
    BY <1>1, <1>5, <2>1 DEF Alone, RedisHolds
  <2>3. \A q \in Processes, j \in Keys : j # k \/ q # ProcessOf[c] => MemoryHolds(q, j)'
    BY <1>1, <1>5, <2>1, CacheAssumption DEF Alone, MemoryHolds
  <2> QED
    BY <1>1, <1>3, <1>4, <2>1, <2>2, <2>3 DEF Alone, Brings, MemoryHolds
<1> QED
  BY <1>1, <1>4, <1>5, StartsAlone, OwnStep

LEMMA InvalidateKeeps ==
  ASSUME CacheIInv, NEW c \in Calls, NEW k \in Keys, invalidateKey(c, k) \/ invalidateOnWrite(c, k)
  PROVE  CacheIInv'
<1>1. PICK next \in {"del", "delAndWrite"} : Invalidate(c, k, next)
  BY DEF invalidateKey, invalidateOnWrite
<1> DEFINE new == [at |-> next, key |-> k]
<1>2. /\ Starts(c) /\ CacheTypes /\ ProcessOf[c] \in Processes
      /\ UNCHANGED <<database, redis, writer>>
      /\ \A q \in Processes, j \in Keys :
           memory'[q][j] = IF q = ProcessOf[c] /\ j = k THEN NoEntry ELSE memory[q][j]
      /\ call' = [call EXCEPT ![c] = new]
  BY <1>1, CacheAssumption DEF CacheIInv, CacheTypes, Invalidate
<1>3. new \in Deletions /\ new.at = next /\ new.key = k
  BY DEF Deletions
<1> HIDE DEF new
<1>4. /\ \A d \in Calls \ {c} : call'[d] = call[d]
      /\ call'[c] = new
      /\ CacheTypes'
  <2>1. memory' \in [Processes -> [Keys -> Entries \cup {NoEntry}]]
    BY <1>1, <1>2 DEF CacheTypes, Invalidate
  <2> QED
    BY <1>2, <1>3, <2>1, StartsAlone DEF CacheTypes
<1>5. ASSUME undisturbed', Alone(c)
      PROVE  Alone(c)'
  <2>1. call[c].at = "idle"
    BY <1>2, StartsAlone DEF Idle
  <2>2. \A j \in Keys : RedisHolds(j)'
    BY <1>2, <1>5, <2>1 DEF Alone, RedisHolds
  <2>3. \A q \in Processes, j \in Keys : MemoryHolds(q, j)'
    BY <1>2, <1>5, <2>1 DEF Alone, MemoryHolds, Live
  <2> QED
    BY <1>2, <1>3, <1>4, <2>2, <2>3 DEF Alone, Brings
<1> QED
  BY <1>2, <1>4, <1>5, StartsAlone, OwnStep

LEMMA Returned ==
  ASSUME CacheTypes, NEW c \in Calls, Returns(c)
  PROVE  /\ call' \in [Calls -> Waiting \cup Deletions \cup {Idle}]
         /\ \A d \in Calls \ {c} : call'[d] = call[d]
         /\ call'[c].at = "idle"
<1>1. Idle.at = "idle"
  BY DEF Idle
<1> QED
  BY <1>1 DEF CacheTypes, Returns

(* Where a waiting call goes on.                                           *)
LEMMA Gone ==
  ASSUME CacheTypes, NEW c \in Calls, call[c].at \in {"get", "fetch", "put", "fill"},
         NEW place \in {"get", "fetch", "put", "fill"}, Goes(c, place)
  PROVE  /\ call' \in [Calls -> Waiting \cup Deletions \cup {Idle}]
         /\ \A d \in Calls \ {c} : call'[d] = call[d]
         /\ call'[c].at = place /\ call'[c].value = call[c].value
         /\ call'[c].key = call[c].key /\ call'[c].useMemory = call[c].useMemory
<1> DEFINE new == [call[c] EXCEPT !.at = place]
<1>1. call[c] \in Waiting
  BY DEF CacheTypes, Waiting, Deletions, Idle
<1>2. /\ new \in Waiting /\ new.at = place /\ new.value = call[c].value
      /\ new.key = call[c].key /\ new.useMemory = call[c].useMemory
  BY <1>1 DEF Waiting
<1>3. call' = [call EXCEPT ![c] = new]
  BY DEF Goes
<1> HIDE DEF new
<1> QED
  BY <1>2, <1>3 DEF CacheTypes

LEMMA GetKeeps ==
  ASSUME CacheIInv, NEW c \in Calls, RedisGet(c) \/ Fetch(c)
  PROVE  CacheIInv'
<1>1. /\ CacheTypes /\ call[c].at \in {"get", "fetch"} /\ call[c] # Idle
      /\ UNCHANGED <<database, redis, memory, writer, undisturbed>>
  BY IdleIs DEF CacheIInv, RedisGet, Fetch, Idle
<1>2. call[c].key \in Keys /\ call[c].value \in Nat /\ call[c].useMemory \in BOOLEAN
  BY <1>1, IdleIs
<1> DEFINE k == call[c].key
<1>3. CASE Returns(c)
  <2>1. CacheTypes'
    BY <1>1, <1>3, Returned DEF CacheTypes
  <2>2. Alone(c) => Alone(c)'
    BY <1>1, <1>3, Returned DEF Alone, Brings, RedisHolds, MemoryHolds
  <2> QED
    BY <1>1, <1>3, <2>1, <2>2, Returned, OwnStep
<1>4. CASE call[c].at = "get" /\ Goes(c, "fetch")
  <2>1. CacheTypes'
    BY <1>1, <1>4, Gone DEF CacheTypes
  <2>2. Alone(c) => Alone(c)'
    BY <1>1, <1>4, Gone DEF Alone, Brings, RedisHolds, MemoryHolds
  <2> QED
    BY <1>1, <1>4, <2>1, <2>2, Gone, OwnStep
<1>5. CASE /\ call[c].at = "get" /\ redis[k] # NoEntry /\ call[c].useMemory
           /\ call' = [call EXCEPT ![c].at = "fill", ![c].value = redis[k].value]
  <2>1. redis[k].value \in Nat
    BY <1>1, <1>2, <1>5 DEF CacheTypes, Copies
  <2> DEFINE new == [call[c] EXCEPT !.at = "fill", !.value = redis[k].value]
  <2>2. call' = [call EXCEPT ![c] = new]
    BY <1>1, <1>2, <1>5 DEF CacheTypes
  <2>6. /\ new \in Waiting /\ new.at = "fill" /\ new.value = redis[k].value
        /\ new.key = k /\ new.useMemory = call[c].useMemory
    BY <1>1, <1>5, <2>1 DEF CacheTypes, Waiting, Deletions, Idle
  <2> HIDE DEF new
  <2>3. /\ call' \in [Calls -> Waiting \cup Deletions \cup {Idle}]
        /\ \A d \in Calls \ {c} : call'[d] = call[d]
        /\ call'[c].at = "fill" /\ call'[c].value = redis[k].value
        /\ call'[c].key = k /\ call'[c].useMemory
    BY <1>1, <1>5, <2>2, <2>6 DEF CacheTypes
  <2>4. CacheTypes'
    BY <1>1, <2>3 DEF CacheTypes
  <2>5. Alone(c) => Alone(c)'
    BY <1>1, <1>2, <1>5, <2>3 DEF Alone, Brings, RedisHolds, MemoryHolds
  <2> QED
    BY <1>1, <2>3, <2>4, <2>5, OwnStep
<1>6. CASE /\ call[c].at = "fetch"
           /\ call' = [call EXCEPT ![c].at = "put", ![c].value = database[k]]
  <2>1. database[k] \in Nat
    BY <1>1, <1>2 DEF CacheTypes
  <2> DEFINE new == [call[c] EXCEPT !.at = "put", !.value = database[k]]
  <2>2. call' = [call EXCEPT ![c] = new]
    BY <1>1, <1>2, <1>6 DEF CacheTypes
  <2>6. /\ new \in Waiting /\ new.at = "put" /\ new.value = database[k]
        /\ new.key = k /\ new.useMemory = call[c].useMemory
    BY <1>1, <1>6, <2>1 DEF CacheTypes, Waiting, Deletions, Idle
  <2> HIDE DEF new
  <2>3. /\ call' \in [Calls -> Waiting \cup Deletions \cup {Idle}]
        /\ \A d \in Calls \ {c} : call'[d] = call[d]
        /\ call'[c].at = "put" /\ call'[c].value = database[k]
        /\ call'[c].key = k
    BY <1>1, <1>6, <2>2, <2>6 DEF CacheTypes
  <2>4. CacheTypes'
    BY <1>1, <2>3 DEF CacheTypes
  <2>5. Alone(c) => Alone(c)'
    BY <1>1, <1>2, <1>6, <2>3 DEF Alone, Brings, RedisHolds, MemoryHolds
  <2> QED
    BY <1>1, <2>3, <2>4, <2>5, OwnStep
<1> QED
  BY <1>3, <1>4, <1>5, <1>6 DEF RedisGet, Fetch

LEMMA SetKeeps ==
  ASSUME CacheIInv, NEW c \in Calls, RedisSet(c)
  PROVE  CacheIInv'
<1> DEFINE k == call[c].key
           new == [value |-> call[c].value, left |-> redisTTL]
<1>1. /\ CacheTypes /\ call[c].at = "put" /\ call[c] # Idle
      /\ UNCHANGED <<database, memory, writer>>
      /\ undisturbed' \in BOOLEAN
      /\ undisturbed' => undisturbed
      /\ undisturbed' => redis' = [redis EXCEPT ![k] = new]
      /\ redis' = redis \/ redis' = [redis EXCEPT ![k] = new]
      /\ IF call[c].useMemory THEN Goes(c, "fill") ELSE Returns(c)
  <2>1. /\ CacheTypes /\ undisturbed \in BOOLEAN
        /\ call[c].at = "put" /\ UNCHANGED <<database, memory, writer>>
        /\ IF call[c].useMemory THEN Goes(c, "fill") ELSE Returns(c)
    BY DEF CacheIInv, CacheTypes, RedisSet, Answers
  <2>2. \/ redis' = [redis EXCEPT ![k] = new] /\ undisturbed' = undisturbed
        \/ redis' = redis /\ undisturbed' = FALSE
    BY DEF RedisSet
  <2> HIDE DEF new, k
  <2>3. /\ undisturbed' \in BOOLEAN
        /\ undisturbed' => undisturbed
        /\ undisturbed' => redis' = [redis EXCEPT ![k] = new]
    <3>1. CASE redis' = [redis EXCEPT ![k] = new] /\ undisturbed' = undisturbed
      BY <2>1, <3>1, Zenon
    <3>2. CASE redis' = redis /\ undisturbed' = FALSE
      <4>1. ~undisturbed' /\ undisturbed' \in BOOLEAN
        BY <3>2
      <4> QED
        BY <4>1, Zenon
    <3> QED
      BY <2>2, <3>1, <3>2, Zenon
  <2>4. call[c] # Idle
    BY <2>1 DEF Idle
  <2> QED
    BY <2>1, <2>2, <2>3, <2>4, Zenon
<1>2. call[c].key \in Keys /\ call[c].value \in Nat /\ call[c].useMemory \in BOOLEAN
  BY <1>1, IdleIs
<1>3. new \in Copies /\ new.value = call[c].value
  BY <1>2, CacheAssumption DEF Copies
<1> HIDE DEF new
<1>4. /\ call' \in [Calls -> Waiting \cup Deletions \cup {Idle}]
      /\ \A d \in Calls \ {c} : call'[d] = call[d]
      /\ IF call[c].useMemory
         THEN /\ call'[c].at = "fill" /\ call'[c].value = call[c].value
              /\ call'[c].key = k /\ call'[c].useMemory
         ELSE call'[c].at = "idle"
  BY <1>1, <1>2, Gone, Returned
<1>5. CacheTypes'
  BY <1>1, <1>2, <1>3, <1>4 DEF CacheTypes
<1>6. ASSUME undisturbed', Alone(c)
      PROVE  Alone(c)'
  <2>1. \A j \in Keys : redis'[j] = IF j = k THEN new ELSE redis[j]
    BY <1>1, <1>2, <1>6 DEF CacheTypes
  <2>2. \A j \in Keys : RedisHolds(j)'
    BY <1>1, <1>2, <1>3, <1>6, <2>1 DEF Alone, Brings, RedisHolds
  <2>3. \A q \in Processes, j \in Keys :
          MemoryHolds(q, j)' \/ (call[c].useMemory /\ j = k /\ ProcessOf[c] = q)
    BY <1>1, <1>6 DEF Alone, MemoryHolds
  <2> QED
    BY <1>1, <1>2, <1>4, <1>6, <2>2, <2>3 DEF Alone, Brings
<1> QED
  BY <1>1, <1>4, <1>5, <1>6, OwnStep

LEMMA FillKeeps ==
  ASSUME CacheIInv, NEW c \in Calls, Fill(c)
  PROVE  CacheIInv'
<1> DEFINE k == call[c].key
           p == ProcessOf[c]
           new == [value |-> call[c].value, left |-> memoryTTL, idle |-> 0]
<1>1. /\ CacheTypes /\ call[c].at = "fill" /\ call[c] # Idle /\ p \in Processes
      /\ UNCHANGED <<database, redis, writer, undisturbed>>
      /\ Returns(c)
  BY CacheAssumption DEF CacheIInv, Fill, Idle
<1>2. k \in Keys /\ call[c].value \in Nat
  BY <1>1, IdleIs
<1>3. PICK m \in Filled(memory[p], k, call[c].value) : memory' = [memory EXCEPT ![p] = m]
  BY DEF Fill
<1>4. new \in Entries /\ new.value = call[c].value
  BY <1>2, CacheAssumption DEF Entries
<1>5. /\ m \in [Keys -> Entries \cup {NoEntry}]
      /\ \A j \in Keys : m[j] = NoEntry \/ m[j] = IF j = k THEN new ELSE memory[p][j]
  <2>1. memory[p] \in [Keys -> Entries \cup {NoEntry}]
    BY <1>1 DEF CacheTypes
  <2>2. \/ m = [memory[p] EXCEPT ![k] = new]
        \/ \E j \in Keys : m = [memory[p] EXCEPT ![k] = new, ![j] = NoEntry]
    BY <1>3 DEF Filled, LeastRecent, Stored
  <2> HIDE DEF new, p, k
  <2> QED
    BY <1>2, <1>4, <2>1, <2>2
<1> HIDE DEF new
<1>6. /\ memory' \in [Processes -> [Keys -> Entries \cup {NoEntry}]]
      /\ \A q \in Processes : memory'[q] = IF q = p THEN m ELSE memory[q]
  BY <1>1, <1>3, <1>5 DEF CacheTypes
<1>7. CacheTypes'
  BY <1>1, <1>6, Returned DEF CacheTypes
<1>8. ASSUME Alone(c)
      PROVE  Alone(c)'
  <2>1. \A j \in Keys : RedisHolds(j)'
    BY <1>1, <1>8 DEF Alone, RedisHolds
  <2>2. ASSUME NEW q \in Processes, NEW j \in Keys
        PROVE  MemoryHolds(q, j)'
    <3>1. CASE q = p /\ j = k
      BY <1>1, <1>2, <1>4, <1>5, <1>6, <1>8, <3>1 DEF Alone, Brings, MemoryHolds, Live
    <3>2. CASE ~(q = p /\ j = k)
      BY <1>1, <1>5, <1>6, <1>8, <3>2 DEF Alone, MemoryHolds, Live
    <3> QED
      BY <3>1, <3>2
  <2> QED
    BY <1>1, <2>1, <2>2, Returned DEF Alone, Brings
<1> QED
  BY <1>1, <1>7, <1>8, Returned, OwnStep

LEMMA DelKeeps ==
  ASSUME CacheIInv, NEW c \in Calls, RedisDel(c)
  PROVE  CacheIInv'
<1> DEFINE k == call[c].key
           new == [at |-> "write", key |-> k]
<1>1. /\ CacheTypes /\ undisturbed \in BOOLEAN
      /\ call[c].at \in {"del", "delAndWrite"} /\ UNCHANGED <<database, memory, writer>>
      /\ IF call[c].at = "del" THEN Returns(c) ELSE Goes(c, "write")
  BY DEF CacheIInv, CacheTypes, RedisDel
<1>2. \/ redis' = [redis EXCEPT ![k] = NoEntry] /\ undisturbed' = undisturbed
      \/ redis' = redis /\ undisturbed' = FALSE
  BY DEF RedisDel
<1>3. call[c] # Idle /\ k \in Keys
  BY <1>1, IdleIs DEF Idle
<1>4. /\ call' \in [Calls -> Waiting \cup Deletions \cup {Idle}]
      /\ \A d \in Calls \ {c} : call'[d] = call[d]
      /\ IF call[c].at = "del" THEN call'[c].at = "idle"
         ELSE call'[c].at = "write" /\ call'[c].key = k
  <2>1. CASE call[c].at = "del"
    BY <1>1, <2>1, Returned
  <2>2. CASE call[c].at # "del"
    <3>1. call[c] \in Deletions
      BY <1>1 DEF CacheTypes, Waiting, Deletions, Idle
    <3>2. new \in Deletions /\ new.at = "write" /\ new.key = k /\ [call[c] EXCEPT !.at = "write"] = new
      BY <3>1 DEF Deletions
    <3>3. call' = [call EXCEPT ![c] = new]
      BY <1>1, <2>2, <3>2 DEF Goes
    <3> HIDE DEF new
    <3> QED
      BY <1>1, <2>2, <3>2, <3>3 DEF CacheTypes
  <2> QED
    BY <2>1, <2>2
<1> HIDE DEF k
<1>5. /\ redis' \in [Keys -> Copies \cup {NoEntry}]
      /\ \A j \in Keys : redis'[j] = NoEntry \/ redis'[j] = redis[j]
      /\ undisturbed' = TRUE => redis'[k] = NoEntry
      /\ undisturbed' = TRUE => undisturbed = TRUE
  BY <1>1, <1>2, <1>3 DEF CacheTypes
<1>6. undisturbed' \in BOOLEAN
  <2>1. CASE undisturbed' = undisturbed
    BY <1>1, <2>1, Zenon
  <2>2. CASE undisturbed' = FALSE
    BY <2>2
  <2> QED
    BY <1>2, <2>1, <2>2, Zenon
<1>7. CacheTypes'
  BY <1>1, <1>4, <1>5, <1>6 DEF CacheTypes
<1>8. ASSUME undisturbed', Alone(c)
      PROVE  Alone(c)'
  <2>1. \A j \in Keys : RedisHolds(j)'
    BY <1>1, <1>5, <1>8 DEF Alone, RedisHolds
  <2>2. \A q \in Processes, j \in Keys : MemoryHolds(q, j)'
    BY <1>1, <1>8 DEF Alone, MemoryHolds
  <2>3. Brings(c)'
    BY <1>1, <1>4, <1>5, <1>6, <1>8 DEF Alone, Brings, k
  <2> QED
    BY <2>1, <2>2, <2>3 DEF Alone
<1> QED
  BY <1>1, <1>3, <1>4, <1>5, <1>6, <1>7, <1>8, OwnStep

LEMMA WriteKeeps ==
  ASSUME CacheIInv, NEW c \in Calls, Write(c)
  PROVE  CacheIInv'
<1> DEFINE k == call[c].key
<1>1. /\ CacheTypes /\ call[c].at = "write" /\ call[c] # Idle /\ ProcessOf[c] \in Processes
      /\ Returns(c) /\ UNCHANGED <<redis, memory, undisturbed>>
  BY CacheAssumption DEF CacheIInv, Write, Idle
<1>2. k \in Keys
  BY <1>1, IdleIs
<1>3. /\ database' \in [Keys -> Nat] /\ DOMAIN writer' = Keys
      /\ \A j \in Keys \ {k} : database'[j] = database[j] /\ writer'[j] = writer[j]
      /\ UNCHANGED <<database, writer>> \/ writer'[k] = ProcessOf[c]
  BY <1>1, <1>2 DEF CacheTypes, Write
<1>4. CacheTypes'
  BY <1>1, <1>3, Returned DEF CacheTypes
<1>5. ASSUME Alone(c)
      PROVE  Alone(c)'
  <2>1. redis[k] = NoEntry /\ memory[ProcessOf[c]][k] = NoEntry
    BY <1>1, <1>5 DEF Alone, Brings
  <2>2. \A j \in Keys : RedisHolds(j)'
    BY <1>1, <1>3, <1>5, <2>1 DEF Alone, RedisHolds
  <2>3. \A q \in Processes, j \in Keys : MemoryHolds(q, j)'
    BY <1>1, <1>2, <1>3, <1>5, <2>1, CacheAssumption DEF Alone, MemoryHolds, Live
  <2> QED
    BY <1>1, <2>2, <2>3, Returned DEF Alone, Brings
<1> QED
  BY <1>1, <1>4, <1>5, Returned, OwnStep

(* Entries that grow older or are dropped say nothing new.                 *)
LEMMA AgeKeeps ==
  ASSUME CacheIInv, UNCHANGED <<database, call, writer, undisturbed>>,
         redis' \in [Keys -> Copies \cup {NoEntry}],
         memory' \in [Processes -> [Keys -> Entries \cup {NoEntry}]],
         \A k \in Keys : redis'[k] = NoEntry \/ (redis[k] # NoEntry /\ redis'[k].value = redis[k].value),
         \A p \in Processes, k \in Keys :
           \/ memory'[p][k] = NoEntry
           \/ ~Live(memory'[p][k])
           \/ Live(memory[p][k]) /\ memory'[p][k].value = memory[p][k].value,
         \A k \in Keys : redis[k] = NoEntry => redis'[k] = NoEntry,
         \A p \in Processes, k \in Keys : memory[p][k] = NoEntry => memory'[p][k] = NoEntry
  PROVE  CacheIInv'
<1>1. CacheTypes'
  BY DEF CacheIInv, CacheTypes
<1>2. ASSUME NEW c \in Calls, Alone(c)
      PROVE  Alone(c)'
  <2>1. \A k \in Keys : RedisHolds(k) => RedisHolds(k)'
    BY DEF RedisHolds
  <2>2. \A p \in Processes, k \in Keys : MemoryHolds(p, k) => MemoryHolds(p, k)'
    BY DEF MemoryHolds, Live
  <2>3. Brings(c)'
    <3>1. CacheTypes /\ ProcessOf[c] \in Processes
      BY CacheAssumption DEF CacheIInv
    <3>2. call[c].at \in {"delAndWrite", "write"} => call[c].key \in Keys
      BY <3>1, IdleIs DEF Idle
    <3> QED
      BY <1>2, <3>1, <3>2 DEF Alone, Brings
  <2> QED
    BY <1>2, <2>1, <2>2, <2>3 DEF Alone
<1> QED
  BY <1>1, <1>2 DEF CacheIInv

LEMMA TimeKeeps ==
  ASSUME CacheIInv,
         Tick \/ (\E p \in Processes : cleanup(p)) \/ (\E k \in Keys : RedisForgets(k))
  PROVE  CacheIInv'
<1>1. CacheTypes
  BY DEF CacheIInv
<1>2. CASE Tick
  <2> DEFINE older(e) == [e EXCEPT !.left = IF memoryTTL = 0 \/ @ < 0 THEN @ ELSE @ - 1,
                                   !.idle = IF @ > memoryTTL THEN @ ELSE @ + 1]
             shorter(e) == [e EXCEPT !.left = @ - 1]
  <2>1. ASSUME NEW e \in Entries
        PROVE  /\ older(e) \in Entries /\ older(e).value = e.value
               /\ Live(older(e)) => e.left >= 0
    <3>1. e.left \in Int /\ e.idle \in Int /\ memoryTTL \in Int
      BY CacheAssumption DEF Entries
    <3> DEFINE left == IF memoryTTL = 0 \/ e.left < 0 THEN e.left ELSE e.left - 1
               idle == IF e.idle > memoryTTL THEN e.idle ELSE e.idle + 1
    <3>2. older(e) = [e EXCEPT !.left = left, !.idle = idle]
      OBVIOUS
    <3>3. left \in Int /\ idle \in Int /\ (left >= 0 => e.left >= 0)
      BY <3>1
    <3> HIDE DEF older, left, idle
    <3>4. e.value \in Nat /\ older(e) = [value |-> e.value, left |-> left, idle |-> idle]
      BY <3>2 DEF Entries
    <3>5. older(e) \in Entries
      BY <3>3, <3>4 DEF Entries
    <3>6. older(e).value = e.value /\ older(e).left = left
      BY <3>4
    <3> QED
      BY <3>3, <3>5, <3>6 DEF Live
  <2>2. ASSUME NEW e \in Copies
        PROVE  shorter(e) \in Copies /\ shorter(e).value = e.value
    BY DEF Copies
  <2>3. /\ memory' = [p \in Processes |-> [k \in Keys |->
              IF memory[p][k] = NoEntry THEN NoEntry ELSE older(memory[p][k])]]
        /\ redis' = [k \in Keys |-> IF redis[k] = NoEntry \/ redis[k].left = 1 THEN NoEntry
                                    ELSE shorter(redis[k])]
        /\ UNCHANGED <<database, call, writer, undisturbed>>
    BY <1>2 DEF Tick
  <2> HIDE DEF older, shorter
  <2>4. \A p \in Processes, k \in Keys : memory[p][k] = NoEntry \/ memory[p][k] \in Entries
    BY <1>1 DEF CacheTypes
  <2>5. \A k \in Keys : redis[k] = NoEntry \/ redis[k] \in Copies
    BY <1>1 DEF CacheTypes
  <2>6. /\ redis' \in [Keys -> Copies \cup {NoEntry}]
        /\ \A k \in Keys : redis'[k] = NoEntry \/ (redis[k] # NoEntry /\ redis'[k].value = redis[k].value)
        /\ \A k \in Keys : redis[k] = NoEntry => redis'[k] = NoEntry
    BY <2>2, <2>3, <2>5
  <2>7. /\ memory' \in [Processes -> [Keys -> Entries \cup {NoEntry}]]
        /\ \A p \in Processes, k \in Keys : memory[p][k] = NoEntry => memory'[p][k] = NoEntry
    BY <2>1, <2>3, <2>4
  <2>8. \A p \in Processes, k \in Keys :
           \/ memory'[p][k] = NoEntry
           \/ ~Live(memory'[p][k])
           \/ Live(memory[p][k]) /\ memory'[p][k].value = memory[p][k].value
    BY <2>1, <2>3, <2>4 DEF Live
  <2> QED
    BY <2>3, <2>6, <2>7, <2>8, AgeKeeps
<1>3. CASE \E p \in Processes : cleanup(p)
  <2>1. PICK p \in Processes : cleanup(p)
    BY <1>3
  <2>2. /\ UNCHANGED <<database, redis, call, writer, undisturbed>>
        /\ memory' = [memory EXCEPT ![p] =
             [k \in Keys |-> IF Live(memory[p][k]) THEN memory[p][k] ELSE NoEntry]]
    BY <2>1 DEF cleanup
  <2>3. /\ memory' \in [Processes -> [Keys -> Entries \cup {NoEntry}]]
        /\ \A q \in Processes, k \in Keys : memory'[q][k] = NoEntry \/ memory'[q][k] = memory[q][k]
    BY <1>1, <2>2 DEF CacheTypes
  <2>4. redis' \in [Keys -> Copies \cup {NoEntry}]
    BY <1>1, <2>2 DEF CacheTypes
  <2>5. \A q \in Processes, k \in Keys :
           \/ memory'[q][k] = NoEntry
           \/ ~Live(memory'[q][k])
           \/ Live(memory[q][k]) /\ memory'[q][k].value = memory[q][k].value
    BY <2>3
  <2> QED
    BY <2>2, <2>3, <2>4, <2>5, AgeKeeps
<1>4. CASE \E k \in Keys : RedisForgets(k)
  <2>1. PICK k \in Keys : RedisForgets(k)
    BY <1>4
  <2>2. /\ UNCHANGED <<database, memory, call, writer, undisturbed>>
        /\ redis' \in [Keys -> Copies \cup {NoEntry}]
        /\ \A j \in Keys : redis'[j] = NoEntry \/ redis'[j] = redis[j]
    BY <1>1, <2>1 DEF CacheTypes, RedisForgets
  <2>3. memory' \in [Processes -> [Keys -> Entries \cup {NoEntry}]]
    BY <1>1, <2>2 DEF CacheTypes
  <2>4. \A p \in Processes, j \in Keys :
           \/ memory'[p][j] = NoEntry
           \/ ~Live(memory'[p][j])
           \/ Live(memory[p][j]) /\ memory'[p][j].value = memory[p][j].value
    BY <2>2
  <2>5. \A j \in Keys : redis'[j] = NoEntry \/ (redis[j] # NoEntry /\ redis'[j].value = redis[j].value)
    BY <2>2
  <2> QED
    BY <2>2, <2>3, <2>4, <2>5, AgeKeeps
<1> QED
  BY <1>2, <1>3, <1>4

LEMMA CacheStepKeeps == CacheIInv /\ [CacheNext]_cacheVars => CacheIInv'
<1> SUFFICES ASSUME CacheIInv, [CacheNext]_cacheVars
             PROVE  CacheIInv'
  OBVIOUS
<1>1. CASE \E c \in Calls, k \in Keys :
             \/ \E useMemory \in BOOLEAN : cacheAside(c, k, useMemory)
             \/ writeThrough(c, k)
             \/ invalidateKey(c, k)
             \/ invalidateOnWrite(c, k)
  BY <1>1, AsideKeeps, ThroughKeeps, InvalidateKeeps
<1>2. CASE \E c \in Calls : Proceeds(c)
  BY <1>2, GetKeeps, SetKeeps, FillKeeps, DelKeeps, WriteKeeps DEF Proceeds
<1>3. CASE Tick \/ (\E p \in Processes : cleanup(p)) \/ (\E k \in Keys : RedisForgets(k))
  BY <1>3, TimeKeeps
<1>4. CASE UNCHANGED cacheVars
  <2>1. /\ UNCHANGED <<database, redis, memory, call, writer, undisturbed>>
    BY <1>4 DEF cacheVars
  <2> QED
    BY <2>1 DEF CacheIInv, CacheTypes, Alone, Brings, RedisHolds, MemoryHolds
<1> QED
  BY <1>1, <1>2, <1>3, <1>4 DEF CacheNext

LEMMA CacheInitIInv == CacheInit => CacheIInv
<1> SUFFICES ASSUME CacheInit
             PROVE  CacheIInv
  OBVIOUS
<1>1. CacheTypes
  BY DEF CacheInit, CacheTypes
<1>2. \A c \in Calls : call[c] = Idle /\ call[c].at = "idle"
  BY DEF CacheInit, Idle
<1>3. \A k \in Keys : RedisHolds(k)
  BY DEF CacheInit, RedisHolds
<1>4. \A p \in Processes, k \in Keys : MemoryHolds(p, k)
  BY DEF CacheInit, MemoryHolds, Live
<1> QED
  BY <1>1, <1>2, <1>3, <1>4 DEF CacheIInv, Alone, Brings

(* Calls that follow one another see each other's writes, in Redis and in  *)
(* the memory of the process that wrote (invalidation.js:9): whichever     *)
(* entries expire, are evicted or forgotten, and whichever calls fail.     *)
THEOREM QuietlyCoherentHolds == CacheSpec => []QuietlyCoherent
<1>1. CacheIInv => QuietlyCoherent
  <2> SUFFICES ASSUME CacheIInv, undisturbed, \A c \in Calls : call[c] = Idle, NEW k \in Keys
               PROVE  /\ redis[k] # NoEntry => redis[k].value = database[k]
                      /\ \A p \in Processes :
                           writer[k] \in {p, Nobody} /\ Live(memory[p][k])
                             => memory[p][k].value = database[k]
    BY DEF QuietlyCoherent
  <2>1. \A c \in Calls : Alone(c) /\ call[c].at = "idle"
    BY CacheAssumption DEF CacheIInv, Idle
  <2> QED
    BY <2>1, CacheAssumption DEF Alone, RedisHolds, MemoryHolds
<1> QED
  BY <1>1, CacheInitIInv, CacheStepKeeps, PTL DEF CacheSpec
=============================================================================
