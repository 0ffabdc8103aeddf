----------------------------- MODULE MCRealtime -----------------------------
(***************************************************************************)
(* What the processes keep in memory: the connection hub, the rooms and    *)
(* the presence of the real-time services, and the cache, with calls of    *)
(* two processes that race for one key, or calls of one process on more    *)
(* keys than its memory holds.  They share nothing, so each behaviour      *)
(* exercises one of them and the state spaces add up.                      *)
(***************************************************************************)
EXTENDS BroadcastService, RoomManager, PresenceTracker, CacheStrategies, TLC

CONSTANTS w1, w2, s1, s2, c1, c2, h1, h2, k1, k2

\* Connections that appear together: two of a kind, or one of each.
Together == {{}, {w1, w2}, {s1, s2}, {w1, s1}}

MCProcessOf == c1 :> h1 @@ c2 :> h2

VARIABLE part

Init ==
  /\ part \in {"hub", "rooms", "presence", "race", "capacity"}
  /\ HubInit /\ RoomInit /\ PresenceInit /\ CacheInit
  /\ part # "hub" => fleet = {}
  /\ part # "rooms" => maxMembers = [r \in RoomNames |-> 0]

Next ==
  /\ UNCHANGED part
  /\ \/ part = "hub" /\ HubNext /\ UNCHANGED <<roomVars, presenceVars, cacheVars>>
     \/ part = "rooms" /\ RoomNext /\ UNCHANGED <<hubVars, presenceVars, cacheVars>>
     \/ part = "presence" /\ PresenceNext /\ UNCHANGED <<hubVars, roomVars, cacheVars>>
     \/ /\ part = "race" /\ CacheNext /\ UNCHANGED <<hubVars, roomVars, presenceVars>>
        /\ \A c \in Calls : call'[c] # Idle => call'[c].key = k1
     \/ /\ part = "capacity" /\ CacheNext /\ UNCHANGED <<hubVars, roomVars, presenceVars>>
        /\ call'[c2] = Idle

Spec ==
  /\ Init /\ [][Next]_<<part, hubVars, roomVars, presenceVars, cacheVars>>
  /\ WSFairness /\ CacheFairness
=============================================================================
