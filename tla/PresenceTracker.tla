--------------------------- MODULE PresenceTracker ---------------------------
(***************************************************************************)
(* User presence of realtime/presence-tracker.js.  Calls set a user's      *)
(* status and lastSeen; a timer that runs every minute moves users who     *)
(* stay quiet from online over idle and away out of the map.               *)
(*                                                                         *)
(* Time is counted in runs of that timer: age[u] is how many there have    *)
(* been since lastSeen[u], so that an idle time above n minutes is an age  *)
(* above n.  Devices, sessions, metadata and status history are left out.  *)
(***************************************************************************)
EXTENDS Integers

CONSTANTS
  Persons,          \* users
  idleTimeout,      \* minutes; 5, 10 and 30 in the code
  awayTimeout,
  offlineTimeout

ASSUME PresenceAssumption ==
  /\ idleTimeout \in Nat /\ awayTimeout \in Nat /\ offlineTimeout \in Nat
  /\ idleTimeout <= offlineTimeout /\ awayTimeout <= offlineTimeout

VARIABLES
  tracked,   \* keys of this.users
  status, age,
  quiet      \* timer runs since the last call about each user

presenceVars == <<tracked, status, age, quiet>>

\* How long a user can stay quiet before the timer drops it.
LongestQuiet == idleTimeout + awayTimeout + offlineTimeout + 3

PresenceTypeOK ==
  /\ tracked \subseteq Persons
  /\ status \in [Persons -> {"online", "idle", "away", "offline"}]
  /\ age \in [Persons -> 0 .. offlineTimeout + 1]
  /\ quiet \in [Persons -> 0 .. LongestQuiet]

PresenceInit ==
  /\ tracked = {}
  /\ status = [u \in Persons |-> "offline"]
  /\ age = [u \in Persons |-> 0]
  /\ quiet = [u \in Persons |-> 0]

\* A call sets the status of u and stamps it as seen now.
Seen(u, s) ==
  /\ status' = [status EXCEPT ![u] = s]
  /\ age' = [age EXCEPT ![u] = 0]
  /\ quiet' = [quiet EXCEPT ![u] = 0]

setOnline(u) == tracked' = tracked \cup {u} /\ Seen(u, "online")

\* Mutant: a heartbeat of a user who is online already is not stamped.
heartbeat_Unstamped(u) ==
  /\ tracked' = tracked \cup {u}
  /\ status' = [status EXCEPT ![u] = "online"]
  /\ age' = IF status[u] = "online" THEN age ELSE [age EXCEPT ![u] = 0]
  /\ quiet' = [quiet EXCEPT ![u] = 0]

\* heartbeat() of a user who is not tracked is setOnline(); whatever the
\* status was, offline included, it is online afterwards.
heartbeat(u) == tracked' = tracked \cup {u} /\ Seen(u, "online")

setOffline(u) == u \in tracked /\ Seen(u, "offline") /\ UNCHANGED tracked
setAway(u) == u \in tracked /\ status[u] # "offline" /\ Seen(u, "away") /\ UNCHANGED tracked
setIdle(u) == u \in tracked /\ status[u] # "offline" /\ Seen(u, "idle") /\ UNCHANGED tracked

\* Mutant: a user who is online is not looked at.
Fate_OnlineStays(u) ==
  IF status[u] = "online" THEN "stay"
  ELSE IF status[u] = "idle" /\ age[u] + 1 > awayTimeout THEN "away"
  ELSE IF age[u] + 1 > offlineTimeout THEN "gone" ELSE "stay"

\* What the timer does with a tracked user.
Fate(u) ==
  IF status[u] = "online" /\ age[u] + 1 > idleTimeout THEN "idle"
  ELSE IF status[u] = "idle" /\ age[u] + 1 > awayTimeout THEN "away"
  ELSE IF age[u] + 1 > offlineTimeout THEN "gone" ELSE "stay"

\* One run of the timer: setIdle() and setAway() stamp lastSeen anew.
_startCleanup ==
  /\ tracked # {}
  /\ LET gone == {u \in tracked : Fate(u) = "gone"}
     IN  /\ tracked' = tracked \ gone
         /\ status' = [u \in Persons |-> IF u \notin tracked \/ Fate(u) = "stay" THEN status[u]
                                         ELSE IF Fate(u) = "gone" THEN "offline" ELSE Fate(u)]
         /\ age' = [u \in Persons |-> IF u \in tracked /\ Fate(u) = "stay" THEN age[u] + 1 ELSE 0]
         /\ quiet' = [u \in Persons |-> IF u \in tracked \ gone THEN quiet[u] + 1 ELSE 0]

PresenceNext ==
  \/ \E u \in Persons :
       setOnline(u) \/ heartbeat(u) \/ setOffline(u) \/ setAway(u) \/ setIdle(u)
  \/ _startCleanup

PresenceSpec == PresenceInit /\ [][PresenceNext]_presenceVars

-----------------------------------------------------------------------------
(* A user shown as online has been heard of within idleTimeout and one     *)
(* timer run, and one shown at all within the three timeouts in a row: a   *)
(* status is never staler than that, whatever calls came in between.       *)
PresenceFresh ==
  \A u \in tracked :
    /\ status[u] = "online" => quiet[u] <= idleTimeout
    /\ quiet[u] <= idleTimeout + awayTimeout + offlineTimeout + 2

(* The timer takes nobody off who has been heard of within idleTimeout.    *)
HeardStaysOnline ==
  [][_startCleanup =>
       \A u \in tracked : status[u] = "online" /\ quiet[u] < idleTimeout => status'[u] = "online"]_presenceVars

(* "30 minutes to offline" (presence-tracker.js:33): a user who has been   *)
(* quiet that long is not shown as anything else.                          *)
OfflineInTime ==
  \A u \in tracked : quiet[u] > offlineTimeout + 1 => status[u] = "offline"
=============================================================================
