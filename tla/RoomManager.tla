----------------------------- MODULE RoomManager -----------------------------
(***************************************************************************)
(* The rooms of realtime/room-manager.js: rooms with their members, and    *)
(* memberRooms, which lists the rooms of each member the other way round.  *)
(* A room is made by create(), or by the first join(), with the options of *)
(* that call; it goes by delete(), when its last member leaves, or by the  *)
(* cleanup every five minutes, unless it is persistent.                    *)
(*                                                                         *)
(* A password is known to a caller or not.  A room's history is the number *)
(* of messages it retains.  Join and leave counters are left out.          *)
(***************************************************************************)
EXTENDS Integers, FiniteSets

CONSTANTS
  RoomNames,
  Members,
  Capacities,    \* values of options.maxMembers; 0 is unlimited
  historySize

ASSUME RoomAssumption ==
  /\ Capacities \subseteq Nat /\ historySize \in Nat
  /\ IsFiniteSet(Members)

VARIABLES
  existing,      \* keys of this.rooms
  members,       \* room.members
  maxMembers, persistent, isLocked, hasPassword, history,
  memberRooms    \* memberRooms[m]; an empty set is a missing entry

roomVars == <<existing, members, maxMembers, persistent, isLocked, hasPassword,
              history, memberRooms>>

RoomTypeOK ==
  /\ existing \subseteq RoomNames
  /\ members \in [RoomNames -> SUBSET Members]
  /\ maxMembers \in [RoomNames -> Capacities]
  /\ persistent \subseteq existing /\ isLocked \subseteq existing
  /\ hasPassword \subseteq existing
  /\ history \in [RoomNames -> 0 .. historySize]
  /\ memberRooms \in [Members -> SUBSET RoomNames]

RoomInit ==
  /\ existing = {} /\ persistent = {} /\ isLocked = {} /\ hasPassword = {}
  /\ members = [r \in RoomNames |-> {}]
  /\ maxMembers \in {[r \in RoomNames |-> n] : n \in Capacities}
  /\ history = [r \in RoomNames |-> 0]
  /\ memberRooms = [m \in Members |-> {}]

Options == [max : Capacities, persistent : BOOLEAN, password : BOOLEAN]

\* What create() makes of a name that is free.
Created(r, o) ==
  /\ existing' = existing \cup {r}
  /\ maxMembers' = [maxMembers EXCEPT ![r] = o.max]
  /\ persistent' = IF o.persistent THEN persistent \cup {r} ELSE persistent
  /\ hasPassword' = IF o.password THEN hasPassword \cup {r} ELSE hasPassword
  /\ UNCHANGED <<isLocked, history>>

\* The rooms of gone are dropped from this.rooms; nothing is in them any more.
Dropped(gone) ==
  /\ existing' = existing \ gone
  /\ persistent' = persistent \ gone
  /\ isLocked' = isLocked \ gone
  /\ hasPassword' = hasPassword \ gone
  /\ history' = [r \in RoomNames |-> IF r \in gone THEN 0 ELSE history[r]]
  /\ UNCHANGED maxMembers

-----------------------------------------------------------------------------
create(r, o) ==
  /\ r \notin existing
  /\ Created(r, o)
  /\ UNCHANGED <<members, memberRooms>>

\* Mutant: a deleted room stays in the lists of its members.
delete_MembersKeep(r) ==
  /\ r \in existing
  /\ members' = [members EXCEPT ![r] = {}]
  /\ Dropped({r})
  /\ UNCHANGED memberRooms

delete(r) ==
  /\ r \in existing
  /\ members' = [members EXCEPT ![r] = {}]
  /\ memberRooms' = [m \in Members |-> IF m \in members[r] THEN memberRooms[m] \ {r}
                                       ELSE memberRooms[m]]
  /\ Dropped({r})

\* Mutant: the limit is checked before the newcomer is counted.
Admits_Over(r, bypassLock, knows) ==
  /\ r \in isLocked => bypassLock
  /\ r \in hasPassword => knows
  /\ maxMembers[r] > 0 => Cardinality(members[r]) <= maxMembers[r]

\* The checks of join() on a room that exists.
Admits(r, bypassLock, knows) ==
  /\ r \in isLocked => bypassLock
  /\ r \in hasPassword => knows
  /\ maxMembers[r] > 0 => Cardinality(members[r]) < maxMembers[r]

\* join(): a room that does not exist is made with the caller's options, and
\* with its password, which the caller knows.
join(r, m, o, bypassLock, knows) ==
  /\ IF r \in existing
     THEN /\ Admits(r, bypassLock, knows)
          /\ UNCHANGED <<existing, maxMembers, persistent, hasPassword, isLocked, history>>
     ELSE Created(r, o)
  /\ members' = [members EXCEPT ![r] = @ \cup {m}]
  /\ memberRooms' = [memberRooms EXCEPT ![m] = @ \cup {r}]

\* leave(): a room that is not persistent goes with its last member.
leave(r, m) ==
  /\ r \in existing
  /\ members' = [members EXCEPT ![r] = @ \ {m}]
  /\ memberRooms' = [memberRooms EXCEPT ![m] = @ \ {r}]
  /\ IF r \notin persistent /\ members[r] \subseteq {m}
     THEN Dropped({r})
     ELSE UNCHANGED <<existing, maxMembers, persistent, hasPassword, isLocked, history>>

setLock(r, locked) ==
  /\ r \in existing
  /\ isLocked' = IF locked THEN isLocked \cup {r} ELSE isLocked \ {r}
  /\ UNCHANGED <<existing, members, maxMembers, persistent, hasPassword, history, memberRooms>>

addMessage(r) ==
  /\ r \in existing
  /\ history' = [history EXCEPT ![r] = IF @ < historySize THEN @ + 1 ELSE @]
  /\ UNCHANGED <<existing, members, maxMembers, persistent, hasPassword, isLocked, memberRooms>>

_cleanupEmptyRooms ==
  /\ Dropped({r \in existing \ persistent : members[r] = {}})
  /\ UNCHANGED <<members, memberRooms>>

RoomNext ==
  \/ \E r \in RoomNames :
       \/ \E o \in Options : create(r, o)
       \/ \E m \in Members, o \in Options, bypassLock, knows \in BOOLEAN :
            join(r, m, o, bypassLock, knows)
       \/ \E m \in Members : leave(r, m)
       \/ delete(r) \/ addMessage(r)
       \/ \E locked \in BOOLEAN : setLock(r, locked)
  \/ _cleanupEmptyRooms

RoomSpec == RoomInit /\ [][RoomNext]_roomVars

-----------------------------------------------------------------------------
(* Members and rooms list each other, whichever way a room comes to its    *)
(* end: getMembers() and getMemberRooms() never disagree, and a name that  *)
(* is used again starts without members of the room before it.             *)
RoomsBothWays ==
  /\ \A r \in RoomNames, m \in Members : m \in members[r] <=> r \in memberRooms[m]
  /\ \A r \in RoomNames \ existing : members[r] = {}

(* A room never holds more members than it was created for.                *)
CapacityKept ==
  \A r \in existing : maxMembers[r] > 0 => Cardinality(members[r]) <= maxMembers[r]
=============================================================================
