---------------------------- MODULE KeyRotation ----------------------------
(***************************************************************************)
(* The versions of one type of key: shared-utils/src/crypto/key-rotation.js*)
(*                                                                         *)
(* rotateKey() reads the active version, awaits a key that is generated    *)
(* synchronously, and only then stores it: rotations that start in the     *)
(* same turn overlap, but they end in the order they started in and before *)
(* anything else runs.  Keys are numbered as they are generated; expiry    *)
(* times are clock readings.  `sealed` and `retired` only record what the  *)
(* properties speak of: data that was sealed with the active key, and when *)
(* a version stopped being active.                                         *)
(***************************************************************************)
EXTENDS Integers, Sequences, FiniteSets

CONSTANTS
  gracePeriod,
  initialLife,      \* how long the first key is valid
  maxVersions,
  MaxKeys,          \* bound on the keys that are generated
  MaxClock          \* bound on the clock

ASSUME KeyRotationAssumption ==
  /\ gracePeriod \in Nat /\ initialLife \in Nat
  /\ maxVersions \in Nat \ {0}

VARIABLES
  active,
  keys,             \* version |-> [key, expiresAt]
  rotating,         \* the versions that rotations under way are going to store
  generated,
  clock,
  sealed,           \* [version, key] pairs
  retired           \* version |-> when it was replaced

keyVars == <<active, keys, rotating, generated, clock, sealed, retired>>

-----------------------------------------------------------------------------
\* _cleanupOldKeys(): the highest versions stay.
Kept(versions) ==
  {v \in versions : Cardinality({w \in versions : w > v}) < maxVersions}


\* The old key's expiry time, counted from its replacement.
Expiring(version, old) == [old EXCEPT !.expiresAt = clock + gracePeriod]

\* getKey(): whether a version can still be had.
getKey(version) == version \in DOMAIN keys /\ clock <= keys[version].expiresAt

\* getActiveKeys()
getActiveKeys == {v \in DOMAIN keys : keys[v].expiresAt > clock}

-----------------------------------------------------------------------------
KeysInit ==
  /\ active = 1
  /\ keys = [v \in {1} |-> [key |-> 1, expiresAt |-> initialLife]]
  /\ rotating = <<>>
  /\ generated = 1
  /\ clock = 0
  /\ sealed = {}
  /\ retired = [v \in {} |-> 0]

\* rotateKey(), up to its await; performScheduledRotations() and
\* emergencyRotateAll() call it too.
rotateKey ==
  /\ generated + Len(rotating) < MaxKeys
  /\ rotating' = Append(rotating, active + 1)
  /\ UNCHANGED <<active, keys, generated, clock, sealed, retired>>

\* rotateKey(), after its await.
Rotated ==
  /\ rotating # <<>>
  /\ LET new == Head(rotating)
         stored == [v \in DOMAIN keys \cup {new} |->
                      IF v = new THEN [key |-> generated + 1, expiresAt |-> clock + gracePeriod]
                      ELSE keys[v]]
         marked == [stored EXCEPT ![active] = Expiring(active, @)]
     IN  /\ keys' = [v \in Kept(DOMAIN marked) |-> marked[v]]
         /\ active' = new
         /\ retired' = IF new = active THEN retired
                       ELSE [v \in DOMAIN retired \cup {active} |->
                               IF v = active THEN clock ELSE retired[v]]
  /\ generated' = generated + 1
  /\ rotating' = Tail(rotating)
  /\ UNCHANGED <<clock, sealed>>

\* Someone seals data with what getActiveKey() returns, before the rotations
\* under way go on, if there are any: these store their keys back to back.
getActiveKey ==
  /\ \A i \in DOMAIN rotating : rotating[i] = active + 1
  /\ sealed' = sealed \cup {[version |-> active, key |-> keys[active].key]}
  /\ UNCHANGED <<active, keys, rotating, generated, clock, retired>>

\* Time passes, but not between the halves of a rotation.
KeyTick ==
  /\ rotating = <<>>
  /\ clock < MaxClock
  /\ clock' = clock + 1
  /\ UNCHANGED <<active, keys, rotating, generated, sealed, retired>>

KeysNext == rotateKey \/ Rotated \/ getActiveKey \/ KeyTick

KeysSpec == KeysInit /\ [][KeysNext]_keyVars

-----------------------------------------------------------------------------
(* The versions in store are the active one and those just before it, as   *)
(* many as are kept, and overlapping rotations leave no gap                *)
(* (key-rotation.js:388).                                                  *)
KeysTypeOK ==
  /\ DOMAIN keys = {v \in 1 .. active : v > active - maxVersions}
  /\ \A v \in DOMAIN keys : keys[v].key \in 1 .. generated
  /\ \A i \in DOMAIN rotating : rotating[i] \in {active, active + 1}
  /\ DOMAIN retired = 1 .. active - 1

(* "Graceful transition (old keys work during rotation)"                   *)
(* (key-rotation.js:13): what was sealed with a version that has since     *)
(* been replaced can be opened with the same key for the whole grace       *)
(* period, unless as many versions as are kept have replaced it.           *)
GracefulTransition ==
  \A s \in sealed :
    /\ s.version \in DOMAIN retired
    /\ s.version > active - maxVersions
    /\ clock <= retired[s.version] + gracePeriod
    => getKey(s.version) /\ keys[s.version].key = s.key

(* "Get all active keys (current + grace period)" (key-rotation.js:174):   *)
(* the current key is one of them.                                         *)
CurrentIsActive == active \in getActiveKeys
=============================================================================
