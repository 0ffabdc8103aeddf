---------------------------- MODULE UssdSession -----------------------------
(***************************************************************************)
(* The sessions of telephone menus: shared-utils/src/ussd/                 *)
(* session-manager.js.  No call awaits anything, so each is one step; what *)
(* interleaves is the requests of many phones, the clean-up timer and time.*)
(*                                                                         *)
(* Sessions are numbered in the order they are created in, which is the    *)
(* order of the Map.  Instead of the time a session expires at, `idle`     *)
(* counts the ticks since it was last used.  What the application stores   *)
(* in a session, its input history and its metadata decide nothing and are *)
(* left out, and so is previousMenu, which nothing reads.                  *)
(***************************************************************************)
EXTENDS Integers, Sequences, FiniteSets, FiniteSetsExt, SequencesExt,
        WellFoundedInduction, FiniteSetTheorems, SequenceTheorems,
        TLAPS

CONSTANTS
  Phones,
  Menus,
  main_menu,
  sessionTimeout,       \* in ticks
  maxSessionsPerPhone,
  MaxSessions,          \* bound: sessions created in one behaviour
  MaxStack              \* bound: menus on the stack of a session

ASSUME UssdAssumption ==
  /\ main_menu \in Menus
  /\ sessionTimeout \in Nat /\ maxSessionsPerPhone \in Nat \ {0}
  /\ MaxSessions \in Nat /\ MaxStack \in Nat

VARIABLES
  sessions,   \* id |-> [phoneNumber, currentMenu, menuStack, idle], the live Map
  created     \* how many sessions have been created

ussdVars == <<sessions, created>>

Session ==
  [phoneNumber : Phones, currentMenu : Menus, menuStack : Seq(Menus),
   idle : 0 .. sessionTimeout + 1]

UssdTypeOK ==
  /\ created \in 0 .. MaxSessions
  /\ DOMAIN sessions \subseteq 1 .. created
  /\ \A s \in DOMAIN sessions : sessions[s] \in Session /\ Len(sessions[s].menuStack) <= MaxStack

-----------------------------------------------------------------------------
UssdInit == sessions = <<>> /\ created = 0

TimedOut(s) == sessions[s].idle > sessionTimeout

\* The Map without some of its entries.
Without(gone) == [s \in DOMAIN sessions \ gone |-> sessions[s]]

\* Sessions that have expired count until they are found out or cleaned up.
_getSessionsByPhone(phone) ==
  {s \in DOMAIN sessions : sessions[s].phoneNumber = phone}

\* Mutant: the session created last makes room.
Evicted_Newest(phone) ==
  LET existing == _getSessionsByPhone(phone)
  IN  IF Cardinality(existing) >= maxSessionsPerPhone THEN {Max(existing)} ELSE {}

\* The session that makes room for a new one of its phone.  Comparing the
\* creation times as numbers says nothing (they are strings), so the order
\* stays that of the Map, which is the same.
Evicted(phone) ==
  LET existing == _getSessionsByPhone(phone)
  IN  IF Cardinality(existing) >= maxSessionsPerPhone THEN {Min(existing)} ELSE {}

create(phone, menu) ==
  /\ created < MaxSessions
  /\ created' = created + 1
  /\ LET new == [phoneNumber |-> phone, currentMenu |-> menu, menuStack |-> <<menu>>, idle |-> 0]
         kept == Without(Evicted(phone))
     IN  sessions' = [s \in DOMAIN kept \cup {created'} |->
                        IF s = created' THEN new ELSE kept[s]]

\* get(): the session is used, or found to have expired and destroyed.
Used(s, menu, stack) ==
  /\ sessions' = IF TimedOut(s) THEN Without({s})
                 ELSE [sessions EXCEPT ![s] = [@ EXCEPT !.currentMenu = menu,
                                                        !.menuStack = stack,
                                                        !.idle = 0]]
  /\ UNCHANGED created

\* get(), setData(), getData(), clearData(), and update() of anything else.
get(s) == Used(s, sessions[s].currentMenu, sessions[s].menuStack)

\* update() with a menu; entering the current one again changes nothing.
update(s, menu) ==
  LET entered == IF menu = sessions[s].currentMenu THEN <<>> ELSE <<menu>>
  IN  /\ Len(sessions[s].menuStack \o entered) <= MaxStack
      /\ Used(s, menu, sessions[s].menuStack \o entered)

\* Mutant: the menu that is left stays on the stack.
goBack_Unpopped(s) ==
  LET stack == sessions[s].menuStack
  IN  Used(s, IF Len(stack) > 1 THEN stack[Len(stack) - 1] ELSE main_menu, stack)

\* Popping an empty stack leaves it empty.
goBack(s) ==
  LET stack == IF sessions[s].menuStack = <<>> THEN <<>> ELSE Front(sessions[s].menuStack)
  IN  Used(s, IF stack = <<>> THEN main_menu ELSE Last(stack), stack)

goHome(s) == Used(s, main_menu, <<main_menu>>)

destroy(s) == sessions' = Without({s}) /\ UNCHANGED created

_cleanupExpiredSessions ==
  /\ sessions' = Without({s \in DOMAIN sessions : TimedOut(s)})
  /\ UNCHANGED created

UssdTick ==
  /\ sessions' = [s \in DOMAIN sessions |->
                    [sessions[s] EXCEPT !.idle = IF @ > sessionTimeout THEN @ ELSE @ + 1]]
  /\ UNCHANGED created

UssdNext ==
  \/ \E phone \in Phones, menu \in Menus : create(phone, menu)
  \/ \E s \in DOMAIN sessions :
       \/ get(s) \/ goBack(s) \/ goHome(s) \/ destroy(s)
       \/ \E menu \in Menus : update(s, menu)
  \/ _cleanupExpiredSessions
  \/ UssdTick

UssdSpec == UssdInit /\ [][UssdNext]_ussdVars

-----------------------------------------------------------------------------
(* "Concurrent session limits" (session-manager.js:12) and "back: Return   *)
(* to parent menu" (state-machine.js:17): no phone has more sessions than  *)
(* the limit, the stack leads to the menu that is shown, and going back    *)
(* always leaves that menu, except for the main one.                       *)
SessionsCoherent ==
  /\ \A phone \in Phones : Cardinality(_getSessionsByPhone(phone)) <= maxSessionsPerPhone
  /\ \A s \in DOMAIN sessions :
       LET stack == sessions[s].menuStack
       IN  /\ sessions[s].currentMenu = IF stack = <<>> THEN main_menu ELSE Last(stack)
           /\ \A i \in 1 .. Len(stack) - 1 : stack[i] # stack[i + 1]

(* "state must be maintained between consecutive requests" (line 16): a    *)
(* session only ends by its timeout, by destroy(), or as the oldest one of *)
(* a phone that has reached its limit and opens another; whatever other    *)
(* phones do, and whenever the clean-up runs.                              *)
LiveSessionsKept ==
  [][\A s \in DOMAIN sessions \ DOMAIN sessions' :
       \/ TimedOut(s) \/ destroy(s)
       \/ LET rivals == _getSessionsByPhone(sessions[s].phoneNumber)
          IN  /\ \A t \in rivals : s <= t
              /\ Cardinality(rivals) = maxSessionsPerPhone
              /\ \E n \in DOMAIN sessions' \ DOMAIN sessions :
                   sessions'[n].phoneNumber = sessions[s].phoneNumber]_ussdVars

-----------------------------------------------------------------------------
(* Why live sessions are kept: no phone ever has more than its limit, so   *)
(* the one that makes room is the oldest of exactly that many.             *)
UssdIInv ==
  /\ created \in Nat
  /\ DOMAIN sessions \subseteq 1 .. created
  /\ \A s \in DOMAIN sessions :
       DOMAIN sessions[s] = {"phoneNumber", "currentMenu", "menuStack", "idle"}
  /\ \A phone \in Phones : Cardinality(_getSessionsByPhone(phone)) <= maxSessionsPerPhone

\* The smallest of a set of natural numbers.
LEMMA MinIsLeast ==
  ASSUME NEW S \in SUBSET Nat, S # {}
  PROVE  Min(S) \in S /\ \A t \in S : Min(S) <= t
<1>1. PICK x \in S : \A y \in S : ~(<<y, x>> \in OpToRel(<, Nat))
  BY NatLessThanWellFounded, WFMin
<1>2. \A y \in S : ~(y < x)
  BY <1>1 DEF OpToRel
<1>3. \A y \in S : x <= y
  BY <1>2
<1> QED
  BY <1>3 DEF Min

LEMMA FewByPhone ==
  ASSUME UssdIInv, NEW phone \in Phones
  PROVE  /\ IsFiniteSet(_getSessionsByPhone(phone))
         /\ _getSessionsByPhone(phone) \subseteq Nat
         /\ Cardinality(_getSessionsByPhone(phone)) \in 0 .. maxSessionsPerPhone
<1>1. IsFiniteSet(1 .. created)
  BY FS_Interval DEF UssdIInv
<1>2. _getSessionsByPhone(phone) \subseteq 1 .. created
  BY DEF UssdIInv, _getSessionsByPhone
<1>3. IsFiniteSet(_getSessionsByPhone(phone))
  BY <1>1, <1>2, FS_Subset
<1> QED
  BY <1>2, <1>3, FS_CardinalityType, UssdAssumption DEF UssdIInv

\* The session that makes room.
LEMMA EvictedIs ==
  ASSUME UssdIInv, NEW phone \in Phones
  PROVE  \/ /\ Cardinality(_getSessionsByPhone(phone)) < maxSessionsPerPhone
            /\ Evicted(phone) = {}
         \/ /\ Cardinality(_getSessionsByPhone(phone)) = maxSessionsPerPhone
            /\ \E s \in _getSessionsByPhone(phone) :
                 /\ Evicted(phone) = {s}
                 /\ \A t \in _getSessionsByPhone(phone) : s <= t
<1> DEFINE rivals == _getSessionsByPhone(phone)
<1>1. /\ IsFiniteSet(rivals) /\ rivals \in SUBSET Nat
      /\ Cardinality(rivals) \in 0 .. maxSessionsPerPhone
      /\ maxSessionsPerPhone \in Nat \ {0}
  BY FewByPhone, UssdAssumption
<1>2. rivals = {} => Cardinality(rivals) = 0
  BY FS_EmptySet
<1>3. Evicted(phone) = IF Cardinality(rivals) >= maxSessionsPerPhone THEN {Min(rivals)} ELSE {}
  BY DEF Evicted
<1> HIDE DEF rivals
<1>4. CASE Cardinality(rivals) < maxSessionsPerPhone
  BY <1>1, <1>3, <1>4 DEF rivals
<1>5. CASE Cardinality(rivals) = maxSessionsPerPhone
  <2>1. Min(rivals) \in rivals /\ \A t \in rivals : Min(rivals) <= t
    BY <1>1, <1>2, <1>5, MinIsLeast
  <2> QED
    BY <1>1, <1>3, <1>5, <2>1 DEF rivals
<1> QED
  BY <1>1, <1>4, <1>5

\* Sessions that go leave no phone with more.
LEMMA FewerStayFew ==
  ASSUME UssdIInv, created' = created, DOMAIN sessions' \subseteq DOMAIN sessions,
         \A s \in DOMAIN sessions' :
           /\ DOMAIN sessions'[s] = {"phoneNumber", "currentMenu", "menuStack", "idle"}
           /\ sessions'[s].phoneNumber = sessions[s].phoneNumber
  PROVE  UssdIInv'
<1>1. ASSUME NEW phone \in Phones
      PROVE  Cardinality(_getSessionsByPhone(phone)') <= maxSessionsPerPhone
  <2>1. _getSessionsByPhone(phone)' \subseteq _getSessionsByPhone(phone)
    BY DEF _getSessionsByPhone
  <2> QED
    BY <2>1, FewByPhone, FS_Subset, FS_CardinalityType, UssdAssumption
<1> QED
  BY <1>1 DEF UssdIInv

LEMMA CreateKeeps ==
  ASSUME UssdIInv, NEW phone \in Phones, NEW menu \in Menus, create(phone, menu)
  PROVE  /\ UssdIInv'
         /\ DOMAIN sessions \ DOMAIN sessions' = Evicted(phone)
         /\ created' \in DOMAIN sessions' \ DOMAIN sessions
         /\ sessions'[created'].phoneNumber = phone
<1> DEFINE new == [phoneNumber |-> phone, currentMenu |-> menu, menuStack |-> <<menu>>, idle |-> 0]
           left == DOMAIN sessions \ Evicted(phone)
<1>1. /\ created' = created + 1 /\ created \in Nat
      /\ sessions' = [s \in left \cup {created'} |->
                        IF s = created' THEN new ELSE Without(Evicted(phone))[s]]
  BY DEF UssdIInv, create, Without
<1>2. created' \notin DOMAIN sessions
  BY <1>1 DEF UssdIInv
<1>3. Evicted(phone) \subseteq _getSessionsByPhone(phone)
  BY EvictedIs
<1>4. /\ DOMAIN sessions' = left \cup {created'}
      /\ sessions'[created'] = new
      /\ \A s \in left : sessions'[s] = sessions[s]
  BY <1>1, <1>2 DEF Without
<1>5. new.phoneNumber = phone /\ DOMAIN new = {"phoneNumber", "currentMenu", "menuStack", "idle"}
  OBVIOUS
<1> HIDE DEF new
<1>6. ASSUME NEW other \in Phones
      PROVE  Cardinality(_getSessionsByPhone(other)') <= maxSessionsPerPhone
  <2>1. CASE other # phone
    <3>1. _getSessionsByPhone(other)' = _getSessionsByPhone(other)
      BY <1>3, <1>4, <1>5, <2>1 DEF _getSessionsByPhone
    <3> QED
      BY <3>1, FewByPhone, UssdAssumption
  <2>2. CASE other = phone
    <3> DEFINE rivals == _getSessionsByPhone(phone)
    <3>1. _getSessionsByPhone(phone)' = (rivals \ Evicted(phone)) \cup {created'}
      BY <1>3, <1>4, <1>5 DEF _getSessionsByPhone
    <3>2. /\ IsFiniteSet(rivals) /\ created' \notin rivals
          /\ Cardinality(rivals) \in 0 .. maxSessionsPerPhone
      BY <1>2, FewByPhone DEF _getSessionsByPhone
    <3> HIDE DEF rivals
    <3>3. CASE Evicted(phone) = {} /\ Cardinality(rivals) < maxSessionsPerPhone
      <4>1. Cardinality(rivals \cup {created'}) = Cardinality(rivals) + 1
        BY <3>2, FS_AddElement
      <4> QED
        BY <2>2, <3>1, <3>2, <3>3, <4>1, UssdAssumption
    <3>4. CASE \E s \in rivals : Evicted(phone) = {s}
      <4>1. PICK s \in rivals : Evicted(phone) = {s}
        BY <3>4
      <4>2. /\ IsFiniteSet(rivals \ {s})
            /\ Cardinality(rivals \ {s}) = Cardinality(rivals) - 1
        BY <3>2, FS_RemoveElement
      <4>3. Cardinality((rivals \ {s}) \cup {created'}) = Cardinality(rivals \ {s}) + 1
        BY <3>2, <4>2, FS_AddElement
      <4> QED
        BY <2>2, <3>1, <3>2, <4>1, <4>2, <4>3, UssdAssumption
    <3> QED
      BY <3>3, <3>4, EvictedIs DEF rivals
  <2> QED
    BY <2>1, <2>2
<1>7. UssdIInv'
  BY <1>1, <1>4, <1>5, <1>6 DEF UssdIInv
<1> QED
  BY <1>2, <1>3, <1>4, <1>5, <1>7 DEF _getSessionsByPhone

\* Every other operation; who it drops has timed out, or is destroyed.
LEMMA UseKeeps ==
  ASSUME UssdIInv, NEW s \in DOMAIN sessions, NEW menu, NEW stack, Used(s, menu, stack)
  PROVE  UssdIInv' /\ \A t \in DOMAIN sessions \ DOMAIN sessions' : TimedOut(t)
<1>1. CASE TimedOut(s)
  <2>1. sessions' = [t \in DOMAIN sessions \ {s} |-> sessions[t]] /\ created' = created
    BY <1>1 DEF Used, Without
  <2> QED
    BY <1>1, <2>1, FewerStayFew DEF UssdIInv
<1>2. CASE ~TimedOut(s)
  <2> DEFINE new == [sessions[s] EXCEPT !.currentMenu = menu, !.menuStack = stack, !.idle = 0]
  <2>1. sessions' = [sessions EXCEPT ![s] = new] /\ created' = created
    BY <1>2 DEF Used
  <2>2. DOMAIN new = DOMAIN sessions[s] /\ new.phoneNumber = sessions[s].phoneNumber
    BY DEF UssdIInv
  <2> HIDE DEF new
  <2> QED
    BY <2>1, <2>2, FewerStayFew DEF UssdIInv
<1> QED
  BY <1>1, <1>2

LEMMA UssdInitIInv == UssdInit => UssdIInv
<1> SUFFICES ASSUME UssdInit PROVE UssdIInv
  OBVIOUS
<1>1. DOMAIN sessions = {} /\ created = 0
  BY DEF UssdInit
<1>2. \A phone \in Phones : _getSessionsByPhone(phone) = {}
  BY <1>1 DEF _getSessionsByPhone
<1>3. Cardinality({}) = 0 /\ maxSessionsPerPhone \in Nat
  BY FS_EmptySet, UssdAssumption
<1>4. \A phone \in Phones : Cardinality(_getSessionsByPhone(phone)) <= maxSessionsPerPhone
  BY <1>2, <1>3
<1> QED
  BY <1>1, <1>4 DEF UssdIInv

LEMMA UssdStepKeeps ==
  ASSUME UssdIInv, [UssdNext]_ussdVars
  PROVE  /\ UssdIInv'
         /\ \A s \in DOMAIN sessions \ DOMAIN sessions' :
              \/ TimedOut(s) \/ destroy(s)
              \/ LET rivals == _getSessionsByPhone(sessions[s].phoneNumber)
                 IN  /\ \A t \in rivals : s <= t
                     /\ Cardinality(rivals) = maxSessionsPerPhone
                     /\ \E n \in DOMAIN sessions' \ DOMAIN sessions :
                          sessions'[n].phoneNumber = sessions[s].phoneNumber
<1>1. CASE \E phone \in Phones, menu \in Menus : create(phone, menu)
  <2>1. PICK phone \in Phones, menu \in Menus : create(phone, menu)
    BY <1>1
  <2>2. \A s \in _getSessionsByPhone(phone) : sessions[s].phoneNumber = phone
    BY DEF _getSessionsByPhone
  <2> QED
    BY <2>1, <2>2, CreateKeeps, EvictedIs
<1>2. CASE \E s \in DOMAIN sessions :
             get(s) \/ goBack(s) \/ goHome(s) \/ \E menu \in Menus : update(s, menu)
  <2>1. PICK s \in DOMAIN sessions :
          get(s) \/ goBack(s) \/ goHome(s) \/ \E menu \in Menus : update(s, menu)
    BY <1>2
  <2>2. \E menu, stack : Used(s, menu, stack)
    BY <2>1 DEF get, goBack, goHome, update
  <2> QED
    BY <2>2, UseKeeps
<1>3. CASE \E s \in DOMAIN sessions : destroy(s)
  <2>1. PICK s \in DOMAIN sessions : destroy(s)
    BY <1>3
  <2>2. sessions' = [t \in DOMAIN sessions \ {s} |-> sessions[t]] /\ created' = created
    BY <2>1 DEF destroy, Without
  <2> QED
    BY <2>1, <2>2, FewerStayFew DEF UssdIInv
<1>4. CASE _cleanupExpiredSessions
  <2>1. /\ sessions' = [t \in DOMAIN sessions \ {s \in DOMAIN sessions : TimedOut(s)} |-> sessions[t]]
        /\ created' = created
    BY <1>4 DEF _cleanupExpiredSessions, Without
  <2> QED
    BY <2>1, FewerStayFew DEF UssdIInv
<1>5. CASE UssdTick
  <2> DEFINE older(e) == [e EXCEPT !.idle = IF @ > sessionTimeout THEN @ ELSE @ + 1]
  <2>1. sessions' = [s \in DOMAIN sessions |-> older(sessions[s])] /\ created' = created
    BY <1>5 DEF UssdTick
  <2>2. \A s \in DOMAIN sessions : /\ DOMAIN older(sessions[s]) = DOMAIN sessions[s]
                                   /\ older(sessions[s]).phoneNumber = sessions[s].phoneNumber
    BY DEF UssdIInv
  <2> HIDE DEF older
  <2> QED
    BY <2>1, <2>2, FewerStayFew DEF UssdIInv
<1>6. CASE UNCHANGED ussdVars
  BY <1>6, FewerStayFew DEF UssdIInv, ussdVars
<1> QED
  BY <1>1, <1>2, <1>3, <1>4, <1>5, <1>6 DEF UssdNext

(* A session only ends by its timeout, by destroy(), or as the oldest of a *)
(* phone that has reached its limit and opens another (session-manager.js: *)
(* 16): for any number of phones, menus and sessions, and any limit.       *)
THEOREM LiveSessionsKeptHolds == UssdSpec => LiveSessionsKept
<1> QED
  BY UssdInitIInv, UssdStepKeeps, PTL DEF UssdSpec, LiveSessionsKept

-----------------------------------------------------------------------------
(* The stack of a session leads to its menu, whatever is done to it.       *)
Fits(menu, stack) ==
  /\ stack \in Seq(Menus)
  /\ menu = IF stack = <<>> THEN main_menu ELSE Last(stack)
  /\ \A i \in 1 .. Len(stack) - 1 : stack[i] # stack[i + 1]

StacksFit == \A s \in DOMAIN sessions : Fits(sessions[s].currentMenu, sessions[s].menuStack)

LEMMA FitsOne == ASSUME NEW menu \in Menus PROVE Fits(menu, <<menu>>)
<1>1. <<menu>> \in Seq(Menus) /\ Len(<<menu>>) = 1 /\ <<menu>>[1] = menu /\ <<menu>> # <<>>
  OBVIOUS
<1>2. \A i \in 1 .. 1 - 1 : FALSE
  OBVIOUS
<1> QED BY <1>1, <1>2 DEF Fits, Last

LEMMA FitsEntered ==
  ASSUME NEW old, NEW stack, Fits(old, stack), NEW menu \in Menus
  PROVE  Fits(menu, stack \o IF menu = old THEN <<>> ELSE <<menu>>)
<1>1. stack \in Seq(Menus) /\ Len(stack) \in Nat
  BY DEF Fits
<1>2. CASE menu = old
  <2>1. stack \o <<>> = stack
    BY <1>1
  <2> QED BY <1>2, <2>1
<1>3. CASE menu # old
  <2> DEFINE n == Len(stack)
             new == stack \o <<menu>>
  <2>1. /\ new \in Seq(Menus) /\ Len(new) = n + 1 /\ new # <<>> /\ new[n + 1] = menu
        /\ \A i \in 1 .. n : new[i] = stack[i]
    BY <1>1
  <2>2. ASSUME NEW i \in 1 .. n PROVE new[i] # new[i + 1]
    <3>1. CASE i < n
      <4>1. i \in 1 .. n - 1 /\ i + 1 \in 1 .. n
        BY <1>1, <3>1
      <4> QED BY <2>1, <4>1 DEF Fits
    <3>2. CASE i = n
      <4>1. stack # <<>> /\ old = stack[n]
        BY <1>1, <3>2 DEF Fits, Last
      <4> QED BY <1>1, <1>3, <2>1, <3>2, <4>1
    <3> QED BY <1>1, <3>1, <3>2
  <2>3. Len(new) - 1 = n
    BY <1>1, <2>1
  <2>4. new[Len(new)] = menu
    BY <2>1
  <2> HIDE DEF new, n
  <2>5. Fits(menu, new)
    BY <2>1, <2>2, <2>3, <2>4 DEF Fits, Last
  <2> QED BY <1>3, <2>5 DEF new
<1> QED BY <1>2, <1>3

LEMMA FitsLeft ==
  ASSUME NEW old, NEW stack, Fits(old, stack), stack # <<>>
  PROVE  Fits(IF Front(stack) = <<>> THEN main_menu ELSE Last(Front(stack)), Front(stack))
<1> DEFINE n == Len(stack)
           new == Front(stack)
<1>1. stack \in Seq(Menus) /\ n \in Nat /\ n > 0
  BY DEF Fits
<1>2. new = SubSeq(stack, 1, n - 1)
  BY DEF Front
<1>3. new \in Seq(Menus) /\ Len(new) = n - 1 /\ \A i \in 1 .. n - 1 : new[i] = stack[i]
  <2>1. 1 \in Int /\ n - 1 \in Int /\ \A i \in 1 .. n - 1 : stack[i] \in Menus
    BY <1>1
  <2> HIDE DEF n
  <2>2. /\ SubSeq(stack, 1, n - 1) \in Seq(Menus)
        /\ Len(SubSeq(stack, 1, n - 1)) = IF 1 <= n - 1 THEN (n - 1) - 1 + 1 ELSE 0
        /\ \A i \in 1 .. (n - 1) - 1 + 1 : SubSeq(stack, 1, n - 1)[i] = stack[1 + i - 1]
    BY <2>1, SubSeqProperties
  <2>3. \A i \in 1 .. n - 1 : 1 + i - 1 = i /\ i \in 1 .. (n - 1) - 1 + 1
    BY <1>1
  <2>4. n - 1 = IF 1 <= n - 1 THEN (n - 1) - 1 + 1 ELSE 0
    BY <1>1
  <2> QED BY <1>2, <2>2, <2>3, <2>4
<1>4. ASSUME NEW i \in 1 .. Len(new) - 1 PROVE new[i] # new[i + 1]
  <2>1. i \in 1 .. n - 1 /\ i + 1 \in 1 .. n - 1
    BY <1>1, <1>3
  <2> QED BY <1>3, <2>1 DEF Fits
<1> HIDE DEF new, n
<1>5. Fits(IF new = <<>> THEN main_menu ELSE Last(new), new)
  BY <1>3, <1>4 DEF Fits
<1> QED BY <1>5 DEF new

\* Sessions that go, or stay as they are, keep their stacks.
LEMMA UsedFits ==
  ASSUME UssdIInv, StacksFit, NEW s \in DOMAIN sessions, NEW menu, NEW stack,
         Used(s, menu, stack), Fits(menu, stack)
  PROVE  StacksFit'
<1>1. CASE TimedOut(s)
  <2>1. sessions' = [t \in DOMAIN sessions \ {s} |-> sessions[t]]
    BY <1>1 DEF Used, Without
  <2> QED BY <2>1 DEF StacksFit
<1>2. CASE ~TimedOut(s)
  <2> DEFINE new == [sessions[s] EXCEPT !.currentMenu = menu, !.menuStack = stack, !.idle = 0]
  <2>1. sessions' = [sessions EXCEPT ![s] = new]
    BY <1>2 DEF Used
  <2>2. new.currentMenu = menu /\ new.menuStack = stack
    BY DEF UssdIInv
  <2> HIDE DEF new
  <2>3. \A t \in DOMAIN sessions' : t \in DOMAIN sessions
                                    /\ sessions'[t] = IF t = s THEN new ELSE sessions[t]
    BY <2>1
  <2> QED BY <2>2, <2>3 DEF StacksFit
<1> QED BY <1>1, <1>2

LEMMA StacksStep ==
  ASSUME UssdIInv, StacksFit, [UssdNext]_ussdVars
  PROVE  StacksFit'
<1>1. ASSUME NEW phone \in Phones, NEW menu \in Menus, create(phone, menu) PROVE StacksFit'
  <2> DEFINE new == [phoneNumber |-> phone, currentMenu |-> menu, menuStack |-> <<menu>>, idle |-> 0]
             left == DOMAIN sessions \ Evicted(phone)
  <2>1. sessions' = [s \in left \cup {created'} |-> IF s = created' THEN new
                                                   ELSE Without(Evicted(phone))[s]]
    BY <1>1 DEF create, Without
  <2>2. Fits(new.currentMenu, new.menuStack)
    BY FitsOne
  <2> HIDE DEF new
  <2>3. \A s \in DOMAIN sessions' : \/ sessions'[s] = new
                                    \/ s \in DOMAIN sessions /\ sessions'[s] = sessions[s]
    BY <2>1 DEF Without
  <2> QED BY <2>2, <2>3 DEF StacksFit
<1>2. ASSUME NEW s \in DOMAIN sessions,
             get(s) \/ goBack(s) \/ goHome(s) \/ \E menu \in Menus : update(s, menu)
      PROVE  StacksFit'
  <2> DEFINE old == sessions[s].currentMenu
             stack == sessions[s].menuStack
  <2>0. Fits(old, stack)
    BY DEF StacksFit
  <2>1. CASE get(s)
    BY <2>0, <2>1, UsedFits DEF get
  <2>2. CASE goHome(s)
    BY <2>2, UsedFits, FitsOne, UssdAssumption DEF goHome
  <2>3. CASE goBack(s)
    <3>1. CASE stack = <<>>
      <4>1. Used(s, main_menu, <<>>)
        BY <2>3, <3>1 DEF goBack
      <4>2. Fits(main_menu, <<>>)
        BY <2>0, <3>1 DEF Fits
      <4> QED BY <4>1, <4>2, UsedFits
    <3>2. CASE stack # <<>>
      <4>1. Used(s, IF Front(stack) = <<>> THEN main_menu ELSE Last(Front(stack)), Front(stack))
        BY <2>3, <3>2 DEF goBack
      <4>2. Fits(IF Front(stack) = <<>> THEN main_menu ELSE Last(Front(stack)), Front(stack))
        BY <2>0, <3>2, FitsLeft
      <4> QED BY <4>1, <4>2, UsedFits
    <3> QED BY <3>1, <3>2
  <2>4. ASSUME NEW menu \in Menus, update(s, menu) PROVE StacksFit'
    <3> DEFINE new == stack \o IF menu = old THEN <<>> ELSE <<menu>>
    <3>1. Used(s, menu, new)
      BY <2>4 DEF update
    <3>2. Fits(menu, new)
      BY <2>0, FitsEntered
    <3> HIDE DEF new
    <3> QED BY <3>1, <3>2, UsedFits
  <2> QED BY <1>2, <2>1, <2>2, <2>3, <2>4
<1>3. ASSUME NEW s \in DOMAIN sessions, destroy(s) PROVE StacksFit'
  BY <1>3 DEF destroy, Without, StacksFit
<1>4. CASE _cleanupExpiredSessions
  BY <1>4 DEF _cleanupExpiredSessions, Without, StacksFit
<1>5. CASE UssdTick
  <2> DEFINE older(e) == [e EXCEPT !.idle = IF @ > sessionTimeout THEN @ ELSE @ + 1]
  <2>1. sessions' = [s \in DOMAIN sessions |-> older(sessions[s])]
    BY <1>5 DEF UssdTick
  <2>2. \A s \in DOMAIN sessions : /\ older(sessions[s]).currentMenu = sessions[s].currentMenu
                                   /\ older(sessions[s]).menuStack = sessions[s].menuStack
    BY DEF UssdIInv
  <2> HIDE DEF older
  <2> QED BY <2>1, <2>2 DEF StacksFit
<1>6. CASE UNCHANGED ussdVars
  BY <1>6 DEF ussdVars, StacksFit
<1> QED BY <1>1, <1>2, <1>3, <1>4, <1>5, <1>6 DEF UssdNext

(* No phone has more sessions than its limit and no session shows a menu   *)
(* its stack does not lead to (session-manager.js:12), for any number of   *)
(* phones, menus and sessions.                                             *)
THEOREM SessionsCoherentHolds == UssdSpec => []SessionsCoherent
<1>1. UssdInit => UssdIInv /\ StacksFit
  <2>1. UssdInit => StacksFit
    BY DEF UssdInit, StacksFit
  <2> QED BY <2>1, UssdInitIInv
<1>2. UssdIInv /\ StacksFit /\ [UssdNext]_ussdVars => UssdIInv' /\ StacksFit'
  BY UssdStepKeeps, StacksStep
<1>3. UssdIInv /\ StacksFit => SessionsCoherent
  BY DEF UssdIInv, StacksFit, Fits, SessionsCoherent
<1> QED BY <1>1, <1>2, <1>3, PTL DEF UssdSpec
=============================================================================
