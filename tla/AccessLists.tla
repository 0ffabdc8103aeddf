---------------------------- MODULE AccessLists -----------------------------
(***************************************************************************)
(* Access lists: security/ip-whitelist.js.  An allowlist and a blocklist   *)
(* of addresses, wildcards and CIDR ranges with expiry times, and a table  *)
(* of temporary blocks.  Expired entries are deleted by whatever call runs *)
(* into them, and by two timers.                                           *)
(*                                                                         *)
(* An address is a number of Width bits (32 in the code, one per dotted    *)
(* quad); every IPv6 address is the one member SixOnly, because            *)
(* _ipToNumber() gives all of them the number 0.                           *)
(***************************************************************************)
EXTENDS Integers, Sequences, FiniteSets, Collections

CONSTANTS
  Width,          \* bits of an address
  SixOnly,        \* an IPv6 address
  Ranges,         \* the list keys in use: <<address, bits>>, bits = Width for one address
  Expiries,       \* expiry times in use; Forever for none
  Forever,
  MaxListed,      \* bound: entries of the three tables together
  MaxAccessNow    \* bound on the clock

ASSUME AccessAssumption ==
  /\ Width \in Nat /\ {MaxAccessNow, MaxListed} \subseteq Nat
  /\ Expiries \subseteq Nat \cup {Forever}

Addresses == 0 .. 2 ^ Width - 1 \cup {SixOnly}

VARIABLES
  allowlist,    \* the Map in insertion order: a sequence of <<range, expiry>>
  blocklist,
  tempBlocks,   \* set of <<address, expiry>>, one per address
  accessNow

accessVars == <<allowlist, blocklist, tempBlocks, accessNow>>

Listings == Ranges \X (Expiries \cup {Forever})
AccessTypeOK ==
  /\ allowlist \in Seq(Listings) /\ blocklist \in Seq(Listings)
  /\ \A t \in tempBlocks : t \in Addresses \X Nat
  /\ accessNow \in 0 .. MaxAccessNow

AccessInit ==
  /\ allowlist = <<>> /\ blocklist = <<>>
  /\ tempBlocks = {} /\ accessNow = 0

-----------------------------------------------------------------------------
_ipToNumber(ip) == IF ip = SixOnly THEN 0 ELSE ip

\* A range of one address is compared as text, any other by its mask.
_ipInRange(ip, range) ==
  IF range[2] = Width THEN ip = range[1]
  ELSE LET size == 2 ^ (Width - range[2])
       IN  _ipToNumber(ip) \div size = _ipToNumber(range[1]) \div size

OutOfDate(entry) == entry[2] # Forever /\ entry[2] < accessNow

InDateOnly(list) == Passing(list, {e \in Elems(list) : ~OutOfDate(e)})

\* Walking a list for ip: the first entry in range that is still in date
\* decides, and the out-of-date ones in range before it are deleted.
Decider(list, ip) ==
  LET hits == {n \in DOMAIN list : _ipInRange(ip, list[n][1]) /\ ~OutOfDate(list[n])}
  IN  IF hits = {} THEN Len(list) + 1 ELSE CHOOSE n \in hits : \A k \in hits : n <= k

Walked(list, ip) ==
  LET end == Decider(list, ip)
      gone == {n \in DOMAIN list : n < end /\ _ipInRange(ip, list[n][1]) /\ OutOfDate(list[n])}
      keep == Passing([n \in DOMAIN list |-> n], DOMAIN list \ gone)
  IN  [k \in DOMAIN keep |-> list[keep[k]]]

InDate(ip) == \E t \in tempBlocks : t[1] = ip /\ accessNow < t[2]

\* What isBlocked() and isAllowed() answer.
Blocked(ip) == InDate(ip) \/ Decider(blocklist, ip) <= Len(blocklist)
Allowed(ip) == Decider(allowlist, ip) <= Len(allowlist)

\* Map.set(): a key that is there keeps its place.
Listed(list, range, until) ==
  IF \E n \in DOMAIN list : list[n][1] = range
  THEN [n \in DOMAIN list |-> IF list[n][1] = range THEN <<range, until>> ELSE list[n]]
  ELSE Append(list, <<range, until>>)

Unlisted(list, range) == Passing(list, {e \in Elems(list) : e[1] # range})

-----------------------------------------------------------------------------
addToAllowlist(range, until) ==
  allowlist' = Listed(allowlist, range, until) /\ UNCHANGED <<blocklist, tempBlocks, accessNow>>

removeFromAllowlist(range) ==
  allowlist' = Unlisted(allowlist, range) /\ UNCHANGED <<blocklist, tempBlocks, accessNow>>

addToBlocklist(range, until) ==
  blocklist' = Listed(blocklist, range, until) /\ UNCHANGED <<allowlist, tempBlocks, accessNow>>

removeFromBlocklist(range) ==
  blocklist' = Unlisted(blocklist, range) /\ UNCHANGED <<allowlist, tempBlocks, accessNow>>

\* importBlocklist(exportBlocklist()): the export has no expiry times, so
\* every range comes back for ever, in its place.
importBlocklist ==
  /\ blocklist' = [n \in DOMAIN blocklist |-> <<blocklist[n][1], Forever>>]
  /\ UNCHANGED <<allowlist, tempBlocks, accessNow>>

\* A second block of the same address replaces the first.
tempBlock(ip, ticks) ==
  /\ tempBlocks' = {t \in tempBlocks : t[1] # ip} \cup {<<ip, accessNow + ticks>>}
  /\ UNCHANGED <<allowlist, blocklist, accessNow>>

removeTempBlock(ip) ==
  /\ tempBlocks' = {t \in tempBlocks : t[1] # ip}
  /\ UNCHANGED <<allowlist, blocklist, accessNow>>

\* Mutant: a temporary block in date is dropped with the others.
isBlocked_DropsAll(ip) ==
  /\ blocklist' = Walked(blocklist, ip)
  /\ tempBlocks' = {t \in tempBlocks : t[1] # ip}
  /\ UNCHANGED <<allowlist, accessNow>>

\* A block in date answers before the list is walked.
isBlocked(ip) ==
  /\ IF InDate(ip) THEN UNCHANGED <<blocklist, tempBlocks>>
     ELSE /\ blocklist' = Walked(blocklist, ip)
          /\ tempBlocks' = {t \in tempBlocks : t[1] # ip}
  /\ UNCHANGED <<allowlist, accessNow>>

isAllowed(ip) ==
  allowlist' = Walked(allowlist, ip) /\ UNCHANGED <<blocklist, tempBlocks, accessNow>>

\* The two timers of _startTempBlockCleanup().
CleanTempBlocks ==
  /\ tempBlocks' = {t \in tempBlocks : accessNow < t[2]}
  /\ UNCHANGED <<allowlist, blocklist, accessNow>>

CleanLists ==
  /\ allowlist' = InDateOnly(allowlist) /\ blocklist' = InDateOnly(blocklist)
  /\ UNCHANGED <<tempBlocks, accessNow>>

AccessTick ==
  /\ accessNow < MaxAccessNow
  /\ accessNow' = accessNow + 1
  /\ UNCHANGED <<allowlist, blocklist, tempBlocks>>

\* The middleware with both lists in use: blocked first, then allowed.
middlewareAdmits(ip, allowlistOnly) == ~Blocked(ip) /\ (allowlistOnly => Allowed(ip))

Asking == \/ \E ip \in Addresses : isBlocked(ip) \/ isAllowed(ip)
          \/ CleanTempBlocks \/ CleanLists

\* The bound on how much is listed.
Listable == Len(allowlist) + Len(blocklist) + Cardinality(tempBlocks) < MaxListed

AccessNext ==
  \/ Asking \/ AccessTick \/ importBlocklist
  \/ \E range \in Ranges, until \in Expiries :
       Listable /\ (addToAllowlist(range, until) \/ addToBlocklist(range, until))
  \/ \E range \in Ranges : removeFromAllowlist(range) \/ removeFromBlocklist(range)
  \/ \E ip \in Addresses : (Listable /\ tempBlock(ip, 1)) \/ removeTempBlock(ip)

AccessSpec == AccessInit /\ [][AccessNext]_accessVars

-----------------------------------------------------------------------------
(* Asking about an address, and the two cleanup timers, change no verdict: *)
(* deleting out-of-date entries while looking is never seen from outside,  *)
(* for any address, whichever of several overlapping ranges decides.       *)
AskingChangesNoVerdict ==
  [][accessVars' # accessVars /\ Asking => \A ip \in Addresses :
        Blocked(ip)' = Blocked(ip) /\ Allowed(ip)' = Allowed(ip)]_accessVars

(* Time alone blocks nobody: as the clock advances, entries only run out.  *)
TimeOnlyReleases ==
  [][AccessTick => \A ip \in Addresses :
        (Blocked(ip)' => Blocked(ip)) /\ (Allowed(ip)' => Allowed(ip))]_accessVars
=============================================================================
