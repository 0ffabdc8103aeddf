---------------------------- MODULE RateLimiter ----------------------------
(***************************************************************************)
(* Token buckets: shared-utils/src/security/rate-limiter.js.  Middlewares  *)
(* differ in their limit and window, but share one store, in which a key   *)
(* has one bucket whichever of them asks.  Times are clock readings.       *)
(*                                                                         *)
(* Apart from the store, createFunctionLimiter() wraps a function: calls   *)
(* beyond the limit of a window wait in a queue for timers that are due at *)
(* its end.                                                                *)
(*                                                                         *)
(* `created` and `passed` only record what the properties speak of: when   *)
(* a bucket was made and by which limit, and how many requests it has let  *)
(* pass.                                                                   *)
(***************************************************************************)
EXTENDS Integers, Sequences

CONSTANTS
  Keys,
  Limits,           \* [max, windowMs], one per middleware
  MaxTime,          \* bound on the clock
  MaxCount,         \* bound on the requests of one bucket
  maxCalls, perInterval,
  MaxWrapped        \* bound on the calls of the wrapped function

ASSUME RateLimiterAssumption ==
  /\ Limits # {} /\ Limits \subseteq [max : Nat, windowMs : Nat \ {0}]
  /\ maxCalls \in Nat /\ perInterval \in Nat

VARIABLES
  store, now,
  window,    \* [start, calls]: windowStart and callsInWindow
  queue,     \* the calls that wait, numbered as they were made
  timers,    \* call |-> when the timer it armed is due
  began,     \* the calls that have begun
  made, wrapNow

wrapVars == <<window, queue, timers, began, made, wrapNow>>
limiterVars == <<store, now>>

NoBucket == [tokens |-> 0, count |-> 0, resetTime |-> -1, lastRefill |-> 0,
             created |-> 0, passed |-> 0, max |-> 0]

\* `bucket && now <= bucket.resetTime`
Current(bucket) == bucket # NoBucket /\ now <= bucket.resetTime

NewBucket(limit) ==
  [tokens |-> limit.max, count |-> 0, resetTime |-> now + limit.windowMs, lastRefill |-> now,
   created |-> now, passed |-> 0, max |-> limit.max]

Smallest(a, b) == IF a < b THEN a ELSE b

\* Mutant: the time of the last refill is left as it was.
Refilled_Again(bucket, limit) ==
  [bucket EXCEPT
     !.tokens = Smallest(limit.max, @ + ((now - bucket.lastRefill) * limit.max) \div limit.windowMs)]

\* Whole tokens for the time since the last refill, which is forgotten even
\* when it was too short for one.
Refilled(bucket, limit) ==
  IF now > bucket.lastRefill
  THEN [bucket EXCEPT
          !.tokens = Smallest(limit.max,
                              @ + ((now - bucket.lastRefill) * limit.max) \div limit.windowMs),
          !.lastRefill = now]
  ELSE bucket

Found(key, limit) == IF Current(store[key]) THEN store[key] ELSE NewBucket(limit)

\* What _checkLimit() is going to decide.
Admits(key, limit) == Refilled(Found(key, limit), limit).tokens > 0

-----------------------------------------------------------------------------
LimiterInit == store = [k \in Keys |-> NoBucket] /\ now = 0

\* createMiddleware(): a request arrives; nothing is awaited in _checkLimit().
_checkLimit(key, limit) ==
  LET bucket  == Refilled(Found(key, limit), limit)
      counted == [bucket EXCEPT !.count = @ + 1]
  IN  /\ bucket.count < MaxCount
      /\ store' = [store EXCEPT ![key] =
                     IF Admits(key, limit)
                     THEN [counted EXCEPT !.tokens = @ - 1, !.passed = @ + 1]
                     ELSE counted]
      /\ UNCHANGED now

reset(key) ==
  /\ store' = [store EXCEPT ![key] = NoBucket]
  /\ UNCHANGED now

resetAll ==
  /\ store' = [k \in Keys |-> NoBucket]
  /\ UNCHANGED now

\* startCleanup()
cleanup ==
  /\ store' = [k \in Keys |-> IF now > store[k].resetTime THEN NoBucket ELSE store[k]]
  /\ UNCHANGED now

LimiterTick ==
  /\ now < MaxTime
  /\ now' = now + 1
  /\ UNCHANGED store

LimiterNext ==
  \/ \E k \in Keys, l \in Limits : _checkLimit(k, l)
  \/ \E k \in Keys : reset(k)
  \/ resetAll \/ cleanup \/ LimiterTick

LimiterSpec == LimiterInit /\ [][LimiterNext]_limiterVars

-----------------------------------------------------------------------------
\* createFunctionLimiter(): calls of the wrapped function.
WrapInit ==
  /\ window = [start |-> 0, calls |-> 0]
  /\ queue = <<>> /\ timers = <<>> /\ began = {} /\ made = 0 /\ wrapNow = 0

\* The window a call falls into.
WindowNow == IF wrapNow - window.start > perInterval THEN [start |-> wrapNow, calls |-> 0] ELSE window

CallAtOnce ==
  /\ made < MaxWrapped
  /\ WindowNow.calls < maxCalls
  /\ window' = [WindowNow EXCEPT !.calls = @ + 1]
  /\ made' = made + 1
  /\ began' = began \cup {made'}
  /\ UNCHANGED <<queue, timers, wrapNow>>

\* setTimeout() waits for a millisecond at least.
CallLater ==
  /\ made < MaxWrapped
  /\ WindowNow.calls >= maxCalls
  /\ window' = WindowNow
  /\ made' = made + 1
  /\ queue' = Append(queue, made')
  /\ timers' = [c \in DOMAIN timers \cup {made'} |->
                  IF c # made' THEN timers[c]
                  ELSE IF window'.start + perInterval > wrapNow THEN window'.start + perInterval
                  ELSE wrapNow + 1]
  /\ UNCHANGED <<began, wrapNow>>

\* Timers fire in the order they are due in, when they are due or later; each
\* takes what is first in the queue by then, so which of two that are due at
\* once fires first makes no difference.
QueueTimer(c) ==
  /\ timers[c] <= wrapNow
  /\ \A d \in DOMAIN timers : timers[c] < timers[d] \/ (timers[c] = timers[d] /\ c <= d)
  /\ timers' = [d \in DOMAIN timers \ {c} |-> timers[d]]
  /\ IF queue = <<>> THEN UNCHANGED <<queue, began>>
     ELSE /\ queue' = Tail(queue)
          /\ began' = began \cup {Head(queue)}
  /\ UNCHANGED <<window, made, wrapNow>>

WrapTick ==
  /\ wrapNow < MaxTime
  /\ wrapNow' = wrapNow + 1
  /\ UNCHANGED <<window, queue, timers, began, made>>

WrapNext ==
  \/ CallAtOnce \/ CallLater
  \/ \E c \in DOMAIN timers : QueueTimer(c)
  \/ WrapTick

WrapSpec == WrapInit /\ [][WrapNext]_wrapVars

-----------------------------------------------------------------------------
(* Every bucket counts what it lets pass, holds no more tokens than the    *)
(* most generous limit allows, and no request makes it older than it is    *)
(* (rate-limiter.js:123).                                                  *)
LimiterTypeOK ==
  \A k \in Keys :
    LET b == store[k]
    IN  /\ b.passed <= b.count /\ b.tokens >= 0
        /\ \E l \in Limits : b.tokens <= l.max
        /\ b # NoBucket => /\ b.created <= b.lastRefill /\ b.lastRefill <= now
                           /\ b.lastRefill <= b.resetTime

(* "fills with tokens at a constant rate" (rate-limiter.js:11): however    *)
(* the requests are spread, a bucket lets no more of them pass than its    *)
(* first tokens and those of the time since then, at the rate of one of    *)
(* the limits that share it.                                               *)
RateKept ==
  \A k \in Keys : \E l \in Limits :
    LET b == store[k]
    IN  b.passed + b.tokens <= b.max + ((b.lastRefill - b.created) * l.max) \div l.windowMs

(* "Tokens refill over time" (rate-limiter.js:14): a key that has been     *)
(* silent for a whole window of a limit is let in again by it, however     *)
(* many requests it has sent, and whoever else shares the bucket.          *)
SilenceForgiven ==
  \A k \in Keys, l \in Limits :
    l.max > 0 /\ now > store[k].lastRefill + l.windowMs => Admits(k, l)

(* A wrapped function (rate-limiter.js:186): whichever windows begin while *)
(* calls wait, every call has begun or waits for a timer, the one it armed *)
(* itself, and that is due by the end of the latest window.                *)
CallsServed ==
  /\ began \cup DOMAIN timers = 1 .. made /\ began \cap DOMAIN timers = {}
  /\ Len(queue) = 0 <=> DOMAIN timers = {}
  /\ \A c \in DOMAIN timers :
       /\ timers[c] <= window.start + perInterval \/ timers[c] <= wrapNow + 1
       /\ (\A d \in DOMAIN timers : timers[c] < timers[d] \/ (timers[c] = timers[d] /\ c <= d))
            => Head(queue) = c

(* Calls begin in the order they are made in; one that comes after the end *)
(* of the window overtakes those whose timers are late.                    *)
NoOvertaking == \A c \in began, d \in DOMAIN timers : c < d
=============================================================================
