-------------------------- MODULE CacheStrategies ---------------------------
(***************************************************************************)
(* The two cache levels of shared-utils/src/cache: a memory cache in each  *)
(* process (memory-cache.js) over one Redis (redis-client.js), as the      *)
(* calls of cache-strategies.js and invalidation.js use them.  A call is a *)
(* chain of awaits, and other calls run between any two of them.           *)
(*                                                                         *)
(* The data of a key is the number of times it was written.  Commands to   *)
(* Redis may fail at any time, which also stands for a client that is not  *)
(* connected: redis-client.js answers null or false then.                  *)
(***************************************************************************)
EXTENDS Integers, FiniteSets

CONSTANTS
  Processes,
  Calls,            \* calls in flight at a time, each in one process
  ProcessOf,
  Keys,
  NoEntry, Nobody,  \* nothing cached; no writer yet
  maxSize,          \* entries of a memory cache
  memoryTTL,        \* in ticks; an entry never expires if it is 0
  redisTTL,         \* in ticks
  MaxVersion        \* bound: writes of a key

ASSUME CacheAssumption ==
  /\ ProcessOf \in [Calls -> Processes]
  /\ Calls # {} /\ Nobody \notin Processes
  /\ maxSize \in Nat \ {0} /\ memoryTTL \in Nat /\ redisTTL \in Nat \ {0}

VARIABLES
  database,
  redis,
  memory,
  call,
  writer,       \* history: the process that last wrote a key
  undisturbed   \* history: no two calls overlapped, no write to Redis failed

cacheVars == <<database, redis, memory, call, writer, undisturbed>>

Versions == 0 .. MaxVersion
Idle == [at |-> "idle"]
Awaits == [at : {"get", "fetch", "put", "fill"}, key : Keys, value : Versions,
           useMemory : BOOLEAN]
Deletions == [at : {"del", "delAndWrite", "write"}, key : Keys]

Stored(m) == {k \in Keys : m[k] # NoEntry}

CacheTypeOK ==
  /\ database \in [Keys -> Versions]
  /\ redis \in [Keys -> [value : Versions, left : 1 .. redisTTL] \cup {NoEntry}]
  /\ memory \in [Processes ->
       [Keys -> [value : Versions, left : -1 .. memoryTTL, idle : 0 .. memoryTTL + 1]
                  \cup {NoEntry}]]
  /\ \A p \in Processes : Cardinality(Stored(memory[p])) <= maxSize
  /\ call \in [Calls -> Awaits \cup Deletions \cup {Idle}]
  /\ writer \in [Keys -> Processes \cup {Nobody}]
  /\ undisturbed \in BOOLEAN

CacheInit ==
  /\ database = [k \in Keys |-> 0]
  /\ redis = [k \in Keys |-> NoEntry]
  /\ memory = [p \in Processes |-> [k \in Keys |-> NoEntry]]
  /\ call = [c \in Calls |-> Idle]
  /\ writer = [k \in Keys |-> Nobody]
  /\ undisturbed = TRUE

-----------------------------------------------------------------------------
(* The memory cache of one process.                                        *)

Live(entry) == entry # NoEntry /\ entry.left >= 0

\* Mutant: an access extends the life of the entry.
Accessed_Renewed(m, k) ==
  IF Live(m[k]) THEN [m EXCEPT ![k].idle = 0, ![k].left = memoryTTL]
  ELSE [m EXCEPT ![k] = NoEntry]

\* get(): marks a live entry as used and drops an expired one.
Accessed(m, k) ==
  IF Live(m[k]) THEN [m EXCEPT ![k].idle = 0] ELSE [m EXCEPT ![k] = NoEntry]

\* Entries used least recently.  Time is coarser here than in the code, so
\* the choice among entries of one tick is left open.
LeastRecent(m) == {k \in Stored(m) : \A j \in Stored(m) : m[j].idle <= m[k].idle}

\* set(): the caches it may leave behind.
Filled(m, k, value) ==
  LET new == [value |-> value, left |-> memoryTTL, idle |-> 0]
  IN  IF Cardinality(Stored(m)) >= maxSize /\ m[k] = NoEntry
      THEN {[m EXCEPT ![k] = new, ![j] = NoEntry] : j \in LeastRecent(m)}
      ELSE {[m EXCEPT ![k] = new]}

cleanup(p) ==
  /\ memory' = [memory EXCEPT ![p] =
       [k \in Keys |-> IF Live(memory[p][k]) THEN memory[p][k] ELSE NoEntry]]
  /\ UNCHANGED <<database, redis, call, writer, undisturbed>>

-----------------------------------------------------------------------------
(* The calls.  Starts(c) holds when a call may start, and notes overlaps.  *)

Starts(c) ==
  /\ call[c] = Idle
  /\ undisturbed' = (undisturbed /\ \A d \in Calls : call[d] = Idle)

\* cacheAside(); without memory also batchCacheAside() for one key.
cacheAside(c, k, useMemory) ==
  LET p == ProcessOf[c]
  IN  /\ Starts(c)
      /\ memory' = IF useMemory THEN [memory EXCEPT ![p] = Accessed(@, k)] ELSE memory
      /\ call' = IF useMemory /\ Live(memory[p][k]) THEN call
                 ELSE [call EXCEPT ![c] = [at |-> "get", key |-> k, value |-> 0,
                                           useMemory |-> useMemory]]
      /\ UNCHANGED <<database, redis, writer>>

\* writeThrough(), up to its write to the database.
writeThrough(c, k) ==
  /\ Starts(c)
  /\ database[k] < MaxVersion
  /\ database' = [database EXCEPT ![k] = @ + 1]
  /\ writer' = [writer EXCEPT ![k] = ProcessOf[c]]
  /\ call' = [call EXCEPT ![c] = [at |-> "put", key |-> k, value |-> database[k] + 1,
                                  useMemory |-> TRUE]]
  /\ UNCHANGED <<redis, memory>>

\* invalidateKey(), and invalidateOnWrite(), which writes afterwards.
Invalidate(c, k, next) ==
  /\ Starts(c)
  /\ memory' = [memory EXCEPT ![ProcessOf[c]][k] = NoEntry]
  /\ call' = [call EXCEPT ![c] = [at |-> next, key |-> k]]
  /\ UNCHANGED <<database, redis, writer>>

invalidateKey(c, k) == Invalidate(c, k, "del")
invalidateOnWrite(c, k) == Invalidate(c, k, "delAndWrite")

Goes(c, place) == call' = [call EXCEPT ![c].at = place]
Returns(c) == call' = [call EXCEPT ![c] = Idle]
Answers(c) == IF call[c].useMemory THEN Goes(c, "fill") ELSE Returns(c)

RedisGet(c) ==
  /\ call[c].at = "get"
  /\ \/ /\ redis[call[c].key] # NoEntry
        /\ IF call[c].useMemory
           THEN call' = [call EXCEPT ![c].at = "fill", ![c].value = redis[call[c].key].value]
           ELSE Returns(c)
     \/ Goes(c, "fetch")
  /\ UNCHANGED <<database, redis, memory, writer, undisturbed>>

\* fetchFn() reads the database, or throws.
Fetch(c) ==
  /\ call[c].at = "fetch"
  /\ \/ call' = [call EXCEPT ![c].at = "put", ![c].value = database[call[c].key]]
     \/ Returns(c)
  /\ UNCHANGED <<database, redis, memory, writer, undisturbed>>

RedisSet(c) ==
  /\ call[c].at = "put"
  /\ \/ /\ redis' = [redis EXCEPT ![call[c].key] =
                       [value |-> call[c].value, left |-> redisTTL]]
        /\ UNCHANGED undisturbed
     \/ undisturbed' = FALSE /\ UNCHANGED redis
  /\ Answers(c)
  /\ UNCHANGED <<database, memory, writer>>

Fill(c) ==
  LET p == ProcessOf[c]
  IN  /\ call[c].at = "fill"
      /\ \E m \in Filled(memory[p], call[c].key, call[c].value) :
           memory' = [memory EXCEPT ![p] = m]
      /\ Returns(c)
      /\ UNCHANGED <<database, redis, writer, undisturbed>>

\* Mutant: only the process's own copy is deleted.
RedisDel_Skipped(c) ==
  /\ call[c].at \in {"del", "delAndWrite"}
  /\ IF call[c].at = "del" THEN Returns(c) ELSE Goes(c, "write")
  /\ UNCHANGED <<database, redis, memory, writer, undisturbed>>

RedisDel(c) ==
  /\ call[c].at \in {"del", "delAndWrite"}
  /\ \/ /\ redis' = [redis EXCEPT ![call[c].key] = NoEntry]
        /\ UNCHANGED undisturbed
     \/ undisturbed' = FALSE /\ UNCHANGED redis
  /\ IF call[c].at = "del" THEN Returns(c) ELSE Goes(c, "write")
  /\ UNCHANGED <<database, memory, writer>>

\* writeFn() of invalidateOnWrite(); it may throw.
Write(c) ==
  /\ call[c].at = "write"
  /\ \/ /\ database[call[c].key] < MaxVersion
        /\ database' = [database EXCEPT ![call[c].key] = @ + 1]
        /\ writer' = [writer EXCEPT ![call[c].key] = ProcessOf[c]]
     \/ UNCHANGED <<database, writer>>
  /\ Returns(c)
  /\ UNCHANGED <<redis, memory, undisturbed>>

Proceeds(c) ==
  RedisGet(c) \/ Fetch(c) \/ RedisSet(c) \/ Fill(c) \/ RedisDel(c) \/ Write(c)

-----------------------------------------------------------------------------
(* Time and the Redis server.                                              *)

RedisForgets(k) ==
  /\ redis[k] # NoEntry
  /\ redis' = [redis EXCEPT ![k] = NoEntry]
  /\ UNCHANGED <<database, memory, call, writer, undisturbed>>

Tick ==
  /\ memory' = [p \in Processes |-> [k \in Keys |->
       LET e == memory[p][k]
       IN  IF e = NoEntry THEN NoEntry
           ELSE [e EXCEPT !.left = IF memoryTTL = 0 \/ @ < 0 THEN @ ELSE @ - 1,
                          !.idle = IF @ > memoryTTL THEN @ ELSE @ + 1]]]
  /\ redis' = [k \in Keys |->
       IF redis[k] = NoEntry \/ redis[k].left = 1 THEN NoEntry
       ELSE [redis[k] EXCEPT !.left = @ - 1]]
  /\ UNCHANGED <<database, call, writer, undisturbed>>

CacheNext ==
  \/ \E c \in Calls, k \in Keys :
       \/ \E useMemory \in BOOLEAN : cacheAside(c, k, useMemory)
       \/ writeThrough(c, k)
       \/ invalidateKey(c, k)
       \/ invalidateOnWrite(c, k)
  \/ \E c \in Calls : Proceeds(c)
  \/ \E p \in Processes : cleanup(p)
  \/ \E k \in Keys : RedisForgets(k)
  \/ Tick

\* Time passes, and a call that was made is answered or fails.
CacheFairness == WF_cacheVars(Tick) /\ \A c \in Calls : WF_cacheVars(Proceeds(c))

CacheSpec == CacheInit /\ [][CacheNext]_cacheVars /\ CacheFairness

-----------------------------------------------------------------------------
(* "to ensure data consistency across the distributed cache layer"         *)
(* (invalidation.js:9): as long as calls follow one another and Redis      *)
(* takes every write, Redis holds the current data of a key or none, and   *)
(* so does the memory of the process that wrote it last.                   *)
QuietlyCoherent ==
  undisturbed /\ (\A c \in Calls : call[c] = Idle) =>
    \A k \in Keys :
      /\ redis[k] # NoEntry => redis[k].value = database[k]
      /\ \A p \in Processes :
           writer[k] \in {p, Nobody} /\ Live(memory[p][k])
             => memory[p][k].value = database[k]

Fresh ==
  \A k \in Keys :
    /\ redis[k] # NoEntry => redis[k].value = database[k]
    /\ \A p \in Processes : Live(memory[p][k]) => memory[p][k].value = database[k]

(* "TTL-based: Natural expiration" (invalidation.js:15): whatever races    *)
(* and failures left stale copies behind, and however often they are read, *)
(* some time after the last write no cache serves old data any more.       *)
EventuallyFresh == <>[]Fresh

(* What invalidateOnWrite (cache-strategies.js:102) suggests and does not  *)
(* keep: once no call is in flight, nothing stale is cached.               *)
FreshWhenIdle == (\A c \in Calls : call[c] = Idle) => Fresh
=============================================================================
