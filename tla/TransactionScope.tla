-------------------------- MODULE TransactionScope --------------------------
(***************************************************************************)
(* Transactions of concurrent requests over one connection pool            *)
(* (connection-pool.js), by either of the two interfaces the code offers:  *)
(* connectionPool.transaction(client => ...), whose callback sends its     *)
(* statements to the client it is given, and BaseModel.transaction(() =>   *)
(* ...) (base-model.js), which replaces connectionPool.query by the        *)
(* client's for as long as its callback runs.  Units of work outside any   *)
(* transaction use connectionPool.query too.                               *)
(*                                                                         *)
(* There is one connectionPool object per process and an await in every    *)
(* statement, so requests interleave between statements.  A client that    *)
(* has been released keeps executing what it is sent.                      *)
(***************************************************************************)
EXTENDS Integers, FiniteSets

CONSTANTS
  Units,      \* units of work, each of one of the concurrent requests
  Kinds,      \* the mixes of units: each writes "client", "scoped" or "plain"
  Clients,    \* clients of the primary pool
  None,       \* no client; as a value of query: the pool's own method
  MaxWrites   \* bound: statements of one request

ASSUME ScopeAssumption ==
  /\ Kinds \subseteq [Units -> {"client", "scoped", "plain"}]
  /\ None \notin Clients \cup Units
  /\ MaxWrites \in Nat

VARIABLES
  kind,       \* how each request writes; which function it calls
  pc,         \* progress of each request
  query,      \* connectionPool.query: None, or the client it is bound to
  saved,      \* originalQuery of each scope
  holder,     \* holder[c]: the request client c is checked out to
  tx,         \* tx[c]: statements of the open transaction of client c
  begun,      \* clients between BEGIN and COMMIT or ROLLBACK
  wraps,      \* how often getClient() has wrapped client.query
  written,    \* statements each request has issued
  committed,  \* statements the database has made durable
  outcome     \* what the request was told

scopeVars == <<kind, pc, query, saved, holder, tx, begun, wraps, written, committed, outcome>>

Transactional(r) == kind[r] # "plain"
Statements == Units \X (1 .. MaxWrites)
Of(r) == {s \in Statements : s[1] = r /\ s[2] <= written[r]}

ScopeTypeOK ==
  /\ kind \in Kinds
  /\ pc \in [Units -> {"idle", "open", "commit", "rollback", "done"}]
  /\ query \in Clients \cup {None}
  /\ saved \in [Units -> Clients \cup {None}]
  /\ holder \in [Clients -> Units \cup {None}]
  /\ tx \in [Clients -> SUBSET Statements]
  /\ begun \subseteq Clients
  /\ wraps \in [Clients -> Nat]
  /\ written \in [Units -> 0 .. MaxWrites]
  /\ committed \subseteq Statements
  /\ outcome \in [Units -> {"none", "committed", "failed"}]

ScopeInit ==
  /\ kind \in Kinds
  /\ pc = [r \in Units |-> "idle"]
  /\ query = None
  /\ saved = [r \in Units |-> None]
  /\ holder = [c \in Clients |-> None]
  /\ tx = [c \in Clients |-> {}]
  /\ begun = {}
  /\ wraps = [c \in Clients |-> 0]
  /\ written = [r \in Units |-> 0]
  /\ committed = {}
  /\ outcome = [r \in Units |-> "none"]

-----------------------------------------------------------------------------
\* transaction(): a client is checked out and BEGIN succeeds; for a scope the
\* callback then saves connectionPool.query and puts the client's in its place.
Begin(r, c) ==
  /\ pc[r] = "idle" /\ Transactional(r)
  /\ holder[c] = None
  /\ pc' = [pc EXCEPT ![r] = "open"]
  /\ holder' = [holder EXCEPT ![c] = r]
  /\ begun' = begun \cup {c}
  /\ wraps' = [wraps EXCEPT ![c] = @ + 1]
  /\ IF kind[r] = "scoped"
     THEN saved' = [saved EXCEPT ![r] = query] /\ query' = c
     ELSE UNCHANGED <<saved, query>>
  /\ UNCHANGED <<tx, written, committed, outcome>>

\* No client within connectionTimeoutMillis, or BEGIN fails.
BeginFails(r) ==
  /\ pc[r] = "idle" /\ Transactional(r)
  /\ pc' = [pc EXCEPT ![r] = "done"]
  /\ outcome' = [outcome EXCEPT ![r] = "failed"]
  /\ UNCHANGED <<query, saved, holder, tx, begun, wraps, written, committed>>

\* A request outside any transaction starts to work.
Start(r) ==
  /\ pc[r] = "idle" /\ ~Transactional(r)
  /\ pc' = [pc EXCEPT ![r] = "open"]
  /\ UNCHANGED <<query, saved, holder, tx, begun, wraps, written, committed, outcome>>

\* Mutant: a callback that is given the client still uses the pool.
Target_Shared(r) == query

\* The client a statement of r reaches; None is a pooled one of its own.
Target(r) ==
  IF kind[r] = "client" THEN CHOOSE c \in Clients : holder[c] = r ELSE query

\* One INSERT, UPDATE or DELETE.  Outside a transaction it commits by itself.
Write(r) ==
  /\ pc[r] = "open" /\ written[r] < MaxWrites
  /\ written' = [written EXCEPT ![r] = @ + 1]
  /\ LET s == <<r, written[r] + 1>>
         c == Target(r)
     IN  IF c \in begun
         THEN tx' = [tx EXCEPT ![c] = @ \cup {s}] /\ UNCHANGED committed
         ELSE committed' = committed \cup {s} /\ UNCHANGED tx
  /\ UNCHANGED <<pc, query, saved, holder, begun, wraps, outcome>>

\* The callback returns or throws; a scope puts back what it had saved.
Leave(r) ==
  /\ pc[r] = "open" /\ Transactional(r)
  /\ \E next \in {"commit", "rollback"} : pc' = [pc EXCEPT ![r] = next]
  /\ query' = IF kind[r] = "scoped" THEN saved[r] ELSE query
  /\ UNCHANGED <<saved, holder, tx, begun, wraps, written, committed, outcome>>

\* The transaction of client c ends, durable or not, and c is released.
Ended(r, c) ==
  /\ holder[c] = r
  /\ pc' = [pc EXCEPT ![r] = "done"]
  /\ holder' = [holder EXCEPT ![c] = None]
  /\ tx' = [tx EXCEPT ![c] = {}]
  /\ begun' = begun \ {c}
  /\ UNCHANGED <<query, saved, wraps, written>>

Commit(r, c) ==
  /\ pc[r] = "commit"
  /\ Ended(r, c)
  /\ committed' = committed \cup tx[c]
  /\ outcome' = [outcome EXCEPT ![r] = "committed"]

\* Mutant: a failed COMMIT is not followed by a ROLLBACK.
Rollback_Skipped(r, c) ==
  /\ pc[r] \in {"commit", "rollback"}
  /\ Ended(r, c)
  /\ committed' = committed \cup tx[c]
  /\ outcome' = [outcome EXCEPT ![r] = "failed"]

\* The callback threw, or COMMIT failed.
Rollback(r, c) ==
  /\ pc[r] \in {"commit", "rollback"}
  /\ Ended(r, c)
  /\ outcome' = [outcome EXCEPT ![r] = "failed"]
  /\ UNCHANGED committed

Finish(r) ==
  /\ pc[r] = "open" /\ ~Transactional(r)
  /\ pc' = [pc EXCEPT ![r] = "done"]
  /\ outcome' = [outcome EXCEPT ![r] = "committed"]
  /\ UNCHANGED <<query, saved, holder, tx, begun, wraps, written, committed>>

Step(r) ==
  \/ BeginFails(r) \/ Start(r) \/ Write(r) \/ Leave(r) \/ Finish(r)
  \/ \E c \in Clients : Begin(r, c) \/ Commit(r, c) \/ Rollback(r, c)

ScopeNext == (\E r \in Units : Step(r)) /\ UNCHANGED kind

ScopeSpec == ScopeInit /\ [][ScopeNext]_scopeVars

-----------------------------------------------------------------------------
(* All or nothing: what a request was told about its unit of work is what  *)
(* became of every one of its statements, whatever the other requests do   *)
(* with their transactions in between.                                     *)
Atomic ==
  \A r \in Units :
    /\ outcome[r] = "committed" => Of(r) \subseteq committed
    /\ outcome[r] = "failed" => Of(r) \cap committed = {}

(* Nothing of a transaction is visible to others before it commits, and    *)
(* a client never carries statements of a request that does not hold it.   *)
Isolated ==
  /\ \A r \in Units : (Transactional(r) /\ outcome[r] = "none") => Of(r) \cap committed = {}
  /\ \A c \in Clients : \A s \in tx[c] : holder[c] = s[1]

(* "Temporarily override query to use transaction client"                  *)
(* (base-model.js:439): with no scope open, connectionPool.query is the    *)
(* pool's own again.                                                       *)
QueryRestored ==
  (\A r \in Units : kind[r] = "scoped" => pc[r] # "open") => query = None

(* "Track query statistics for this client" (connection-pool.js:302): the  *)
(* counting wrapper is put around client.query once, not once a checkout.  *)
WrappedOnce == \A c \in Clients : wraps[c] <= 1
=============================================================================
