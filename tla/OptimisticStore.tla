--------------------------- MODULE OptimisticStore ---------------------------
(***************************************************************************)
(* What optimistic locking promises, without versions, instances or dirty  *)
(* marks: a table in which a client replaces the contents of a row only    *)
(* when they are the contents it last saw there, as if reading, comparing  *)
(* and writing were one step.  ActiveRecord implements it.                 *)
(***************************************************************************)
CONSTANTS Clients, Keys, Contents

VARIABLES
  st,     \* key |-> "free", "live" or "gone"; a key is used once
  data,   \* key |-> contents
  seen    \* client |-> the key and contents it has last seen, if any

storeVars == <<st, data, seen>>

StoreInit ==
  /\ st = [i \in Keys |-> "free"]
  /\ data \in [Keys -> Contents]
  /\ seen = [r \in Clients |-> {}]

Sees(r, last) == seen' = [seen EXCEPT ![r] = last]

Read(r, i) ==
  /\ st[i] = "live"
  /\ Sees(r, {<<i, data[i]>>})
  /\ UNCHANGED <<st, data>>

Forget(r) == seen[r] # {} /\ Sees(r, {}) /\ UNCHANGED <<st, data>>

Create(r, i) ==
  /\ st[i] = "free"
  /\ st' = [st EXCEPT ![i] = "live"]
  /\ \E d \in Contents : data' = [data EXCEPT ![i] = d] /\ Sees(r, {<<i, d>>})

\* Compare and swap.
Swap(r, i) ==
  /\ st[i] = "live" /\ <<i, data[i]>> \in seen[r]
  /\ UNCHANGED st
  /\ \E d \in Contents : data' = [data EXCEPT ![i] = d] /\ (Sees(r, {<<i, d>>}) \/ Sees(r, {}))

Remove(i) ==
  /\ st[i] = "live"
  /\ st' = [st EXCEPT ![i] = "gone"]
  /\ UNCHANGED data
  /\ UNCHANGED seen \/ \E r \in Clients : Sees(r, {})

StoreNext ==
  \/ \E r \in Clients : Forget(r)
  \/ \E r \in Clients, i \in Keys : Read(r, i) \/ Create(r, i) \/ Swap(r, i)
  \/ \E i \in Keys : Remove(i)

StoreSpec == StoreInit /\ [][StoreNext]_storeVars
=============================================================================
