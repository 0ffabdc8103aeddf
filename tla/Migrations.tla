----------------------------- MODULE Migrations -----------------------------
(***************************************************************************)
(* The migrations runner (database/migrations-runner.js): concurrent calls *)
(* of migrate() and rollback(), in one or several processes, against one   *)
(* database.                                                               *)
(*                                                                         *)
(* The advisory lock belongs to the session of the pooled client that took *)
(* it, and every statement is sent with pool.query, that is over any idle  *)
(* client of the process.  A process that does nothing else always gets    *)
(* the client it released last; one that serves other work at the same     *)
(* time ("shared") may get another one, and the pool closes idle clients,  *)
(* which ends their sessions and frees their locks.                        *)
(***************************************************************************)
EXTENDS Integers, Sequences, FiniteSets, SequencesExt, Collections

CONSTANTS
  Runners,     \* calls of migrate() and rollback()
  Processes,
  ProcessOf,   \* the process of each call
  Sessions,    \* sessions of the pooled clients of each process
  Home,        \* the one a process uses while it does nothing else
  NoLock,
  Migrations,  \* migrations are numbered 1 .. Migrations
  Reversible,  \* those with a .rollback.sql file
  Modes,       \* the values of "shared" to consider
  MaxRuns      \* bound: how often one script is executed

ASSUME MigrationsAssumption ==
  /\ ProcessOf \in [Runners -> Processes]
  /\ Home \in Sessions
  /\ NoLock \notin Processes \X Sessions
  /\ Migrations \in Nat /\ MaxRuns \in Nat
  /\ Reversible \subseteq 1 .. Migrations
  /\ Modes \subseteq BOOLEAN

VARIABLES
  shared,    \* the processes do other work over the same pools
  stage,     \* progress of each call
  todo,      \* the scripts a call still has to run, or the names to roll back
  batch,     \* the batch number a call writes or rolls back
  lock,      \* the session that holds the advisory lock
  depth,     \* how often it has taken it
  records,   \* the migrations table, by id: name and batch
  runs       \* how often each script has run since its record was removed

migrationsVars == <<shared, stage, todo, batch, lock, depth, records, runs>>

Scripts == (1 .. Migrations) \X {"down", "up"}

\* getMigrationFiles(): every file that ends in .sql, the rollback scripts
\* included, which sort before the migration they belong to.
Listing ==
  Passing([i \in 1 .. 2 * Migrations |->
             <<(i + 1) \div 2, IF i % 2 = 1 THEN "down" ELSE "up">>],
          {f \in Scripts : f[2] = "up" \/ f[1] \in Reversible})

Names(table) == [i \in DOMAIN table |-> table[i].name]
Recorded == ToSet(Names(records))
LastBatch == IF records = <<>> THEN 0
             ELSE CHOOSE b \in {records[i].batch : i \in DOMAIN records} :
                    \A i \in DOMAIN records : records[i].batch <= b

Working == {"migrating", "selecting", "reverting"}

MigrationsTypeOK ==
  /\ shared \in Modes
  /\ stage \in [Runners -> {"idle", "migrate", "rollback", "releasing", "done"} \cup Working]
  /\ todo \in [Runners -> Seq(Scripts)]
  /\ batch \in [Runners -> Nat]
  /\ lock \in (Processes \X Sessions) \cup {NoLock}
  /\ depth \in Nat /\ (depth = 0 <=> lock = NoLock)
  /\ records \in Seq([name : Scripts, batch : Nat \ {0}])
  /\ IsInjective(Names(records))
  /\ runs \in [Scripts -> 0 .. MaxRuns]

MigrationsInit ==
  /\ shared \in Modes
  /\ stage = [r \in Runners |-> "idle"]
  /\ todo = [r \in Runners |-> <<>>]
  /\ batch = [r \in Runners |-> 0]
  /\ lock = NoLock
  /\ depth = 0
  /\ records = <<>>
  /\ runs = [f \in Scripts |-> 0]

-----------------------------------------------------------------------------
Active(r) == stage[r] \notin {"idle", "done"}

Goes(r, next) == stage' = [stage EXCEPT ![r] = next]

\* The session over which a statement of call r may be sent.
Session(r, c) == (shared \/ c = Home) /\ c \in Sessions

\* pg_try_advisory_lock: granted when the lock is free, and once more to the
\* session that has it; otherwise the call throws, before its try block.
acquireLock(r, c, next) ==
  /\ Session(r, c)
  /\ IF lock \in {NoLock, <<ProcessOf[r], c>>}
     THEN Goes(r, next) /\ lock' = <<ProcessOf[r], c>> /\ depth' = depth + 1
     ELSE Goes(r, "done") /\ UNCHANGED <<lock, depth>>

\* A call begins; in a process that does nothing else, after the last one.
Begins(r, c) ==
  /\ stage[r] = "idle"
  /\ shared \/ \A q \in Runners \ {r} : ProcessOf[q] = ProcessOf[r] => ~Active(q)
  /\ \E next \in {"migrate", "rollback"} : acquireLock(r, c, next)
  /\ UNCHANGED <<todo, batch, records, runs>>

\* releaseLock(), from the finally block: on another session than the one
\* that holds the lock pg_advisory_unlock only warns.
releaseLock(r, c) ==
  /\ stage[r] = "releasing"
  /\ Session(r, c)
  /\ Goes(r, "done")
  /\ IF lock = <<ProcessOf[r], c>>
     THEN depth' = depth - 1 /\ lock' = IF depth = 1 THEN NoLock ELSE lock
     ELSE UNCHANGED <<lock, depth>>
  /\ UNCHANGED <<todo, batch, records, runs>>

-----------------------------------------------------------------------------
\* migrate(): the pending scripts and the batch number, read once.
Pending(r) ==
  /\ stage[r] = "migrate"
  /\ todo' = [todo EXCEPT ![r] = Passing(Listing, Scripts \ Recorded)]
  /\ batch' = [batch EXCEPT ![r] = LastBatch + 1]
  /\ Goes(r, "migrating")
  /\ UNCHANGED <<lock, depth, records, runs>>

\* A transaction of call r is rolled back; the call throws.
Abort(r) == Goes(r, "releasing") /\ UNCHANGED todo

\* Mutant: the script runs outside the transaction that records it.
RunScript_Bare(r) ==
  /\ stage[r] = "migrating" /\ todo[r] # <<>>
  /\ LET f == Head(todo[r])
     IN  /\ runs[f] < MaxRuns
         /\ runs' = [runs EXCEPT ![f] = @ + 1]
         /\ IF f \in Recorded
            THEN Abort(r) /\ UNCHANGED records
            ELSE /\ records' = Append(records, [name |-> f, batch |-> batch[r]])
                 /\ todo' = [todo EXCEPT ![r] = Tail(@)]
                 /\ UNCHANGED stage
  /\ UNCHANGED <<batch, lock, depth>>

\* One script and its record, in one transaction: the name is UNIQUE, so of
\* two transactions that record it the second one fails.
RunScript(r) ==
  /\ stage[r] = "migrating" /\ todo[r] # <<>>
  /\ LET f == Head(todo[r])
     IN  /\ f \notin Recorded /\ runs[f] < MaxRuns
         /\ runs' = [runs EXCEPT ![f] = @ + 1]
         /\ records' = Append(records, [name |-> f, batch |-> batch[r]])
  /\ todo' = [todo EXCEPT ![r] = Tail(@)]
  /\ UNCHANGED <<stage, batch, lock, depth>>

\* Its SQL or its INSERT fails, and the call stops at this script.
ScriptFails(r) ==
  /\ stage[r] = "migrating" /\ todo[r] # <<>>
  /\ Abort(r)
  /\ UNCHANGED <<batch, lock, depth, records, runs>>

\* rollback() selects the last batch, and then its names, last id first.
SelectBatch(r) ==
  /\ stage[r] = "rollback"
  /\ batch' = [batch EXCEPT ![r] = LastBatch]
  /\ Goes(r, IF records = <<>> THEN "releasing" ELSE "selecting")
  /\ UNCHANGED <<todo, lock, depth, records, runs>>

SelectNames(r) ==
  /\ stage[r] = "selecting"
  /\ todo' = [todo EXCEPT ![r] =
               Reverse(Names(Passing(records, {m \in ToSet(records) : m.batch = batch[r]})))]
  /\ Goes(r, "reverting")
  /\ UNCHANGED <<batch, lock, depth, records, runs>>

\* The rollback script, when there is one, and the removal of the record, in
\* one transaction; without a script only the record goes, and runs counts
\* anew.  A DELETE that finds no record succeeds as well.
Revert(r) ==
  /\ stage[r] = "reverting" /\ todo[r] # <<>>
  /\ LET f == Head(todo[r])
     IN  /\ records' = Passing(records, {m \in ToSet(records) : m.name # f})
         /\ runs' = [runs EXCEPT ![f] = 0]
  /\ todo' = [todo EXCEPT ![r] = Tail(@)]
  /\ UNCHANGED <<stage, batch, lock, depth>>

\* A rollback script that fails is caught, but it has aborted the
\* transaction, so the DELETE fails and the call with it.
RevertFails(r) ==
  /\ stage[r] = "reverting" /\ todo[r] # <<>>
  /\ Abort(r)
  /\ UNCHANGED <<batch, lock, depth, records, runs>>

Finishes(r) ==
  /\ stage[r] \in {"migrating", "reverting"} /\ todo[r] = <<>>
  /\ Goes(r, "releasing")
  /\ UNCHANGED <<todo, batch, lock, depth, records, runs>>

-----------------------------------------------------------------------------
\* The session of an idle client ends: the pool closes it after ten seconds.
SessionEnds ==
  /\ shared /\ lock # NoLock
  /\ lock' = NoLock /\ depth' = 0
  /\ UNCHANGED <<stage, todo, batch, records, runs>>

\* A process dies between two statements, and its sessions with it.
ProcessDies(p) ==
  /\ \E r \in Runners : ProcessOf[r] = p /\ Active(r)
  /\ stage' = [r \in Runners |-> IF ProcessOf[r] = p THEN "done" ELSE stage[r]]
  /\ IF lock # NoLock /\ lock[1] = p
     THEN lock' = NoLock /\ depth' = 0
     ELSE UNCHANGED <<lock, depth>>
  /\ UNCHANGED <<todo, batch, records, runs>>

MigrationsStep(r) ==
  \/ Pending(r) \/ RunScript(r) \/ ScriptFails(r)
  \/ SelectBatch(r) \/ SelectNames(r) \/ Revert(r) \/ RevertFails(r)
  \/ Finishes(r)
  \/ \E c \in Sessions : Begins(r, c) \/ releaseLock(r, c)

MigrationsNext ==
  /\ UNCHANGED shared
  /\ \/ \E r \in Runners : MigrationsStep(r)
     \/ SessionEnds
     \/ \E p \in Processes : ProcessDies(p)

MigrationsSpec == MigrationsInit /\ [][MigrationsNext]_migrationsVars

-----------------------------------------------------------------------------
(* "Transaction-safe migrations" (migrations-runner.js:17): however calls  *)
(* race, lose the lock, fail or die, a script that is recorded has run     *)
(* exactly once since its record was last removed, and one that is not has *)
(* not.  A removed record counts as undone also if there was no script to  *)
(* undo it, which the code warns of (migrations-runner.js:294).            *)
RecordedIsRun ==
  \A f \in Scripts : runs[f] = IF f \in Recorded THEN 1 ELSE 0

(* "Migrations are SQL files ... that are executed in order" (migrations-  *)
(* runner.js:11): while the lock is kept, what has run is always a prefix  *)
(* of the directory in its order, in batches that grow, through failures,  *)
(* crashes and rollbacks of whole batches.                                 *)
InOrder ==
  ~shared => /\ IsPrefix(Names(records), Listing)
             /\ \A i, j \in DOMAIN records : i < j => records[i].batch <= records[j].batch

(* What is recorded has run, once and in order, whichever process dies or  *)
(* fails where (migrations-runner.js).                                     *)
MigrationsSound == RecordedIsRun /\ InOrder

(* "Migration locking (prevent concurrent runs)" (migrations-runner.js:18):*)
(* no two calls are past acquireLock().                                    *)
Exclusive ==
  \A r, q \in Runners :
    (stage[r] \in Working /\ stage[q] \in Working) => r = q
=============================================================================
