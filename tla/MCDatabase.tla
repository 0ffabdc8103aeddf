----------------------------- MODULE MCDatabase -----------------------------
(***************************************************************************)
(* The database layer: a query builder; two requests on one or two rows    *)
(* with one column that only save() writes and one that raw statements     *)
(* write too; units of work over one pool; three migration calls in two    *)
(* processes over two migrations, the first of which can be rolled back;   *)
(* and two callers of the operations of every domain model.  They share    *)
(* nothing, so each behaviour exercises one of them and the state spaces   *)
(* add up.                                                                 *)
(***************************************************************************)
EXTENDS TransactionScope, Migrations, QueryBuilder,
        MoneyRecords, AccountRecords, CommerceRecords, BusinessRecords, ActiveRecord

CONSTANTS Parts, c1, c2, r1, r2, i1, i2

\* Which units of work share the process decides what connectionPool.query
\* can be: one scope beside two transactions that use the client they are
\* given, or a plain request beside them ...
Separate ==
  {"a" :> "scoped" @@ "b" :> "client" @@ "d" :> "client",
   "a" :> "plain" @@ "b" :> "client" @@ "d" :> "client"}
\* ... or a scope beside a plain request.
ScopeAndPlain == {"a" :> "scoped" @@ "b" :> "plain"}

\* Two calls of one process and one of another.
MCProcessOf == 1 :> "p" @@ 2 :> "q" @@ 3 :> "q"

\* Every model, under names of their own: TLC evaluates a definition once,
\* but what a constant stands for each time.
AllPrograms == MoneyPrograms @@ AccountPrograms @@ CommercePrograms @@ BusinessPrograms
AllFinal == MoneyEnded @@ AccountEnded @@ CommerceEnded @@ BusinessEnded
AllHalfway == MoneyHalfway @@ AccountHalfway @@ CommerceHalfway @@ BusinessHalfway
MCPrograms == AllPrograms
MCFinal == AllFinal
MCHalfway == AllHalfway
MCPiecemeal == AccountPiecemeal @@ CommercePiecemeal @@ BusinessPiecemeal

-----------------------------------------------------------------------------
VARIABLE part

MCVars == <<part, builderVars, vars, scopeVars, migrationsVars, recordVars>>

\* The other parts stay as they are: one model, without records.
FirstModel == CHOOSE m \in DOMAIN Programs : TRUE

MCInit ==
  /\ part \in Parts
  /\ RecordsInit
  /\ part # "models" => focus = FirstModel /\ \A t \in DOMAIN record : record[t] = "none"
  /\ ScopeInit
  /\ part # "scope" => kind["a"] = "plain"
  /\ MigrationsInit
  /\ part # "migrations" => shared = FALSE
  /\ BuilderInit
  /\ Init

MCNext ==
  /\ UNCHANGED part
  /\ \/ /\ part = "builder" /\ BuilderNext
        /\ UNCHANGED <<vars, scopeVars, migrationsVars, recordVars>>
     \/ /\ part = "records" /\ Next
        /\ UNCHANGED <<builderVars, scopeVars, migrationsVars, recordVars>>
     \/ /\ part = "scope" /\ ScopeNext
        /\ UNCHANGED <<builderVars, vars, migrationsVars, recordVars>>
     \/ /\ part = "migrations" /\ MigrationsNext
        /\ UNCHANGED <<builderVars, vars, scopeVars, recordVars>>
     \/ /\ part = "models" /\ RecordsNext
        /\ UNCHANGED <<builderVars, vars, scopeVars, migrationsVars>>

MCSpec == MCInit /\ [][MCNext]_MCVars

RequestSymmetry == Permutations({r1, r2})

=============================================================================
