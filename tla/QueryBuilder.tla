---------------------------- MODULE QueryBuilder ----------------------------
(***************************************************************************)
(* The SQL builder of database/query-builder.js, as far as placeholders go.*)
(* Every clause that takes values writes numbered placeholders into the    *)
(* text while the values wait in arrays of their own; a build method puts  *)
(* both together.  A placeholder is remembered here with the value its     *)
(* caller meant, so that the two can be compared in what is built.         *)
(*                                                                         *)
(* Values are numbered in the order in which callers pass them, so no two  *)
(* are alike.  Columns, operators, joins and ordering carry no values and  *)
(* are left out.                                                           *)
(***************************************************************************)
EXTENDS Integers, Sequences, SequencesExt

CONSTANTS
  Builds,      \* build methods in use
  MaxValues,   \* bound: values passed to one builder
  MaxClauses,  \* bound: clauses of one builder
  WhereUpdates,\* whether UPDATE statements have WHERE clauses with values
  Unset        \* null

\* Placeholder $n written where the caller passed value v.
Ref(n, v) == [ph |-> n, val |-> v]
Refs == [ph : Nat, val : Nat]

\* A statement: the placeholders in its text, and its values.
BuiltSQL == [text : SUBSET Refs, values : Seq(1 .. MaxValues)]

ASSUME BuilderAssumption ==
  /\ Builds \subseteq {"select", "count", "delete", "insert", "bulk", "update"}
  /\ WhereUpdates \in BOOLEAN
  /\ MaxValues \in Nat /\ MaxClauses \in Nat
  /\ Unset \notin Nat \cup BuiltSQL

VARIABLES
  _where,         \* clauses, each with the placeholders it contains
  _whereParams,
  _having, _havingParams,
  _limit, _offset,
  passed,         \* how many values have been passed so far
  built           \* the statement, if it has been built

builderVars == <<_where, _whereParams, _having, _havingParams, _limit, _offset, passed, built>>

\* k placeholders numbered from base + 1, for the next k values.
Fragment(base, k) == {Ref(base + i, passed + i) : i \in 1 .. k}

NextValues(k) == [i \in 1 .. k |-> passed + i]

BuilderTypeOK ==
  /\ _where \in Seq(SUBSET Refs) /\ _having \in Seq(SUBSET Refs)
  /\ _whereParams \in Seq(1 .. MaxValues) /\ _havingParams \in Seq(1 .. MaxValues)
  /\ _limit \in (1 .. MaxValues) \cup {Unset} /\ _offset \in (1 .. MaxValues) \cup {Unset}
  /\ passed \in 0 .. MaxValues
  /\ built \in BuiltSQL \cup {Unset}

BuilderInit ==
  /\ _where = <<>> /\ _whereParams = <<>> /\ _having = <<>> /\ _havingParams = <<>>
  /\ _limit = Unset /\ _offset = Unset /\ passed = 0 /\ built = Unset

\* A clause can be added: the statement is not built and the bounds allow it.
Open(k) ==
  /\ built = Unset
  /\ passed + k <= MaxValues
  /\ Len(_where) + Len(_having) < MaxClauses

-----------------------------------------------------------------------------
\* where() with k values: 0 for IS NULL, FALSE and IS NOT NULL, 1 for a
\* comparison, 2 for whereBetween(), any number for whereIn().  A caller of
\* whereRaw() has to count on from the clauses before it, and so has one of
\* having(), which is why it comes once the WHERE clauses are complete.
where(k) ==
  /\ Open(k) /\ _having = <<>>
  /\ _where' = Append(_where, Fragment(Len(_whereParams), k))
  /\ _whereParams' = _whereParams \o NextValues(k)
  /\ passed' = passed + k
  /\ UNCHANGED <<_having, _havingParams, _limit, _offset, built>>

\* having(condition, ...params): the caller writes the placeholders.
having(k) ==
  /\ Open(k)
  /\ _having' = Append(_having, Fragment(Len(_whereParams) + Len(_havingParams), k))
  /\ _havingParams' = _havingParams \o NextValues(k)
  /\ passed' = passed + k
  /\ UNCHANGED <<_where, _whereParams, _limit, _offset, built>>

limit ==
  /\ Open(1)
  /\ _limit' = passed + 1 /\ passed' = passed + 1
  /\ UNCHANGED <<_where, _whereParams, _having, _havingParams, _offset, built>>

offset ==
  /\ Open(1)
  /\ _offset' = passed + 1 /\ passed' = passed + 1
  /\ UNCHANGED <<_where, _whereParams, _having, _havingParams, _limit, built>>

\* page(page, perPage) sets both.
page ==
  /\ Open(2)
  /\ _limit' = passed + 1 /\ _offset' = passed + 2 /\ passed' = passed + 2
  /\ UNCHANGED <<_where, _whereParams, _having, _havingParams, built>>

-----------------------------------------------------------------------------
Text(clauses) == UNION ToSet(clauses)

\* What LIMIT or OFFSET appends, given the parameters before it.
TailValue(value) == IF value = Unset THEN <<>> ELSE <<value>>
TailRef(value, params) == IF value = Unset THEN {} ELSE {Ref(Len(params) + 1, value)}

\* Mutant: parameters of HAVING are appended after those of LIMIT and OFFSET.
Selected_HavingLast(lim, off) ==
  LET p1 == _whereParams
      p2 == p1 \o TailValue(lim)
      p3 == p2 \o TailValue(off)
  IN  [text |-> Text(_where) \cup Text(_having) \cup TailRef(lim, p1) \cup TailRef(off, p2),
       values |-> p3 \o _havingParams]

\* buildSelect() appends to _whereParams in the order HAVING, LIMIT, OFFSET.
Selected(lim, off) ==
  LET p1 == _whereParams \o _havingParams
      p2 == p1 \o TailValue(lim)
      p3 == p2 \o TailValue(off)
  IN  [text |-> Text(_where) \cup Text(_having) \cup TailRef(lim, p1) \cup TailRef(off, p2),
       values |-> p3]

buildSelect ==
  /\ "select" \in Builds /\ built = Unset
  /\ built' = Selected(_limit, _offset)
  /\ _whereParams' = Selected(_limit, _offset).values
  /\ UNCHANGED <<_where, _having, _havingParams, _limit, _offset, passed>>

\* buildCount() drops LIMIT, OFFSET and ordering first.
buildCount ==
  /\ "count" \in Builds /\ built = Unset
  /\ _limit' = Unset /\ _offset' = Unset
  /\ built' = Selected(Unset, Unset)
  /\ _whereParams' = Selected(Unset, Unset).values
  /\ UNCHANGED <<_where, _having, _havingParams, passed>>

buildDelete ==
  /\ "delete" \in Builds /\ built = Unset
  /\ built' = [text |-> Text(_where), values |-> _whereParams]
  /\ UNCHANGED <<_where, _whereParams, _having, _havingParams, _limit, _offset, passed>>

\* buildUpdate(table, data) and buildSoftDelete(): the SET placeholders count
\* from one, and their values come first.
buildUpdate(k) ==
  /\ "update" \in Builds /\ built = Unset /\ passed + k <= MaxValues
  /\ _whereParams # <<>> => WhereUpdates
  /\ built' = [text |-> Fragment(0, k) \cup Text(_where),
               values |-> NextValues(k) \o _whereParams]
  /\ passed' = passed + k
  /\ UNCHANGED <<_where, _whereParams, _having, _havingParams, _limit, _offset>>

\* buildInsert(table, data) uses no clause.
buildInsert(k) ==
  /\ "insert" \in Builds /\ built = Unset /\ passed + k <= MaxValues
  /\ built' = [text |-> Fragment(0, k), values |-> NextValues(k)]
  /\ passed' = passed + k
  /\ UNCHANGED <<_where, _whereParams, _having, _havingParams, _limit, _offset>>

\* The placeholder of one cell of a bulk insert.
Cell(rows, columns, row, col) == (row - 1) * columns + col

Cells(rows, columns) ==
  {Ref(Cell(rows, columns, r, c), passed + (r - 1) * columns + c) :
     r \in 1 .. rows, c \in 1 .. columns}

\* buildBulkInsert(table, rows), for rows that have the keys of the first.
buildBulkInsert(rows, columns) ==
  /\ "bulk" \in Builds /\ built = Unset /\ passed + rows * columns <= MaxValues
  /\ built' = [text |-> Cells(rows, columns), values |-> NextValues(rows * columns)]
  /\ passed' = passed + rows * columns
  /\ UNCHANGED <<_where, _whereParams, _having, _havingParams, _limit, _offset>>

\* reset() after a statement; the builder starts anew.
reset ==
  /\ built # Unset
  /\ _where' = <<>> /\ _whereParams' = <<>> /\ _having' = <<>> /\ _havingParams' = <<>>
  /\ _limit' = Unset /\ _offset' = Unset /\ passed' = 0 /\ built' = Unset

BuilderNext ==
  \/ \E k \in 0 .. 2 : where(k) \/ having(k)
  \/ limit \/ offset \/ page
  \/ buildSelect \/ buildCount \/ buildDelete
  \/ \E k \in 1 .. 3 : buildUpdate(k) \/ buildInsert(k)
  \/ \E rows, columns \in 1 .. 3 : buildBulkInsert(rows, columns)
  \/ reset

BuilderSpec == BuilderInit /\ [][BuilderNext]_builderVars

-----------------------------------------------------------------------------
(* Every placeholder in the text stands for the value its caller passed    *)
(* for it, in whatever order and number the clauses were added, and every  *)
(* value is used: PostgreSQL refuses a statement with a parameter that no  *)
(* placeholder names.                                                      *)
PlaceholdersBound ==
  built # Unset =>
    /\ \A ref \in built.text :
         ref.ph \in DOMAIN built.values /\ built.values[ref.ph] = ref.val
    /\ \A n \in DOMAIN built.values : \E ref \in built.text : ref.ph = n
=============================================================================
