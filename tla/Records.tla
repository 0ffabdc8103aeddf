------------------------------- MODULE Records -------------------------------
(***************************************************************************)
(* How the operations of the domain models (shared-models/src) work the    *)
(* tables: each is a short program over the class methods of base-model.js *)
(* and statements of its own, with an await between any two of its steps.  *)
(* No operation opens a transaction, so a step stays when a later one      *)
(* throws.  The modules that extend this one list the programs, model by   *)
(* model; here is what each kind of step does, and several requests that   *)
(* run programs of one model at the same time.                             *)
(*                                                                         *)
(* Any statement may be rejected instead of answered (connection-pool.js:  *)
(* 270-287): a constraint, a lock, a time limit.  PostgreSQL undoes what a *)
(* rejected statement had begun.  A statement that took effect but whose   *)
(* answer the connection lost is not modelled: its caller cannot know.     *)
(*                                                                         *)
(* A table holds one record of interest, of which the model keeps the      *)
(* status its operations decide by; an operation that decides by other     *)
(* data may go either way.  Records of the tables may also have been       *)
(* written by services that do not use these classes, so the first state   *)
(* has any status there is.                                                *)
(***************************************************************************)
EXTENDS Integers, Sequences, TLC

CONSTANTS
  Callers,       \* requests
  Programs,      \* model |-> (operation |-> its paths)
  Final,         \* table |-> the statuses that are final
  Halfway,       \* model |-> operations that stop halfway although the database answers
  Piecemeal,     \* model |-> operations of several writes, halfway when one is rejected
  MaxSaves     \* bound on the number of times save() writes a record

VARIABLES
  focus,     \* the model whose operations the requests call
  record,    \* table |-> status of its record, "none" without one
  version,   \* table |-> how often save() has written it
  task       \* request |-> [st, excused, path, at, seen, changed]; excused: the
             \* endings at which it is known that the operation may leave a change

recordVars == <<focus, record, version, task>>

-----------------------------------------------------------------------------
\* The steps of a program.  An operation with branches has several paths.
Whatever == {"*"}
StepOf(do, t, ok, to) == [do |-> do, t |-> t, ok |-> ok, to |-> to]

Load(t, ok) == StepOf("load", t, ok, "same")     \* findById(); gives up unless it is there in ok
Look(t) == StepOf("look", t, Whatever, "same")        \* findOne(), findAll() by scalars
Found(t, ok) == StepOf("found", t, ok, "same")   \* findOne(); gives up unless it is there in ok
Absent(t, ok) == StepOf("absent", t, ok, "same") \* findOne(); gives up if one is there in ok
Check == StepOf("check", "", Whatever, "same")        \* other data may end the operation
Insert(t, to) == StepOf("insert", t, Whatever, to)    \* create()
Note(t, to) == StepOf("note", t, Whatever, to)        \* an INSERT, no hooks, whose failure is only logged
Update(t, to) == StepOf("update", t, Whatever, to)    \* the class method update()
Save(t, to) == StepOf("save", t, Whatever, to)        \* save() or _performUpdate() of an instance
Raw(t, ok, to) == StepOf("raw", t, ok, to)       \* an UPDATE of its own, WHERE status IN ok
Erase(t, ok) == StepOf("erase", t, ok, "none")   \* a DELETE of its own
Report(t) == StepOf("report", t, Whatever, "same")    \* a SELECT of its own, paginate()
Throws == StepOf("throws", "", Whatever, "same")      \* calls a function that is not there

\* Operations that only update, load and update, look, or report.
Sets(names, t, to) == [n \in names |-> {<<Update(t, to)>>}]
Amends(names, t, to) == [n \in names |-> {<<Load(t, Whatever), Update(t, to)>>}]
Looks(names, t) == [n \in names |-> {<<Look(t)>>}]
Reports(names, t) == [n \in names |-> {<<Report(t)>>}]

\* Tables of the models with hooks of their own.  static hooks replaces the
\* table of base-model.js, so the kinds of hooks that are not listed again
\* are undefined, and iterating over them throws.
Hooked == {"users", "corporate_entities", "corporate_directors", "developers",
           "fx_collateral", "pos_roles"}

-----------------------------------------------------------------------------
\* The steps that can end an operation early, although the database answers
\* or because it rejects a statement, and those that leave a trace.
MayStop(s) ==
  \/ s.do \in {"load", "found", "absent", "check", "update", "save", "throws"}
  \/ s.do \in {"look", "insert"} /\ s.t \in Hooked
MayBeRejected(s) == s.do \notin {"check", "throws", "note"}
Changes(s) == s.do \in {"insert", "note", "save", "raw", "erase"}

\* Steps that always end the operation; what follows them is never reached.
Fatal(s) == s.do \in {"update", "throws"} \/ (s.do \in {"load", "found"} /\ s.ok = {})
Dead(path, i) == \E k \in 1..(i - 1) : Fatal(path[k])

\* Whatever changes a table comes after everything that can go wrong: by the
\* operation's own decisions, or also by a rejected statement.
Whole(path) ==
  \A i, j \in 1..Len(path) : i < j /\ Changes(path[i]) /\ MayStop(path[j]) => Dead(path, i)
OneStatement(path) ==
  \A i, j \in 1..Len(path) : i < j /\ Changes(path[i]) /\ MayBeRejected(path[j]) => Dead(path, i)

Named(list, m) == IF m \in DOMAIN list THEN list[m] ELSE {}

\* The lists name the operations of which this is not so, and no others.
ASSUME ProgramsAssumption ==
  \A m \in DOMAIN Programs : \A op \in DOMAIN Programs[m] :
    LET paths == Programs[m][op]
    IN  /\ \A path \in paths : Len(path) \in Nat \ {0}
        /\ op \notin Named(Halfway, m) <=> \A path \in paths : Whole(path)
        /\ op \notin Named(Halfway, m) \cup Named(Piecemeal, m)
             <=> \A path \in paths : Whole(path) /\ OneStatement(path)

\* The endings at which an operation is known to leave what it had done.
Excused(m, op) ==
  (IF op \in Named(Halfway, m) THEN {"failed", "refused", "rejected"} ELSE {})
  \cup (IF op \in Named(Piecemeal, m) THEN {"rejected"} ELSE {})

EndedOf(t) == IF t \in DOMAIN Final THEN Final[t] ELSE {}

\* An UPDATE spares the records whose status is final: it writes no status,
\* or its WHERE names none of them, or it would set the one they have.
SparesEnded(s) ==
  s.do \in {"save", "raw"} =>
    \/ s.to = "same" \/ EndedOf(s.t) \subseteq {s.to}
    \/ s.do = "raw" /\ s.ok # Whatever /\ s.ok \cap EndedOf(s.t) \subseteq {s.to}

ASSUME EndingsAssumption ==
  /\ \A m \in DOMAIN Programs : \A op \in DOMAIN Programs[m] : \A path \in Programs[m][op] :
       \A i \in 1..Len(path) : SparesEnded(path[i])
  /\ \A t \in DOMAIN Final : "none" \notin Final[t]

Steps(m) == UNION {UNION {{path[i] : i \in DOMAIN path} : path \in Programs[m][op]} :
                     op \in DOMAIN Programs[m]}
TablesOf(m) == {s.t : s \in Steps(m)} \ {""}

\* The statuses a record may have when the requests begin.
StatusesOf(m, t) ==
  {"none", "other"} \cup EndedOf(t)
  \cup UNION {(s.ok \cup {s.to}) \ {"*", "same"} : s \in {x \in Steps(m) : x.t = t}}

\* What is known of a request's operation.
Task(st, excused, path, at, seen, changed) ==
  [st |-> st, excused |-> excused, path |-> path, at |-> at, seen |-> seen, changed |-> changed]
Idle == Task("idle", {}, <<>>, 1, 0, FALSE)

RecordsInit ==
  /\ focus \in DOMAIN Programs
  /\ record \in [TablesOf(focus) -> UNION {StatusesOf(focus, t) : t \in TablesOf(focus)}]
  /\ \A t \in TablesOf(focus) : record[t] \in StatusesOf(focus, t)
  /\ version = [t \in TablesOf(focus) |-> 0]
  /\ task = [c \in Callers |-> Idle]

Starts(c, op, path) ==
  /\ task[c].st # "running"
  /\ task' = [task EXCEPT ![c] = Task("running", Excused(focus, op), path, 1, 0, FALSE)]
  /\ UNCHANGED <<focus, record, version>>

Now(c) == task[c].path[task[c].at]
Running(c) == task[c].st = "running"
Accepts(s) == record[s.t] # "none" /\ (s.ok = Whatever \/ record[s.t] \in s.ok)

\* The operation ends early, or goes on to its next step unless this was the
\* last; changed says whether it has changed a table.
Over(c, how, changed) == Task(how, task[c].excused, <<>>, 1, 0, changed)
Passed(c, seen, changed) ==
  IF task[c].at = Len(task[c].path) THEN Idle
  ELSE Task("running", task[c].excused, task[c].path, task[c].at + 1, seen, changed)
Ends(c, how) == task' = [task EXCEPT ![c] = Over(c, how, task[c].changed)]
Proceeds(c, seen, changed) == task' = [task EXCEPT ![c] = Passed(c, seen, changed)]

\* Statements that read.  Rows of a table with hooks cannot be hydrated.
Reads(c) ==
  LET s == Now(c)
      broken == s.t \in Hooked /\ record[s.t] # "none"
  IN  /\ Running(c) /\ s.do \in {"load", "look", "found", "absent"}
      /\ IF broken THEN Ends(c, "failed")
         ELSE IF s.do \in {"load", "found"} /\ ~Accepts(s) THEN Ends(c, "refused")
         ELSE IF s.do = "absent" /\ Accepts(s) THEN Ends(c, "refused")
         ELSE Proceeds(c, version[s.t], task[c].changed)
      /\ UNCHANGED <<focus, record, version>>

\* Steps that touch no record of the tables.
Decides(c) ==
  /\ Running(c) /\ Now(c).do \in {"check", "report", "throws"}
  /\ \/ Now(c).do # "throws" /\ Proceeds(c, task[c].seen, task[c].changed)
     \/ Now(c).do = "check" /\ Ends(c, "refused")
     \/ Now(c).do = "throws" /\ Ends(c, "failed")
  /\ UNCHANGED <<focus, record, version>>

\* The database rejects the statement, which changes nothing.
Rejects(c) ==
  LET s == Now(c)
  IN  /\ Running(c)
      /\ \/ MayBeRejected(s) /\ Ends(c, "rejected")
         \/ s.do = "note" /\ Proceeds(c, task[c].seen, task[c].changed)
      /\ UNCHANGED <<focus, record, version>>

\* Mutant: the hooks that are missing are those of after the INSERT.
Inserts_HooksAfter(c) ==
  LET s == Now(c)
  IN  /\ Running(c) /\ s.do \in {"insert", "note"}
      /\ record' = [record EXCEPT ![s.t] = IF @ = "none" THEN s.to ELSE @]
      /\ IF s.do = "insert" /\ s.t \in Hooked
         THEN task' = [task EXCEPT ![c] = Over(c, "failed", TRUE)]
         ELSE Proceeds(c, task[c].seen, TRUE)
      /\ UNCHANGED <<focus, version>>

\* create(): the hooks run before the INSERT.
Inserts(c) ==
  LET s == Now(c)
  IN  /\ Running(c) /\ s.do \in {"insert", "note"}
      /\ IF s.do = "insert" /\ s.t \in Hooked
         THEN /\ Ends(c, "failed") /\ UNCHANGED record
         ELSE /\ record' = [record EXCEPT ![s.t] = IF @ = "none" THEN s.to ELSE @]
              /\ Proceeds(c, task[c].seen, TRUE)
      /\ UNCHANGED <<focus, version>>

\* update(): its WHERE is "[object Object] = $1", which the database refuses.
Updates(c) ==
  /\ Running(c) /\ Now(c).do = "update"
  /\ Ends(c, "failed")
  /\ UNCHANGED <<focus, record, version>>

Rewritten(t, to) == [record EXCEPT ![t] = IF to = "same" THEN @ ELSE to]

\* Mutant: the statement has lost its condition.
Writes_Anywhere(c) ==
  LET s == Now(c)
      hits == record[s.t] # "none" /\ (s.do = "save" => version[s.t] = task[c].seen)
  IN  /\ Running(c) /\ s.do \in {"save", "raw"}
      /\ s.do = "save" => version[s.t] < MaxSaves
      /\ record' = IF hits THEN Rewritten(s.t, s.to) ELSE record
      /\ version' = IF hits /\ s.do = "save" THEN [version EXCEPT ![s.t] = @ + 1] ELSE version
      /\ IF s.do = "save" /\ ~hits THEN Ends(c, "failed")
         ELSE Proceeds(c, task[c].seen, task[c].changed \/ hits)
      /\ UNCHANGED focus

\* The UPDATE of an instance checks its version; one of the model's own
\* checks what its WHERE says and leaves the version alone.
Writes(c) ==
  LET s == Now(c)
      hits == IF s.do = "save" THEN record[s.t] # "none" /\ version[s.t] = task[c].seen
              ELSE Accepts(s)
  IN  /\ Running(c) /\ s.do \in {"save", "raw"}
      /\ s.do = "save" => version[s.t] < MaxSaves
      /\ record' = IF hits THEN Rewritten(s.t, s.to) ELSE record
      /\ version' = IF hits /\ s.do = "save" THEN [version EXCEPT ![s.t] = @ + 1] ELSE version
      /\ IF s.do = "save" /\ ~hits THEN Ends(c, "failed")
         ELSE Proceeds(c, task[c].seen, task[c].changed \/ hits)
      /\ UNCHANGED focus

Erases(c) ==
  LET s == Now(c)
  IN  /\ Running(c) /\ s.do = "erase"
      /\ record' = IF Accepts(s) THEN [record EXCEPT ![s.t] = "none"] ELSE record
      /\ Proceeds(c, task[c].seen, task[c].changed \/ Accepts(s))
      /\ UNCHANGED <<focus, version>>

RecordsNext ==
  \E c \in Callers :
    \/ \E op \in DOMAIN Programs[focus] : \E path \in Programs[focus][op] : Starts(c, op, path)
    \/ Reads(c) \/ Decides(c) \/ Rejects(c) \/ Inserts(c) \/ Updates(c) \/ Writes(c)
    \/ Erases(c)

RecordsSpec == RecordsInit /\ [][RecordsNext]_recordVars

-----------------------------------------------------------------------------
(* An operation that ends early has changed no record and inserted none:   *)
(* the statements of an operation are not one transaction, so those that   *)
(* ran before would stay.  Two lists name the exceptions: operations that  *)
(* stop halfway by themselves (Halfway), and those that write several rows *)
(* one statement at a time and stop halfway when the database rejects one  *)
(* of these (Piecemeal), which is excused for no other reason.             *)
FailuresChangeNothing ==
  \A c \in Callers :
    task[c].st \in {"failed", "refused", "rejected"} /\ task[c].changed =>
      task[c].st \in task[c].excused

(* What ended stays ended: whatever two requests do to a record at the     *)
(* same time, it does not come back from a status that is final, although  *)
(* every operation reads it long before it writes.                         *)
EndedStays ==
  [][\A t \in DOMAIN record :
        record[t] \in EndedOf(t) => record'[t] \in {record[t], "none"}]_recordVars
=============================================================================
