---------------------------- MODULE ActiveRecord ----------------------------
(***************************************************************************)
(* The active record life cycle every model of shared-models inherits from *)
(* base-model.js, with soft-delete-mixin.js: creating, loading, filling,   *)
(* saving under optimistic locking, deleting and restoring rows, some of a *)
(* soft-deleting model's table and some of another's, by concurrent        *)
(* requests that each hold an instance of their own.                       *)
(*                                                                         *)
(* A statement is one step of the database.  save() computes its data from *)
(* the instance and sends one statement, so it is one step here; what      *)
(* matters is how it interleaves with the loads and statements of others.  *)
(***************************************************************************)
EXTENDS Integers

CONSTANTS
  Requests,    \* concurrent requests, each with one model instance
  Ids,         \* primary keys; _generateId() never repeats one
  Fields,      \* fillable columns
  Values,      \* values of a column
  NoValue,     \* undefined
  SoftIds,     \* the keys in tables of models with static softDelete
  RawFields,   \* columns some function of the model sets by an UPDATE of its own
  MaxVersion   \* bound on the version column

ASSUME RecordAssumption ==
  /\ NoValue \notin Values \cup Ids
  /\ SoftIds \subseteq Ids /\ RawFields \subseteq Fields
  /\ MaxVersion \in Nat

VARIABLES
  rows,     \* rows[i]: the row with primary key i
  inst,     \* inst[r]: the instance request r works on
  trashed   \* history: ids softDelete() has reported as deleted

vars == <<rows, inst, trashed>>

Columns == [Fields -> Values \cup {NoValue}]

\* What a row holds besides its key; deleted is whether deleted_at is set.
Content == [version : Nat, col : Columns, deleted : BOOLEAN]
Row == [st : {"free", "live", "gone"}, now : Content]

\* held: none, a new object, or one that was hydrated and _exists.
Instance == [held : {"none", "new", "exists"}, id : Ids \cup {NoValue},
             original : Content, col : Columns, dirty : SUBSET Fields]

Empty == [f \in Fields |-> NoValue]
Blank == [version |-> 0, col |-> Empty, deleted |-> FALSE]
Nothing == [held |-> "none", id |-> NoValue, original |-> Blank, col |-> Empty, dirty |-> {}]

TypeOK ==
  /\ rows \in [Ids -> Row]
  /\ inst \in [Requests -> Instance]
  /\ \A r \in Requests : inst[r].held = "exists" => inst[r].id \in Ids
  /\ trashed \subseteq Ids

Init ==
  /\ rows = [i \in Ids |-> [st |-> "free", now |-> Blank]]
  /\ inst = [r \in Requests |-> Nothing]
  /\ trashed = {}

-----------------------------------------------------------------------------
\* The instance after _hydrate() of row content c, or after RETURNING *.
Hydrated(i, c) ==
  [held |-> "exists", id |-> i, original |-> c, col |-> c.col, dirty |-> {}]

\* _newQuery() filters on deleted_at for a soft-deleting model, and no
\* option, withTrashed included, takes the filter away again.
Visible(i) == rows[i].st = "live" /\ ~(i \in SoftIds /\ rows[i].now.deleted)

\* new Model(data): fill() marks every fillable key it is given.
new(r, f, v) ==
  /\ inst[r].held = "none"
  /\ inst' = [inst EXCEPT ![r] = [Nothing EXCEPT !.held = "new", !.col[f] = v,
                                              !.dirty = {f}]]
  /\ UNCHANGED <<rows, trashed>>

findById(r, i) ==
  /\ inst[r].held = "none"
  /\ Visible(i)
  /\ inst' = [inst EXCEPT ![r] = Hydrated(i, rows[i].now)]
  /\ UNCHANGED <<rows, trashed>>

\* fill(): skips guarded keys (id, version, the timestamps).
fill(r, f, v) ==
  /\ inst[r].held # "none"
  /\ inst' = [inst EXCEPT ![r].col[f] = v, ![r].dirty = @ \cup {f}]
  /\ UNCHANGED <<rows, trashed>>

\* A property assigned directly, as in record.deleted_at = ...: not dirty.
Assign(r, f, v) ==
  /\ inst[r].held # "none"
  /\ inst' = [inst EXCEPT ![r].col[f] = v]
  /\ UNCHANGED <<rows, trashed>>

-----------------------------------------------------------------------------
\* The columns after a save: the dirty ones are overwritten.
Merged(r, col) ==
  [f \in Fields |-> IF f \in inst[r].dirty THEN inst[r].col[f] ELSE col[f]]

\* _performCreate(): the dirty columns, under a fresh key and version 1.
_performCreate(r, i) ==
  LET c == [version |-> 1, deleted |-> FALSE, col |-> Merged(r, Empty)]
  IN  /\ inst[r].held = "new"
      /\ rows[i].st = "free"
      /\ rows' = [rows EXCEPT ![i] = [st |-> "live", now |-> c]]
      /\ inst' = [inst EXCEPT ![r] = Hydrated(i, c)]
      /\ UNCHANGED trashed

\* Mutant: the version is not incremented.
Written_SameVersion(r, now) ==
  [version |-> inst[r].original.version, col |-> Merged(r, now.col), deleted |-> now.deleted]

\* Mutant: the version is not checked.
Matches_NoVersion(r) == rows[inst[r].id].st = "live"

\* The row _performUpdate() leaves behind.
Written(r, now) ==
  [version |-> inst[r].original.version + 1, col |-> Merged(r, now.col),
   deleted |-> now.deleted]

\* WHERE id = ... AND version = ...: the row matches the instance.
Matches(r) ==
  LET row == rows[inst[r].id]
  IN  row.st = "live" /\ row.now.version = inst[r].original.version

\* save() of an existing instance.  With nothing dirty it returns at once,
\* and when the row does not match it throws; neither changes anything.
SaveWrites(r) ==
  LET i == inst[r].id
      c == Written(r, rows[i].now)
  IN  /\ inst[r].held = "exists" /\ inst[r].dirty # {}
      /\ Matches(r) /\ c.version <= MaxVersion
      /\ rows' = [rows EXCEPT ![i].now = c]
      /\ inst' = [inst EXCEPT ![r] = Hydrated(i, c)]
      /\ UNCHANGED trashed

\* The request ends and drops its instance.
Done(r) ==
  /\ inst[r].held # "none"
  /\ inst' = [inst EXCEPT ![r] = Nothing]
  /\ UNCHANGED <<rows, trashed>>

\* delete() of a soft-deleting model is an update of deleted_at alone under
\* the version check; the instance takes the returned row, but no longer
\* _exists, and its dirty marks are gone.
_softDelete(r) ==
  LET i == inst[r].id
      c == [version |-> inst[r].original.version + 1, col |-> rows[i].now.col,
            deleted |-> TRUE]
  IN  /\ inst[r].held = "exists" /\ i \in SoftIds /\ Matches(r) /\ c.version <= MaxVersion
      /\ rows' = [rows EXCEPT ![i].now = c]
      /\ inst' = [inst EXCEPT ![r] = [Hydrated(i, c) EXCEPT !.held = "new"]]
      /\ UNCHANGED trashed

\* delete() of any other model: DELETE by key, whatever the version.
_hardDelete(r) ==
  /\ inst[r].held = "exists" /\ inst[r].id \notin SoftIds
  /\ rows' = [rows EXCEPT ![inst[r].id] =
       [st |-> IF rows[inst[r].id].st = "live" THEN "gone" ELSE rows[inst[r].id].st,
        now |-> rows[inst[r].id].now]]
  /\ inst' = [inst EXCEPT ![r].held = "new"]
  /\ UNCHANGED trashed

-----------------------------------------------------------------------------
\* SoftDeleteMixin.softDelete(id): loads the record, assigns deleted_at and
\* deleted_by to it and saves; the assignments leave nothing dirty.
MixinSoftDelete(i) ==
  /\ i \in SoftIds /\ Visible(i)
  /\ trashed' = trashed \cup {i}
  /\ UNCHANGED <<rows, inst>>

\* restore(id): findById does not see a deleted row, and a row it sees is
\* not deleted, so it always returns null: a row it would restore is
Restorable(i) == Visible(i) /\ rows[i].now.deleted

\* forceDelete(id), and purgeDeleted() once a deleted row is old enough.
forceDelete(i) ==
  /\ rows[i].st = "live"
  /\ rows' = [rows EXCEPT ![i].st = "gone"]
  /\ trashed' = trashed \ {i}
  /\ UNCHANGED inst

purgeDeleted(i) == rows[i].now.deleted /\ forceDelete(i)

\* UPDATE ... SET column = ... issued by a function of the model itself:
\* the version stays.
RawUpdate(i, f, v) ==
  /\ f \in RawFields
  /\ rows[i].st = "live"
  /\ rows' = [rows EXCEPT ![i].now.col[f] = v]
  /\ UNCHANGED <<inst, trashed>>

-----------------------------------------------------------------------------
RequestStep(r) ==
  \/ \E f \in Fields, v \in Values : new(r, f, v) \/ fill(r, f, v) \/ Assign(r, f, v)
  \/ \E i \in Ids : findById(r, i) \/ _performCreate(r, i)
  \/ SaveWrites(r) \/ Done(r)
  \/ _softDelete(r) \/ _hardDelete(r)

TableStep(i) ==
  \/ MixinSoftDelete(i) \/ forceDelete(i) \/ purgeDeleted(i)
  \/ \E f \in Fields, v \in Values : RawUpdate(i, f, v)

Next == (\E r \in Requests : RequestStep(r)) \/ (\E i \in Ids : TableStep(i))

Spec == Init /\ [][Next]_vars

-----------------------------------------------------------------------------
Guarded == Fields \ RawFields

(* The version identifies the contents: a request whose version still      *)
(* matches the row has seen everything the row holds, the columns set by   *)
(* other statements aside.  This is what the version check of save()       *)
(* relies on, across creations, deletions and saves of several instances.  *)
VersionIdentifiesContents ==
  \A r \in Requests : (inst[r].held = "exists" /\ Matches(r)) =>
    LET now == rows[inst[r].id].now
    IN  /\ inst[r].original.deleted = now.deleted
        /\ \A f \in Guarded : inst[r].original.col[f] = now.col[f]

(* "Record was modified by another process. Please refresh and try again." *)
(* (base-model.js:748): a save that goes through replaces only values its  *)
(* request had loaded.  Stated for the columns only save() writes ...      *)
Replaces(r, C) ==
  SaveWrites(r) => \A f \in C \cap inst[r].dirty :
                     rows[inst[r].id].now.col[f] = inst[r].original.col[f]

NoLostUpdate == [][\A r \in Requests : Replaces(r, Guarded)]_vars

(* ... and for every column.                                               *)
NoUpdateLostAtAll == [][\A r \in Requests : Replaces(r, Fields)]_vars

(* The records behave like a compare-and-swap store: whatever create, find *)
(* and save() do with versions and dirty marks, and whoever deletes rows   *)
(* under them, a save that goes through found in the row exactly what its  *)
(* request had last seen there, and writes it in the same step.            *)
Kept(c) == [deleted |-> c.deleted, col |-> [f \in Guarded |-> c.col[f]]]

Store == INSTANCE OptimisticStore WITH
  Clients <- Requests,
  Keys <- Ids,
  Contents <- [deleted : BOOLEAN, col : [Guarded -> Values \cup {NoValue}]],
  st <- [i \in Ids |-> rows[i].st],
  data <- [i \in Ids |-> Kept(rows[i].now)],
  seen <- [r \in Requests |-> IF inst[r].held = "exists"
                              THEN {<<inst[r].id, Kept(inst[r].original)>>} ELSE {}]

ImplementsStore == Store!StoreSpec

(* "Soft delete a record" (soft-delete-mixin.js:51): a record softDelete() *)
(* reported as deleted is no longer found.                                 *)
SoftDeleteHides == \A i \in trashed : ~Visible(i)

(* "Include soft-deleted records" (base-model.js:124): restore() can load  *)
(* a record that delete() has marked as deleted.                           *)
DeletedIsRestorable ==
  \A i \in Ids : (rows[i].st = "live" /\ rows[i].now.deleted) => Restorable(i)
=============================================================================
