--------------------------- MODULE DatabaseProofs ---------------------------
(***************************************************************************)
(* Proofs about the database layer, for every number of requests: the      *)
(* records, units of work, and the operations of the domain models.        *)
(***************************************************************************)
EXTENDS TransactionScope, Records, ActiveRecord, QueryBuilder, Migrations,
        Collections, TLAPS

-----------------------------------------------------------------------------
(***************************************************************************)
(* Proofs about ActiveRecord, for every number of requests, keys, columns  *)
(* and values.                                                             *)
(***************************************************************************)
(* An instance that _exists holds the key of a row that has been created   *)
(* and a version the row has had, and equal versions mean equal contents.  *)
(* The first conjunct is what keeps a fresh row, whose version is 1, away  *)
(* from the instances of older rows.                                       *)
HeldIsCreated ==
  \A r \in Requests : inst[r].held = "exists" => rows[inst[r].id].st # "free"

VersionSeen ==
  \A r \in Requests : inst[r].held = "exists" =>
    inst[r].original.version <= rows[inst[r].id].now.version

IInv == TypeOK /\ HeldIsCreated /\ VersionSeen /\ VersionIdentifiesContents

LEMMA BlankType == Blank \in Content /\ Empty \in Columns
BY DEF Blank, Content, Empty, Columns

LEMMA NothingType == Nothing \in Instance
BY BlankType DEF Nothing, Instance

LEMMA HydratedType ==
  ASSUME NEW i \in Ids, NEW c \in Content
  PROVE  Hydrated(i, c) \in Instance
BY DEF Hydrated, Instance, Content

LEMMA MergedType ==
  ASSUME TypeOK, NEW r \in Requests, NEW col \in Columns
  PROVE  Merged(r, col) \in Columns
BY DEF TypeOK, Instance, Columns, Merged

LEMMA WrittenType ==
  ASSUME TypeOK, NEW r \in Requests, NEW now \in Content
  PROVE  Written(r, now) \in Content
<1>1. inst[r].original.version + 1 \in Nat
  BY DEF TypeOK, Instance, Content
<1>2. Merged(r, now.col) \in Columns
  BY MergedType DEF Content
<1> QED
  BY <1>1, <1>2 DEF Written, Content

-----------------------------------------------------------------------------
LEMMA InitIInv == Init => IInv
<1> SUFFICES ASSUME Init PROVE IInv
  OBVIOUS
<1>1. TypeOK
  BY BlankType, NothingType DEF Init, TypeOK, Row, Nothing
<1>2. \A r \in Requests : inst[r].held # "exists"
  BY DEF Init, Nothing
<1> QED
  BY <1>1, <1>2 DEF IInv, HeldIsCreated, VersionSeen, VersionIdentifiesContents

(* A step that gives one request an instance that is not hydrated, and     *)
(* leaves the rows alone, keeps the invariant.                             *)
LEMMA Unhydrated ==
  ASSUME IInv, NEW r \in Requests, NEW x \in Instance, x.held # "exists",
         inst' = [inst EXCEPT ![r] = x], UNCHANGED <<rows, trashed>>
  PROVE  IInv'
<1>1. TypeOK'
  BY DEF IInv, TypeOK
<1>2. \A q \in Requests : inst'[q] = IF q = r THEN x ELSE inst[q]
  BY DEF IInv, TypeOK
<1> QED
  BY <1>1, <1>2 DEF IInv, HeldIsCreated, VersionSeen, VersionIdentifiesContents, Matches

(* A step that writes content c over a live row, with a version above the  *)
(* row's, and hydrates the writer from it (or ends its life).              *)
LEMMA Overwrites ==
  ASSUME IInv, NEW r \in Requests, NEW i \in Ids, NEW c \in Content,
         NEW x \in Instance,
         x.held = "exists" => x = Hydrated(i, c),
         rows[i].st = "live", c.version > rows[i].now.version,
         rows' = [rows EXCEPT ![i].now = c],
         inst' = [inst EXCEPT ![r] = x], UNCHANGED trashed
  PROVE  IInv'
<1>1. rows[i] \in Row /\ rows'[i] = [rows[i] EXCEPT !.now = c]
      /\ rows'[i].st = "live" /\ rows'[i].now = c
  BY DEF IInv, TypeOK, Row
<1>2. \A j \in Ids : j # i => rows'[j] = rows[j]
  BY DEF IInv, TypeOK
<1>3. \A q \in Requests : inst'[q] = IF q = r THEN x ELSE inst[q]
  BY DEF IInv, TypeOK
<1>4. \A q \in Requests : inst[q].held = "exists" => inst[q].id \in Ids
  BY DEF IInv, TypeOK
<1>5. TypeOK'
  <2>1. rows' \in [Ids -> Row]
    BY <1>1, <1>2 DEF IInv, TypeOK, Row
  <2>2. inst' \in [Requests -> Instance]
    BY DEF IInv, TypeOK
  <2>3. \A q \in Requests : inst'[q].held = "exists" => inst'[q].id \in Ids
    BY <1>3, <1>4 DEF Hydrated
  <2> QED
    BY <2>1, <2>2, <2>3 DEF TypeOK, IInv
<1>6. HeldIsCreated'
  BY <1>1, <1>2, <1>3, <1>4 DEF IInv, HeldIsCreated, Hydrated
<1>7. \A q \in Requests : inst'[q].held = "exists" /\ inst'[q].id = i /\ q # r
                            => inst'[q].original.version < c.version
  <2> SUFFICES ASSUME NEW q \in Requests, inst'[q].held = "exists", inst'[q].id = i, q # r
               PROVE  inst'[q].original.version < c.version
    OBVIOUS
  <2>1. inst[q].original.version <= rows[i].now.version
    BY <1>3 DEF IInv, VersionSeen
  <2>2. inst[q].original.version \in Nat /\ rows[i].now.version \in Nat /\ c.version \in Nat
    BY <1>1 DEF IInv, TypeOK, Instance, Content, Row
  <2> QED
    BY <1>3, <2>1, <2>2
<1>8. VersionSeen'
  <2> SUFFICES ASSUME NEW q \in Requests, inst'[q].held = "exists"
               PROVE  inst'[q].original.version <= rows'[inst'[q].id].now.version
    BY DEF VersionSeen
  <2>1. CASE q = r
    BY <2>1, <1>1, <1>3 DEF Hydrated, Content
  <2>2. CASE q # r /\ inst'[q].id = i
    <3>1. inst'[q].original.version \in Nat /\ c.version \in Nat
      BY <1>3, <2>2 DEF IInv, TypeOK, Instance, Content
    <3> QED
      BY <2>2, <1>1, <1>7, <3>1
  <2>3. CASE q # r /\ inst'[q].id # i
    BY <2>3, <1>2, <1>3, <1>4 DEF IInv, VersionSeen
  <2> QED
    BY <2>1, <2>2, <2>3
<1>9. VersionIdentifiesContents'
  <2> SUFFICES ASSUME NEW q \in Requests, inst'[q].held = "exists", Matches(q)'
               PROVE  /\ inst'[q].original.deleted = rows'[inst'[q].id].now.deleted
                      /\ \A f \in Guarded :
                           inst'[q].original.col[f] = rows'[inst'[q].id].now.col[f]
    BY DEF VersionIdentifiesContents
  <2>1. CASE q = r
    BY <2>1, <1>1, <1>3 DEF Hydrated
  <2>2. CASE q # r /\ inst'[q].id = i
    <3>1. inst'[q].original.version \in Nat /\ c.version \in Nat
      BY <1>3, <2>2 DEF IInv, TypeOK, Instance, Content
    <3> QED
      BY <2>2, <1>1, <1>7, <3>1 DEF Matches
  <2>3. CASE q # r /\ inst'[q].id # i
    BY <2>3, <1>2, <1>3, <1>4 DEF IInv, VersionIdentifiesContents, Matches
  <2> QED
    BY <2>1, <2>2, <2>3
<1> QED
  BY <1>5, <1>6, <1>8, <1>9 DEF IInv

-----------------------------------------------------------------------------
(* One step per action: those of a request ...                             *)
LEMMA RequestStepKeeps ==
  ASSUME IInv, NEW r \in Requests, RequestStep(r)
  PROVE  IInv'
<1> USE DEF IInv
<1>1. inst[r] \in Instance /\ inst[r].original \in Content /\ inst[r].col \in Columns
      /\ inst[r].dirty \subseteq Fields /\ inst[r].original.version \in Nat
  BY DEF TypeOK, Instance, Content
<1>2. ASSUME NEW f \in Fields, NEW v \in Values, new(r, f, v)
      PROVE  IInv'
  <2> DEFINE x == [Nothing EXCEPT !.held = "new", !.col[f] = v, !.dirty = {f}]
  <2>1. x \in Instance /\ x.held = "new"
    BY BlankType DEF Nothing, Instance, Columns
  <2> HIDE DEF x
  <2>2. inst' = [inst EXCEPT ![r] = x] /\ UNCHANGED <<rows, trashed>>
    BY <1>2 DEF new, x
  <2> QED
    BY <2>1, <2>2, Unhydrated
<1>3. ASSUME NEW f \in Fields, NEW v \in Values, fill(r, f, v) \/ Assign(r, f, v)
      PROVE  IInv'
  <2>1. PICK D \in SUBSET Fields :
          /\ inst' = [inst EXCEPT ![r].col[f] = v, ![r].dirty = D]
          /\ UNCHANGED <<rows, trashed>>
    <3>1. CASE fill(r, f, v)
      BY <1>1, <3>1 DEF fill
    <3>2. CASE Assign(r, f, v)
      <4>1. inst' = [inst EXCEPT ![r].col[f] = v, ![r].dirty = inst[r].dirty]
        BY <1>1, <3>2 DEF Assign, TypeOK, Instance
      <4> QED
        BY <1>1, <3>2, <4>1 DEF Assign
    <3> QED
      BY <1>3, <3>1, <3>2
  <2>2. \A q \in Requests : /\ inst'[q].held = inst[q].held
                            /\ inst'[q].id = inst[q].id
                            /\ inst'[q].original = inst[q].original
    BY <2>1 DEF TypeOK, Instance
  <2>3. inst' \in [Requests -> Instance]
    BY <1>1, <2>1 DEF TypeOK, Instance, Columns
  <2>4. TypeOK'
    BY <2>1, <2>2, <2>3 DEF TypeOK
  <2>5. rows' = rows
    BY <2>1
  <2>6. HeldIsCreated' /\ VersionSeen'
    BY <2>2, <2>5 DEF HeldIsCreated, VersionSeen
  <2>7. VersionIdentifiesContents'
    BY <2>2, <2>5 DEF VersionIdentifiesContents, Matches
  <2> QED
    BY <2>4, <2>6, <2>7
<1>4. ASSUME NEW i \in Ids, findById(r, i)
      PROVE  IInv'
  <2>1. rows[i] \in Row /\ rows[i].now \in Content /\ rows[i].st = "live"
    BY <1>4 DEF findById, Visible, TypeOK, Row
  <2>2. Hydrated(i, rows[i].now) \in Instance
    BY <2>1, HydratedType
  <2>3. \A q \in Requests : inst'[q] = IF q = r THEN Hydrated(i, rows[i].now) ELSE inst[q]
    BY <1>4 DEF findById, TypeOK
  <2>4. rows' = rows /\ trashed' = trashed
    BY <1>4 DEF findById
  <2>5. TypeOK'
    <3>1. inst' \in [Requests -> Instance]
      BY <1>4, <2>2 DEF findById, TypeOK
    <3>2. \A q \in Requests : inst'[q].held = "exists" => inst'[q].id \in Ids
      BY <2>3 DEF TypeOK, Hydrated
    <3> QED
      BY <2>4, <3>1, <3>2 DEF TypeOK
  <2>6. HeldIsCreated'
    BY <2>1, <2>3, <2>4 DEF HeldIsCreated, Hydrated
  <2>7. VersionSeen'
    BY <2>1, <2>3, <2>4 DEF VersionSeen, Hydrated, Content
  <2>8. VersionIdentifiesContents'
    BY <2>1, <2>3, <2>4 DEF VersionIdentifiesContents, Matches, Hydrated
  <2> QED
    BY <2>5, <2>6, <2>7, <2>8
<1>5. ASSUME NEW i \in Ids, _performCreate(r, i)
      PROVE  IInv'
  <2> DEFINE c == [version |-> 1, deleted |-> FALSE, col |-> Merged(r, Empty)]
  <2>1. c \in Content
    BY MergedType, BlankType DEF Content
  <2> HIDE DEF c
  <2>2. /\ rows[i].st = "free" /\ rows' = [rows EXCEPT ![i] = [st |-> "live", now |-> c]]
        /\ inst' = [inst EXCEPT ![r] = Hydrated(i, c)] /\ trashed' = trashed
    BY <1>5 DEF _performCreate, c
  <2>3. \A q \in Requests : inst'[q] = IF q = r THEN Hydrated(i, c) ELSE inst[q]
    BY <2>2 DEF TypeOK
  <2>4. \A q \in Requests : inst[q].held = "exists" => inst[q].id \in Ids /\ inst[q].id # i
    BY <2>2 DEF TypeOK, HeldIsCreated
  <2>5. rows'[i] = [st |-> "live", now |-> c] /\ \A j \in Ids : j # i => rows'[j] = rows[j]
    BY <2>2 DEF TypeOK
  <2>6. TypeOK'
    <3>1. Hydrated(i, c) \in Instance
      BY <2>1, HydratedType
    <3>2. inst' \in [Requests -> Instance] /\ rows' \in [Ids -> Row]
      BY <2>1, <2>2, <3>1 DEF TypeOK, Row
    <3>3. \A q \in Requests : inst'[q].held = "exists" => inst'[q].id \in Ids
      BY <2>3, <2>4 DEF Hydrated
    <3> QED
      BY <2>2, <3>2, <3>3 DEF TypeOK
  <2>7. HeldIsCreated'
    BY <2>3, <2>4, <2>5 DEF HeldIsCreated, Hydrated
  <2>8. VersionSeen'
    BY <2>1, <2>3, <2>4, <2>5 DEF VersionSeen, Hydrated, Content
  <2>9. VersionIdentifiesContents'
    BY <2>3, <2>4, <2>5 DEF VersionIdentifiesContents, Matches, Hydrated
  <2> QED
    BY <2>6, <2>7, <2>8, <2>9
<1>6. ASSUME SaveWrites(r)
      PROVE  IInv'
  <2> DEFINE i == inst[r].id
             c == Written(r, rows[i].now)
  <2>1. i \in Ids /\ rows[i] \in Row /\ rows[i].now \in Content
    BY <1>6 DEF SaveWrites, TypeOK, Row
  <2>2. c \in Content
    BY <2>1, WrittenType
  <2>3. rows[i].st = "live" /\ c.version = rows[i].now.version + 1
    BY <1>6 DEF SaveWrites, Matches, Written
  <2>4. c.version > rows[i].now.version
    BY <2>1, <2>3 DEF Content
  <2>5. Hydrated(i, c) \in Instance
    BY <2>1, <2>2, HydratedType
  <2>6. /\ rows' = [rows EXCEPT ![i].now = c]
        /\ inst' = [inst EXCEPT ![r] = Hydrated(i, c)] /\ UNCHANGED trashed
    BY <1>6 DEF SaveWrites
  <2> HIDE DEF i, c
  <2> QED
    BY <2>1, <2>2, <2>3, <2>4, <2>5, <2>6, Overwrites
<1>7. ASSUME Done(r)
      PROVE  IInv'
  <2>1. Nothing.held # "exists"
    BY DEF Nothing
  <2> QED
    BY <1>7, <2>1, NothingType, Unhydrated DEF Done
<1>8. ASSUME _softDelete(r)
      PROVE  IInv'
  <2> DEFINE i == inst[r].id
             c == [version |-> inst[r].original.version + 1, col |-> rows[i].now.col,
                   deleted |-> TRUE]
             x == [Hydrated(i, c) EXCEPT !.held = "new"]
  <2>1. i \in Ids /\ rows[i] \in Row /\ rows[i].now \in Content
    BY <1>8 DEF _softDelete, TypeOK, Row
  <2>2. c \in Content /\ c.version = inst[r].original.version + 1
    BY <1>1, <2>1 DEF Content
  <2>3. rows[i].st = "live" /\ c.version > rows[i].now.version
    BY <1>1, <1>8, <2>2 DEF _softDelete, Matches
  <2>4. x \in Instance /\ x.held # "exists"
    <3> HIDE DEF c, i
    <3>1. Hydrated(i, c) \in Instance
      BY <2>1, <2>2, HydratedType
    <3> QED
      BY <3>1 DEF Instance
  <2>5. /\ rows' = [rows EXCEPT ![i].now = c]
        /\ inst' = [inst EXCEPT ![r] = x] /\ UNCHANGED trashed
    BY <1>8 DEF _softDelete
  <2> HIDE DEF i, c, x
  <2> QED
    BY <2>1, <2>2, <2>3, <2>4, <2>5, Overwrites
<1>9. ASSUME _hardDelete(r)
      PROVE  IInv'
  <2> DEFINE i == inst[r].id
  <2>1. i \in Ids /\ inst[r].held = "exists"
    BY <1>9 DEF _hardDelete, TypeOK
  <2>2. \A q \in Requests : /\ inst'[q].held = "exists" => q # r
                            /\ q # r => inst'[q] = inst[q]
                            /\ inst'[q].held = "exists" => inst'[q] = inst[q]
    BY <1>9, <1>1 DEF _hardDelete, TypeOK, Instance
  <2>3. \A j \in Ids : /\ rows'[j].now = rows[j].now
                       /\ rows'[j].st = "live" => rows[j].st = "live"
                       /\ rows[j].st # "free" => rows'[j].st # "free"
    BY <1>9, <2>1 DEF _hardDelete, TypeOK, Row
  <2>4. TypeOK'
    BY <1>9, <2>1, <2>2 DEF _hardDelete, TypeOK, Row, Instance
  <2>5. HeldIsCreated'
    BY <2>2, <2>3 DEF HeldIsCreated, TypeOK
  <2>6. VersionSeen'
    BY <2>2, <2>3 DEF VersionSeen, TypeOK
  <2>7. VersionIdentifiesContents'
    BY <2>2, <2>3 DEF VersionIdentifiesContents, Matches, TypeOK
  <2> QED
    BY <2>4, <2>5, <2>6, <2>7
<1> QED
  BY <1>2, <1>3, <1>4, <1>5, <1>6, <1>7, <1>8, <1>9 DEF RequestStep

(* ... and those that reach the table without an instance.                 *)
LEMMA TableStepKeeps ==
  ASSUME IInv, NEW i \in Ids, TableStep(i)
  PROVE  IInv'
<1> USE DEF IInv
<1>1. CASE MixinSoftDelete(i)
  <2>1. UNCHANGED <<rows, inst>> /\ trashed' \subseteq Ids
    BY <1>1 DEF MixinSoftDelete, TypeOK
  <2> QED
    BY <2>1 DEF TypeOK, HeldIsCreated, VersionSeen, VersionIdentifiesContents, Matches
<1>2. CASE forceDelete(i) \/ purgeDeleted(i)
  <2>1. forceDelete(i)
    BY <1>2 DEF purgeDeleted
  <2>2. inst' = inst /\ TypeOK'
    BY <2>1 DEF forceDelete, TypeOK, Row
  <2>3. \A j \in Ids : /\ rows'[j].now = rows[j].now
                       /\ rows'[j].st = "live" => rows[j].st = "live"
                       /\ rows[j].st # "free" => rows'[j].st # "free"
    BY <2>1 DEF forceDelete, TypeOK, Row
  <2> QED
    BY <2>2, <2>3 DEF TypeOK, HeldIsCreated, VersionSeen, VersionIdentifiesContents, Matches
<1>3. ASSUME NEW f \in Fields, NEW v \in Values, RawUpdate(i, f, v)
      PROVE  IInv'
  <2>1. inst' = inst /\ trashed' = trashed /\ f \in RawFields
    BY <1>3 DEF RawUpdate
  <2>2. rows[i] \in Row /\ rows[i].now \in Content /\ rows[i].now.col \in Columns
    BY DEF TypeOK, Row, Content
  <2>3. rows' \in [Ids -> Row]
    BY <1>3, <2>2 DEF RawUpdate, TypeOK, Row, Content, Columns
  <2>4. \A j \in Ids : /\ rows'[j].st = rows[j].st
                       /\ rows'[j].now.version = rows[j].now.version
                       /\ rows'[j].now.deleted = rows[j].now.deleted
                       /\ \A g \in Guarded : rows'[j].now.col[g] = rows[j].now.col[g]
    BY <1>3, <2>1, <2>2 DEF RawUpdate, TypeOK, Row, Content, Columns, Guarded
  <2> QED
    BY <2>1, <2>3, <2>4
       DEF TypeOK, HeldIsCreated, VersionSeen, VersionIdentifiesContents, Matches
<1> QED
  BY <1>1, <1>2, <1>3 DEF TableStep

LEMMA StepKeeps == IInv /\ [Next]_vars => IInv'
<1> SUFFICES ASSUME IInv, [Next]_vars PROVE IInv'
  OBVIOUS
<1>1. CASE UNCHANGED vars
  BY <1>1 DEF vars, IInv, TypeOK, HeldIsCreated, VersionSeen, VersionIdentifiesContents, Matches
<1>2. CASE Next
  BY <1>2, RequestStepKeeps, TableStepKeeps DEF Next
<1> QED
  BY <1>1, <1>2

THEOREM Invariance == Spec => []IInv
BY InitIInv, StepKeeps, PTL DEF Spec

-----------------------------------------------------------------------------
(* The variables of the record layer keep their types.                     *)
THEOREM TypeCorrect == Spec => []TypeOK
<1>1. IInv => TypeOK
  BY DEF IInv
<1> QED
  BY <1>1, Invariance, PTL

(* Equal versions mean equal contents, as save()'s WHERE clause assumes.   *)
THEOREM VersionIdentifiesContentsHolds == Spec => []VersionIdentifiesContents
<1>1. IInv => VersionIdentifiesContents
  BY DEF IInv
<1> QED
  BY <1>1, Invariance, PTL

(* No save() silently replaces a value it has not seen, in any column that *)
(* is written by save() alone.                                             *)
THEOREM NoLostUpdateHolds == Spec => NoLostUpdate
<1>1. IInv /\ [Next]_vars => [\A r \in Requests : Replaces(r, Guarded)]_vars
  <2> SUFFICES ASSUME IInv, NEW r \in Requests, SaveWrites(r), NEW f \in Guarded
               PROVE  rows[inst[r].id].now.col[f] = inst[r].original.col[f]
    BY DEF Replaces
  <2> QED
    BY DEF IInv, VersionIdentifiesContents, SaveWrites
<1> QED
  BY <1>1, Invariance, PTL DEF Spec, NoLostUpdate

-----------------------------------------------------------------------------
(* The store: what each key and each request stand for in it.              *)
Datum == [deleted : BOOLEAN, col : [Guarded -> Values \cup {NoValue}]]
StOf == [i \in Ids |-> rows[i].st]
DataOf == [i \in Ids |-> Kept(rows[i].now)]
LastSeen(r) ==
  IF inst[r].held = "exists" THEN {<<inst[r].id, Kept(inst[r].original)>>} ELSE {}
SeenOf == [r \in Requests |-> LastSeen(r)]

LEMMA KeptType == ASSUME NEW c \in Content PROVE Kept(c) \in Datum
BY DEF Content, Columns, Kept, Datum, Guarded

(* One request sees something else, or nothing does.                       *)
LEMMA SeenByOne ==
  ASSUME TypeOK, NEW r \in Requests, NEW x, inst' = [inst EXCEPT ![r] = x],
         NEW last, LastSeen(r)' = last
  PROVE  SeenOf' = [SeenOf EXCEPT ![r] = last]
<1>1. \A q \in Requests : q # r => inst'[q] = inst[q]
  BY DEF TypeOK
<1>2. \A q \in Requests : q # r => LastSeen(q)' = LastSeen(q)
  BY <1>1 DEF LastSeen
<1> QED
  BY <1>2 DEF SeenOf

LEMMA SeenKept ==
  ASSUME \A q \in Requests : LastSeen(q)' = LastSeen(q)
  PROVE  SeenOf' = SeenOf
BY DEF SeenOf

(* A row's state or contents change; the columns of raw statements are not *)
(* part of the store.                                                      *)
LEMMA DataAt ==
  ASSUME NEW i \in Ids, NEW c, NEW s,
         rows'[i].st = s, Kept(rows'[i].now) = c,
         \A j \in Ids : j # i => rows'[j] = rows[j]
  PROVE  /\ StOf' = [StOf EXCEPT ![i] = s]
         /\ DataOf' = [DataOf EXCEPT ![i] = c]
<1>1. \A j \in Ids : rows'[j].st = IF j = i THEN s ELSE rows[j].st
  OBVIOUS
<1>2. \A j \in Ids : Kept(rows'[j].now) = IF j = i THEN c ELSE Kept(rows[j].now)
  OBVIOUS
<1>3. \A j \in Ids : Kept(rows[j].now)' = Kept(rows'[j].now)
  BY DEF Kept
<1> QED
  BY <1>1, <1>2, <1>3 DEF StOf, DataOf

(* A save that goes through swaps the contents its request had last seen.  *)
LEMMA SeenIsThere ==
  ASSUME IInv, NEW r \in Requests, inst[r].held = "exists", Matches(r)
  PROVE  /\ inst[r].id \in Ids
         /\ rows[inst[r].id].st = "live"
         /\ <<inst[r].id, Kept(rows[inst[r].id].now)>> \in LastSeen(r)
<1>1. /\ inst[r].original.deleted = rows[inst[r].id].now.deleted
      /\ \A f \in Guarded : inst[r].original.col[f] = rows[inst[r].id].now.col[f]
  BY DEF IInv, VersionIdentifiesContents
<1>2. Kept(inst[r].original) = Kept(rows[inst[r].id].now)
  BY <1>1 DEF Kept
<1> QED
  BY <1>2 DEF IInv, TypeOK, Matches, LastSeen

LEMMA InitMaps == Init => Store!StoreInit
<1> SUFFICES ASSUME Init PROVE Store!StoreInit
  OBVIOUS
<1>1. \A i \in Ids : rows[i].st = "free" /\ rows[i].now = Blank
  BY DEF Init
<1>2. \A r \in Requests : inst[r].held # "exists"
  BY DEF Init, Nothing
<1>3. \A i \in Ids : Kept(rows[i].now) \in Datum
  BY <1>1, BlankType, KeptType
<1> QED
  BY <1>1, <1>2, <1>3 DEF Store!StoreInit, Datum

(* The steps of the store, in terms of what the records stand for.         *)
LEMMA Reading ==
  ASSUME NEW r \in Requests, NEW i \in Ids, StOf[i] = "live", StOf' = StOf, DataOf' = DataOf,
         SeenOf' = [SeenOf EXCEPT ![r] = {<<i, DataOf[i]>>}]
  PROVE  Store!StoreNext
<1>1. Store!Read(r, i)
  BY DEF Store!Read, Store!Sees, StOf, DataOf, SeenOf, LastSeen
<1> QED
  BY <1>1 DEF Store!StoreNext

LEMMA Forgetting ==
  ASSUME NEW r \in Requests, StOf' = StOf, DataOf' = DataOf,
         SeenOf' = [SeenOf EXCEPT ![r] = {}]
  PROVE  Store!StoreNext \/ UNCHANGED Store!storeVars
<1>1. CASE SeenOf[r] # {}
  <2>1. Store!Forget(r)
    BY <1>1 DEF Store!Forget, Store!Sees, StOf, DataOf, SeenOf, LastSeen
  <2> QED
    BY <2>1 DEF Store!StoreNext
<1>2. CASE SeenOf[r] = {}
  <2>1. SeenOf' = SeenOf
    BY <1>2 DEF SeenOf
  <2> QED
    BY <2>1 DEF Store!storeVars, StOf, DataOf, SeenOf, LastSeen
<1> QED
  BY <1>1, <1>2

LEMMA Creating ==
  ASSUME NEW r \in Requests, NEW i \in Ids, NEW d \in Datum, StOf[i] = "free",
         StOf' = [StOf EXCEPT ![i] = "live"], DataOf' = [DataOf EXCEPT ![i] = d],
         SeenOf' = [SeenOf EXCEPT ![r] = {<<i, d>>}]
  PROVE  Store!StoreNext
<1>1. Store!Create(r, i)
  BY DEF Store!Create, Store!Sees, StOf, DataOf, SeenOf, LastSeen, Datum
<1> QED
  BY <1>1 DEF Store!StoreNext

LEMMA Swapping ==
  ASSUME NEW r \in Requests, NEW i \in Ids, NEW d \in Datum, NEW last,
         last = {<<i, d>>} \/ last = {},
         StOf[i] = "live", <<i, DataOf[i]>> \in SeenOf[r],
         StOf' = StOf, DataOf' = [DataOf EXCEPT ![i] = d],
         SeenOf' = [SeenOf EXCEPT ![r] = last]
  PROVE  Store!StoreNext
<1>1. Store!Swap(r, i)
  BY DEF Store!Swap, Store!Sees, StOf, DataOf, SeenOf, LastSeen, Datum
<1> QED
  BY <1>1 DEF Store!StoreNext

LEMMA Removing ==
  ASSUME NEW i \in Ids, StOf[i] = "live",
         StOf' = [StOf EXCEPT ![i] = "gone"], DataOf' = DataOf,
         SeenOf' = SeenOf \/ \E r \in Requests : SeenOf' = [SeenOf EXCEPT ![r] = {}]
  PROVE  Store!StoreNext
<1>1. Store!Remove(i)
  BY DEF Store!Remove, Store!Sees, StOf, DataOf, SeenOf, LastSeen
<1> QED
  BY <1>1 DEF Store!StoreNext

LEMMA Stuttering ==
  ASSUME StOf' = StOf, DataOf' = DataOf, SeenOf' = SeenOf
  PROVE  UNCHANGED Store!storeVars
BY DEF Store!storeVars, StOf, DataOf, SeenOf, LastSeen

-----------------------------------------------------------------------------
LEMMA RowsKept == ASSUME rows' = rows PROVE StOf' = StOf /\ DataOf' = DataOf
BY DEF StOf, DataOf, Kept

(* An instance that is not hydrated, before and after, shows nothing.      *)
LEMMA RequestStepMaps ==
  ASSUME IInv, NEW r \in Requests, RequestStep(r)
  PROVE  Store!StoreNext \/ UNCHANGED Store!storeVars
<1>0. TypeOK /\ inst[r] \in Instance /\ inst[r].original \in Content
  BY DEF IInv, TypeOK, Instance
<1>1. ASSUME NEW f \in Fields, NEW v \in Values, new(r, f, v)
      PROVE  UNCHANGED Store!storeVars
  <2> DEFINE x == [Nothing EXCEPT !.held = "new", !.col[f] = v, !.dirty = {f}]
  <2>1. inst' = [inst EXCEPT ![r] = x] /\ x.held = "new" /\ rows' = rows
    BY <1>1 DEF new, Nothing
  <2> HIDE DEF x
  <2>2. \A q \in Requests : inst'[q] = IF q = r THEN x ELSE inst[q]
    BY <1>0, <2>1 DEF TypeOK
  <2>3. \A q \in Requests : LastSeen(q)' = LastSeen(q)
    BY <1>1, <2>1, <2>2 DEF LastSeen, new
  <2> QED
    BY <2>1, <2>3, SeenKept, RowsKept, Stuttering
<1>2. ASSUME NEW f \in Fields, NEW v \in Values, fill(r, f, v) \/ Assign(r, f, v)
      PROVE  UNCHANGED Store!storeVars
  <2>1. rows' = rows
    BY <1>2 DEF fill, Assign
  <2>2. \A q \in Requests : /\ inst'[q].held = inst[q].held
                            /\ inst'[q].id = inst[q].id
                            /\ inst'[q].original = inst[q].original
    BY <1>0, <1>2 DEF fill, Assign, TypeOK, Instance
  <2>3. \A q \in Requests : LastSeen(q)' = LastSeen(q)
    BY <2>2 DEF LastSeen, Kept
  <2> QED
    BY <2>1, <2>3, SeenKept, RowsKept, Stuttering
<1>3. ASSUME NEW i \in Ids, findById(r, i) PROVE Store!StoreNext
  <2>1. /\ inst' = [inst EXCEPT ![r] = Hydrated(i, rows[i].now)] /\ rows' = rows
        /\ rows[i].st = "live"
    BY <1>3 DEF findById, Visible
  <2>2. inst'[r] = Hydrated(i, rows[i].now)
    BY <1>0, <2>1 DEF TypeOK
  <2>3. LastSeen(r)' = {<<i, Kept(rows[i].now)>>}
    BY <2>2 DEF LastSeen, Hydrated, Kept
  <2>4. SeenOf' = [SeenOf EXCEPT ![r] = {<<i, Kept(rows[i].now)>>}]
    BY <1>0, <2>1, <2>3, SeenByOne
  <2>5. StOf[i] = "live" /\ DataOf[i] = Kept(rows[i].now)
    BY <2>1 DEF StOf, DataOf
  <2> QED
    BY <2>1, <2>4, <2>5, RowsKept, Reading
<1>4. ASSUME NEW i \in Ids, _performCreate(r, i) PROVE Store!StoreNext
  <2> DEFINE c == [version |-> 1, deleted |-> FALSE, col |-> Merged(r, Empty)]
  <2>1. c \in Content
    BY <1>0, MergedType, BlankType DEF Content
  <2> HIDE DEF c
  <2>2. /\ rows[i].st = "free" /\ rows' = [rows EXCEPT ![i] = [st |-> "live", now |-> c]]
        /\ inst' = [inst EXCEPT ![r] = Hydrated(i, c)]
    BY <1>4 DEF _performCreate, c
  <2>3. inst'[r] = Hydrated(i, c) /\ rows'[i] = [st |-> "live", now |-> c]
        /\ \A j \in Ids : j # i => rows'[j] = rows[j]
    BY <1>0, <2>2 DEF TypeOK
  <2>4. LastSeen(r)' = {<<i, Kept(c)>>}
    BY <2>3 DEF LastSeen, Hydrated, Kept
  <2>5. SeenOf' = [SeenOf EXCEPT ![r] = {<<i, Kept(c)>>}]
    BY <1>0, <2>2, <2>4, SeenByOne
  <2>6. rows'[i].st = "live" /\ Kept(rows'[i].now) = Kept(c)
    BY <2>3
  <2>7. StOf' = [StOf EXCEPT ![i] = "live"] /\ DataOf' = [DataOf EXCEPT ![i] = Kept(c)]
    BY <2>3, <2>6, DataAt
  <2>8. StOf[i] = "free" /\ Kept(c) \in Datum
    BY <2>1, <2>2, KeptType DEF StOf
  <2> QED
    BY <2>5, <2>7, <2>8, Creating
<1>5. ASSUME NEW i \in Ids, NEW c \in Content, NEW x \in Instance,
             x = Hydrated(i, c) \/ x.held # "exists",
             inst[r].held = "exists", inst[r].id = i, Matches(r),
             rows' = [rows EXCEPT ![i].now = c], inst' = [inst EXCEPT ![r] = x]
      PROVE  Store!StoreNext
  <2>1. rows'[i].st = rows[i].st /\ rows'[i].now = c /\ inst'[r] = x
        /\ \A j \in Ids : j # i => rows'[j] = rows[j]
    BY <1>0, <1>5 DEF TypeOK, Row
  <2> DEFINE last == LastSeen(r)'
  <2>2. last = {<<i, Kept(c)>>} \/ last = {}
    BY <1>5, <2>1 DEF LastSeen, Hydrated, Kept
  <2> HIDE DEF last
  <2>3. SeenOf' = [SeenOf EXCEPT ![r] = last]
    BY <1>0, <1>5, SeenByOne DEF last
  <2>4. rows[i].st = "live" /\ <<i, Kept(rows[i].now)>> \in LastSeen(r)
    BY <1>5, SeenIsThere
  <2>5. rows'[i].st = "live" /\ Kept(rows'[i].now) = Kept(c)
    BY <2>1, <2>4
  <2>6. StOf' = [StOf EXCEPT ![i] = "live"] /\ DataOf' = [DataOf EXCEPT ![i] = Kept(c)]
    BY <2>1, <2>5, DataAt
  <2>7. StOf[i] = "live" /\ <<i, DataOf[i]>> \in SeenOf[r] /\ Kept(c) \in Datum
    BY <2>4, KeptType DEF StOf, DataOf, SeenOf
  <2>8. StOf' = StOf
    BY <2>6, <2>7 DEF StOf
  <2> QED
    BY <2>2, <2>3, <2>6, <2>7, <2>8, Swapping
<1>6. CASE SaveWrites(r)
  <2> DEFINE i == inst[r].id
             c == Written(r, rows[i].now)
  <2>1. i \in Ids /\ rows[i].now \in Content /\ inst[r].held = "exists" /\ Matches(r)
    BY <1>0, <1>6 DEF SaveWrites, TypeOK, Row
  <2>2. c \in Content /\ Hydrated(i, c) \in Instance
    BY <1>0, <2>1, WrittenType, HydratedType
  <2>3. rows' = [rows EXCEPT ![i].now = c] /\ inst' = [inst EXCEPT ![r] = Hydrated(i, c)]
    BY <1>6 DEF SaveWrites
  <2> HIDE DEF c
  <2> QED
    BY <1>5, <2>1, <2>2, <2>3
<1>7. CASE _softDelete(r)
  <2> DEFINE i == inst[r].id
             c == [version |-> inst[r].original.version + 1, col |-> rows[i].now.col,
                   deleted |-> TRUE]
             x == [Hydrated(i, c) EXCEPT !.held = "new"]
  <2>1. i \in Ids /\ rows[i].now \in Content /\ inst[r].held = "exists" /\ Matches(r)
    BY <1>0, <1>7 DEF _softDelete, TypeOK, Row
  <2>2. c \in Content
    BY <1>0, <2>1 DEF Content
  <2>3. x \in Instance /\ x.held # "exists"
    <3> HIDE DEF c
    <3>1. Hydrated(i, c) \in Instance
      BY <2>1, <2>2, HydratedType
    <3> QED
      BY <3>1 DEF Instance
  <2>4. rows' = [rows EXCEPT ![i].now = c] /\ inst' = [inst EXCEPT ![r] = x]
    BY <1>7 DEF _softDelete
  <2> HIDE DEF c, x
  <2> QED
    BY <1>5, <2>1, <2>2, <2>3, <2>4
<1>8. CASE Done(r)
  <2>1. inst' = [inst EXCEPT ![r] = Nothing] /\ rows' = rows
    BY <1>8 DEF Done
  <2>2. inst'[r] = Nothing
    BY <1>0, <2>1 DEF TypeOK
  <2>3. LastSeen(r)' = {}
    BY <2>2 DEF LastSeen, Nothing
  <2> QED
    BY <1>0, <2>1, <2>3, SeenByOne, RowsKept, Forgetting
<1>9. CASE _hardDelete(r)
  <2> DEFINE i == inst[r].id
             x == [inst[r] EXCEPT !.held = "new"]
             st == IF rows[i].st = "live" THEN "gone" ELSE rows[i].st
  <2>1. i \in Ids /\ inst' = [inst EXCEPT ![r] = x]
        /\ rows' = [rows EXCEPT ![i] = [st |-> st, now |-> rows[i].now]]
    BY <1>0, <1>9 DEF _hardDelete, TypeOK
  <2>2. inst'[r] = x /\ x.held = "new"
    BY <1>0, <2>1 DEF TypeOK, Instance
  <2>3. rows'[i].st = st /\ rows'[i].now = rows[i].now
        /\ \A j \in Ids : j # i => rows'[j] = rows[j]
    BY <1>0, <2>1 DEF TypeOK
  <2>4. LastSeen(r)' = {}
    BY <2>2 DEF LastSeen
  <2>5. SeenOf' = [SeenOf EXCEPT ![r] = {}]
    BY <1>0, <2>1, <2>4, SeenByOne
  <2>6. Kept(rows'[i].now) = DataOf[i]
    BY <2>1, <2>3 DEF DataOf
  <2> HIDE DEF st, x
  <2>7. StOf' = [StOf EXCEPT ![i] = st] /\ DataOf' = [DataOf EXCEPT ![i] = DataOf[i]]
    BY <2>1, <2>3, <2>6, DataAt
  <2>8. DataOf' = DataOf
    BY <2>7 DEF DataOf
  <2>9. CASE rows[i].st = "live"
    BY <2>1, <2>5, <2>7, <2>8, <2>9, Removing DEF st, StOf
  <2>10. CASE rows[i].st # "live"
    <3>1. StOf' = StOf
      BY <2>1, <2>7, <2>10 DEF st, StOf
    <3> QED
      BY <2>5, <2>8, <3>1, Forgetting
  <2> QED
    BY <2>9, <2>10
<1> QED
  BY <1>1, <1>2, <1>3, <1>4, <1>6, <1>7, <1>8, <1>9 DEF RequestStep

LEMMA TableStepMaps ==
  ASSUME IInv, NEW i \in Ids, TableStep(i)
  PROVE  Store!StoreNext \/ UNCHANGED Store!storeVars
<1>0. TypeOK
  BY DEF IInv
<1>1. inst' = inst
  BY DEF TableStep, MixinSoftDelete, forceDelete, purgeDeleted, RawUpdate
<1>2. SeenOf' = SeenOf
  BY <1>1 DEF SeenOf, LastSeen, Kept
<1>3. CASE MixinSoftDelete(i)
  <2>1. rows' = rows
    BY <1>3 DEF MixinSoftDelete
  <2> QED
    BY <1>2, <2>1, RowsKept, Stuttering
<1>4. CASE forceDelete(i) \/ purgeDeleted(i)
  <2>1. rows[i].st = "live" /\ rows' = [rows EXCEPT ![i].st = "gone"]
    BY <1>4 DEF forceDelete, purgeDeleted
  <2>2. rows'[i].st = "gone" /\ rows'[i].now = rows[i].now
        /\ \A j \in Ids : j # i => rows'[j] = rows[j]
    BY <1>0, <2>1 DEF TypeOK, Row
  <2>3. Kept(rows'[i].now) = DataOf[i] /\ StOf[i] = "live"
    BY <2>1, <2>2 DEF DataOf, StOf
  <2>4. StOf' = [StOf EXCEPT ![i] = "gone"] /\ DataOf' = [DataOf EXCEPT ![i] = DataOf[i]]
    BY <2>2, <2>3, DataAt
  <2>5. DataOf' = DataOf
    BY <2>4 DEF DataOf
  <2> QED
    BY <1>2, <2>3, <2>4, <2>5, Removing
<1>5. ASSUME NEW f \in Fields, NEW v \in Values, RawUpdate(i, f, v)
      PROVE  UNCHANGED Store!storeVars
  <2>1. rows[i] \in Row /\ rows[i].now \in Content /\ rows[i].now.col \in Columns
    BY <1>0 DEF TypeOK, Row, Content
  <2>2. \A j \in Ids : /\ rows'[j].st = rows[j].st
                       /\ rows'[j].now.deleted = rows[j].now.deleted
                       /\ \A g \in Guarded : rows'[j].now.col[g] = rows[j].now.col[g]
    BY <1>0, <1>5, <2>1 DEF RawUpdate, TypeOK, Row, Content, Columns, Guarded
  <2>3. StOf' = StOf
    BY <2>2 DEF StOf
  <2>4. \A j \in Ids : Kept(rows[j].now)' = Kept(rows[j].now)
    BY <2>2 DEF Kept
  <2>5. DataOf' = DataOf
    BY <2>4 DEF DataOf
  <2> QED
    BY <1>2, <2>3, <2>5, Stuttering
<1> QED
  BY <1>3, <1>4, <1>5 DEF TableStep

(* The record layer implements the compare-and-swap store: with versions   *)
(* in place of contents, a save goes through exactly when the store would  *)
(* let it, whatever else happens to the table.                             *)
THEOREM RecordsImplementStore == Spec => ImplementsStore
<1>1. IInv /\ [Next]_vars => [Store!StoreNext]_Store!storeVars
  <2> SUFFICES ASSUME IInv, [Next]_vars PROVE Store!StoreNext \/ UNCHANGED Store!storeVars
    OBVIOUS
  <2>1. CASE Next
    BY <2>1, RequestStepMaps, TableStepMaps DEF Next
  <2>2. CASE UNCHANGED vars
    <3>1. rows' = rows /\ inst' = inst
      BY <2>2 DEF vars
    <3>2. SeenOf' = SeenOf
      BY <3>1 DEF SeenOf, LastSeen, Kept
    <3> QED
      BY <3>1, <3>2, RowsKept, Stuttering
  <2> QED
    BY <2>1, <2>2
<1> QED
  BY <1>1, InitMaps, Invariance, PTL DEF Spec, ImplementsStore, Store!StoreSpec

-----------------------------------------------------------------------------
(***************************************************************************)
(* Proofs about TransactionScope: transactions are atomic and isolated for *)
(* every number of requests, clients and statements, as long as no scope   *)
(* shares the process with another request that uses connectionPool.query. *)
(***************************************************************************)
NoSharedScope ==
  \A k \in Kinds, r, q \in Units : (k[r] = "scoped" /\ k[q] # "client") => r = q

(* The mix at hand is one of them.                                         *)
OwnScope ==
  \A r, q \in Units : (kind[r] = "scoped" /\ kind[q] # "client") => r = q

(* A request is between Begin and the end of its transaction.              *)
Busy(r) == Transactional(r) /\ pc[r] \in {"open", "commit", "rollback"}

(* Which client a request holds.                                           *)
Holding ==
  /\ \A r \in Units : Busy(r) => \E c \in Clients : holder[c] = r
  /\ \A r \in Units, c \in Clients : holder[c] = r => Busy(r)
  /\ \A c, d \in Clients : (holder[c] # None /\ holder[c] = holder[d]) => c = d
  /\ \A c \in Clients : c \in begun <=> holder[c] # None

(* What connectionPool.query is bound to.                                  *)
Scoping ==
  /\ \A r \in Units : saved[r] = None
  /\ \A r \in Units : (kind[r] = "scoped" /\ pc[r] = "open") =>
                           query \in Clients /\ holder[query] = r
  /\ query # None => \E r \in Units : kind[r] = "scoped" /\ pc[r] = "open"

(* Where the statements of each request are.                               *)
Placing ==
  /\ \A r \in Units : pc[r] = "idle" => written[r] = 0
  /\ \A r \in Units : outcome[r] = "none" <=> pc[r] # "done"
  /\ \A r \in Units, n \in 1 .. MaxWrites, c \in Clients :
       <<r, n>> \in tx[c] => holder[c] = r /\ n <= written[r]
  /\ \A r \in Units, n \in 1 .. MaxWrites, c \in Clients :
       holder[c] = r /\ n <= written[r] => <<r, n>> \in tx[c]
  /\ \A r \in Units, n \in 1 .. MaxWrites :
       <<r, n>> \in committed =>
         n <= written[r] /\ (Transactional(r) => outcome[r] = "committed")
  /\ \A r \in Units, n \in 1 .. MaxWrites :
       (n <= written[r] /\ (outcome[r] = "committed" \/ ~Transactional(r)))
         => <<r, n>> \in committed
  /\ \A r \in Units : ~Transactional(r) => outcome[r] # "failed"

ScopeIInv == ScopeTypeOK /\ Holding /\ Scoping /\ Placing

-----------------------------------------------------------------------------
LEMMA NoneIsNoClient == None \notin Clients /\ None \notin Units
BY ScopeAssumption

(* A statement reaches the client its request holds, or, for a request     *)
(* outside any transaction, no client at all.                              *)
LEMMA TargetIsOwn ==
  ASSUME OwnScope, ScopeIInv, NEW r \in Units, pc[r] = "open"
  PROVE  /\ Transactional(r) => Target(r) \in begun /\ holder[Target(r)] = r
         /\ ~Transactional(r) => Target(r) = None /\ Target(r) \notin begun
<1>1. CASE kind[r] = "client"
  <2>1. \E c \in Clients : holder[c] = r
    BY <1>1 DEF ScopeIInv, Holding, Busy, Transactional
  <2>2. Target(r) \in Clients /\ holder[Target(r)] = r
    BY <1>1, <2>1 DEF Target
  <2> QED
    BY <1>1, <2>2, NoneIsNoClient DEF ScopeIInv, Holding, Transactional
<1>2. CASE kind[r] = "scoped"
  BY <1>2, NoneIsNoClient DEF Target, ScopeIInv, Scoping, Holding, Transactional
<1>3. CASE kind[r] = "plain"
  <2>1. query = None
    BY <1>3 DEF OwnScope, ScopeIInv, Scoping
  <2> QED
    BY <1>3, <2>1, NoneIsNoClient DEF Target, ScopeIInv, ScopeTypeOK, Transactional
<1> QED
  BY <1>1, <1>2, <1>3, ScopeAssumption DEF ScopeIInv, ScopeTypeOK

LEMMA ScopeInitIInv == ScopeInit => ScopeIInv
<1> SUFFICES ASSUME ScopeInit PROVE ScopeIInv
  OBVIOUS
<1>1. ScopeTypeOK
  BY ScopeAssumption DEF ScopeInit, ScopeTypeOK
<1>2. Holding
  BY NoneIsNoClient DEF ScopeInit, Holding, Busy
<1>3. Scoping
  BY DEF ScopeInit, Scoping
<1>4. Placing
  BY ScopeAssumption DEF ScopeInit, Placing
<1> QED
  BY <1>1, <1>2, <1>3, <1>4 DEF ScopeIInv

-----------------------------------------------------------------------------
LEMMA BeginKeeps ==
  ASSUME OwnScope, ScopeIInv, NEW r \in Units, NEW c \in Clients, Begin(r, c),
         kind' = kind
  PROVE  ScopeIInv'
<1>t. \A q \in Units : Transactional(q)' <=> Transactional(q)
  BY DEF Transactional
<1> USE NoneIsNoClient DEF ScopeIInv
<1>0. /\ pc[r] = "idle" /\ Transactional(r) /\ holder[c] = None
      /\ pc' = [pc EXCEPT ![r] = "open"] /\ holder' = [holder EXCEPT ![c] = r]
      /\ begun' = begun \cup {c} /\ wraps' = [wraps EXCEPT ![c] = @ + 1]
      /\ UNCHANGED <<tx, written, committed, outcome>>
  BY DEF Begin
<1>1. \/ kind[r] = "scoped" /\ saved' = [saved EXCEPT ![r] = query] /\ query' = c
      \/ kind[r] # "scoped" /\ UNCHANGED <<saved, query>>
  BY DEF Begin
<1>2. ScopeTypeOK'
  <2>1. wraps' \in [Clients -> Nat]
    BY <1>0 DEF ScopeTypeOK
  <2>2. saved' \in [Units -> Clients \cup {None}] /\ query' \in Clients \cup {None}
    BY <1>1 DEF ScopeTypeOK
  <2> QED
    BY <1>0, <2>1, <2>2 DEF ScopeTypeOK
<1>3. Holding'
  <2>1. \A q \in Units : Busy(q)' <=> (Busy(q) \/ q = r)
    BY <1>t, <1>0 DEF Busy, ScopeTypeOK
  <2>2. \A d \in Clients : holder'[d] = IF d = c THEN r ELSE holder[d]
    BY <1>0 DEF ScopeTypeOK
  <2>3. \A d \in Clients : holder[d] # r
    BY <1>0 DEF Holding, Busy
  <2>4. \A q \in Units : Busy(q)' => \E d \in Clients : holder'[d] = q
    BY <2>1, <2>2, <1>0 DEF Holding
  <2>5. \A q \in Units, d \in Clients : holder'[d] = q => Busy(q)'
    BY <2>1, <2>2 DEF Holding, ScopeTypeOK
  <2>6. \A d, e \in Clients : (holder'[d] # None /\ holder'[d] = holder'[e]) => d = e
    BY <2>2, <2>3 DEF Holding
  <2>7. \A d \in Clients : d \in begun' <=> holder'[d] # None
    BY <1>0, <2>2 DEF Holding
  <2> QED
    BY <2>4, <2>5, <2>6, <2>7 DEF Holding
<1>4. Scoping'
  <2>1. CASE kind[r] = "scoped"
    <3>1. \A q \in Units : kind[q] = "scoped" => q = r
      BY <2>1 DEF OwnScope
    <3>2. query = None
      BY <1>0, <3>1 DEF Scoping
    <3>3. saved' = [saved EXCEPT ![r] = None] /\ query' = c
      BY <1>1, <2>1, <3>2
    <3> QED
      BY <1>0, <2>1, <3>1, <3>3 DEF Scoping, ScopeTypeOK
  <2>2. CASE kind[r] # "scoped"
    <3>1. saved' = saved /\ query' = query
      BY <1>1, <2>2
    <3>2. \A q \in Units : kind[q] = "scoped" => pc'[q] = pc[q]
      BY <1>0, <2>2 DEF ScopeTypeOK
    <3>3. query \in Clients => (holder[query] # None => holder'[query] = holder[query])
      BY <1>0 DEF ScopeTypeOK
    <3> QED
      BY <3>1, <3>2, <3>3 DEF Scoping
  <2> QED
    BY <2>1, <2>2
<1>5. Placing'
  <2>1. \A q \in Units : pc'[q] = IF q = r THEN "open" ELSE pc[q]
    BY <1>0 DEF ScopeTypeOK
  <2>2. \A d \in Clients : holder'[d] = IF d = c THEN r ELSE holder[d]
    BY <1>0 DEF ScopeTypeOK
  <2>3. \A q \in Units, n \in 1 .. MaxWrites : <<q, n>> \notin tx[c]
    <3>1. \A q \in Units, n \in 1 .. MaxWrites : <<q, n>> \in tx[c] => holder[c] = q
      BY DEF Placing
    <3> QED
      BY <1>0, <3>1
  <2>4. written[r] = 0
    BY <1>0 DEF Placing
  <2>5. \A q \in Units, n \in 1 .. MaxWrites, d \in Clients :
          <<q, n>> \in tx[d] => holder'[d] = q /\ n <= written[q]
    BY <2>2, <2>3 DEF Placing
  <2>6. \A q \in Units, n \in 1 .. MaxWrites, d \in Clients :
          holder'[d] = q /\ n <= written[q] => <<q, n>> \in tx[d]
    <3>1. \A n \in 1 .. MaxWrites : ~(n <= 0)
      BY ScopeAssumption
    <3> QED
      BY <2>2, <2>4, <3>1 DEF Placing
  <2> QED
    BY <1>t, <1>0, <2>1, <2>5, <2>6 DEF Placing
<1> QED
  BY <1>2, <1>3, <1>4, <1>5

(* A step of r that moves its program counter, and neither its client nor  *)
(* a statement.                                                            *)
LEMMA IdleEnds ==
  ASSUME ScopeIInv, NEW r \in Units, BeginFails(r) \/ Start(r) \/ Finish(r),
         kind' = kind
  PROVE  ScopeIInv'
<1>t. \A q \in Units : Transactional(q)' <=> Transactional(q)
  BY DEF Transactional
<1> USE NoneIsNoClient DEF ScopeIInv
<1>0. /\ pc' \in [Units -> {"idle", "open", "commit", "rollback", "done"}]
      /\ outcome' \in [Units -> {"none", "committed", "failed"}]
      /\ UNCHANGED <<query, saved, holder, tx, begun, wraps, written, committed>>
      /\ \A q \in Units : q # r => pc'[q] = pc[q] /\ outcome'[q] = outcome[q]
  BY DEF BeginFails, Start, Finish, ScopeTypeOK
<1>1. \/ /\ Transactional(r) /\ pc[r] = "idle" /\ pc'[r] = "done" /\ outcome'[r] = "failed"
      \/ /\ ~Transactional(r) /\ pc[r] = "idle" /\ pc'[r] = "open" /\ outcome'[r] = outcome[r]
      \/ /\ ~Transactional(r) /\ pc[r] = "open" /\ pc'[r] = "done" /\ outcome'[r] = "committed"
  BY DEF BeginFails, Start, Finish, ScopeTypeOK
<1>2. \A q \in Units : Busy(q)' <=> Busy(q)
  BY <1>0, <1>1 DEF Busy, Transactional
<1>3. \A q \in Units : kind[q] = "scoped" => (pc'[q] = "open" <=> pc[q] = "open")
  BY <1>0, <1>1 DEF Transactional
<1>4. ScopeTypeOK'
  BY <1>0 DEF ScopeTypeOK
<1>5. Holding'
  <2>1. \A q \in Units : Busy(q)' => \E d \in Clients : holder'[d] = q
    BY <1>0, <1>2 DEF Holding
  <2>2. \A q \in Units, d \in Clients : holder'[d] = q => Busy(q)'
    BY <1>0, <1>2 DEF Holding, ScopeTypeOK
  <2> QED
    BY <1>0, <2>1, <2>2 DEF Holding
<1>6. Scoping'
  BY <1>0, <1>3 DEF Scoping
<1>7. Placing'
  <2>1. \A q \in Units : pc'[q] = "idle" => written[q] = 0
    BY <1>0, <1>1 DEF Placing
  <2>2. \A q \in Units : outcome'[q] = "none" <=> pc'[q] # "done"
    BY <1>0, <1>1 DEF Placing
  <2>3. \A q \in Units, n \in 1 .. MaxWrites :
          <<q, n>> \in committed =>
            n <= written[q] /\ (Transactional(q) => outcome'[q] = "committed")
    <3>1. Transactional(r) => outcome[r] # "committed"
      BY <1>1 DEF Placing
    <3> QED
      BY <1>0, <1>1, <3>1 DEF Placing
  <2>4. \A q \in Units, n \in 1 .. MaxWrites :
          (n <= written[q] /\ (outcome'[q] = "committed" \/ ~Transactional(q)))
            => <<q, n>> \in committed
    BY <1>0, <1>1 DEF Placing
  <2>5. \A q \in Units : ~Transactional(q) => outcome'[q] # "failed"
    BY <1>0, <1>1 DEF Placing
  <2> QED
    BY <1>t, <1>0, <2>1, <2>2, <2>3, <2>4, <2>5 DEF Placing
<1> QED
  BY <1>4, <1>5, <1>6, <1>7

LEMMA WriteKeeps ==
  ASSUME OwnScope, ScopeIInv, NEW r \in Units, Write(r),
         kind' = kind
  PROVE  ScopeIInv'
<1>t. \A q \in Units : Transactional(q)' <=> Transactional(q)
  BY DEF Transactional
<1> USE NoneIsNoClient DEF ScopeIInv
<1> DEFINE c == Target(r)
           k == written[r] + 1
<1>0. /\ pc[r] = "open" /\ written[r] < MaxWrites
      /\ written' = [written EXCEPT ![r] = k]
      /\ UNCHANGED <<pc, query, saved, holder, begun, wraps, outcome>>
      /\ IF c \in begun
         THEN tx' = [tx EXCEPT ![c] = @ \cup {<<r, k>>}] /\ UNCHANGED committed
         ELSE committed' = committed \cup {<<r, k>>} /\ UNCHANGED tx
  BY DEF Write
<1>1. /\ Transactional(r) => c \in begun /\ holder[c] = r
      /\ ~Transactional(r) => c \notin begun
  BY <1>0, TargetIsOwn
<1>2. written[r] \in 0 .. MaxWrites
  BY DEF ScopeTypeOK
<1>3. k \in 1 .. MaxWrites /\ <<r, k>> \in Statements
  <2>1. k \in 1 .. MaxWrites
    BY <1>0, <1>2, ScopeAssumption
  <2> QED
    BY <2>1 DEF Statements
<1> HIDE DEF c
<1>4. \A q \in Units : written'[q] = IF q = r THEN k ELSE written[q]
  BY <1>0 DEF ScopeTypeOK
<1>5. \A n \in 1 .. MaxWrites : n <= k <=> (n <= written[r] \/ n = k)
  BY <1>2, ScopeAssumption
<1> HIDE DEF k
<1>6. ScopeTypeOK'
  <2>1. begun \subseteq Clients /\ tx \in [Clients -> SUBSET Statements]
    BY DEF ScopeTypeOK
  <2>2. tx' \in [Clients -> SUBSET Statements] /\ committed' \subseteq Statements
    BY <1>0, <1>3, <2>1 DEF ScopeTypeOK
  <2>3. written' \in [Units -> 0 .. MaxWrites]
    <3>1. k \in 0 .. MaxWrites
      BY <1>3
    <3> QED
      BY <1>0, <3>1 DEF ScopeTypeOK
  <2> QED
    BY <1>0, <2>2, <2>3 DEF ScopeTypeOK
<1>7. Holding' /\ Scoping'
  <2>1. \A q \in Units : Busy(q)' <=> Busy(q)
    BY <1>t, <1>0 DEF Busy
  <2>2. Holding'
    BY <1>0, <2>1 DEF Holding
  <2>3. Scoping'
    BY <1>0 DEF Scoping
  <2> QED
    BY <2>2, <2>3
<1>8. Placing'
  <2>1. \A q \in Units : pc'[q] = "idle" => written'[q] = 0
    BY <1>0, <1>4 DEF Placing
  <2>2. outcome[r] = "none"
    BY <1>0 DEF Placing
  <2>3. CASE Transactional(r)
    <3>1. /\ committed' = committed /\ c \in Clients
          /\ \A d \in Clients : tx'[d] = IF d = c THEN tx[c] \cup {<<r, k>>} ELSE tx[d]
      BY <1>0, <1>1, <2>3 DEF ScopeTypeOK
    <3>2. \A q \in Units, n \in 1 .. MaxWrites, d \in Clients :
            <<q, n>> \in tx'[d] <=> (<<q, n>> \in tx[d] \/ (q = r /\ n = k /\ d = c))
      BY <3>1
    <3>3. \A d \in Clients : holder[d] = r => d = c
      BY <1>1, <2>3, <3>1 DEF Holding
    <3>4. \A q \in Units, n \in 1 .. MaxWrites :
            n <= written'[q] <=> (n <= written[q] \/ (q = r /\ n = k))
      BY <1>4, <1>5
    <3>5. \A q \in Units, n \in 1 .. MaxWrites, d \in Clients :
            <<q, n>> \in tx'[d] => holder[d] = q /\ n <= written'[q]
      BY <1>1, <2>3, <3>2, <3>4 DEF Placing
    <3>6. \A q \in Units, n \in 1 .. MaxWrites, d \in Clients :
            holder[d] = q /\ n <= written'[q] => <<q, n>> \in tx'[d]
      BY <3>2, <3>3, <3>4 DEF Placing
    <3>7. \A q \in Units, n \in 1 .. MaxWrites :
            <<q, n>> \in committed =>
              n <= written'[q] /\ (Transactional(q) => outcome[q] = "committed")
      BY <3>4 DEF Placing
    <3>8. \A q \in Units, n \in 1 .. MaxWrites :
            (n <= written'[q] /\ (outcome[q] = "committed" \/ ~Transactional(q)))
              => <<q, n>> \in committed
      BY <2>2, <2>3, <3>4 DEF Placing
    <3> QED
      BY <1>t, <1>0, <2>1, <3>1, <3>5, <3>6, <3>7, <3>8 DEF Placing
  <2>4. CASE ~Transactional(r)
    <3>1. tx' = tx /\ committed' = committed \cup {<<r, k>>}
      BY <1>0, <1>1, <2>4
    <3>2. \A d \in Clients : holder[d] # r
      BY <2>4 DEF Holding, Busy
    <3>3. \A q \in Units, n \in 1 .. MaxWrites :
            n <= written'[q] <=> (n <= written[q] \/ (q = r /\ n = k))
      BY <1>4, <1>5
    <3>4. \A q \in Units, n \in 1 .. MaxWrites :
            <<q, n>> \in committed' <=> (<<q, n>> \in committed \/ (q = r /\ n = k))
      BY <3>1
    <3>5. \A q \in Units, n \in 1 .. MaxWrites, d \in Clients :
            <<q, n>> \in tx[d] => holder[d] = q /\ n <= written'[q]
      BY <3>3 DEF Placing
    <3>6. \A q \in Units, n \in 1 .. MaxWrites, d \in Clients :
            holder[d] = q /\ n <= written'[q] => <<q, n>> \in tx[d]
      BY <3>2, <3>3 DEF Placing
    <3>7. \A q \in Units, n \in 1 .. MaxWrites :
            <<q, n>> \in committed' =>
              n <= written'[q] /\ (Transactional(q) => outcome[q] = "committed")
      BY <2>4, <3>3, <3>4 DEF Placing
    <3>8. \A q \in Units, n \in 1 .. MaxWrites :
            (n <= written'[q] /\ (outcome[q] = "committed" \/ ~Transactional(q)))
              => <<q, n>> \in committed'
      BY <3>3, <3>4 DEF Placing
    <3> QED
      BY <1>t, <1>0, <2>1, <3>1, <3>5, <3>6, <3>7, <3>8 DEF Placing
  <2> QED
    BY <2>3, <2>4
<1> QED
  BY <1>6, <1>7, <1>8

LEMMA LeaveKeeps ==
  ASSUME OwnScope, ScopeIInv, NEW r \in Units, Leave(r),
         kind' = kind
  PROVE  ScopeIInv'
<1>t. \A q \in Units : Transactional(q)' <=> Transactional(q)
  BY DEF Transactional
<1> USE NoneIsNoClient DEF ScopeIInv
<1>0. /\ pc[r] = "open" /\ Transactional(r)
      /\ query' = IF kind[r] = "scoped" THEN saved[r] ELSE query
      /\ UNCHANGED <<saved, holder, tx, begun, wraps, written, committed, outcome>>
  BY DEF Leave
<1>1. /\ pc' \in [Units -> {"idle", "open", "commit", "rollback", "done"}]
      /\ pc'[r] \in {"commit", "rollback"}
      /\ \A q \in Units : q # r => pc'[q] = pc[q]
  BY DEF Leave, ScopeTypeOK
<1>2. ScopeTypeOK'
  BY <1>0, <1>1 DEF ScopeTypeOK
<1>3. Holding'
  <2>1. \A q \in Units : Busy(q)' <=> Busy(q)
    BY <1>t, <1>0, <1>1 DEF Busy
  <2> QED
    BY <1>0, <2>1 DEF Holding
<1>4. Scoping'
  <2>1. CASE kind[r] = "scoped"
    <3>1. \A q \in Units : kind[q] = "scoped" => q = r
      BY <2>1 DEF OwnScope
    <3>2. query' = None
      BY <1>0, <2>1 DEF Scoping
    <3> QED
      BY <1>0, <1>1, <3>1, <3>2 DEF Scoping
  <2>2. CASE kind[r] # "scoped"
    BY <1>0, <1>1, <2>2 DEF Scoping
  <2> QED
    BY <2>1, <2>2
<1>5. Placing'
  <2>1. \A q \in Units : pc'[q] = "idle" => written[q] = 0
    BY <1>1 DEF Placing
  <2>2. \A q \in Units : outcome[q] = "none" <=> pc'[q] # "done"
    BY <1>0, <1>1 DEF Placing
  <2> QED
    BY <1>t, <1>0, <2>1, <2>2 DEF Placing
<1> QED
  BY <1>2, <1>3, <1>4, <1>5

LEMMA EndKeeps ==
  ASSUME ScopeIInv, NEW r \in Units, NEW c \in Clients, Commit(r, c) \/ Rollback(r, c),
         kind' = kind
  PROVE  ScopeIInv'
<1>t. \A q \in Units : Transactional(q)' <=> Transactional(q)
  BY DEF Transactional
<1> USE NoneIsNoClient DEF ScopeIInv
<1>0. /\ holder[c] = r /\ pc[r] \in {"commit", "rollback"}
      /\ pc' = [pc EXCEPT ![r] = "done"] /\ holder' = [holder EXCEPT ![c] = None]
      /\ tx' = [tx EXCEPT ![c] = {}] /\ begun' = begun \ {c}
      /\ UNCHANGED <<query, saved, wraps, written>>
  BY DEF Commit, Rollback, Ended
<1>1. \/ committed' = committed \cup tx[c] /\ outcome' = [outcome EXCEPT ![r] = "committed"]
      \/ committed' = committed /\ outcome' = [outcome EXCEPT ![r] = "failed"]
  BY DEF Commit, Rollback
<1>2. Transactional(r)
  BY <1>0 DEF Holding, Busy
<1>3. ScopeTypeOK'
  <2>1. outcome' \in [Units -> {"none", "committed", "failed"}] /\ committed' \subseteq Statements
    BY <1>1 DEF ScopeTypeOK
  <2>2. tx' \in [Clients -> SUBSET Statements]
    BY <1>0 DEF ScopeTypeOK
  <2> QED
    BY <1>0, <2>1, <2>2 DEF ScopeTypeOK
<1>4. \A d \in Clients : /\ holder'[d] = IF d = c THEN None ELSE holder[d]
                         /\ tx'[d] = IF d = c THEN {} ELSE tx[d]
  BY <1>0 DEF ScopeTypeOK
<1>5. \A q \in Units : pc'[q] = IF q = r THEN "done" ELSE pc[q]
  BY <1>0 DEF ScopeTypeOK
<1>6. Holding'
  <2>1. \A q \in Units : Busy(q)' <=> (Busy(q) /\ q # r)
    BY <1>t, <1>5 DEF Busy
  <2>2. \A q \in Units : Busy(q)' => \E d \in Clients : holder'[d] = q
    BY <1>0, <1>4, <2>1 DEF Holding
  <2>3. \A q \in Units, d \in Clients : holder'[d] = q => Busy(q)'
    BY <1>0, <1>4, <2>1 DEF Holding
  <2>4. \A d, e \in Clients : (holder'[d] # None /\ holder'[d] = holder'[e]) => d = e
    BY <1>4 DEF Holding
  <2>5. \A d \in Clients : d \in begun' <=> holder'[d] # None
    BY <1>0, <1>4 DEF Holding
  <2> QED
    BY <2>2, <2>3, <2>4, <2>5 DEF Holding
<1>7. Scoping'
  <2>1. \A q \in Units : pc'[q] = "open" <=> pc[q] = "open"
    BY <1>0, <1>5
  <2>2. \A q \in Units : pc[q] = "open" => q # r
    BY <1>0
  <2>3. \A q \in Units : (kind[q] = "scoped" /\ pc[q] = "open") =>
                              query \in Clients /\ holder'[query] = q
    BY <1>0, <1>4, <2>2 DEF Scoping
  <2> QED
    BY <1>0, <2>1, <2>3 DEF Scoping
<1>8. Placing'
  <2>1. \A q \in Units : q # r => outcome'[q] = outcome[q]
    BY <1>1 DEF ScopeTypeOK
  <2>2. outcome[r] = "none" /\ outcome'[r] # "none"
    BY <1>0, <1>1 DEF Placing, ScopeTypeOK
  <2>3. \A q \in Units : /\ pc'[q] = "idle" => written[q] = 0
                         /\ outcome'[q] = "none" <=> pc'[q] # "done"
    BY <1>5, <2>1, <2>2 DEF Placing
  <2>4. \A q \in Units, n \in 1 .. MaxWrites :
          <<q, n>> \in tx[c] <=> (q = r /\ n <= written[r])
    <3> TAKE q \in Units, n \in 1 .. MaxWrites
    <3>1. <<q, n>> \in tx[c] => holder[c] = q /\ n <= written[q]
      BY DEF Placing
    <3>2. holder[c] = q /\ n <= written[q] => <<q, n>> \in tx[c]
      BY DEF Placing
    <3> QED
      BY <1>0, <3>1, <3>2
  <2>5. \A n \in 1 .. MaxWrites : <<r, n>> \notin committed
    BY <1>2, <2>2 DEF Placing
  <2>6. \A q \in Units, n \in 1 .. MaxWrites, d \in Clients :
          <<q, n>> \in tx'[d] => holder'[d] = q /\ n <= written[q]
    BY <1>4 DEF Placing
  <2>7. \A q \in Units, n \in 1 .. MaxWrites, d \in Clients :
          holder'[d] = q /\ n <= written[q] => <<q, n>> \in tx'[d]
    BY <1>4 DEF Placing
  <2>8. \A q \in Units, n \in 1 .. MaxWrites :
          <<q, n>> \in committed' =>
            n <= written[q] /\ (Transactional(q) => outcome'[q] = "committed")
    <3>1. CASE committed' = committed \cup tx[c] /\ outcome'[r] = "committed"
      BY <2>1, <2>4, <3>1 DEF Placing
    <3>2. CASE committed' = committed
      BY <2>1, <2>5, <3>2 DEF Placing
    <3> QED
      BY <1>1, <3>1, <3>2 DEF ScopeTypeOK
  <2>9. \A q \in Units, n \in 1 .. MaxWrites :
          (n <= written[q] /\ (outcome'[q] = "committed" \/ ~Transactional(q)))
            => <<q, n>> \in committed'
    <3>1. CASE committed' = committed \cup tx[c]
      BY <1>2, <2>1, <2>4, <3>1 DEF Placing
    <3>2. CASE committed' = committed /\ outcome'[r] = "failed"
      BY <1>2, <2>1, <3>2 DEF Placing
    <3> QED
      BY <1>1, <3>1, <3>2 DEF ScopeTypeOK
  <2>10. \A q \in Units : ~Transactional(q) => outcome'[q] # "failed"
    BY <1>2, <2>1 DEF Placing
  <2> QED
    BY <1>t, <1>0, <2>3, <2>6, <2>7, <2>8, <2>9, <2>10 DEF Placing
<1> QED
  BY <1>3, <1>6, <1>7, <1>8

LEMMA ScopeStepKeeps ==
  ASSUME NoSharedScope, ScopeIInv, [ScopeNext]_scopeVars
  PROVE  ScopeIInv'
<1>0. OwnScope
  BY DEF ScopeIInv, ScopeTypeOK, NoSharedScope, OwnScope
<1>1. CASE UNCHANGED scopeVars
  BY <1>1 DEF scopeVars, ScopeIInv, ScopeTypeOK, Holding, Busy, Scoping, Placing, Transactional
<1>2. CASE ScopeNext
  <2>1. PICK r \in Units : Step(r) /\ kind' = kind
    BY <1>2 DEF ScopeNext
  <2> QED
    BY <1>0, <2>1, BeginKeeps, IdleEnds, WriteKeeps, LeaveKeeps, EndKeeps DEF Step
<1> QED
  BY <1>1, <1>2

THEOREM ScopeInvariance == ASSUME NoSharedScope PROVE ScopeSpec => []ScopeIInv
BY ScopeInitIInv, ScopeStepKeeps, PTL DEF ScopeSpec

-----------------------------------------------------------------------------
(* Every unit of work is all or nothing, for any number of requests and    *)
(* clients, when no scope shares the process with another user of          *)
(* connectionPool.query.                                                   *)
THEOREM AtomicHolds == ASSUME NoSharedScope PROVE ScopeSpec => []Atomic
<1>1. ScopeIInv => Atomic
  <2> SUFFICES ASSUME ScopeIInv, NEW r \in Units
               PROVE  /\ outcome[r] = "committed" => Of(r) \subseteq committed
                      /\ outcome[r] = "failed" => Of(r) \cap committed = {}
    BY DEF Atomic
  <2>1. \A s \in Of(r) : \E n \in 1 .. MaxWrites : s = <<r, n>> /\ n <= written[r]
    BY DEF Of, Statements
  <2>2. outcome[r] = "failed" => Transactional(r)
    BY DEF ScopeIInv, Placing
  <2> QED
    BY <2>1, <2>2 DEF ScopeIInv, Placing
<1> QED
  BY <1>1, ScopeInvariance, PTL

(* Statements stay invisible until their transaction commits, and with the *)
(* client their own request holds.                                         *)
THEOREM IsolatedHolds == ASSUME NoSharedScope PROVE ScopeSpec => []Isolated
<1>1. ScopeIInv => Isolated
  <2> SUFFICES ASSUME ScopeIInv PROVE Isolated
    OBVIOUS
  <2>1. ASSUME NEW r \in Units, Transactional(r), outcome[r] = "none"
        PROVE  Of(r) \cap committed = {}
    <3>1. \A s \in Of(r) : \E n \in 1 .. MaxWrites : s = <<r, n>>
      BY DEF Of, Statements
    <3> QED
      BY <2>1, <3>1 DEF ScopeIInv, Placing
  <2>2. ASSUME NEW c \in Clients, NEW s \in tx[c]
        PROVE  holder[c] = s[1]
    <3>1. s \in Statements
      BY DEF ScopeIInv, ScopeTypeOK
    <3>2. PICK q \in Units, n \in 1 .. MaxWrites : s = <<q, n>>
      BY <3>1 DEF Statements
    <3> QED
      BY <3>2 DEF ScopeIInv, Placing
  <2> QED
    BY <2>1, <2>2 DEF Isolated
<1> QED
  BY <1>1, ScopeInvariance, PTL

(* With no scope open, connectionPool.query is the pool's own.             *)
THEOREM QueryRestoredHolds == ASSUME NoSharedScope PROVE ScopeSpec => []QueryRestored
<1>1. ScopeIInv => QueryRestored
  BY DEF ScopeIInv, Scoping, QueryRestored
<1> QED
  BY <1>1, ScopeInvariance, PTL

-----------------------------------------------------------------------------
(***************************************************************************)
(* For every table of programs, operations that fail change nothing unless *)
(* they are listed: what Records.tla demands of each path (ProgramsAssump- *)
(* tion, a fact about the text of one operation) is enough whatever other  *)
(* requests do to the tables between its steps.                            *)
(***************************************************************************)
\* Where a running operation stands: nothing that ends it is behind it, and
\* if it has changed a table, a step that changes tables is behind it.
Underway(t) ==
  /\ t.at \in 1..Len(t.path) /\ Len(t.path) \in Nat
  /\ {"failed", "refused"} \subseteq t.excused \/ Whole(t.path)
  /\ "rejected" \in t.excused \/ OneStatement(t.path)
  /\ \A i \in 1..Len(t.path) : SparesEnded(t.path[i])
  /\ \A k \in 1..(t.at - 1) : ~Fatal(t.path[k])
  /\ t.changed => \E i \in 1..(t.at - 1) : Changes(t.path[i])

Settled(t) == t.st \in {"failed", "refused", "rejected"} /\ t.changed => t.st \in t.excused

\* The ways a step may end its operation.
EndingsOf(s) ==
  (IF MayStop(s) THEN {"failed", "refused"} ELSE {})
  \cup (IF MayBeRejected(s) THEN {"rejected"} ELSE {})

Sound(t) == IF t.st = "running" THEN Underway(t) ELSE Settled(t)

RecordsIInv ==
  /\ focus \in DOMAIN Programs
  /\ task = [c \in Callers |-> task[c]]
  /\ \A c \in Callers : Sound(task[c])

-----------------------------------------------------------------------------
\* A step that can end the operation comes before any change it makes.
LEMMA NothingBehind ==
  ASSUME RecordsIInv, NEW c \in Callers, Running(c), NEW how \in EndingsOf(Now(c)),
         task[c].changed
  PROVE  how \in task[c].excused
<1> DEFINE t == task[c]
<1>1. Underway(t)
  BY DEF RecordsIInv, Sound, Running
<1>2. PICK i \in 1..(t.at - 1) : Changes(t.path[i])
  BY <1>1 DEF Underway
<1>3. i \in 1..Len(t.path) /\ t.at \in 1..Len(t.path) /\ i < t.at
  BY <1>1, <1>2 DEF Underway
<1>4. ASSUME Dead(t.path, i) PROVE FALSE
  <2>1. PICK k \in 1..(i - 1) : Fatal(t.path[k])
    BY <1>4 DEF Dead
  <2>2. k \in 1..(t.at - 1)
    BY <1>1, <1>2, <2>1 DEF Underway
  <2> QED
    BY <1>1, <2>1, <2>2 DEF Underway
<1>5. ASSUME Whole(t.path), MayStop(Now(c)) PROVE FALSE
  BY <1>2, <1>3, <1>4, <1>5 DEF Whole, Now
<1>6. ASSUME OneStatement(t.path), MayBeRejected(Now(c)) PROVE FALSE
  BY <1>2, <1>3, <1>4, <1>6 DEF OneStatement, Now
<1>7. CASE how \in {"failed", "refused"} /\ MayStop(Now(c))
  BY <1>1, <1>5, <1>7 DEF Underway
<1>8. CASE how = "rejected" /\ MayBeRejected(Now(c))
  BY <1>1, <1>6, <1>8 DEF Underway
<1> QED
  BY <1>7, <1>8 DEF EndingsOf

\* The other requests are where they were.
LEMMA OthersKept ==
  ASSUME RecordsIInv, NEW c \in Callers, NEW then, task' = [task EXCEPT ![c] = then],
         focus' = focus, Sound(then)
  PROVE  RecordsIInv'
<1>1. task' = [d \in Callers |-> IF d = c THEN then ELSE task[d]]
  BY DEF RecordsIInv
<1>2. \A d \in Callers : task'[d] = IF d = c THEN then ELSE task[d]
  BY <1>1
<1>3. \A d \in Callers : Sound(task'[d])
  BY <1>2 DEF RecordsIInv
<1>4. task' = [d \in Callers |-> task'[d]]
  BY <1>1
<1>5. \A d \in Callers : Sound(task[d])' <=> Sound(task'[d])
  BY DEF Sound, Underway, Settled, Whole, OneStatement, Dead, Changes, MayStop, MayBeRejected,
         Fatal, SparesEnded, EndedOf
<1> QED
  BY <1>3, <1>4, <1>5 DEF RecordsIInv

\* An operation may end where it can be stopped, as done after its last
\* step, or go on.
LEMMA EndsKeeps ==
  ASSUME RecordsIInv, NEW c \in Callers, Running(c), NEW how \in EndingsOf(Now(c)),
         Ends(c, how), focus' = focus
  PROVE  RecordsIInv'
<1>1. how \in {"failed", "refused", "rejected"}
  BY DEF EndingsOf
<1>2. task[c].changed => how \in task[c].excused
  BY NothingBehind
<1>3. Sound(Over(c, how, task[c].changed))
  BY <1>1, <1>2 DEF Over, Task, Sound, Settled
<1> QED
  BY <1>3, OthersKept DEF Ends

LEMMA IdleSound == Sound(Idle)
<1>1. Idle.st = "idle"
  BY DEF Idle, Task
<1> QED
  BY <1>1 DEF Sound, Settled

LEMMA GoesKeeps ==
  ASSUME RecordsIInv, NEW c \in Callers, Running(c), ~Fatal(Now(c)), NEW seen, NEW changed,
         changed => task[c].changed \/ Changes(Now(c)),
         Proceeds(c, seen, changed), focus' = focus
  PROVE  RecordsIInv'
<1> DEFINE t == task[c]
<1>1. Underway(t)
  BY DEF RecordsIInv, Sound, Running
<1>2. CASE t.at = Len(t.path)
  <2>1. Sound(Idle)
    BY IdleSound
  <2> QED
    BY <1>2, <2>1, OthersKept DEF Proceeds, Passed
<1>3. CASE t.at # Len(t.path)
  <2> DEFINE then == Task("running", t.excused, t.path, t.at + 1, seen, changed)
  <2>1. /\ then.st = "running" /\ then.excused = t.excused /\ then.path = t.path
        /\ then.at = t.at + 1 /\ then.changed = changed
    BY DEF Task
  <2> HIDE DEF then
  <2>2. then.at \in 1..Len(then.path) /\ Len(then.path) \in Nat
    BY <1>1, <1>3, <2>1 DEF Underway
  <2>3. \A k \in 1..(then.at - 1) : k \in 1..(t.at - 1) \/ k = t.at
    BY <1>1, <2>1 DEF Underway
  <2>4. t.at \in 1..(then.at - 1) /\ \A k \in 1..(t.at - 1) : k \in 1..(then.at - 1)
    BY <1>1, <2>1 DEF Underway
  <2>5. \A k \in 1..(then.at - 1) : ~Fatal(then.path[k])
    BY <1>1, <2>1, <2>3 DEF Underway, Now
  <2>6. changed => \E i \in 1..(then.at - 1) : Changes(then.path[i])
    BY <1>1, <2>1, <2>4 DEF Underway, Now
  <2>7. /\ {"failed", "refused"} \subseteq then.excused \/ Whole(then.path)
        /\ "rejected" \in then.excused \/ OneStatement(then.path)
        /\ \A i \in 1..Len(then.path) : SparesEnded(then.path[i])
    BY <1>1, <2>1 DEF Underway
  <2>8. Sound(then)
    BY <2>1, <2>2, <2>5, <2>6, <2>7 DEF Sound, Underway
  <2> QED
    BY <1>3, <2>8, OthersKept DEF Proceeds, Passed, then
<1> QED
  BY <1>2, <1>3

-----------------------------------------------------------------------------
LEMMA RecordsInitIInv == RecordsInit => RecordsIInv
<1> SUFFICES ASSUME RecordsInit PROVE RecordsIInv
  OBVIOUS
<1>1. \A c \in Callers : task[c] = Idle
  BY DEF RecordsInit
<1> QED
  BY <1>1, IdleSound DEF RecordsInit, RecordsIInv

\* What the assumptions say of the path an operation takes.
LEMMA StartsKeeps ==
  ASSUME RecordsIInv, NEW c \in Callers, NEW op \in DOMAIN Programs[focus],
         NEW path \in Programs[focus][op], Starts(c, op, path)
  PROVE  RecordsIInv'
<1> DEFINE then == Task("running", Excused(focus, op), path, 1, 0, FALSE)
<1>0. focus \in DOMAIN Programs
  BY DEF RecordsIInv
<1>1. /\ Len(path) \in Nat \ {0}
      /\ op \in Named(Halfway, focus) \/ Whole(path)
      /\ op \in Named(Halfway, focus) \cup Named(Piecemeal, focus) \/ OneStatement(path)
  BY <1>0, ProgramsAssumption
<1>8. \A i \in 1..Len(path) : SparesEnded(path[i])
  BY <1>0, EndingsAssumption
<1>2. /\ then.st = "running" /\ then.path = path /\ then.at = 1 /\ then.changed = FALSE
      /\ then.excused = Excused(focus, op)
  BY DEF Task
<1>9. /\ {"failed", "refused"} \subseteq Excused(focus, op) \/ Whole(path)
      /\ "rejected" \in Excused(focus, op) \/ OneStatement(path)
  BY <1>1 DEF Excused
<1>3. task' = [task EXCEPT ![c] = then] /\ focus' = focus
  BY DEF Starts
<1> HIDE DEF then
<1>4. then.at \in 1..Len(then.path) /\ Len(then.path) \in Nat
  BY <1>1, <1>2
<1>5. 1..(then.at - 1) = {}
  BY <1>2
<1>6. Underway(then)
  BY <1>1, <1>2, <1>4, <1>5, <1>8, <1>9 DEF Underway
<1>7. Sound(then)
  BY <1>2, <1>6 DEF Sound
<1> QED
  BY <1>3, <1>7, OthersKept

LEMMA ReadsKeeps == ASSUME RecordsIInv, NEW c \in Callers, Reads(c) PROVE RecordsIInv'
<1> DEFINE s == Now(c)
           broken == s.t \in Hooked /\ record[s.t] # "none"
<1>0. Running(c) /\ s.do \in {"load", "look", "found", "absent"} /\ focus' = focus
  BY DEF Reads
<1>1. CASE broken
  BY <1>0, <1>1, EndsKeeps DEF Reads, MayStop, EndingsOf
<1>2. CASE ~broken /\ Ends(c, "refused") /\ s.do \in {"load", "found", "absent"}
  BY <1>0, <1>2, EndsKeeps DEF MayStop, EndingsOf
<1>3. CASE Proceeds(c, version[s.t], task[c].changed) /\ (s.do \in {"load", "found"} => Accepts(s))
  <2>1. ~Fatal(s)
    BY <1>0, <1>3 DEF Fatal, Accepts, Whatever
  <2> QED BY <1>0, <1>3, <2>1, GoesKeeps
<1> QED
  BY <1>1, <1>2, <1>3 DEF Reads

LEMMA DecidesKeeps == ASSUME RecordsIInv, NEW c \in Callers, Decides(c) PROVE RecordsIInv'
<1>0. Running(c) /\ Now(c).do \in {"check", "report", "throws"} /\ focus' = focus
  BY DEF Decides
<1>1. CASE Now(c).do # "throws" /\ Proceeds(c, task[c].seen, task[c].changed)
  BY <1>0, <1>1, GoesKeeps DEF Fatal
<1>2. CASE Now(c).do = "check" /\ Ends(c, "refused")
  BY <1>0, <1>2, EndsKeeps DEF MayStop, EndingsOf
<1>3. CASE Now(c).do = "throws" /\ Ends(c, "failed")
  BY <1>0, <1>3, EndsKeeps DEF MayStop, EndingsOf
<1> QED
  BY <1>1, <1>2, <1>3 DEF Decides

LEMMA RejectsKeeps == ASSUME RecordsIInv, NEW c \in Callers, Rejects(c) PROVE RecordsIInv'
<1>0. Running(c) /\ focus' = focus
  BY DEF Rejects
<1>1. CASE MayBeRejected(Now(c)) /\ Ends(c, "rejected")
  BY <1>0, <1>1, EndsKeeps DEF EndingsOf
<1>2. CASE Now(c).do = "note" /\ Proceeds(c, task[c].seen, task[c].changed)
  BY <1>0, <1>2, GoesKeeps DEF Fatal
<1> QED
  BY <1>1, <1>2 DEF Rejects

LEMMA InsertsKeeps == ASSUME RecordsIInv, NEW c \in Callers, Inserts(c) PROVE RecordsIInv'
<1>0. Running(c) /\ Now(c).do \in {"insert", "note"} /\ focus' = focus
  BY DEF Inserts
<1>1. CASE Now(c).do = "insert" /\ Now(c).t \in Hooked
  BY <1>0, <1>1, EndsKeeps DEF Inserts, MayStop, EndingsOf
<1>2. CASE ~(Now(c).do = "insert" /\ Now(c).t \in Hooked)
  BY <1>0, <1>2, GoesKeeps DEF Inserts, Fatal, Changes
<1> QED
  BY <1>1, <1>2

LEMMA UpdatesKeeps == ASSUME RecordsIInv, NEW c \in Callers, Updates(c) PROVE RecordsIInv'
  BY EndsKeeps DEF Updates, MayStop, EndingsOf

LEMMA WritesKeeps == ASSUME RecordsIInv, NEW c \in Callers, Writes(c) PROVE RecordsIInv'
<1>0. Running(c) /\ Now(c).do \in {"save", "raw"} /\ focus' = focus
  BY DEF Writes
<1>1. CASE Now(c).do = "save" /\ Ends(c, "failed")
  BY <1>0, <1>1, EndsKeeps DEF MayStop, EndingsOf
<1>2. ASSUME NEW hits, Proceeds(c, task[c].seen, task[c].changed \/ hits) PROVE RecordsIInv'
  BY <1>0, <1>2, GoesKeeps DEF Fatal, Changes
<1> QED
  BY <1>1, <1>2 DEF Writes

LEMMA ErasesKeeps == ASSUME RecordsIInv, NEW c \in Callers, Erases(c) PROVE RecordsIInv'
  BY GoesKeeps DEF Erases, Fatal, Changes

LEMMA RecordsStepKeeps == RecordsIInv /\ [RecordsNext]_recordVars => RecordsIInv'
<1> SUFFICES ASSUME RecordsIInv, [RecordsNext]_recordVars PROVE RecordsIInv'
  OBVIOUS
<1>1. CASE RecordsNext
  <2> PICK c \in Callers :
        \/ \E op \in DOMAIN Programs[focus] : \E path \in Programs[focus][op] :
             Starts(c, op, path)
        \/ Reads(c) \/ Decides(c) \/ Rejects(c) \/ Inserts(c) \/ Updates(c) \/ Writes(c)
        \/ Erases(c)
    BY <1>1 DEF RecordsNext
  <2> QED
    BY StartsKeeps, ReadsKeeps, DecidesKeeps, RejectsKeeps, InsertsKeeps, UpdatesKeeps, WritesKeeps,
       ErasesKeeps
<1>2. CASE UNCHANGED recordVars
  <2>1. task' = task /\ focus' = focus
    BY <1>2 DEF recordVars
  <2>2. \A d \in Callers : Sound(task[d])' <=> Sound(task[d])
    BY <2>1 DEF Sound, Underway, Settled, Whole, OneStatement, Dead, Changes, MayStop, MayBeRejected,
         Fatal, SparesEnded, EndedOf
  <2> QED
    BY <2>1, <2>2 DEF RecordsIInv
<1> QED
  BY <1>1, <1>2

(* Whatever the operations of the models are, as long as each path keeps   *)
(* ProgramsAssumption, whatever statements the database rejects and        *)
(* whatever requests interleave, an operation that ends early has left no  *)
(* record changed, except where it is listed for the way it ended.         *)
THEOREM FailedOperationsChangeNothing == RecordsSpec => []FailuresChangeNothing
<1>1. RecordsIInv => FailuresChangeNothing
  <2> SUFFICES ASSUME RecordsIInv, NEW c \in Callers,
                      task[c].st \in {"failed", "refused", "rejected"}, task[c].changed
               PROVE  task[c].st \in task[c].excused
    BY DEF FailuresChangeNothing
  <2> QED
    BY DEF RecordsIInv, Sound, Settled
<1> QED
  BY RecordsInitIInv, RecordsStepKeeps, <1>1, PTL DEF RecordsSpec

\* A record whose status is final, and what a step may make of it.
StaysEnded(t) == record[t] \in EndedOf(t) => record'[t] \in {record[t], "none"}

LEMMA EndedIsThere == \A t : record[t] \in EndedOf(t) => record[t] # "none"
BY EndingsAssumption DEF EndedOf

LEMMA WritesSpare ==
  ASSUME RecordsIInv, NEW c \in Callers, Writes(c), NEW t \in DOMAIN record
  PROVE  StaysEnded(t)
<1> DEFINE s == Now(c)
<1>1. s.do \in {"save", "raw"} /\ Running(c)
  BY DEF Writes
<1>2. SparesEnded(s)
  BY <1>1 DEF RecordsIInv, Sound, Underway, Running, Now
<1>3. record' = record \/ (record' = Rewritten(s.t, s.to) /\ (s.do = "raw" => Accepts(s)))
  BY <1>1 DEF Writes
<1> HIDE DEF s
<1>4. CASE record' = record \/ t # s.t \/ s.to = "same"
  BY <1>3, <1>4 DEF StaysEnded, Rewritten
<1>5. CASE t = s.t /\ s.to # "same" /\ record' = Rewritten(s.t, s.to)
           /\ (s.do = "raw" => Accepts(s))
  <2>1. record'[t] = s.to
    BY <1>5 DEF Rewritten
  <2>2. ASSUME record[t] \in EndedOf(t) PROVE record[t] = s.to
    <3>1. CASE EndedOf(t) \subseteq {s.to}
      BY <2>2, <3>1
    <3>2. CASE s.do = "raw" /\ s.ok # Whatever /\ s.ok \cap EndedOf(t) \subseteq {s.to}
      <4>1. record[t] \in s.ok
        BY <1>5, <3>2 DEF Accepts
      <4> QED BY <2>2, <3>2, <4>1
    <3> QED BY <1>1, <1>2, <1>5, <3>1, <3>2 DEF SparesEnded
  <2> QED BY <2>1, <2>2 DEF StaysEnded
<1> QED BY <1>3, <1>4, <1>5

LEMMA StepsSpare ==
  ASSUME RecordsIInv, RecordsNext, NEW t \in DOMAIN record
  PROVE  StaysEnded(t)
<1>1. PICK c \in Callers :
        \/ \E op \in DOMAIN Programs[focus] : \E path \in Programs[focus][op] :
             Starts(c, op, path)
        \/ Reads(c) \/ Decides(c) \/ Rejects(c) \/ Inserts(c) \/ Updates(c) \/ Writes(c)
        \/ Erases(c)
  BY DEF RecordsNext
<1>2. ASSUME record' = record PROVE StaysEnded(t)
  BY <1>2 DEF StaysEnded
<1>3. CASE Inserts(c)
  <2> DEFINE s == Now(c)
  <2>1. record' = record \/ record' = [record EXCEPT ![s.t] = IF record[s.t] = "none" THEN s.to ELSE record[s.t]]
    BY <1>3 DEF Inserts
  <2> HIDE DEF s
  <2>2. record[t] # "none" => record'[t] = record[t]
    BY <2>1
  <2> QED BY <2>2, EndedIsThere DEF StaysEnded
<1>4. CASE Erases(c)
  <2> DEFINE s == Now(c)
  <2>1. record' = record \/ record' = [record EXCEPT ![s.t] = "none"]
    BY <1>4 DEF Erases
  <2> HIDE DEF s
  <2> QED BY <2>1 DEF StaysEnded
<1>5. CASE \/ \E op \in DOMAIN Programs[focus] : \E path \in Programs[focus][op] :
                Starts(c, op, path)
           \/ Reads(c) \/ Decides(c) \/ Rejects(c) \/ Updates(c)
  BY <1>2, <1>5 DEF Starts, Reads, Decides, Rejects, Updates
<1> QED BY <1>1, <1>3, <1>4, <1>5, WritesSpare

(* What ended stays ended, whatever operations interleave over the tables: *)
(* it is enough that every UPDATE of a status (base-model.js:690 and the   *)
(* statements of the models' own) names in its WHERE no final status or    *)
(* sets the one there is, which EndingsAssumption says of each statement   *)
(* alone; that a request read the record long before does not matter.      *)
THEOREM EndedStaysHolds == RecordsSpec => EndedStays
<1>1. RecordsIInv /\ [RecordsNext]_recordVars =>
        [\A t \in DOMAIN record :
           record[t] \in EndedOf(t) => record'[t] \in {record[t], "none"}]_recordVars
  BY StepsSpare DEF StaysEnded
<1> QED BY RecordsInitIInv, RecordsStepKeeps, <1>1, PTL DEF RecordsSpec, EndedStays

-----------------------------------------------------------------------------
(***************************************************************************)
(* Proofs about QueryBuilder.  The clauses gathered so far cover their     *)
(* parameters: WHERE those from the first on, HAVING those that follow.    *)
(* HAVING has parameters only once it has clauses, and WHERE clauses come  *)
(* before, so the base HAVING counts from does not move.                   *)
(***************************************************************************)
(* The placeholders in a text stand for the values from base + 1 on, each  *)
(* for the value meant, and every value has one.                           *)
Covers(text, base, values) ==
  /\ \A ref \in text : /\ ref.ph - base \in 1 .. Len(values)
                       /\ values[ref.ph - base] = ref.val
  /\ \A n \in 1 .. Len(values) : \E ref \in text : ref.ph = base + n

BuilderInv ==
  /\ BuilderTypeOK
  /\ PlaceholdersBound
  /\ built = Unset => /\ Covers(Text(_where), 0, _whereParams)
                      /\ Covers(Text(_having), Len(_whereParams), _havingParams)
  /\ _having = <<>> => _havingParams = <<>>

LEMMA TextIn ==
  ASSUME NEW s \in Seq(SUBSET Refs), NEW ref
  PROVE  ref \in Text(s) <=> \E i \in 1 .. Len(s) : ref \in s[i]
BY DEF Text, ToSet

LEMMA TextType == ASSUME NEW s \in Seq(SUBSET Refs) PROVE Text(s) \subseteq Refs
<1> SUFFICES ASSUME NEW ref \in Text(s) PROVE ref \in Refs
  OBVIOUS
<1>1. PICK i \in 1 .. Len(s) : ref \in s[i]
  BY TextIn
<1>2. s[i] \in SUBSET Refs
  OBVIOUS
<1> QED BY <1>1, <1>2

LEMMA TextNone == Text(<<>>) = {}
BY DEF Text, ToSet

LEMMA TextAppend ==
  ASSUME NEW s \in Seq(SUBSET Refs), NEW c \in SUBSET Refs
  PROVE  Append(s, c) \in Seq(SUBSET Refs) /\ Text(Append(s, c)) = Text(s) \cup c
<1> DEFINE t == Append(s, c)
<1>1. t \in Seq(SUBSET Refs) /\ Len(s) \in Nat /\ Len(t) = Len(s) + 1 /\ t[Len(s) + 1] = c
      /\ \A i \in 1 .. Len(s) : t[i] = s[i]
  OBVIOUS
<1> HIDE DEF t
<1>2. ASSUME NEW ref PROVE ref \in Text(t) <=> ref \in Text(s) \/ ref \in c
  <2>1. (\E i \in 1 .. Len(t) : ref \in t[i]) <=> (\E i \in 1 .. Len(s) : ref \in s[i]) \/ ref \in c
    <3>1. \A i \in 1 .. Len(t) : i \in 1 .. Len(s) \/ i = Len(s) + 1
      BY <1>1
    <3>2. \A i \in 1 .. Len(s) : i \in 1 .. Len(t)
      BY <1>1
    <3>3. Len(s) + 1 \in 1 .. Len(t)
      BY <1>1
    <3> QED BY <1>1, <3>1, <3>2, <3>3
  <2> QED BY <1>1, <2>1, TextIn
<1> QED BY <1>1, <1>2 DEF t

LEMMA CoversNone == ASSUME NEW base PROVE Covers({}, base, <<>>)
BY DEF Covers

LEMMA CoversBoth ==
  ASSUME NEW u \in Seq(1 .. MaxValues), NEW v \in Seq(1 .. MaxValues), NEW s \in SUBSET Refs, NEW t \in SUBSET Refs,
         NEW base \in Nat, Covers(s, base, u), Covers(t, base + Len(u), v)
  PROVE  s \cup t \in SUBSET Refs /\ u \o v \in Seq(1 .. MaxValues) /\ Covers(s \cup t, base, u \o v)
<1> DEFINE w == u \o v
           m == Len(u)
           k == Len(v)
<1>1. m \in Nat /\ k \in Nat /\ Len(w) = m + k
  OBVIOUS
<1>2. \A n \in 1 .. m : w[n] = u[n]
  OBVIOUS
<1>3. \A n \in 1 .. k : w[m + n] = v[n]
  OBVIOUS
<1>4. /\ \A ref \in s : ref.ph - base \in 1 .. m /\ u[ref.ph - base] = ref.val
      /\ \A n \in 1 .. m : \E ref \in s : ref.ph = base + n
  BY DEF Covers
<1>5. /\ \A ref \in t : ref.ph - (base + m) \in 1 .. k /\ v[ref.ph - (base + m)] = ref.val
      /\ \A n \in 1 .. k : \E ref \in t : ref.ph = base + m + n
  BY DEF Covers
<1> HIDE DEF w, m, k
<1>6. ASSUME NEW ref \in s PROVE ref.ph - base \in 1 .. Len(w) /\ w[ref.ph - base] = ref.val
  BY <1>1, <1>2, <1>4
<1>7. ASSUME NEW ref \in t PROVE ref.ph - base \in 1 .. Len(w) /\ w[ref.ph - base] = ref.val
  <2> DEFINE p == ref.ph
  <2>1. p \in Nat
    BY DEF Refs
  <2>2. p - (base + m) \in 1 .. k /\ v[p - (base + m)] = ref.val
    BY <1>5
  <2> HIDE DEF p
  <2>3. p - base = m + (p - (base + m)) /\ p - base \in 1 .. m + k
    BY <1>1, <2>1, <2>2
  <2>4. w[p - base] = ref.val
    BY <1>3, <2>2, <2>3
  <2> QED BY <1>1, <2>3, <2>4 DEF p
<1>8. ASSUME NEW n \in 1 .. Len(w) PROVE \E ref \in s \cup t : ref.ph = base + n
  <2>1. CASE n \in 1 .. m
    BY <1>4, <2>1
  <2>2. CASE n \notin 1 .. m
    <3>1. n - m \in 1 .. k /\ base + m + (n - m) = base + n
      BY <1>1, <2>2
    <3> QED BY <1>5, <3>1
  <2> QED BY <2>1, <2>2
<1> QED BY <1>6, <1>7, <1>8 DEF Covers, w

LEMMA CoversBound ==
  ASSUME NEW X, NEW text \in SUBSET Refs, NEW values \in Seq(X), Covers(text, 0, values)
  PROVE  /\ \A ref \in text : ref.ph \in DOMAIN values /\ values[ref.ph] = ref.val
         /\ \A n \in DOMAIN values : \E ref \in text : ref.ph = n
<1>1. \A ref \in text : ref.ph \in Nat /\ ref.ph - 0 = ref.ph
  BY DEF Refs
<1>2. DOMAIN values = 1 .. Len(values) /\ \A n \in 1 .. Len(values) : 0 + n = n
  OBVIOUS
<1> QED BY <1>1, <1>2 DEF Covers

LEMMA FragmentCovers ==
  ASSUME BuilderTypeOK, NEW k \in Nat, passed + k <= MaxValues, NEW base \in Nat
  PROVE  /\ Fragment(base, k) \in SUBSET Refs
         /\ NextValues(k) \in Seq(1 .. MaxValues) /\ Len(NextValues(k)) = k
         /\ Covers(Fragment(base, k), base, NextValues(k))
<1> DEFINE v == NextValues(k)
<1>1. passed \in Nat /\ MaxValues \in Nat
  BY BuilderAssumption DEF BuilderTypeOK
<1>2. v \in Seq(1 .. MaxValues) /\ Len(v) = k /\ \A i \in 1 .. k : v[i] = passed + i
  BY <1>1 DEF NextValues
<1>3. \A ref \in Fragment(base, k) : \E i \in 1 .. k : ref.ph = base + i /\ ref.val = passed + i /\ ref \in Refs
  BY <1>1 DEF Fragment, Ref, Refs
<1>4. \A i \in 1 .. k : Ref(base + i, passed + i) \in Fragment(base, k) /\ Ref(base + i, passed + i).ph = base + i
  BY DEF Fragment, Ref
<1> HIDE DEF v
<1>5. ASSUME NEW ref \in Fragment(base, k) PROVE ref.ph - base \in 1 .. Len(v) /\ v[ref.ph - base] = ref.val
  <2>1. PICK i \in 1 .. k : ref.ph = base + i /\ ref.val = passed + i
    BY <1>3
  <2>2. ref.ph - base = i
    BY <2>1
  <2> QED BY <1>2, <2>1, <2>2
<1>6. Covers(Fragment(base, k), base, v)
  BY <1>2, <1>4, <1>5 DEF Covers
<1> QED BY <1>2, <1>3, <1>6 DEF v

LEMMA TailCovers ==
  ASSUME NEW value \in (1 .. MaxValues) \cup {Unset}, NEW params \in Seq(1 .. MaxValues)
  PROVE  /\ TailRef(value, params) \in SUBSET Refs /\ TailValue(value) \in Seq(1 .. MaxValues)
         /\ Covers(TailRef(value, params), Len(params), TailValue(value))
<1>1. CASE value = Unset
  BY <1>1, CoversNone DEF TailRef, TailValue
<1>2. CASE value # Unset
  <2>1. value \in 1 .. MaxValues /\ Len(params) \in Nat /\ MaxValues \in Nat
    BY <1>2, BuilderAssumption
  <2> DEFINE ref == Ref(Len(params) + 1, value)
             s == <<value>>
  <2>2. ref.ph = Len(params) + 1 /\ ref.val = value /\ ref \in Refs
    BY <2>1 DEF Ref, Refs
  <2>3. s \in Seq(1 .. MaxValues) /\ Len(s) = 1 /\ s[1] = value
    BY <2>1
  <2>4. TailRef(value, params) = {ref} /\ TailValue(value) = s
    BY <1>2 DEF TailRef, TailValue
  <2> HIDE DEF ref, s
  <2>5. ref.ph - Len(params) = 1
    BY <2>1, <2>2
  <2>6. Covers({ref}, Len(params), s)
    BY <2>2, <2>3, <2>5 DEF Covers
  <2> QED BY <2>2, <2>3, <2>4, <2>6
<1> QED BY <1>1, <1>2

LEMMA SelectedBound ==
  ASSUME BuilderInv, built = Unset,
         NEW lim \in (1 .. MaxValues) \cup {Unset}, NEW off \in (1 .. MaxValues) \cup {Unset}
  PROVE  /\ Selected(lim, off) \in BuiltSQL
         /\ Covers(Selected(lim, off).text, 0, Selected(lim, off).values)
<1> DEFINE p1 == _whereParams \o _havingParams
           p2 == p1 \o TailValue(lim)
           p3 == p2 \o TailValue(off)
           t0 == Text(_where)
           t1 == t0 \cup Text(_having)
           t2 == t1 \cup TailRef(lim, p1)
           t3 == t2 \cup TailRef(off, p2)
<1>1. Selected(lim, off) = [text |-> t3, values |-> p3]
  BY DEF Selected
<1>2. t0 \in SUBSET Refs /\ Text(_having) \in SUBSET Refs
      /\ _whereParams \in Seq(1 .. MaxValues) /\ _havingParams \in Seq(1 .. MaxValues)
  BY TextType DEF BuilderInv, BuilderTypeOK
<1>3. t1 \in SUBSET Refs /\ p1 \in Seq(1 .. MaxValues) /\ Covers(t1, 0, p1)
  <2>1. Covers(t0, 0, _whereParams) /\ Covers(Text(_having), 0 + Len(_whereParams), _havingParams)
    BY <1>2 DEF BuilderInv
  <2> HIDE DEF t0
  <2> QED BY <1>2, <2>1, CoversBoth, Zenon
<1> HIDE DEF p1, t1
<1>4. t2 \in SUBSET Refs /\ p2 \in Seq(1 .. MaxValues) /\ Covers(t2, 0, p2)
  <2>1. /\ TailRef(lim, p1) \in SUBSET Refs /\ TailValue(lim) \in Seq(1 .. MaxValues)
        /\ Covers(TailRef(lim, p1), Len(p1), TailValue(lim)) /\ 0 + Len(p1) = Len(p1)
    BY <1>3, TailCovers
  <2>2. Covers(TailRef(lim, p1), 0 + Len(p1), TailValue(lim))
    BY <2>1
  <2> QED BY <1>3, <2>1, <2>2, CoversBoth, Zenon
<1> HIDE DEF p2, t2
<1>5. t3 \in SUBSET Refs /\ p3 \in Seq(1 .. MaxValues) /\ Covers(t3, 0, p3)
  <2>1. /\ TailRef(off, p2) \in SUBSET Refs /\ TailValue(off) \in Seq(1 .. MaxValues)
        /\ Covers(TailRef(off, p2), Len(p2), TailValue(off)) /\ 0 + Len(p2) = Len(p2)
    BY <1>4, TailCovers
  <2>2. Covers(TailRef(off, p2), 0 + Len(p2), TailValue(off))
    BY <2>1
  <2> QED BY <1>4, <2>1, <2>2, CoversBoth, Zenon
<1> HIDE DEF p3, t3
<1> QED BY <1>1, <1>5 DEF BuiltSQL

LEMMA BuiltIsBound ==
  ASSUME NEW s \in BuiltSQL, Covers(s.text, 0, s.values), built' = s
  PROVE  PlaceholdersBound' /\ built' # Unset /\ built' \in BuiltSQL
<1>1. s.text \in SUBSET Refs /\ s.values \in Seq(1 .. MaxValues)
  BY DEF BuiltSQL
<1>2. s # Unset
  BY BuilderAssumption
<1> QED BY <1>1, <1>2, CoversBound DEF PlaceholdersBound


(* Values wait on, or a statement starts: nothing is built.                *)
LEMMA NothingBuilt ==
  ASSUME BuilderTypeOK', built' = Unset,
         Covers(Text(_where), 0, _whereParams)',
         Covers(Text(_having), Len(_whereParams), _havingParams)',
         (_having = <<>> => _havingParams = <<>>)'
  PROVE  BuilderInv'
BY DEF BuilderInv, PlaceholdersBound

(* A statement is built, and the clauses stay as they are.                 *)
LEMMA Built ==
  ASSUME BuilderInv, NEW s \in BuiltSQL, Covers(s.text, 0, s.values), built' = s,
         _whereParams' \in Seq(1 .. MaxValues), passed' \in 0 .. MaxValues,
         _limit' \in (1 .. MaxValues) \cup {Unset}, _offset' \in (1 .. MaxValues) \cup {Unset},
         UNCHANGED <<_where, _having, _havingParams>>
  PROVE  BuilderInv'
<1>1. PlaceholdersBound' /\ built' # Unset /\ built' \in BuiltSQL
  BY BuiltIsBound
<1>2. BuilderTypeOK'
  BY <1>1 DEF BuilderInv, BuilderTypeOK
<1> QED BY <1>1, <1>2 DEF BuilderInv

LEMMA WhereKeeps == ASSUME BuilderInv, NEW k \in Nat, where(k) PROVE BuilderInv'
<1>1. built = Unset /\ passed + k <= MaxValues /\ _having = <<>> /\ _havingParams = <<>>
  BY DEF where, Open, BuilderInv
<1>2. /\ _where \in Seq(SUBSET Refs) /\ _whereParams \in Seq(1 .. MaxValues)
      /\ passed \in 0 .. MaxValues /\ MaxValues \in Nat /\ Len(_whereParams) \in Nat
  BY BuilderAssumption DEF BuilderInv, BuilderTypeOK
<1> DEFINE base == Len(_whereParams)
           c == Fragment(base, k)
           v == NextValues(k)
           t == Text(_where)
<1>3. _where' = Append(_where, c) /\ _whereParams' = _whereParams \o v /\ passed' = passed + k
      /\ UNCHANGED <<_having, _havingParams, _limit, _offset, built>>
  BY DEF where
<1>4. c \in SUBSET Refs /\ v \in Seq(1 .. MaxValues) /\ Covers(c, base, v)
  BY <1>1, <1>2, FragmentCovers DEF BuilderInv
<1>5. t \in SUBSET Refs /\ Covers(t, 0, _whereParams)
  BY <1>1, <1>2, TextType DEF BuilderInv
<1> HIDE DEF c, v, t
<1>6. Covers(c, 0 + Len(_whereParams), v)
  BY <1>2, <1>4
<1>7. _whereParams \o v \in Seq(1 .. MaxValues) /\ Covers(t \cup c, 0, _whereParams \o v)
  BY <1>2, <1>4, <1>5, <1>6, CoversBoth, Zenon
<1>8. _where' \in Seq(SUBSET Refs) /\ Text(_where)' = t \cup c
  BY <1>2, <1>3, <1>4, TextAppend DEF t
<1>9. Covers(Text(_where), 0, _whereParams)'
  BY <1>3, <1>7, <1>8
<1>10. Covers(Text(_having), Len(_whereParams), _havingParams)'
  BY <1>1, <1>3, TextNone, CoversNone
<1>11. BuilderTypeOK'
  BY <1>1, <1>2, <1>3, <1>7, <1>8 DEF BuilderInv, BuilderTypeOK
<1> QED BY <1>1, <1>3, <1>9, <1>10, <1>11, NothingBuilt

LEMMA HavingKeeps == ASSUME BuilderInv, NEW k \in Nat, having(k) PROVE BuilderInv'
<1>1. built = Unset /\ passed + k <= MaxValues
  BY DEF having, Open
<1>2. /\ _having \in Seq(SUBSET Refs) /\ _whereParams \in Seq(1 .. MaxValues)
      /\ _havingParams \in Seq(1 .. MaxValues)
      /\ passed \in 0 .. MaxValues /\ MaxValues \in Nat
      /\ Len(_whereParams) \in Nat /\ Len(_havingParams) \in Nat
  BY BuilderAssumption DEF BuilderInv, BuilderTypeOK
<1> DEFINE base == Len(_whereParams)
           c == Fragment(base + Len(_havingParams), k)
           v == NextValues(k)
           t == Text(_having)
<1>3. _having' = Append(_having, c) /\ _havingParams' = _havingParams \o v /\ passed' = passed + k
      /\ UNCHANGED <<_where, _whereParams, _limit, _offset, built>>
  BY DEF having
<1>4. c \in SUBSET Refs /\ v \in Seq(1 .. MaxValues) /\ Covers(c, base + Len(_havingParams), v)
  BY <1>1, <1>2, FragmentCovers DEF BuilderInv
<1>5. t \in SUBSET Refs /\ Covers(t, base, _havingParams)
  BY <1>1, <1>2, TextType DEF BuilderInv
<1>6. base \in Nat
  BY <1>2
<1> HIDE DEF c, v, t, base
<1>7. _havingParams \o v \in Seq(1 .. MaxValues) /\ Covers(t \cup c, base, _havingParams \o v)
  BY <1>2, <1>4, <1>5, <1>6, CoversBoth, Zenon
<1>8. _having' \in Seq(SUBSET Refs) /\ Text(_having)' = t \cup c
  BY <1>2, <1>3, <1>4, TextAppend DEF t
<1>9. Covers(Text(_having), Len(_whereParams), _havingParams)'
  BY <1>3, <1>7, <1>8 DEF base
<1>10. Covers(Text(_where), 0, _whereParams)'
  BY <1>1, <1>3 DEF BuilderInv
<1>11. BuilderTypeOK'
  BY <1>1, <1>2, <1>3, <1>7, <1>8 DEF BuilderInv, BuilderTypeOK
<1>12. _having' # <<>>
  BY <1>2, <1>3
<1> QED BY <1>1, <1>3, <1>9, <1>10, <1>11, <1>12, NothingBuilt

LEMMA TailKeeps ==
  ASSUME BuilderInv, built = Unset, passed' \in 0 .. MaxValues,
         _limit' \in (1 .. MaxValues) \cup {Unset}, _offset' \in (1 .. MaxValues) \cup {Unset},
         UNCHANGED <<_where, _whereParams, _having, _havingParams, built>>
  PROVE  BuilderInv'
BY DEF BuilderInv, BuilderTypeOK, PlaceholdersBound

LEMMA InsertBuilt ==
  ASSUME BuilderInv, NEW k \in Nat, passed + k <= MaxValues
  PROVE  LET s == [text |-> Fragment(0, k), values |-> NextValues(k)]
         IN  s \in BuiltSQL /\ Covers(s.text, 0, s.values)
BY FragmentCovers DEF BuilderInv, BuiltSQL

LEMMA BulkBuilt ==
  ASSUME BuilderInv, NEW height \in 1 .. 3, NEW width \in 1 .. 3, passed + height * width <= MaxValues,
         NEW s,
         s = [text |-> Cells(height, width), values |-> NextValues(height * width)]
  PROVE  s \in BuiltSQL /\ Covers(s.text, 0, s.values)
<1> DEFINE k == height * width
           text == Cells(height, width)
<1>0. s = [text |-> text, values |-> NextValues(k)]
  OBVIOUS
<1>1. k \in Nat /\ passed \in Nat /\ passed + k <= MaxValues
  BY DEF BuilderInv, BuilderTypeOK
<1>2. text = Fragment(0, k)
  <2>1. \A r \in 1 .. height, c \in 1 .. width :
          /\ (r - 1) * width + c \in 1 .. k
          /\ Cell(height, width, r, c) = 0 + ((r - 1) * width + c)
          /\ passed + (r - 1) * width + c = passed + ((r - 1) * width + c)
    BY <1>1, height = 1 \/ height = 2 \/ height = 3, width = 1 \/ width = 2 \/ width = 3 DEF Cell
  <2>2. \A n \in 1 .. k : \E r \in 1 .. height, c \in 1 .. width : n = (r - 1) * width + c
    <3> SUFFICES ASSUME NEW n \in 1 .. k PROVE \E r \in 1 .. height, c \in 1 .. width : n = (r - 1) * width + c
      OBVIOUS
    <3>1. CASE height = 1
      BY <3>1
    <3>2. CASE height = 2
      BY <3>2
    <3>3. CASE height = 3
      BY <3>3
    <3> QED BY <3>1, <3>2, <3>3
  <2> DEFINE cell[n \in 1 .. k] == Ref(0 + n, passed + n)
  <2>3. ASSUME NEW r \in 1 .. height, NEW c \in 1 .. width
        PROVE  Ref(Cell(height, width, r, c), passed + (r - 1) * width + c) = cell[(r - 1) * width + c]
    BY <2>1
  <2>4. \A x : x \in Fragment(0, k) <=> \E n \in 1 .. k : x = cell[n]
    BY DEF Fragment
  <2>5. \A x : x \in text <=> \E r \in 1 .. height, c \in 1 .. width :
                                x = Ref(Cell(height, width, r, c), passed + (r - 1) * width + c)
    BY DEF Cells
  <2> HIDE DEF cell, text
  <2>6. ASSUME NEW x \in text PROVE x \in Fragment(0, k)
    <3>1. PICK r \in 1 .. height, c \in 1 .. width :
            x = Ref(Cell(height, width, r, c), passed + (r - 1) * width + c)
      BY <2>5
    <3>2. x = cell[(r - 1) * width + c] /\ (r - 1) * width + c \in 1 .. k
      BY <2>1, <2>3, <3>1
    <3> QED BY <2>4, <3>2
  <2>7. ASSUME NEW n \in 1 .. k PROVE cell[n] \in text
    <3>1. PICK r \in 1 .. height, c \in 1 .. width : n = (r - 1) * width + c
      BY <2>2
    <3>2. cell[n] = cell[(r - 1) * width + c]
      BY <3>1
    <3> QED BY <2>3, <2>5, <3>2
  <2> QED BY <2>4, <2>6, <2>7
<1> HIDE DEF text
<1>3. s = [text |-> Fragment(0, k), values |-> NextValues(k)]
  BY <1>0, <1>2
<1> HIDE DEF k
<1> QED BY <1>1, <1>3, InsertBuilt

LEMMA DeleteBuilt ==
  ASSUME BuilderInv, built = Unset
  PROVE  LET s == [text |-> Text(_where), values |-> _whereParams]
         IN  s \in BuiltSQL /\ Covers(s.text, 0, s.values)
BY TextType DEF BuilderInv, BuilderTypeOK, BuiltSQL

LEMMA UpdateBuilt ==
  ASSUME BuilderInv, built = Unset, NEW k \in Nat, passed + k <= MaxValues, _whereParams = <<>>
  PROVE  LET s == [text |-> Fragment(0, k) \cup Text(_where), values |-> NextValues(k) \o _whereParams]
         IN  s \in BuiltSQL /\ Covers(s.text, 0, s.values)
<1>1. Text(_where) = {}
  BY DEF BuilderInv, Covers
<1>2. NextValues(k) \o _whereParams = NextValues(k)
  BY FragmentCovers DEF BuilderInv
<1>3. Fragment(0, k) \cup Text(_where) = Fragment(0, k)
  BY <1>1
<1> QED BY <1>2, <1>3, InsertBuilt

LEMMA BuilderInitInv == BuilderInit => BuilderInv
<1> SUFFICES ASSUME BuilderInit PROVE BuilderInv
  OBVIOUS
<1>1. BuilderTypeOK
  BY BuilderAssumption DEF BuilderInit, BuilderTypeOK
<1> QED BY <1>1, TextNone, CoversNone DEF BuilderInit, BuilderInv, PlaceholdersBound

LEMMA BuilderStepInv ==
  ASSUME ~WhereUpdates PROVE BuilderInv /\ [BuilderNext]_builderVars => BuilderInv'
<1> SUFFICES ASSUME BuilderInv, [BuilderNext]_builderVars PROVE BuilderInv'
  OBVIOUS
<1>0. /\ passed \in 0 .. MaxValues /\ MaxValues \in Nat
      /\ _limit \in (1 .. MaxValues) \cup {Unset} /\ _offset \in (1 .. MaxValues) \cup {Unset}
      /\ _whereParams \in Seq(1 .. MaxValues)
  BY BuilderAssumption DEF BuilderInv, BuilderTypeOK
<1>1. CASE UNCHANGED builderVars
  BY <1>1 DEF builderVars, BuilderInv, BuilderTypeOK, PlaceholdersBound
<1>2. ASSUME NEW k \in 0 .. 2, where(k) PROVE BuilderInv'
  BY <1>2, WhereKeeps
<1>3. ASSUME NEW k \in 0 .. 2, having(k) PROVE BuilderInv'
  BY <1>3, HavingKeeps
<1>4. CASE limit
  BY <1>0, <1>4, TailKeeps DEF limit, Open
<1>5. CASE offset
  BY <1>0, <1>5, TailKeeps DEF offset, Open
<1>6. CASE page
  BY <1>0, <1>6, TailKeeps DEF page, Open
<1>7. CASE buildSelect
  <2> DEFINE s == Selected(_limit, _offset)
  <2>1. built = Unset /\ s \in BuiltSQL /\ Covers(s.text, 0, s.values)
    BY <1>0, <1>7, SelectedBound DEF buildSelect
  <2>2. built' = s /\ _whereParams' = s.values /\ UNCHANGED <<_where, _having, _havingParams, _limit, _offset, passed>>
    BY <1>7 DEF buildSelect
  <2> HIDE DEF s
  <2>3. _whereParams' \in Seq(1 .. MaxValues)
    BY <2>1, <2>2 DEF BuiltSQL
  <2> QED BY <1>0, <2>1, <2>2, <2>3, Built
<1>8. CASE buildCount
  <2> DEFINE s == Selected(Unset, Unset)
  <2>1. built = Unset /\ s \in BuiltSQL /\ Covers(s.text, 0, s.values)
    BY <1>0, <1>8, SelectedBound DEF buildCount
  <2>2. built' = s /\ _whereParams' = s.values /\ _limit' = Unset /\ _offset' = Unset
        /\ UNCHANGED <<_where, _having, _havingParams, passed>>
    BY <1>8 DEF buildCount
  <2> HIDE DEF s
  <2>3. _whereParams' \in Seq(1 .. MaxValues)
    BY <2>1, <2>2 DEF BuiltSQL
  <2> QED BY <1>0, <2>1, <2>2, <2>3, Built
<1>9. CASE buildDelete
  BY <1>0, <1>9, DeleteBuilt, Built DEF buildDelete
<1>10. ASSUME NEW k \in 1 .. 3, buildUpdate(k) PROVE BuilderInv'
  <2> DEFINE s == [text |-> Fragment(0, k) \cup Text(_where), values |-> NextValues(k) \o _whereParams]
  <2>1. built = Unset /\ passed + k <= MaxValues /\ _whereParams = <<>> /\ passed' = passed + k /\ built' = s
        /\ UNCHANGED <<_where, _whereParams, _having, _havingParams, _limit, _offset>>
    BY <1>10 DEF buildUpdate
  <2>2. s \in BuiltSQL /\ Covers(s.text, 0, s.values)
    BY <2>1, UpdateBuilt
  <2> HIDE DEF s
  <2>3. passed' \in 0 .. MaxValues /\ _whereParams' \in Seq(1 .. MaxValues)
    BY <1>0, <2>1
  <2> QED BY <1>0, <2>1, <2>2, <2>3, Built
<1>11. ASSUME NEW k \in 1 .. 3, buildInsert(k) PROVE BuilderInv'
  BY <1>0, <1>11, InsertBuilt, Built DEF buildInsert
<1>12. ASSUME NEW height \in 1 .. 3, NEW width \in 1 .. 3, buildBulkInsert(height, width) PROVE BuilderInv'
  <2> DEFINE k == height * width
             s == [text |-> Cells(height, width), values |-> NextValues(k)]
  <2>1. k \in Nat
    OBVIOUS
  <2>2. passed + k <= MaxValues /\ passed' = passed + k /\ built' = s
        /\ UNCHANGED <<_where, _whereParams, _having, _havingParams, _limit, _offset>>
    BY <1>12 DEF buildBulkInsert
  <2>3. s \in BuiltSQL /\ Covers(s.text, 0, s.values)
    BY <2>2, BulkBuilt
  <2> HIDE DEF s, k
  <2>4. passed' \in 0 .. MaxValues
    BY <1>0, <2>1, <2>2
  <2> QED BY <1>0, <2>2, <2>3, <2>4, Built
<1>13. CASE reset
  <2>1. BuilderTypeOK' /\ built' = Unset
    BY <1>0, <1>13 DEF reset, BuilderTypeOK
  <2> QED BY <1>13, <2>1, TextNone, CoversNone, NothingBuilt DEF reset
<1> QED BY <1>1, <1>2, <1>3, <1>4, <1>5, <1>6, <1>7, <1>8, <1>9, <1>10, <1>11, <1>12, <1>13 DEF BuilderNext

(* Every placeholder of a statement stands for the value its caller meant, *)
(* and every value has one (query-builder.js), for any number of clauses   *)
(* and values; an UPDATE with values in its WHERE clause is the exception  *)
(* that the run query_builder_update shows.                                        *)
THEOREM PlaceholdersBoundHolds == ASSUME ~WhereUpdates PROVE BuilderSpec => []PlaceholdersBound
<1>1. BuilderInv => PlaceholdersBound
  BY DEF BuilderInv
<1> QED BY <1>1, BuilderInitInv, BuilderStepInv, PTL DEF BuilderSpec

-----------------------------------------------------------------------------
(***************************************************************************)
(* Proofs about Migrations.  While the pools serve nothing else, one call  *)
(* at most is past the lock, and the table is as long a part of the listing*)
(* as it has records: what a migration still has to run is the rest, and   *)
(* what a rollback still has to revert is the end of it, last first.       *)
(***************************************************************************)
Entries == [name : Scripts, batch : Nat \ {0}]

(* Where a call stands while nothing else uses the pools.                  *)
CallInv(r) ==
  LET N == Len(records)
      M == Len(Listing)
      K == Len(todo[r])
  IN  /\ stage[r] = "migrating" =>
           /\ K = M - N /\ \A i \in 1 .. K : todo[r][i] = Listing[N + i]
           /\ \A i \in 1 .. N : records[i].batch <= batch[r]
      /\ stage[r] = "selecting" =>
           N # 0 /\ batch[r] = records[N].batch
      /\ stage[r] = "reverting" =>
           K <= N /\ \A i \in 1 .. K : todo[r][i] = Listing[N + 1 - i]

(* At most one call is past the lock, and its process has the lock.        *)
OneCall ==
  /\ \A r \in Runners : Active(r) => lock = <<ProcessOf[r], Home>> /\ depth = 1
  /\ \A r, q \in Runners : Active(r) /\ Active(q) => r = q
  /\ lock # NoLock => \E r \in Runners : Active(r)

TableInOrder ==
  /\ Len(records) <= Len(Listing)
  /\ \A i \in 1 .. Len(records) : records[i].name = Listing[i]
  /\ \A i, j \in 1 .. Len(records) : i < j => records[i].batch <= records[j].batch

MigrationsInv ==
  /\ MigrationsTypeOK
  /\ RecordedIsRun
  /\ \A r \in Runners : stage[r] = "migrating" => batch[r] # 0
  /\ ~shared => OneCall /\ TableInOrder /\ \A r \in Runners : CallInv(r)

-----------------------------------------------------------------------------
LEMMA ListingType == Listing \in Seq(Scripts) /\ Distinct(Listing)
<1> DEFINE n == 2 * Migrations
           files == [i \in 1 .. n |-> <<(i + 1) \div 2, IF i % 2 = 1 THEN "down" ELSE "up">>]
           T == {f \in Scripts : f[2] = "up" \/ f[1] \in Reversible}
<1>1. n \in Nat /\ Migrations \in Nat
  BY MigrationsAssumption
<1>2. \A i \in 1 .. n : (i + 1) \div 2 \in 1 .. Migrations
  BY <1>1
<1>3. \A i \in 1 .. n : files[i] \in Scripts
  BY <1>2 DEF Scripts
<1>4. files \in Seq(Scripts) /\ Len(files) = n
  BY <1>1, <1>3
<1>5. \A i, j \in 1 .. n : (i + 1) \div 2 = (j + 1) \div 2 /\ i % 2 = j % 2 => i = j
  BY <1>1
<1>6. \A i \in 1 .. n : i % 2 = 0 \/ i % 2 = 1
  BY <1>1
<1>7. \A i, j \in 1 .. n : files[i] = files[j] => i = j
  BY <1>5, <1>6
<1>8. Listing = Passing(files, T)
  BY DEF Listing
<1> HIDE DEF files, T, n
<1>9. Distinct(files)
  BY <1>4, <1>7 DEF Distinct
<1> QED BY <1>4, <1>8, <1>9, PassingType, PassingDistinct

LEMMA NamesType ==
  ASSUME NEW table \in Seq(Entries)
  PROVE  /\ Names(table) \in Seq(Scripts) /\ Len(Names(table)) = Len(table)
         /\ \A i \in 1 .. Len(table) : Names(table)[i] = table[i].name
<1>1. Len(table) \in Nat /\ DOMAIN table = 1 .. Len(table)
  OBVIOUS
<1>2. \A i \in 1 .. Len(table) : table[i].name \in Scripts
  <2>1. \A i \in 1 .. Len(table) : table[i] \in Entries
    OBVIOUS
  <2> QED BY <2>1 DEF Entries
<1> QED BY <1>1, <1>2 DEF Names

LEMMA EntryType ==
  ASSUME MigrationsTypeOK
  PROVE  /\ records \in Seq(Entries) /\ Len(records) \in Nat
         /\ \A i \in 1 .. Len(records) : /\ records[i] \in Entries /\ records[i].name \in Scripts
                                         /\ records[i].batch \in Nat \ {0}
<1>1. records \in Seq(Entries) /\ Len(records) \in Nat
  BY DEF MigrationsTypeOK, Entries
<1>2. \A i \in 1 .. Len(records) : records[i] \in Entries
  BY <1>1
<1> QED BY <1>1, <1>2 DEF Entries

LEMMA RecordedIn ==
  ASSUME MigrationsTypeOK, NEW f
  PROVE  f \in Recorded <=> \E i \in 1 .. Len(records) : f = records[i].name
<1>1. records \in Seq(Entries)
  BY DEF MigrationsTypeOK, Entries
<1> QED BY <1>1, NamesType DEF Recorded, ToSet

(* The greatest batch number, and that of the last record.                 *)
LEMMA LastBatchIsGreatest ==
  ASSUME MigrationsTypeOK
  PROVE  /\ LastBatch \in Nat
         /\ TableInOrder => \A i \in 1 .. Len(records) : records[i].batch <= LastBatch
         /\ TableInOrder /\ records # <<>> =>
              Len(records) # 0 /\ LastBatch = records[Len(records)].batch
<1>0. records \in Seq(Entries) /\ Len(records) \in Nat /\ DOMAIN records = 1 .. Len(records)
  BY DEF MigrationsTypeOK, Entries
<1> DEFINE B == {records[i].batch : i \in DOMAIN records}
           N == Len(records)
<1>1. \A i \in 1 .. N : records[i].batch \in Nat
  BY EntryType
<1>2. CASE records = <<>>
  BY <1>2 DEF LastBatch
<1>3. CASE records # <<>>
  <2>1. N \in Nat \ {0}
    BY <1>0, <1>3
  <2>2. \E b \in B : \A i \in DOMAIN records : records[i].batch <= b
    <3> DEFINE f == [i \in 1 .. N |-> records[i].batch]
    <3>1. \A i \in 1 .. N : f[i] \in Int /\ f[i] = records[i].batch
      BY <1>1
    <3> HIDE DEF f
    <3>2. PICK i \in 1 .. N : \A j \in 1 .. N : f[j] <= f[i]
      BY <2>1, <3>1, Greatest
    <3>3. records[i].batch \in B
      BY <1>0
    <3> QED BY <1>0, <3>1, <3>2, <3>3
  <2>3. LastBatch \in B /\ \A i \in DOMAIN records : records[i].batch <= LastBatch
    BY <1>3, <2>2 DEF LastBatch
  <2>4. PICK k \in 1 .. N : LastBatch = records[k].batch
    BY <1>0, <2>3
  <2>5. ASSUME TableInOrder PROVE LastBatch = records[N].batch
    <3>1. N \in 1 .. N
      BY <2>1
    <3>2. records[N].batch <= LastBatch
      BY <1>0, <2>3, <3>1
    <3>3. k < N => records[k].batch <= records[N].batch
      BY <2>5, <3>1 DEF TableInOrder
    <3> QED BY <1>1, <2>4, <3>1, <3>2, <3>3
  <2> QED BY <1>0, <1>1, <2>1, <2>3, <2>4, <2>5
<1> QED BY <1>2, <1>3

(* A call goes on, or ends what it does, and keeps the lock.               *)
LEMMA Continues ==
  ASSUME MigrationsInv, NEW r \in Runners, Active(r), NEW x, x \notin {"idle", "done"},
         stage' = [stage EXCEPT ![r] = x], UNCHANGED <<shared, lock, depth>>,
         \A q \in Runners : q # r => batch'[q] = batch[q],
         MigrationsTypeOK', RecordedIsRun', x = "migrating" => batch'[r] # 0,
         ~shared => TableInOrder' /\ CallInv(r)'
  PROVE  MigrationsInv'
<1>1. stage'[r] = x /\ \A q \in Runners : q # r => stage'[q] = stage[q]
  BY DEF MigrationsInv, MigrationsTypeOK
<1>2. \A q \in Runners : Active(q)' <=> Active(q)
  BY <1>1 DEF Active
<1>3. ASSUME ~shared PROVE OneCall'
  BY <1>2, <1>3 DEF MigrationsInv, OneCall
<1>4. ASSUME ~shared, NEW q \in Runners PROVE CallInv(q)'
  <2>1. q # r => ~Active(q)
    BY <1>4 DEF MigrationsInv, OneCall
  <2>2. q # r => stage'[q] \in {"idle", "done"}
    BY <1>1, <2>1 DEF Active
  <2>3. q # r => CallInv(q)'
    BY <2>2 DEF CallInv
  <2> QED BY <1>4, <2>3
<1>5. \A q \in Runners : stage'[q] = "migrating" => batch'[q] # 0
  BY <1>1 DEF MigrationsInv
<1> QED BY <1>3, <1>4, <1>5 DEF MigrationsInv

(* Steps that change neither the table nor what has run.                   *)
LEMMA MigrationReads ==
  ASSUME MigrationsInv, UNCHANGED <<shared, records, runs>>
  PROVE  RecordedIsRun' /\ (~shared => TableInOrder') /\ Recorded' = Recorded
BY DEF MigrationsInv, RecordedIsRun, TableInOrder, Recorded, Names

LEMMA PendingKeeps ==
  ASSUME MigrationsInv, NEW r \in Runners, Pending(r), UNCHANGED shared PROVE MigrationsInv'
<1> DEFINE todo1 == Passing(Listing, Scripts \ Recorded)
           N == Len(records)
           M == Len(Listing)
<1>1. /\ stage[r] = "migrate" /\ stage' = [stage EXCEPT ![r] = "migrating"]
      /\ todo' = [todo EXCEPT ![r] = todo1] /\ batch' = [batch EXCEPT ![r] = LastBatch + 1]
      /\ UNCHANGED <<shared, lock, depth, records, runs>>
  BY DEF Pending, Goes
<1>2. MigrationsTypeOK
  BY DEF MigrationsInv
<1>3. todo1 \in Seq(Scripts)
  BY ListingType, PassingType
<1>4. LastBatch \in Nat
  BY <1>2, LastBatchIsGreatest
<1>5. MigrationsTypeOK'
  <2> HIDE DEF todo1
  <2>1. todo' \in [Runners -> Seq(Scripts)] /\ batch' \in [Runners -> Nat]
    BY <1>1, <1>2, <1>3, <1>4 DEF MigrationsTypeOK
  <2>2. stage' \in [Runners -> {"idle", "migrate", "rollback", "releasing", "done"} \cup Working]
    BY <1>1, <1>2 DEF MigrationsTypeOK, Working
  <2>3. IsInjective(Names(records))'
    BY <1>1, <1>2 DEF MigrationsTypeOK, Names
  <2> QED BY <1>1, <1>2, <2>1, <2>2, <2>3 DEF MigrationsTypeOK
<1>6. todo'[r] = todo1 /\ batch'[r] = LastBatch + 1 /\ stage'[r] = "migrating"
  BY <1>1, <1>2 DEF MigrationsTypeOK
<1>7. ASSUME ~shared PROVE CallInv(r)'
  <2>1. TableInOrder /\ N \in Nat /\ M \in Nat /\ N <= M
    BY <1>2, <1>7, ListingType DEF MigrationsInv, TableInOrder, MigrationsTypeOK
  <2>2. \A i \in 1 .. M : Listing[i] \in Scripts
    BY ListingType
  <2>3. ASSUME NEW i \in 1 .. M PROVE Listing[i] \in Scripts \ Recorded <=> i > N
    <3>1. Listing[i] \in Recorded <=> \E j \in 1 .. N : Listing[i] = records[j].name
      BY <1>2, RecordedIn
    <3>2. \A j \in 1 .. N : records[j].name = Listing[j] /\ j \in 1 .. M
      BY <2>1 DEF TableInOrder
    <3>3. Listing[i] \in Recorded <=> \E j \in 1 .. N : i = j
      BY <3>1, <3>2, ListingType DEF Distinct
    <3>4. (\E j \in 1 .. N : i = j) <=> ~(i > N)
      BY <2>1
    <3> QED BY <2>2, <3>3, <3>4
  <2>4. N \in 0 .. M
    BY <2>1
  <2>5. Len(todo1) = M - N /\ \A i \in 1 .. M - N : todo1[i] = Listing[N + i]
    <3> DEFINE T == Scripts \ Recorded
               L == Listing
    <3>1. L \in Seq(Scripts) /\ N \in 0 .. Len(L)
      BY <2>4, ListingType
    <3>2. \A i \in 1 .. Len(L) : L[i] \in T <=> i > N
      BY <2>3
    <3> HIDE DEF T, L, N
    <3>3. Len(Passing(L, T)) = Len(L) - N /\ \A i \in 1 .. Len(L) - N : Passing(L, T)[i] = L[N + i]
      BY <3>1, <3>2, PassingSuffix
    <3> QED BY <3>3 DEF T, L, N
  <2>6. \A i \in 1 .. N : records[i].batch <= LastBatch /\ records[i].batch \in Nat
    BY <1>2, <2>1, LastBatchIsGreatest, EntryType
  <2> HIDE DEF todo1
  <2>7. \A i \in 1 .. N : records[i].batch <= LastBatch + 1
    BY <1>4, <2>6
  <2>8. Listing' = Listing
    BY DEF Listing, Scripts
  <2>9. records' = records
    BY <1>1
  <2> QED BY <1>6, <2>5, <2>7, <2>8, <2>9 DEF CallInv
<1>8. batch'[r] # 0
  BY <1>4, <1>6
<1>9. \A q \in Runners : q # r => batch'[q] = batch[q]
  BY <1>1, <1>2 DEF MigrationsTypeOK
<1>10. Active(r)
  BY <1>1 DEF Active
<1> QED BY <1>1, <1>5, <1>7, <1>8, <1>9, <1>10, MigrationReads, Continues

LEMMA RunScriptKeeps ==
  ASSUME MigrationsInv, NEW r \in Runners, RunScript(r), UNCHANGED shared PROVE MigrationsInv'
<1> DEFINE f == Head(todo[r])
           e == [name |-> f, batch |-> batch[r]]
           N == Len(records)
           M == Len(Listing)
           K == Len(todo[r])
<1>1. /\ stage[r] = "migrating" /\ todo[r] # <<>> /\ f \notin Recorded /\ runs[f] < MaxRuns
      /\ runs' = [runs EXCEPT ![f] = @ + 1] /\ records' = Append(records, e)
      /\ todo' = [todo EXCEPT ![r] = Tail(@)]
      /\ UNCHANGED <<shared, stage, batch, lock, depth>>
  BY DEF RunScript
<1>2. MigrationsTypeOK /\ todo[r] \in Seq(Scripts) /\ batch[r] \in Nat \ {0}
  BY <1>1 DEF MigrationsInv, MigrationsTypeOK
<1>3. /\ f \in Scripts /\ f = todo[r][1] /\ Tail(todo[r]) \in Seq(Scripts)
      /\ K \in Nat \ {0} /\ Len(Tail(todo[r])) = K - 1
      /\ \A i \in 1 .. K - 1 : Tail(todo[r])[i] = todo[r][i + 1]
  BY <1>1, <1>2
<1> HIDE DEF f
<1>4. e \in Entries /\ e.name = f /\ e.batch = batch[r]
  BY <1>2, <1>3 DEF Entries
<1>5. records \in Seq(Entries) /\ N \in Nat
  BY <1>2, EntryType
<1> HIDE DEF e
<1>6. /\ records' \in Seq(Entries) /\ Len(records') = N + 1 /\ records'[N + 1] = e
      /\ \A i \in 1 .. N : records'[i] = records[i]
  BY <1>1, <1>4, <1>5
<1>7. \A g : g \in Recorded <=> \E i \in 1 .. N : g = records[i].name
  BY <1>2, RecordedIn
<1>8. \A i, j \in 1 .. N : records[i].name = records[j].name => i = j
  <2>1. \A i, j \in 1 .. N : Names(records)[i] = Names(records)[j] => i = j
    BY <1>2, <1>5 DEF MigrationsTypeOK, IsInjective, Names
  <2> QED BY <1>5, <2>1, NamesType
<1>9. IsInjective(Names(records))'
  <2>1. DOMAIN Names(records') = 1 .. N + 1 /\ \A i \in 1 .. N + 1 : Names(records')[i] = records'[i].name
    BY <1>5, <1>6 DEF Names
  <2>2. \A i \in 1 .. N + 1 : i = N + 1 \/ i \in 1 .. N
    BY <1>5
  <2>3. \A i \in 1 .. N : records[i].name # f
    BY <1>1, <1>7
  <2>4. \A i, j \in 1 .. N + 1 : records'[i].name = records'[j].name => i = j
    BY <1>4, <1>6, <1>8, <2>2, <2>3
  <2> QED BY <2>1, <2>4 DEF IsInjective
<1>10. runs[f] = 0 /\ runs \in [Scripts -> 0 .. MaxRuns] /\ MaxRuns \in Nat
  BY <1>1, <1>2, <1>3, MigrationsAssumption DEF MigrationsInv, MigrationsTypeOK, RecordedIsRun
<1>11. runs' \in [Scripts -> 0 .. MaxRuns] /\ runs'[f] = 1 /\ \A g \in Scripts : g # f => runs'[g] = runs[g]
  BY <1>1, <1>3, <1>10
<1>12. MigrationsTypeOK'
  BY <1>1, <1>2, <1>3, <1>6, <1>9, <1>11 DEF MigrationsTypeOK, Entries
<1>13. \A g : g \in Recorded' <=> g \in Recorded \/ g = f
  <2>1. \A g : g \in Recorded' <=> \E i \in 1 .. N + 1 : g = records'[i].name
    BY <1>6, NamesType DEF Recorded, ToSet
  <2>2. \A i \in 1 .. N + 1 : i = N + 1 \/ i \in 1 .. N
    BY <1>5
  <2>3. N + 1 \in 1 .. N + 1 /\ \A i \in 1 .. N : i \in 1 .. N + 1
    BY <1>5
  <2> QED BY <1>4, <1>6, <1>7, <2>1, <2>2, <2>3
<1>14. RecordedIsRun'
  BY <1>10, <1>11, <1>13 DEF MigrationsInv, RecordedIsRun, Scripts
<1>15. Listing' = Listing
  BY DEF Listing, Scripts
<1>16. ASSUME ~shared PROVE TableInOrder' /\ CallInv(r)'
  <2>1. /\ TableInOrder /\ M \in Nat /\ K = M - N /\ \A i \in 1 .. K : todo[r][i] = Listing[N + i]
        /\ \A i \in 1 .. N : records[i].batch <= batch[r]
    <3>1. TableInOrder /\ CallInv(r)
      BY <1>16 DEF MigrationsInv
    <3> QED BY <1>1, <3>1, ListingType DEF CallInv
  <2>2. 1 \in 1 .. K /\ N + 1 <= M /\ f = Listing[N + 1]
    BY <1>3, <1>5, <2>1
  <2>3. \A i \in 1 .. N + 1 : i = N + 1 \/ i \in 1 .. N
    BY <1>5
  <2>4. \A i \in 1 .. N + 1 : records'[i].name = Listing[i]
    BY <1>4, <1>6, <2>1, <2>2, <2>3 DEF TableInOrder
  <2>5. \A i \in 1 .. N + 1 : records'[i].batch <= batch[r]
    BY <1>2, <1>4, <1>6, <2>1, <2>3
  <2>6. \A i, j \in 1 .. N + 1 : i < j => records'[i].batch <= records'[j].batch
    <3> SUFFICES ASSUME NEW i \in 1 .. N + 1, NEW j \in 1 .. N + 1, i < j
                 PROVE  records'[i].batch <= records'[j].batch
      OBVIOUS
    <3>1. i \in 1 .. N
      BY <1>5
    <3>2. CASE j = N + 1
      BY <1>4, <1>6, <2>5, <3>2
    <3>3. CASE j \in 1 .. N
      BY <1>6, <2>1, <3>1, <3>3 DEF TableInOrder
    <3> QED BY <2>3, <3>2, <3>3
  <2>7. TableInOrder'
    BY <1>6, <1>15, <2>2, <2>4, <2>6 DEF TableInOrder
  <2>8. todo'[r] = Tail(todo[r])
    BY <1>1, <1>2 DEF MigrationsTypeOK
  <2>9. Len(todo'[r]) = M - Len(records') /\ \A i \in 1 .. Len(todo'[r]) : todo'[r][i] = Listing[Len(records') + i]
    <3>1. Len(todo'[r]) = K - 1 /\ K - 1 = M - (N + 1)
      BY <1>3, <1>5, <2>1, <2>8
    <3>2. \A i \in 1 .. K - 1 : todo'[r][i] = todo[r][i + 1] /\ i + 1 \in 1 .. K /\ N + (i + 1) = (N + 1) + i
      BY <1>3, <1>5, <2>8
    <3>3. \A i \in 1 .. K - 1 : todo'[r][i] = Listing[(N + 1) + i]
      BY <2>1, <3>2
    <3> HIDE DEF K, M, N
    <3> QED BY <1>6, <3>1, <3>3
  <2> QED BY <1>1, <1>6, <1>15, <2>5, <2>7, <2>9 DEF CallInv
<1>17. stage' = [stage EXCEPT ![r] = "migrating"] /\ Active(r) /\ UNCHANGED batch
  BY <1>1, <1>2 DEF MigrationsTypeOK, Active
<1> QED BY <1>1, <1>2, <1>12, <1>14, <1>16, <1>17, Continues

(* A call comes to its finally block.                                      *)
LEMMA StageKeeps ==
  ASSUME MigrationsInv, NEW r \in Runners, Active(r),
         stage' = [stage EXCEPT ![r] = "releasing"],
         UNCHANGED <<shared, todo, batch, lock, depth, records, runs>>
  PROVE  MigrationsInv'
<1>1. stage' \in [Runners -> {"idle", "migrate", "rollback", "releasing", "done"} \cup Working]
  BY DEF MigrationsInv, MigrationsTypeOK, Working
<1>2. IsInjective(Names(records))'
  BY DEF MigrationsInv, MigrationsTypeOK, Names
<1>3. MigrationsTypeOK'
  BY <1>1, <1>2 DEF MigrationsInv, MigrationsTypeOK
<1>4. stage'[r] = "releasing"
  BY DEF MigrationsInv, MigrationsTypeOK
<1>5. CallInv(r)'
  BY <1>4 DEF CallInv
<1> QED BY <1>3, <1>5, MigrationReads, Continues

LEMMA EndsKeep ==
  ASSUME MigrationsInv, NEW r \in Runners, ScriptFails(r) \/ RevertFails(r) \/ Finishes(r), UNCHANGED shared
  PROVE  MigrationsInv'
<1>1. /\ Active(r) /\ stage' = [stage EXCEPT ![r] = "releasing"]
      /\ UNCHANGED <<shared, todo, batch, lock, depth, records, runs>>
  BY DEF ScriptFails, RevertFails, Finishes, Abort, Goes, Active
<1> QED BY <1>1, StageKeeps

LEMMA SelectBatchKeeps ==
  ASSUME MigrationsInv, NEW r \in Runners, SelectBatch(r), UNCHANGED shared PROVE MigrationsInv'
<1> DEFINE x == IF records = <<>> THEN "releasing" ELSE "selecting"
<1>1. /\ stage[r] = "rollback" /\ stage' = [stage EXCEPT ![r] = x]
      /\ batch' = [batch EXCEPT ![r] = LastBatch]
      /\ UNCHANGED <<shared, todo, lock, depth, records, runs>>
  BY DEF SelectBatch, Goes
<1>2. MigrationsTypeOK
  BY DEF MigrationsInv
<1>3. /\ batch' \in [Runners -> Nat] /\ batch'[r] = LastBatch
      /\ \A q \in Runners : q # r => batch'[q] = batch[q]
  BY <1>1, <1>2, LastBatchIsGreatest DEF MigrationsTypeOK
<1>4. stage'[r] = x
  BY <1>1, <1>2 DEF MigrationsTypeOK
<1>5. ASSUME ~shared, x = "selecting" PROVE CallInv(r)'
  <2>1. Len(records) # 0 /\ batch'[r] = records[Len(records)].batch
    BY <1>2, <1>3, <1>5, LastBatchIsGreatest DEF MigrationsInv
  <2> QED BY <1>1, <1>4, <1>5, <2>1 DEF CallInv
<1>6. Active(r)
  BY <1>1 DEF Active
<1>7. x \in {"releasing", "selecting"}
  OBVIOUS
<1>8. MigrationsTypeOK'
  <2>1. stage' \in [Runners -> {"idle", "migrate", "rollback", "releasing", "done"} \cup Working]
    BY <1>1, <1>2, <1>7 DEF MigrationsTypeOK, Working
  <2>2. IsInjective(Names(records))'
    BY <1>1, <1>2 DEF MigrationsTypeOK, Names
  <2> QED BY <1>1, <1>2, <1>3, <2>1, <2>2 DEF MigrationsTypeOK
<1>9. ~shared => CallInv(r)'
  BY <1>4, <1>5, <1>7 DEF CallInv
<1> HIDE DEF x
<1> QED BY <1>1, <1>3, <1>6, <1>7, <1>8, <1>9, MigrationReads, Continues

LEMMA SelectNamesKeeps ==
  ASSUME MigrationsInv, NEW r \in Runners, SelectNames(r), UNCHANGED shared PROVE MigrationsInv'
<1> DEFINE T == {m \in ToSet(records) : m.batch = batch[r]}
           chosen == Passing(records, T)
           todo1 == Reverse(Names(chosen))
           N == Len(records)
           M == Len(Listing)
<1>1. /\ stage[r] = "selecting" /\ stage' = [stage EXCEPT ![r] = "reverting"]
      /\ todo' = [todo EXCEPT ![r] = todo1]
      /\ UNCHANGED <<shared, batch, lock, depth, records, runs>>
  BY DEF SelectNames, Goes
<1>2. MigrationsTypeOK
  BY DEF MigrationsInv
<1>3. /\ records \in Seq(Entries) /\ N \in Nat
      /\ \A i \in 1 .. N : records[i] \in Entries /\ records[i].batch \in Nat
  BY <1>2, EntryType
<1>4. \A i \in 1 .. N : records[i] \in T <=> records[i].batch = batch[r]
  <2>1. DOMAIN records = 1 .. N
    BY <1>3
  <2> QED BY <2>1 DEF ToSet
<1> HIDE DEF T
<1>5. chosen \in Seq(Entries)
  BY <1>3, PassingType
<1> HIDE DEF chosen
<1>6. /\ Names(chosen) \in Seq(Scripts) /\ Len(Names(chosen)) = Len(chosen) /\ Len(chosen) \in Nat
      /\ \A i \in 1 .. Len(chosen) : Names(chosen)[i] = chosen[i].name
  BY <1>5, NamesType
<1>7. /\ todo1 \in Seq(Scripts) /\ Len(todo1) = Len(chosen)
      /\ \A i \in 1 .. Len(chosen) : todo1[i] = chosen[Len(chosen) - i + 1].name
  <2> DEFINE s == Names(chosen)
             n == Len(chosen)
  <2>1. s \in Seq(Scripts) /\ Len(s) = n /\ n \in Nat /\ \A i \in 1 .. n : s[i] = chosen[i].name
    BY <1>6
  <2>2. \A i \in 1 .. n : (n - i) + 1 \in 1 .. n
    BY <2>1
  <2>3. todo1 = [i \in 1 .. n |-> s[(n - i) + 1]]
    BY <2>1 DEF Reverse
  <2> HIDE DEF s, n, todo1
  <2>4. \A i \in 1 .. n : s[(n - i) + 1] \in Scripts
    BY <2>1, <2>2
  <2>5. todo1 \in Seq(Scripts) /\ Len(todo1) = n
    BY <2>1, <2>3, <2>4
  <2>6. \A i \in 1 .. n : todo1[i] = chosen[(n - i) + 1].name
    BY <2>1, <2>2, <2>3
  <2> QED BY <2>5, <2>6 DEF n
<1> HIDE DEF todo1
<1>8. MigrationsTypeOK'
  <2>1. todo' \in [Runners -> Seq(Scripts)]
    BY <1>1, <1>2, <1>7 DEF MigrationsTypeOK
  <2>2. stage' \in [Runners -> {"idle", "migrate", "rollback", "releasing", "done"} \cup Working]
    BY <1>1, <1>2 DEF MigrationsTypeOK, Working
  <2>3. IsInjective(Names(records))'
    BY <1>1, <1>2 DEF MigrationsTypeOK, Names
  <2> QED BY <1>1, <1>2, <2>1, <2>2, <2>3 DEF MigrationsTypeOK
<1>9. todo'[r] = todo1 /\ stage'[r] = "reverting"
  BY <1>1, <1>2 DEF MigrationsTypeOK
<1>10. ASSUME ~shared PROVE CallInv(r)'
  <2>1. TableInOrder /\ N # 0 /\ batch[r] = records[N].batch
    BY <1>1, <1>10 DEF MigrationsInv, CallInv
  <2> DEFINE C == {i \in Nat : i \in 1 .. N /\ records[i].batch = batch[r]}
  <2>2. C # {} /\ C \in SUBSET Nat /\ \A i \in C : i \in 1 .. N /\ records[i].batch = batch[r]
    BY <1>3, <2>1
  <2>3. \A i \in 1 .. N : records[i].batch = batch[r] => i \in C
    OBVIOUS
  <2> HIDE DEF C
  <2>4. PICK m \in C : \A i \in C : ~(<<i, m>> \in OpToRel(<, Nat))
    BY <2>2, NatLessThanWellFounded, WFMin
  <2>5. \A i \in C : ~(i < m)
    BY <2>2, <2>4 DEF OpToRel
  <2> DEFINE k == m - 1
  <2>6. k \in 0 .. N /\ k < N /\ k + 1 = m
    BY <1>3, <2>2
  <2>7. ASSUME NEW i \in 1 .. N PROVE records[i].batch = batch[r] <=> i > k
    <3>1. records[i].batch = batch[r] => ~(i < m)
      BY <2>3, <2>5
    <3>2. i = m => records[i].batch = batch[r]
      BY <2>2
    <3>3. i > m => records[m].batch <= records[i].batch /\ records[m].batch = batch[r]
      BY <2>1, <2>2 DEF TableInOrder
    <3>4. i < N => records[i].batch <= records[N].batch
      BY <1>3, <2>1 DEF TableInOrder
    <3>5. N \in 1 .. N /\ records[i].batch \in Nat /\ records[N].batch \in Nat
      BY <1>3, <2>1
    <3>6. i > m => records[i].batch = batch[r]
      BY <2>1, <3>3, <3>4, <3>5
    <3>7. i > k <=> i = m \/ i > m
      BY <2>6
    <3>8. i < m \/ i = m \/ i > m
      BY <2>2
    <3> QED BY <3>1, <3>2, <3>6, <3>7, <3>8
  <2> HIDE DEF k
  <2>8. \A i \in 1 .. N : records[i] \in T <=> i > k
    BY <1>4, <2>7
  <2>9. Len(chosen) = N - k /\ \A i \in 1 .. N - k : chosen[i] = records[k + i]
    BY <1>3, <2>6, <2>8, PassingSuffix DEF chosen
  <2>10. ASSUME NEW i \in 1 .. N - k PROVE todo1[i] = Listing[N + 1 - i]
    <3>1. N - k - i + 1 \in 1 .. N - k /\ k + (N - k - i + 1) = N + 1 - i /\ N + 1 - i \in 1 .. N
      BY <1>3, <2>6
    <3>2. todo1[i] = chosen[N - k - i + 1].name
      BY <1>7, <2>9
    <3>3. chosen[N - k - i + 1] = records[N + 1 - i]
      BY <2>9, <3>1
    <3> QED BY <2>1, <3>1, <3>2, <3>3 DEF TableInOrder
  <2>11. N - k <= N
    BY <1>3, <2>6
  <2>12. Listing' = Listing /\ records' = records
    BY <1>1 DEF Listing, Scripts
  <2> QED BY <1>7, <1>9, <2>9, <2>10, <2>11, <2>12 DEF CallInv
<1>11. Active(r) /\ \A q \in Runners : q # r => batch'[q] = batch[q]
  BY <1>1 DEF Active
<1> QED BY <1>1, <1>8, <1>10, <1>11, MigrationReads, Continues

LEMMA RevertKeeps ==
  ASSUME MigrationsInv, NEW r \in Runners, Revert(r), UNCHANGED shared PROVE MigrationsInv'
<1> DEFINE f == Head(todo[r])
           T == {m \in ToSet(records) : m.name # f}
           N == Len(records)
           M == Len(Listing)
           K == Len(todo[r])
           left == Passing(records, T)
<1>1. /\ stage[r] = "reverting" /\ todo[r] # <<>>
      /\ runs' = [runs EXCEPT ![f] = 0] /\ records' = left
      /\ todo' = [todo EXCEPT ![r] = Tail(@)]
      /\ UNCHANGED <<shared, stage, batch, lock, depth>>
  BY DEF Revert
<1>2. MigrationsTypeOK /\ todo[r] \in Seq(Scripts) /\ runs \in [Scripts -> 0 .. MaxRuns] /\ MaxRuns \in Nat
  BY MigrationsAssumption DEF MigrationsInv, MigrationsTypeOK
<1>3. /\ f \in Scripts /\ f = todo[r][1] /\ Tail(todo[r]) \in Seq(Scripts)
      /\ K \in Nat \ {0} /\ Len(Tail(todo[r])) = K - 1
      /\ \A i \in 1 .. K - 1 : Tail(todo[r])[i] = todo[r][i + 1]
  BY <1>1, <1>2
<1> HIDE DEF f
<1>4. /\ records \in Seq(Entries) /\ N \in Nat /\ DOMAIN records = 1 .. N
      /\ \A i \in 1 .. N : records[i] \in Entries /\ records[i].name \in Scripts
  BY <1>2, EntryType
<1>5. \A i \in 1 .. N : records[i] \in T <=> records[i].name # f
  BY <1>4 DEF ToSet
<1>6. Elems(records) = ToSet(records)
  BY DEF Elems, ToSet
<1>7. T \subseteq Elems(records) /\ \A m \in T : m.name # f
  BY <1>6
<1>8. \A m \in Elems(records) : m.name # f => m \in T
  BY <1>6
<1> HIDE DEF T
<1>9. left \in Seq(Entries) /\ Elems(left) = Elems(records) \cap T
  BY <1>4, PassingType, PassingElems
<1>10. Distinct(records) /\ \A i, j \in 1 .. N : records[i].name = records[j].name => i = j
  <2>1. \A i, j \in 1 .. N : Names(records)[i] = Names(records)[j] => i = j
    BY <1>2, <1>4 DEF MigrationsTypeOK, IsInjective, Names
  <2>2. \A i, j \in 1 .. N : records[i].name = records[j].name => i = j
    BY <1>4, <2>1, NamesType
  <2> QED BY <2>2 DEF Distinct
<1> HIDE DEF left
<1>11. Len(left) \in Nat /\ DOMAIN left = 1 .. Len(left) /\ Distinct(left)
  <2>1. Distinct(left)
    BY <1>4, <1>10, PassingDistinct DEF left
  <2> QED BY <1>9, <2>1
<1>12. \A i \in 1 .. Len(left) : \E j \in 1 .. N : left[i] = records[j] /\ records[j].name # f
  <2>1. \A i \in 1 .. Len(left) : left[i] \in Elems(left)
    BY <1>11 DEF Elems
  <2>2. \A m \in Elems(records) : \E j \in 1 .. N : m = records[j]
    BY <1>4 DEF Elems
  <2> QED BY <1>7, <1>9, <2>1, <2>2
<1>13. \A j \in 1 .. N : records[j].name # f => \E i \in 1 .. Len(left) : left[i] = records[j]
  <2>1. \A j \in 1 .. N : records[j] \in Elems(records)
    BY <1>4 DEF Elems
  <2>2. \A m \in Elems(left) : \E i \in 1 .. Len(left) : left[i] = m
    BY <1>11 DEF Elems
  <2> QED BY <1>5, <1>9, <2>1, <2>2
<1>14. \A i, j \in 1 .. Len(left) : left[i].name = left[j].name => i = j
  BY <1>10, <1>11, <1>12 DEF Distinct
<1>15. IsInjective(Names(records))'
  <2>1. DOMAIN Names(left) = 1 .. Len(left) /\ \A i \in 1 .. Len(left) : Names(left)[i] = left[i].name
    BY <1>11 DEF Names
  <2> QED BY <1>1, <1>14, <2>1 DEF IsInjective
<1>16. runs' \in [Scripts -> 0 .. MaxRuns] /\ runs'[f] = 0 /\ \A g \in Scripts : g # f => runs'[g] = runs[g]
  BY <1>1, <1>2, <1>3
<1>17. MigrationsTypeOK'
  BY <1>1, <1>2, <1>3, <1>9, <1>15, <1>16 DEF MigrationsTypeOK, Entries
<1>18. \A g : g \in Recorded' <=> g \in Recorded /\ g # f
  <2>1. \A g : g \in Recorded' <=> \E i \in 1 .. Len(left) : g = left[i].name
    BY <1>1, <1>9, NamesType DEF Recorded, ToSet
  <2>2. \A g : g \in Recorded <=> \E i \in 1 .. N : g = records[i].name
    BY <1>2, RecordedIn
  <2>3. ASSUME NEW i \in 1 .. Len(left) PROVE left[i].name \in Recorded /\ left[i].name # f
    BY <1>12, <2>2
  <2>4. ASSUME NEW j \in 1 .. N, records[j].name # f
        PROVE  \E i \in 1 .. Len(left) : records[j].name = left[i].name
    <3>1. PICK i \in 1 .. Len(left) : left[i] = records[j]
      BY <1>13, <2>4
    <3> QED BY <3>1
  <2> QED BY <2>1, <2>2, <2>3, <2>4
<1>19. RecordedIsRun'
  BY <1>3, <1>16, <1>18 DEF MigrationsInv, RecordedIsRun, Scripts
<1>20. Listing' = Listing
  BY DEF Listing, Scripts
<1>21. ASSUME ~shared PROVE TableInOrder' /\ CallInv(r)'
  <2>1. /\ TableInOrder /\ M \in Nat /\ K <= N /\ \A i \in 1 .. K : todo[r][i] = Listing[N + 1 - i]
    BY <1>1, <1>21, ListingType DEF MigrationsInv, CallInv
  <2>2. 1 \in 1 .. K /\ N + 1 - 1 = N /\ N \in 1 .. N
    BY <1>3, <1>4, <2>1
  <2>3. f = records[N].name
    BY <1>3, <2>1, <2>2 DEF TableInOrder
  <2>4. \A i \in 1 .. N : records[i] \in T <=> i <= N - 1
    <3>1. \A i \in 1 .. N : records[i] \in T <=> i # N
      BY <1>5, <1>10, <2>2, <2>3
    <3>2. N \in Nat
      BY <1>4
    <3> HIDE DEF N
    <3>3. \A i \in 1 .. N : i # N <=> i <= N - 1
      BY <3>2
    <3> QED BY <3>1, <3>3
  <2>5. N - 1 \in 0 .. N
    BY <1>4, <2>2
  <2>6. Len(left) = N - 1 /\ \A i \in 1 .. N - 1 : left[i] = records[i]
    BY <1>4, <2>4, <2>5, PassingPrefix DEF left
  <2>7. \A i \in 1 .. N - 1 : i \in 1 .. N
    BY <1>4
  <2>8. TableInOrder'
    <3>1. N - 1 <= M
      BY <1>4, <2>1 DEF TableInOrder
    <3> QED BY <1>1, <1>20, <2>1, <2>6, <2>7, <3>1 DEF TableInOrder
  <2>9. todo'[r] = Tail(todo[r])
    BY <1>1, <1>2 DEF MigrationsTypeOK
  <2>10. Len(todo'[r]) <= Len(left) /\ \A i \in 1 .. Len(todo'[r]) : todo'[r][i] = Listing[Len(left) + 1 - i]
    <3>1. Len(todo'[r]) = K - 1 /\ K - 1 <= N - 1
      BY <1>3, <1>4, <2>1, <2>9
    <3>2. \A i \in 1 .. K - 1 : todo'[r][i] = todo[r][i + 1] /\ i + 1 \in 1 .. K /\ N + 1 - (i + 1) = (N - 1) + 1 - i
      <4>1. \A i \in 1 .. K - 1 : todo'[r][i] = todo[r][i + 1]
        BY <1>3, <2>9
      <4>2. N \in Nat /\ K \in Nat
        BY <1>3, <1>4
      <4> HIDE DEF K, N
      <4>3. \A i \in 1 .. K - 1 : i + 1 \in 1 .. K /\ N + 1 - (i + 1) = (N - 1) + 1 - i
        BY <4>2
      <4> QED BY <4>1, <4>3
    <3>3. \A i \in 1 .. K - 1 : todo'[r][i] = Listing[(N - 1) + 1 - i]
      BY <2>1, <3>2
    <3> HIDE DEF K, M, N
    <3> QED BY <2>6, <3>1, <3>3
  <2> QED BY <1>1, <1>20, <2>8, <2>10 DEF CallInv
<1>22. stage' = [stage EXCEPT ![r] = "reverting"] /\ Active(r) /\ UNCHANGED batch
  BY <1>1, <1>2 DEF MigrationsTypeOK, Active
<1> QED BY <1>1, <1>17, <1>19, <1>21, <1>22, Continues

-----------------------------------------------------------------------------
LEMMA BeginsKeeps ==
  ASSUME MigrationsInv, NEW r \in Runners, NEW c \in Sessions, Begins(r, c), UNCHANGED shared PROVE MigrationsInv'
<1>1. PICK next \in {"migrate", "rollback"} : acquireLock(r, c, next)
  BY DEF Begins
<1>2. /\ stage[r] = "idle" /\ UNCHANGED <<shared, todo, batch, records, runs>>
      /\ shared \/ \A q \in Runners \ {r} : ProcessOf[q] = ProcessOf[r] => ~Active(q)
  BY DEF Begins
<1>3. MigrationsTypeOK /\ ProcessOf[r] \in Processes
  BY MigrationsAssumption DEF MigrationsInv
<1>4. PICK x \in {"migrate", "rollback", "done"} : stage' = [stage EXCEPT ![r] = x]
  BY <1>1 DEF acquireLock, Goes
<1>5. stage'[r] = x /\ \A q \in Runners : q # r => stage'[q] = stage[q]
  BY <1>3, <1>4 DEF MigrationsTypeOK
<1> DEFINE mine == <<ProcessOf[r], c>>
<1>6. mine \in Processes \X Sessions /\ mine # NoLock
  BY <1>3, MigrationsAssumption
<1>7. \/ lock \in {NoLock, mine} /\ x # "done" /\ lock' = mine /\ depth' = depth + 1
      \/ x = "done" /\ UNCHANGED <<lock, depth>>
  BY <1>1, <1>3, <1>4, <1>5 DEF acquireLock, Goes, MigrationsTypeOK
<1>8. ~shared => c = Home
  BY <1>1 DEF acquireLock, Session
<1> HIDE DEF mine
<1>9. MigrationsTypeOK'
  <2>1. IsInjective(Names(records))'
    BY <1>2, <1>3 DEF MigrationsTypeOK, Names
  <2>2. lock' \in (Processes \X Sessions) \cup {NoLock} /\ depth' \in Nat /\ (depth' = 0 <=> lock' = NoLock)
    BY <1>3, <1>6, <1>7 DEF MigrationsTypeOK
  <2>3. stage' \in [Runners -> {"idle", "migrate", "rollback", "releasing", "done"} \cup Working]
    BY <1>3, <1>4 DEF MigrationsTypeOK
  <2> QED BY <1>2, <1>3, <2>1, <2>2, <2>3 DEF MigrationsTypeOK
<1>10. ASSUME ~shared, NEW q \in Runners PROVE CallInv(q)'
  <2>1. q = r => CallInv(q)'
    BY <1>5 DEF CallInv
  <2>2. Listing' = Listing
    BY DEF Listing, Scripts
  <2>3. q # r => CallInv(q)'
    BY <1>2, <1>5, <1>10, <2>2 DEF MigrationsInv, CallInv
  <2> QED BY <2>1, <2>3
<1>11. ASSUME ~shared PROVE OneCall'
  <2>1. OneCall /\ ~Active(r) /\ mine = <<ProcessOf[r], Home>>
    BY <1>2, <1>8, <1>11 DEF MigrationsInv, Active, mine
  <2>2. \A q \in Runners : q # r => (Active(q)' <=> Active(q))
    BY <1>5 DEF Active
  <2>3. Active(r)' <=> x # "done"
    BY <1>5 DEF Active
  <2>4. CASE x = "done"
    BY <1>7, <2>1, <2>2, <2>3, <2>4 DEF OneCall
  <2>5. CASE x # "done"
    <3>1. lock = NoLock
      <4> SUFFICES ASSUME lock = mine, mine # NoLock PROVE FALSE
        BY <1>6, <1>7, <2>5
      <4>1. PICK q \in Runners : Active(q)
        BY <2>1 DEF OneCall
      <4>2. <<ProcessOf[q], Home>> = <<ProcessOf[r], Home>>
        BY <2>1, <4>1 DEF OneCall
      <4>3. q # r /\ ProcessOf[q] = ProcessOf[r]
        BY <2>1, <4>1, <4>2
      <4> QED BY <1>2, <1>11, <4>1, <4>3
    <3>2. depth = 0 /\ lock' = mine /\ depth' = 1
      BY <1>3, <1>7, <2>5, <3>1 DEF MigrationsTypeOK
    <3>3. \A q \in Runners : ~Active(q)
      BY <2>1, <3>1, <1>3, <3>2 DEF OneCall
    <3>4. \A q \in Runners : Active(q)' <=> q = r
      BY <2>2, <2>3, <2>5, <3>3
    <3> QED BY <2>1, <3>2, <3>4 DEF OneCall
  <2> QED BY <2>4, <2>5
<1>12. \A q \in Runners : stage'[q] = "migrating" => batch'[q] # 0
  BY <1>2, <1>5 DEF MigrationsInv
<1> QED BY <1>2, <1>9, <1>10, <1>11, <1>12, MigrationReads DEF MigrationsInv

LEMMA ReleaseKeeps ==
  ASSUME MigrationsInv, NEW r \in Runners, NEW c \in Sessions, releaseLock(r, c), UNCHANGED shared PROVE MigrationsInv'
<1> DEFINE mine == <<ProcessOf[r], c>>
<1>1. /\ stage[r] = "releasing" /\ stage' = [stage EXCEPT ![r] = "done"]
      /\ UNCHANGED <<shared, todo, batch, records, runs>> /\ (~shared => c = Home)
      /\ \/ lock = mine /\ depth' = depth - 1 /\ lock' = IF depth = 1 THEN NoLock ELSE lock
         \/ lock # mine /\ UNCHANGED <<lock, depth>>
  BY DEF releaseLock, Goes, Session
<1>2. MigrationsTypeOK /\ ProcessOf[r] \in Processes
  BY MigrationsAssumption DEF MigrationsInv
<1>3. stage'[r] = "done" /\ \A q \in Runners : q # r => stage'[q] = stage[q]
  BY <1>1, <1>2 DEF MigrationsTypeOK
<1>4. mine # NoLock
  BY <1>2, MigrationsAssumption
<1>5. MigrationsTypeOK'
  <2>1. IsInjective(Names(records))'
    BY <1>1, <1>2 DEF MigrationsTypeOK, Names
  <2> HIDE DEF mine
  <2>2. lock' \in (Processes \X Sessions) \cup {NoLock} /\ depth' \in Nat /\ (depth' = 0 <=> lock' = NoLock)
    BY <1>1, <1>2, <1>4 DEF MigrationsTypeOK
  <2>3. stage' \in [Runners -> {"idle", "migrate", "rollback", "releasing", "done"} \cup Working]
    BY <1>1, <1>2 DEF MigrationsTypeOK
  <2> QED BY <1>1, <1>2, <2>1, <2>2, <2>3 DEF MigrationsTypeOK
<1>6. ASSUME ~shared, NEW q \in Runners PROVE CallInv(q)'
  <2>1. q = r => CallInv(q)'
    BY <1>3 DEF CallInv
  <2>2. Listing' = Listing
    BY DEF Listing, Scripts
  <2>3. q # r => CallInv(q)'
    BY <1>1, <1>3, <1>6, <2>2 DEF MigrationsInv, CallInv
  <2> QED BY <2>1, <2>3
<1>7. ASSUME ~shared PROVE OneCall'
  <2>1. OneCall /\ Active(r)
    BY <1>1, <1>7 DEF MigrationsInv, Active
  <2>2. lock = mine /\ depth = 1
    BY <1>1, <1>7, <2>1 DEF OneCall
  <2>3. lock' = NoLock
    BY <1>1, <2>2
  <2>4. \A q \in Runners : ~Active(q)'
    BY <1>3, <2>1 DEF OneCall, Active
  <2> QED BY <2>3, <2>4 DEF OneCall
<1>8. \A q \in Runners : stage'[q] = "migrating" => batch'[q] # 0
  BY <1>1, <1>3 DEF MigrationsInv
<1> QED BY <1>1, <1>5, <1>6, <1>7, <1>8, MigrationReads DEF MigrationsInv

LEMMA SessionEndKeeps == ASSUME MigrationsInv, SessionEnds, UNCHANGED shared PROVE MigrationsInv'
<1>1. IsInjective(Names(records))'
  BY DEF SessionEnds, MigrationsInv, MigrationsTypeOK, Names
<1>2. MigrationsTypeOK'
  BY <1>1 DEF SessionEnds, MigrationsInv, MigrationsTypeOK
<1> QED BY <1>2, MigrationReads DEF SessionEnds, MigrationsInv

LEMMA DiesKeeps ==
  ASSUME MigrationsInv, NEW p \in Processes, ProcessDies(p), UNCHANGED shared PROVE MigrationsInv'
<1>1. /\ stage' = [r \in Runners |-> IF ProcessOf[r] = p THEN "done" ELSE stage[r]]
      /\ UNCHANGED <<shared, todo, batch, records, runs>>
      /\ \/ lock # NoLock /\ lock[1] = p /\ lock' = NoLock /\ depth' = 0
         \/ ~(lock # NoLock /\ lock[1] = p) /\ UNCHANGED <<lock, depth>>
  BY DEF ProcessDies
<1>2. MigrationsTypeOK
  BY DEF MigrationsInv
<1>3. \A r \in Runners : stage'[r] = IF ProcessOf[r] = p THEN "done" ELSE stage[r]
  BY <1>1
<1>4. MigrationsTypeOK'
  <2>1. IsInjective(Names(records))'
    BY <1>1, <1>2 DEF MigrationsTypeOK, Names
  <2>2. stage' \in [Runners -> {"idle", "migrate", "rollback", "releasing", "done"} \cup Working]
    BY <1>1, <1>2 DEF MigrationsTypeOK
  <2> QED BY <1>1, <1>2, <2>1, <2>2 DEF MigrationsTypeOK
<1>5. ASSUME ~shared, NEW q \in Runners PROVE CallInv(q)'
  <2>1. stage'[q] = "done" \/ stage'[q] = stage[q]
    BY <1>3
  <2>2. Listing' = Listing
    BY DEF Listing, Scripts
  <2>3. stage'[q] = "done" => CallInv(q)'
    BY DEF CallInv
  <2>4. stage'[q] = stage[q] => CallInv(q)'
    BY <1>1, <1>5, <2>2 DEF MigrationsInv, CallInv
  <2> QED BY <2>1, <2>3, <2>4
<1>6. ASSUME ~shared PROVE OneCall'
  <2>1. OneCall
    BY <1>6 DEF MigrationsInv
  <2>2. \A q \in Runners : Active(q)' <=> Active(q) /\ ProcessOf[q] # p
    BY <1>3 DEF Active
  <2>3. \A q \in Runners : Active(q) => lock = <<ProcessOf[q], Home>> /\ lock[1] = ProcessOf[q]
    BY <2>1 DEF OneCall
  <2>4. \A q \in Runners : Active(q)' => UNCHANGED <<lock, depth>>
    BY <1>1, <2>2, <2>3
  <2>5. lock' # NoLock => lock' = lock /\ lock[1] # p
    BY <1>1
  <2>6. lock' # NoLock => \E q \in Runners : Active(q)'
    BY <2>1, <2>2, <2>3, <2>5 DEF OneCall
  <2> QED BY <2>1, <2>2, <2>4, <2>6 DEF OneCall
<1>7. \A q \in Runners : stage'[q] = "migrating" => batch'[q] # 0
  BY <1>1, <1>3 DEF MigrationsInv
<1> QED BY <1>1, <1>4, <1>5, <1>6, <1>7, MigrationReads DEF MigrationsInv

LEMMA MigrationsInitInv == MigrationsInit => MigrationsInv
<1> SUFFICES ASSUME MigrationsInit PROVE MigrationsInv
  OBVIOUS
<1>1. records = <<>> /\ Names(records) = <<>> /\ Recorded = {} /\ Len(records) = 0
  BY DEF MigrationsInit, Names, Recorded, ToSet
<1>2. MigrationsTypeOK
  <2>1. IsInjective(Names(records))
    BY <1>1 DEF IsInjective
  <2> QED BY <2>1, MigrationsAssumption DEF MigrationsInit, MigrationsTypeOK
<1>3. RecordedIsRun
  BY <1>1 DEF RecordedIsRun, MigrationsInit
<1>4. OneCall /\ \A r \in Runners : CallInv(r)
  BY DEF MigrationsInit, OneCall, Active, CallInv
<1>5. TableInOrder
  BY <1>1, ListingType DEF TableInOrder
<1> QED BY <1>2, <1>3, <1>4, <1>5 DEF MigrationsInv, MigrationsInit

LEMMA MigrationsStepInv == MigrationsInv /\ [MigrationsNext]_migrationsVars => MigrationsInv'
<1> SUFFICES ASSUME MigrationsInv, [MigrationsNext]_migrationsVars PROVE MigrationsInv'
  OBVIOUS
<1>1. CASE UNCHANGED migrationsVars
  <2>1. IsInjective(Names(records))'
    BY <1>1 DEF migrationsVars, MigrationsInv, MigrationsTypeOK, Names
  <2>2. MigrationsTypeOK'
    BY <1>1, <2>1 DEF migrationsVars, MigrationsInv, MigrationsTypeOK
  <2>3. Listing' = Listing
    BY DEF Listing, Scripts
  <2>4. ~shared' => OneCall' /\ \A r \in Runners : CallInv(r)'
    BY <1>1, <2>3 DEF migrationsVars, MigrationsInv, OneCall, CallInv, Active
  <2> QED BY <1>1, <2>2, <2>4, MigrationReads DEF migrationsVars, MigrationsInv
<1>2. ASSUME MigrationsNext PROVE MigrationsInv'
  <2>1. UNCHANGED shared
    BY <1>2 DEF MigrationsNext
  <2>2. ASSUME NEW r \in Runners, MigrationsStep(r) PROVE MigrationsInv'
    BY <2>1, <2>2, PendingKeeps, RunScriptKeeps, EndsKeep, SelectBatchKeeps, SelectNamesKeeps, RevertKeeps,
       BeginsKeeps, ReleaseKeeps DEF MigrationsStep
  <2> QED BY <1>2, <2>1, <2>2, SessionEndKeeps, DiesKeeps DEF MigrationsNext
<1> QED BY <1>1, <1>2

(* The migrations table and what has run agree, and while nothing but the  *)
(* runner uses the pools scripts run in the order of the directory         *)
(* (migrations-runner.js): for any number of migrations, calls and         *)
(* processes, wherever a call fails or a process dies.                     *)
THEOREM MigrationsSoundHolds == MigrationsSpec => []MigrationsSound
<1>1. MigrationsInv => MigrationsSound
  <2> SUFFICES ASSUME MigrationsInv PROVE RecordedIsRun /\ InOrder
    BY DEF MigrationsSound
  <2>1. ASSUME ~shared PROVE /\ IsPrefix(Names(records), Listing)
                             /\ \A i, j \in DOMAIN records : i < j => records[i].batch <= records[j].batch
    <3>1. TableInOrder /\ records \in Seq(Entries) /\ Len(records) \in Nat /\ DOMAIN records = 1 .. Len(records)
      BY <2>1, EntryType DEF MigrationsInv
    <3> DEFINE s == Names(records)
               n == Len(records)
    <3>2. s \in Seq(Scripts) /\ Len(s) = n /\ \A i \in 1 .. n : s[i] = Listing[i]
      BY <3>1, NamesType DEF TableInOrder
    <3>3. n <= Len(Listing) /\ Listing \in Seq(Scripts) /\ n \in Nat
      BY <3>1, ListingType DEF TableInOrder
    <3> HIDE DEF s, n
    <3>4. SubSeq(s, 1, n) = SubSeq(Listing, 1, n)
      BY <3>2, <3>3
    <3>5. IsPrefix(s, Listing)
      BY <3>2, <3>3, <3>4 DEF IsPrefix
    <3> QED BY <3>1, <3>5 DEF s, TableInOrder
  <2> QED BY <2>1 DEF MigrationsInv, InOrder
<1> QED BY <1>1, MigrationsInitInv, MigrationsStepInv, PTL DEF MigrationsSpec
=============================================================================
