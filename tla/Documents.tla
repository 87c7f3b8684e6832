----------------------------- MODULE Documents ------------------------------
(***************************************************************************)
(* One collection of documents and its secondary indexes, as the writing   *)
(* side of obj-rs keeps them: WriteTxn::collection (lazy creation and      *)
(* index reconciliation), Collection::insert / update / delete / upsert,   *)
(* the raw writes of programs that have no Rust type (the C interface),    *)
(* the per-transaction descriptor cache that commit flushes into the       *)
(* catalog, and the per-process set of schema versions whose indexes have  *)
(* been reconciled.                                                        *)
(*                                                                         *)
(* Transactions exclude each other (module WriteLock) and are atomic       *)
(* (module TxnStore), so there is one of them at a time and rolling back   *)
(* restores what was committed.                                            *)
(***************************************************************************)
EXTENDS Naturals, Sequences, FiniteSets, Functions

CONSTANTS
  Names,       \* names of indexes
  Unique, Each, \* those declared Unique and Each; the others are Standard
  Docs,        \* document values
  KeyVals,     \* encoded index keys
  Keys,        \* Keys[n][d]: what extract_index_keys finds in d for index n
  Migrate,     \* Migrate[d]: a value of an older version seen by a newer type
  Values,      \* Values[v]: the documents a type of version v can hold
  Versions,    \* schema versions the program is built with
  Specs,       \* Specs[v]: Document::indexes() of version v, in order
  MaxId,       \* the last id there is, u64::MAX in the code
  MaxOps,      \* operations of all transactions
  NoDoc, NoRow, NoVersion

ASSUME IndexesAssumption ==
  /\ IsFiniteSet(Names)
  /\ Unique \subseteq Names /\ Each \subseteq Names \ Unique
  /\ Keys \in [Names -> [Docs -> SUBSET KeyVals]]
  /\ \A n \in Names \ Each, d \in Docs : \E k \in KeyVals : Keys[n][d] = {k}
ASSUME VersionsAssumption ==
  /\ Versions \subseteq Nat \ {0}
  /\ Specs \in [Versions -> Seq(Names)]
  /\ Values \in [Versions -> SUBSET Docs]
  /\ Migrate \in [Docs -> Docs]
  /\ \A v, w \in Versions : v < w => \A d \in Values[v] : Migrate[d] \in Values[w]
  /\ \A v \in Versions : \A i, j \in DOMAIN Specs[v] : Specs[v][i] = Specs[v][j] => i = j
(***************************************************************************)
(* The old keys of a document are extracted from its migrated value, so    *)
(* the indexes can only be kept when migration changes no key of an index  *)
(* that an older version has filled.                                       *)
(***************************************************************************)
ASSUME MigrateAssumption ==
  \A v, w \in Versions : v < w =>
    \A i \in DOMAIN Specs[v], d \in Docs :
       Keys[Specs[v][i]][Migrate[d]] = Keys[Specs[v][i]][d]
ASSUME BoundsAssumption == MaxId \in Nat \ {0} /\ MaxOps \in Nat

Ids == 1 .. MaxId

(***************************************************************************)
(* CollectionDescriptor.  next = 0 is the exhausted id space.  place[n] is *)
(* where the Vec of IndexDescriptors has index n, 0 if it has no such      *)
(* name; a name that is there and not active is DroppedPending.            *)
(***************************************************************************)
Descriptor == [next : 0 .. MaxId, place : [Names -> Nat], active : SUBSET Names]

(* A stored record: its document, and the version it was written under.    *)
Stored == [doc : Docs, ver : Versions]

ASSUME NothingAssumption ==
  NoDoc \notin Stored /\ NoRow \notin Descriptor /\ NoVersion \notin Versions

VARIABLES
  db,       \* what the transaction sees: row, schemas, docs, entries; full
  saved,    \* the same as last committed
  cache,    \* the transaction's live descriptor, NoRow before the first use
  handle,   \* the version of the Collection<T> in use
  staged,   \* WriteTxn.reconciled_staged
  shared,   \* Db.reconciled: this process has reconciled these versions
  phase,    \* "idle", "open", "failed": the closure returns an error
  ops,      \* operations so far
  newest,   \* history: the newest version ever used
  wentBack, \* history: an older version was used after a newer one
  behind,   \* history: this process reconciled a row behind a cached descriptor
  giving,   \* history: ids this transaction's inserts returned
  given     \* history: ids inserts of committed transactions returned

history == <<newest, wentBack, behind, giving, given>>
vars == <<db, saved, cache, handle, staged, shared, phase, ops, history>>

(***************************************************************************)
(* The database before the collection exists.  full and neglected are      *)
(* history: the indexes that were declared while the collection was empty, *)
(* and whether a write was kept without all of its index maintenance.      *)
(***************************************************************************)
Empty == [row |-> NoRow, schemas |-> {}, docs |-> [id \in Ids |-> NoDoc],
          entries |-> [n \in Names |-> {}], full |-> {}, neglected |-> FALSE]

Init ==
  /\ db = Empty /\ saved = Empty
  /\ cache = NoRow /\ handle = NoVersion
  /\ staged = {} /\ shared = {}
  /\ phase = "idle" /\ ops = 0
  /\ newest = 0 /\ wentBack = FALSE /\ behind = FALSE
  /\ giving = {} /\ given = {}

-----------------------------------------------------------------------------
(* The catalog row and its indexes.                                        *)

Active(d) == d.active
Known(d) == {n \in Names : d.place[n] # 0}

(* CollectionDescriptor::new, as the lazy creation registers it.           *)
NewRow == [next |-> 1, place |-> [n \in Names |-> 0], active |-> {}]

(* Where a list of specs has n.                                            *)
PlaceIn(specs, n) == CHOOSE i \in DOMAIN specs : specs[i] = n

(* Catalog::declare_index for each spec that no descriptor names: it goes  *)
(* to the end.  A name that is there is left alone, also when it is        *)
(* DroppedPending.                                                         *)
Declared(d, specs) ==
  LET new == Range(specs) \ Known(d)
      Before(n) == {m \in new : PlaceIn(specs, m) <= PlaceIn(specs, n)}
  IN [d EXCEPT !.place = [n \in Names |-> IF n \in new
                            THEN Cardinality(Known(d)) + Cardinality(Before(n)) ELSE @[n]],
               !.active = @ \union new]

(* Catalog::drop_index for each Active index that no spec names.           *)
Dropped(d, specs) == [d EXCEPT !.active = @ \intersect Range(specs)]

(* Catalog::reconcile_indexes works on the catalog's row; a declared index *)
(* gets an empty tree.                                                     *)
Reconciled(b, specs) ==
  LET row == Declared(b.row, specs)
      new == Known(row) \ Known(b.row)
      isEmpty == \A id \in Ids : b.docs[id] = NoDoc
  IN [b EXCEPT !.row = Dropped(row, specs),
               !.entries = [n \in Names |-> IF n \in new THEN {} ELSE @[n]],
               !.full = IF isEmpty THEN @ \union new ELSE @ \ new]

(* The descriptor operations work on: the cached one, or the catalog row.  *)
Live == IF cache = NoRow THEN db.row ELSE cache

-----------------------------------------------------------------------------
(* Index maintenance.                                                      *)

NoKeys == [n \in Names |-> {}]
KeysOf(d) == [n \in Names |-> Keys[n][d]]

(* decode_with, for the type of version v: a newer record is refused, an   *)
(* older one needs the schema it was written under.                        *)
CanDecode(b, v, r) == r.ver = v \/ (r.ver < v /\ r.ver \in b.schemas)

Decoded(v, r) == IF r.ver = v THEN r.doc ELSE Migrate[r.doc]

(* decode_in_write_txn.                                                    *)
Readable(r) == CanDecode(db, handle, r)
Seen(r) == Decoded(handle, r)

(* Mutants: the old entry stays; any holder of a Unique key is overwritten.*)
DiffedKeepingOld(n, tree, old, new, id) == tree \union {<<k, id>> : k \in new}
TakenNever(n, tree, old, new, id) == FALSE

(* The old and new keys of one index against its tree: the tree after, and *)
(* the two ways it is refused.                                             *)
Diffed(n, tree, old, new, id) ==
  IF n \in Unique
  THEN IF old = new THEN tree
       ELSE {e \in tree : e[1] \notin old} \union {<<k, id>> : k \in new}
  ELSE (tree \ {<<k, id>> : k \in old \ new}) \union {<<k, id>> : k \in new \ old}

Taken(n, tree, old, new, id) ==
  n \in Unique /\ old # new /\ \E e \in tree : e[1] \in new /\ e[2] # id

KeyExists(n, tree, old, new, id) ==
  old # new /\ \E k \in new \ old : <<k, id>> \in tree

Refused(n, tree, old, new, id) ==
  Taken(n, tree, old, new, id) \/ KeyExists(n, tree, old, new, id)

(* apply_doc_change walks the Active indexes in descriptor order: the      *)
(* indexes to maintain, each with its place in the walk.                   *)
ActiveOrder(d) == [n \in Active(d) |-> d.place[n]]

(* Mutant: only the indexes of the new entries.                            *)
TouchedNew(old, new) ==
  [n \in {m \in Range(Specs[handle]) : new[m] # {}} |-> PlaceIn(Specs[handle], n)]

(* A raw writer names the indexes itself: maintain_raw_indexes walks those *)
(* that have an old entry or a new one, in the order they are first named. *)
TouchedOrder(old, new) ==
  LET specs == Specs[handle]
      had   == {n \in Range(specs) : old[n] # {}}
      gains == {n \in Range(specs) \ had : new[n] # {}}
  IN [n \in had \union gains |->
        IF n \in had THEN PlaceIn(specs, n) ELSE Len(specs) + PlaceIn(specs, n)]

(* The indexes that refuse: the key is taken, or the index is not Active   *)
(* (IndexNotFound).  The first of them stops the walk.                     *)
Refusing(d, order, old, new, id) ==
  {n \in DOMAIN order :
     n \notin Active(d) \/ Refused(n, db.entries[n], old[n], new[n], id)}

Reached(d, order, old, new, id) ==
  {n \in DOMAIN order : \A r \in Refusing(d, order, old, new, id) : order[n] < order[r]}

Maintained(d, order, old, new, id) ==
  LET reached == Reached(d, order, old, new, id)
  IN [n \in Names |-> IF n \in reached
                      THEN Diffed(n, db.entries[n], old[n], new[n], id)
                      ELSE db.entries[n]]

-----------------------------------------------------------------------------
(* Transactions.                                                           *)

(* Db::transaction up to the closure.                                      *)
Begin ==
  /\ phase = "idle" /\ phase' = "open"
  /\ UNCHANGED <<db, saved, cache, handle, staged, shared, ops, history>>

(* WriteTxn::collection::<T>, T of version v: ensure_collection, then      *)
(* reconcile_indexes_once unless this process or this transaction has.     *)
OpenCollection(v) ==
  /\ phase = "open" /\ handle # v
  /\ LET b == IF db.row = NoRow THEN [db EXCEPT !.row = NewRow] ELSE db
     IN IF v \in staged \union shared
        THEN db' = b /\ UNCHANGED <<staged, behind>>
        ELSE /\ db' = Reconciled(b, Specs[v])
             /\ staged' = staged \union {v}
             /\ behind' = (behind \/ cache # NoRow)
  /\ handle' = v
  /\ newest' = IF v > newest THEN v ELSE newest
  /\ wentBack' = (wentBack \/ v < newest)
  /\ UNCHANGED <<saved, cache, shared, phase, ops, giving, given>>

(* An operation of the handle begins with the cached descriptor.           *)
CanOperate == phase = "open" /\ handle # NoVersion /\ ops < MaxOps

(* An error before the trees are touched: the descriptor is d by then and  *)
(* the schema rows are schemas.  The closure returns the error, or goes on.*)
Fails(d, schemas) ==
  /\ phase' \in {"open", "failed"}
  /\ cache' = d
  /\ db' = [db EXCEPT !.schemas = schemas]
  /\ UNCHANGED giving

(* The tail of every write: the primary tree is written, then the indexes *)
(* are.  A refusal leaves what was done until then; the caller returns the *)
(* error, or goes on as if nothing was wrong.  missed is TRUE for a caller *)
(* who leaves out keys of an Active index.                                 *)
Write(d, schemas, id, record, order, old, new, missed) ==
  LET refused == Refusing(d, order, old, new, id) # {}
  IN /\ db' = [db EXCEPT !.schemas = schemas,
                         !.docs[id] = record,
                         !.entries = Maintained(d, order, old, new, id),
                         !.neglected = @ \/ refused \/ missed]
     /\ cache' = d
     /\ phase' \in {"open"} \union (IF refused THEN {"failed"} ELSE {})
(* Mutants: no schema row; next_id not flushed; reconciliations promoted   *)
(* also when the transaction is rolled back.                               *)
NoSchema == db.schemas
FlushedIndexes ==
  IF cache = NoRow THEN db ELSE [db EXCEPT !.row = [cache EXCEPT !.next = db.row.next]]

(* persist_current_schema puts the row of the handle's version.            *)
WithSchema == db.schemas \union {handle}

(* bump_next_id: the id after the last one is 0.                           *)
Bumped(d) == [d EXCEPT !.next = IF @ = MaxId THEN 0 ELSE @ + 1]

OneOp == /\ ops' = ops + 1
         /\ UNCHANGED <<saved, handle, staged, shared, newest, wentBack, behind, given>>

(* An insert returns its id unless an index refused.                       *)
Returns(id, d, order, keys) ==
  giving' = IF Refusing(d, order, NoKeys, keys, id) = {} THEN giving \union {id} ELSE giving

Record(doc) == [doc |-> doc, ver |-> handle]
OldKeys(r) == IF r = NoDoc THEN NoKeys ELSE KeysOf(Seen(r))

Insert(doc) ==
  LET id == Live.next
      d  == Bumped(Live)
  IN /\ OneOp
     /\ IF id = 0 THEN Fails(Live, db.schemas)              \* IdSpaceExhausted
        ELSE IF db.docs[id] # NoDoc THEN Fails(d, WithSchema) \* BTreeKeyExists
        ELSE /\ Write(d, WithSchema, id, Record(doc), ActiveOrder(d), NoKeys, KeysOf(doc), FALSE)
             /\ Returns(id, d, ActiveOrder(d), KeysOf(doc))

(* The closure given to update maps the old value to doc.                  *)
Update(id, doc) ==
  LET r == db.docs[id]
  IN /\ OneOp
     /\ IF r = NoDoc \/ ~Readable(r) THEN Fails(Live, WithSchema)
        ELSE /\ Write(Live, WithSchema, id, Record(doc), ActiveOrder(Live), OldKeys(r), KeysOf(doc), FALSE)
             /\ UNCHANGED giving

Upsert(id, doc) ==
  LET r == db.docs[id]
  IN /\ OneOp
     /\ IF r # NoDoc /\ ~Readable(r) THEN Fails(Live, WithSchema)
        ELSE /\ Write(Live, WithSchema, id, Record(doc), ActiveOrder(Live), OldKeys(r), KeysOf(doc), FALSE)
             /\ UNCHANGED giving

(* delete of an absent id returns false, having cached the descriptor.     *)
Delete(id) ==
  LET r == db.docs[id]
  IN /\ OneOp
     /\ IF r # NoDoc /\ ~Readable(r) THEN Fails(Live, db.schemas)
        ELSE /\ Write(Live, db.schemas, id, NoDoc, ActiveOrder(Live), OldKeys(r), NoKeys, FALSE)
             /\ UNCHANGED giving

-----------------------------------------------------------------------------
(* Raw writes.  The caller has reconciled its indexes (reconcile_indexes_  *)
(* raw, the same steps as OpenCollection), encodes payload and keys itself *)
(* as its version's type would, and puts the schema row before the first   *)
(* record.  keyed is FALSE for the calls that take no index entries.       *)

RawPutSchema == /\ handle \notin db.schemas
                /\ OneOp
                /\ db' = [db EXCEPT !.schemas = WithSchema]
                /\ cache' = Live
                /\ UNCHANGED <<phase, giving>>

(* The entries a caller gives, old or new.                                 *)
Given(keys, keyed) ==
  [n \in Names |-> IF keyed /\ n \in Range(Specs[handle]) THEN keys[n] ELSE {}]

RawWrite(d, id, record, old, new, keyed) ==
  LET remove == Given(old, keyed)
      add    == Given(new, keyed)
      missed == \E n \in Active(d) : remove[n] # old[n] \/ add[n] # new[n]
  IN Write(d, db.schemas, id, record, TouchedOrder(remove, add), remove, add, missed)

(* insert_with_version, then maintain_raw_indexes.                         *)
RawInsert(doc, keyed) ==
  LET id == Live.next
      d  == Bumped(Live)
  IN /\ handle \in db.schemas
     /\ OneOp
     /\ IF id = 0 THEN Fails(Live, db.schemas)
        ELSE IF db.docs[id] # NoDoc THEN Fails(d, db.schemas)
        ELSE /\ RawWrite(d, id, Record(doc), NoKeys, KeysOf(doc), keyed)
             /\ LET add == Given(KeysOf(doc), keyed)
                IN Returns(id, d, TouchedOrder(NoKeys, add), add)

(* The caller reads the record it replaces to know its old keys; a record  *)
(* it cannot read it leaves alone.  An absent one is CollectionNotFound.   *)
RawUpdate(id, doc, keyed) ==
  LET r == db.docs[id]
  IN /\ handle \in db.schemas
     /\ r # NoDoc => Readable(r)
     /\ OneOp
     /\ IF r = NoDoc THEN Fails(Live, db.schemas)
        ELSE /\ RawWrite(Live, id, Record(doc), OldKeys(r), KeysOf(doc), keyed)
             /\ UNCHANGED giving

RawDelete(id, keyed) ==
  LET r == db.docs[id]
  IN /\ r # NoDoc => Readable(r)
     /\ OneOp
     /\ RawWrite(Live, id, NoDoc, OldKeys(r), NoKeys, keyed)
     /\ UNCHANGED giving

(* upsert_with_version has no form that takes index entries, and leaves    *)
(* next_id alone.                                                          *)
RawUpsert(id, doc) ==
  LET r == db.docs[id]
  IN /\ handle \in db.schemas
     /\ r # NoDoc => Readable(r)
     /\ OneOp
     /\ RawWrite(Live, id, Record(doc), OldKeys(r), KeysOf(doc), FALSE)
     /\ UNCHANGED giving

(* flush_descriptors: the cached descriptor replaces the catalog row.      *)
Flushed == IF cache = NoRow THEN db ELSE [db EXCEPT !.row = cache]

Closed == cache' = NoRow /\ handle' = NoVersion /\ staged' = {}
          /\ giving' = {} /\ phase' = "idle"

(* WriteTxn::commit: flush, WAL commit, promote_reconciled.                *)
Commit ==
  /\ phase = "open"
  /\ db' = Flushed /\ saved' = Flushed
  /\ shared' = shared \union staged
  /\ given' = given \union giving
  /\ Closed
  /\ UNCHANGED <<ops, newest, wentBack, behind>>

RollbackPromoting ==
  /\ phase \in {"open", "failed"}
  /\ db' = saved
  /\ shared' = shared \union staged
  /\ Closed
  /\ UNCHANGED <<saved, ops, newest, wentBack, behind, given>>

(* The closure returned an error, or the WAL commit did.                   *)
Rollback ==
  /\ phase \in {"open", "failed"}
  /\ db' = saved
  /\ Closed
  /\ UNCHANGED <<saved, shared, ops, newest, wentBack, behind, given>>

(* The process ends, in a transaction or not, and another one opens.       *)
Restart ==
  /\ shared # {} \/ phase # "idle"
  /\ db' = saved
  /\ shared' = {} /\ behind' = FALSE
  /\ Closed
  /\ UNCHANGED <<saved, ops, newest, wentBack, given>>

Operate ==
  /\ CanOperate
  /\ \/ \E doc \in Values[handle] : Insert(doc)
     \/ \E id \in Ids, doc \in Values[handle] : Update(id, doc) \/ Upsert(id, doc)
     \/ \E id \in Ids : Delete(id)
     \/ RawPutSchema
     \/ \E keyed \in BOOLEAN :
          \/ \E doc \in Values[handle] : RawInsert(doc, keyed)
          \/ \E id \in Ids, doc \in Values[handle] : RawUpdate(id, doc, keyed)
          \/ \E id \in Ids : RawDelete(id, keyed)
     \/ \E id \in Ids, doc \in Values[handle] : RawUpsert(id, doc)

Next ==
  \/ Begin
  \/ \E v \in Versions : OpenCollection(v)
  \/ Operate
  \/ Commit \/ Rollback \/ Restart

Spec == Init /\ [][Next]_vars

-----------------------------------------------------------------------------
(* Properties.                                                             *)

(* The entries index n ought to have.                                      *)
Expected(b, n) ==
  {e \in KeyVals \X Ids : b.docs[e[2]] # NoDoc /\ e[1] \in Keys[n][b.docs[e[2]].doc]}

Steady == {n \in Names : \A d \in Docs : Keys[n][Migrate[d]] = Keys[n][d]}

(* Secondary indexes follow the primary tree whatever commits, rolls back  *)
(* or restarts: a committed Active index has no entry for a missing        *)
(* document or a key it no longer has, and one declared on an empty        *)
(* collection has all of them.  The exceptions are a caller that goes on   *)
(* after a refusal, whose document stays written, and a raw write without  *)
(* index entries.                                                          *)
(* Versions may be mixed for the indexes whose keys migration keeps.       *)
IndexesAgree ==
  saved.row # NoRow /\ ~saved.neglected =>
    \A n \in Active(saved.row) : n \in Steady \/ ~wentBack =>
       /\ saved.entries[n] \subseteq Expected(saved, n)
       /\ n \in saved.full => saved.entries[n] = Expected(saved, n)

(* apply_unique_diff checks one tree at a time and only for documents that *)
(* change: still no two committed documents share a key of a Unique index  *)
(* that has been there from the start.                                     *)
UniqueKeys ==
  saved.row # NoRow /\ ~saved.neglected =>
    \A n \in Active(saved.row) \intersect Unique \intersect saved.full, i, j \in Ids :
       saved.docs[i] # NoDoc /\ saved.docs[j] # NoDoc /\ i # j
         => Keys[n][saved.docs[i].doc] \intersect Keys[n][saved.docs[j].doc] = {}

(* "Index ADDITION is fully correct": an index that a version declares is  *)
(* Active for the operations of its handle, as long as no older version is *)
(* used after a newer one (that interleaving is documented).               *)
AddedIsActive ==
  phase = "open" /\ handle # NoVersion /\ ~wentBack =>
    Range(Specs[handle]) \subseteq Active(Live)

(* It is when no reconciliation ran behind a descriptor the transaction    *)
(* had cached: the reconciliations skipped, staged, promoted or rolled     *)
(* back, the catalog row and the cached descriptor agree.                  *)
DeclaredIsActive == ~behind => AddedIsActive

(* next_id lives in the cached descriptor until commit: an id handed out   *)
(* by a committed insert is never handed out again, also after rollbacks,  *)
(* reconciliations of the row behind the cache, and deletes.               *)
IdsNeverReissued == giving \intersect given = {}

(* A committed record can be decoded by the version that wrote it and by   *)
(* every later one: the schema row it needs is committed with it.          *)
SchemaOfEveryRecord ==
  \A id \in Ids : saved.docs[id] # NoDoc => saved.docs[id].ver \in saved.schemas
=============================================================================
