# A TLA+ model of libobj

libobj (`src/`) is an embedded document database in Rust: typed collections
over B+-trees, in one main file with a write-ahead log (WAL) sidecar and a lock
sidecar, with a C interface.  This directory holds TLA+ modules that model it
from the system calls of the pager up to the calls of that interface, TLC
configurations that check them on small instances, and TLAPS proofs of what
holds for every instance.  Paths below are relative to `src/crates/`.

## 1. The system

### Components, their state and operations

| Component | Source | State | Operations |
|---|---|---|---|
| Pager | `obj-core/src/pager/` | main file; header (root catalog, freelist head, page count, WAL salt); overlay: `pending` (staged pages), `view` (committed, not yet folded), `view_header` | begin/rollback snapshot, `read_page`, `write_page`, `set_root_catalog`, `alloc_page`, `free_page`, `commit`, `checkpoint`, `flush`, `close`, `open` |
| WAL | `obj-core/src/wal/` | sidecar file: header with a salt, frames (page id, LSN, salt, commit mark, checksum); in memory `salt`, `next_lsn`, `end_offset`, `committed_frames` | `begin_txn`/`append`/`commit`, recovery in two passes, `reset_after_checkpoint`, create, remove |
| Transactions and locks | `obj-core/src/txn.rs`, `platform/lock.rs` | per handle an `AtomicBool` gate; WRITER_LOCK and reader-slot bytes of the lock sidecar | `WriteTxn::begin`/`commit`/`rollback`/drop, `ReadTxn::begin`/drop |
| Platform | `obj-core/src/platform/` | file handles, fault schedule of the tests | positioned read/write, `sync_data`, `set_len` |
| Page encodings | `pager/page.rs`, `pager/mod.rs`, `crypto.rs` | none | checksum, compress, encrypt and back |
| Page cache | `pager/cache.rs` | clean pages | get, insert, evict |
| B-tree | `obj-core/src/btree/` | pages of the main file | get, insert with split, delete with borrow/merge, range iteration, over the pager or a snapshot |
| Catalog, ids | `obj-core/src/catalog.rs`, `id.rs` | a B-tree of descriptors; in memory: its root, the next collection id | create/update/lookup, index declaration and reconciliation, id watermark |
| Db | `obj-rs/src/db.rs` | the pager mutex, the in-memory catalog, `catalog_poisoned`, attached databases | `open`, `open_readonly`, `transaction`, `checkpoint`, `attach`/`detach`, `backup_to` |
| Collections, index maintenance | `obj-rs/src/{txn,collection,index_maint}.rs` | primary and index trees | insert/update/delete/upsert with index upkeep, typed and raw; get, look-ups, ranges, iterators |
| Queries | `obj-rs/src/query.rs` | none | source, bounds, filter, sort, limit, count |
| Codec | `obj-core/src/codec/` | stored schemas (catalog rows) | encode, decode with migration, schema walk, tagged form |
| Index keys | `obj-core/src/index/` | none | reflection, extraction, order-preserving encoding |
| Backup, integrity, inspection | `backup.rs`, `integrity.rs`, `inspect.rs` | none of their own | copy a snapshot; read-only walks |
| Derive macro | `obj-derive` | none | schema, migration and index specifications of a type |
| C interface | `libobj` | `DbInner`: the `Db`, the error ring; boxed handles | open/close, transactions, documents, queries, diagnostics |

### How they interact

A `WriteTxn` takes the handle's gate, then the lock byte, and snapshots the
pager's header and view under the pager mutex.  Everything the layers above do
(B-tree, catalog, index maintenance) is reads and writes of pages through the
pager, staged in `pending`.  `commit` turns `pending` into WAL frames, syncs
once, publishes the pages into `view` and, past a threshold, runs a checkpoint
that folds `view` into the main file and starts a new WAL generation under a
new salt.  Readers copy `view` and an LSN pin, release the mutex, and read the
main file for whatever their copy does not hold.  The in-memory catalog follows
the pager's root by being re-read after a rollback.  A second handle, in the same
or another process, has a pager and a catalog of its own; the two meet only in
the files and in the lock byte.

A document is encoded under its version; its type's schema is stored in the
catalog.  A newer type reads it by walking the bytes under the stored schema into
a `Dynamic` and migrating that.  Index keys are made from the typed value, not
from the `Dynamic`.  The C interface is a layer of reference-counted handles over
`Db`, `WriteTxn` and `ReadTxn`, which it drives without `Db::transaction`.

### What is hard, and what must hold

| Component | Hard behaviour | What makes it correct |
|---|---|---|
| WAL, recovery | crash between any two system calls; torn and reordered writes; a failed sync; two generations in one file | an open finds a whole database: the last acknowledged one (or the one being committed) |
| Checkpoint | partial failure; readers of the pages being overwritten; a full log | nothing acknowledged is lost; snapshots keep their database; space is given back |
| Rollback | restores a remembered overlay, also after a checkpoint emptied it | between calls a read finds the last acknowledged database |
| Locks | two layers with different owners; failed acquisition; death of a process | one writer; no lock without an owner; the byte comes free |
| Catalog in memory | a copy of durable state, refreshed without a lock | never newer or older than the root it was read from |
| Allocation | reuse within a transaction, rollback, extension before the commit | no page allocated twice, none lost |
| B-tree | split, borrow, merge; copy-on-write over a freelist | the tree is the map; old pages are freed once |
| Index upkeep | several trees per document, written one after the other; errors a closure swallows | every index agrees with the primary tree; a unique key has one document |
| Schema versions | one process mixes types of two versions; descriptors are cached and written back | a declared index is maintained; a record can be decoded as long as it lives |
| Several handles | each trusts what it read when it opened; opens truncate, recover and checkpoint without a lock | an open finds the last commit; a backup is the database it was taken of |
| Reading | batches that resume after a key, widened bounds, duplicates, records of two versions | every way of asking gives the documents that match, once |
| Page encodings | three decoders, three formats, damage at rest | nothing damaged is read as data; all decoders agree |
| Codec | an explicit stack with limits; hints for what the schema loses; widths | the walk ends with what the schema means; records read back; keys sort as values |
| C interface | messages freed while another thread reads them; handles given back in any order | what a call says is what it did; the message stays readable; the database lives as long as a handle |

## 2. Modules

| Module | What it is |
|---|---|
| `PagerWal` | the pager, the WAL and the transaction that drives them, one action per system call |
| `TxnStore` | the abstract store: one database, one transaction, atomic commit |
| `PagerStore` | the refinement mapping: `PagerWal` implements `TxnStore` |
| `WriteLock` | the gate and the byte of `WriteTxn::begin`/`commit`/`rollback` |
| `Sessions` | several handles on the same files over `WriteLock`: open, recover, write, checkpoint, back up, close, die |
| `BTree` | insert with splits, delete with merge and borrow, `get`, range scans, and the pages they allocate and free |
| `KeyMap` | what `BTree` implements: an ordered map |
| `NodePages` | `BTree`'s nodes as pages of a file: layout, encodings, three decoders, snapshot readers, integrity walk, damage |
| `DbCatalog` | `Db::transaction` over the catalog tree: the root in the pager's header and the root in memory, the poison flag, threads |
| `Documents` | one collection and its indexes: typed and raw writes, reconciliation, the descriptor cache, schema rows |
| `Reading` | what is read of it: point reads, look-ups, ranges, iterators, queries, counts, dump, index check |
| `SchemaWalk` | `walk_schema`: bytes and a schema to a `Dynamic`, as the code's stack machine |
| `Records`, `Dynamics`, `StoredSchemas` | the codec's other functions: derived and stored schemas, typed values from a `Dynamic`, migration, the tagged form, record admission, the guard over schema rows |
| `IndexKeys`, `Declarations` | from a document to its keys; from a type's attributes to its index specifications |
| `RecordLife` | one record through all of these: written, stored, walked, migrated, indexed |
| `ErrorRing` | `set_error` and `obj_errmsg` |
| `CAnswers` | what the C calls on handles return, as functions of their arguments and the engine's result |
| `CHandles` | the C handles over `DbCatalog`, `ErrorRing` and `CAnswers` |
| `MCPagerWal`, `MCSessions`, `MCNodePages`, `MCReading`, `MCRecordLife`, `MCCHandles`, `MCDbCatalog` | constants and symmetry for TLC |
| `NatSetLemmas` | a finite non-empty set of naturals has a least and a greatest element |
| `PagerWal_proofs` | theorems about the pager: types, reads, snapshots; its crashes and recoveries, and that it implements `TxnStore` |
| `BTreeInsert_proofs` | lemmas about nodes and the trees they make, and insert |
| `BTree_proofs` | delete and look-ups, and the theorems about every state: types, pages, sizes, and that `BTree` implements `KeyMap` |
| `Documents_proofs` | theorems about a collection: schemas, ids, indexes, all that is read of it, its integrity check |
| `DbCatalog_proofs` | theorems about the catalog tree and its two roots |
| `Sessions_proofs` | theorems about the two lock layers, and about several handles on one file: types, durability, backups, and that they implement `WriteLock` |
| `CHandles_proofs` | theorems about C handles, messages, and the catalog through the C interface |

The modules are layers: `Sessions` extends `WriteLock`, `NodePages` extends
`BTree`, `Reading` extends `Documents`, `CHandles` extends `DbCatalog`,
`ErrorRing` and `CAnswers`, and the value modules are a chain from `SchemaWalk`
to `RecordLife`.  A run of the upper module therefore also checks the lower one.

### `PagerWal` and the code

The pager mutex is held for the whole of a `Pager` call, so the only thing that
can happen between two of its system calls is a crash, an error, or a reader of
another thread touching its own snapshot.  `pc` is the position inside the call:
`idle` between calls; `frame`, `walsync`, `post` in `commit`; `ckpt` (fold and
sync), `saltw`, `salts`, `trunc`, `truncs`, `hdrw`, `hdrs` in `checkpoint`;
`unlink`, `drop` in `close`; `abort` after a commit that returned an error and
before the guard's `Drop` rolls back; `down`, `ftrunc` .. `fstamps` during
`open`; `failed` when `open` returned an error.  `txn` names the caller.

`main`/`wal` are the files as the OS shows them, `mainD`/`walD` as of the last
sync; the difference is what a power loss may take.  Page 0 is the pair (root,
salt); a WAL frame with id 0 is a staged header.  A frame keeps the fields
recovery looks at: id, body, LSN, salt, commit mark, and `ok` for the checksum.
`pending`, `view`, `viewHdr`, `root`, `dirty`, `cRoot` are the fields of
`WalState` and of the in-memory header; `salt`, `nextLsn`, `endOff`, `nFrames`
those of `Wal`.  `acked`, `limbo`, `faults`, and the fields `db` and `resets` of
a snapshot are history: no guard of the code's actions reads them except
`faults`, the bound on injected errors.

`commit`'s steps: `CommitEmpty`, `CommitTooLarge` (the size limit),
`CommitStart`, `WriteFrame`, `SyncCommit` (publishes), then `CommitReturns` or
`AutoCheckpoint`; the checkpoint: `CheckpointWrite`, `CheckpointSync`,
`RotateSalt`, `SyncSalt`, `TruncateWal`, `SyncTruncate`, `WriteHeader`,
`SyncHeader`.  `CheckpointFails` is any of those calls returning an error, which
`commit` swallows, `Db::checkpoint` returns after its guard has rolled back, and
`close` returns without unlinking.  `Rollback` is explicit rollback and `Drop`.
Recovery is `OpenRecover` (the WAL has a commit of the current salt),
`OpenFresh` and the five steps that create a new WAL, or `OpenFails` (a frame of
this generation before the last commit has a bad checksum).

Abstracted: page bodies are model values; the cache (write-through of clean
pages) changes no result and is left out; page 0 and the WAL header are written
atomically (their fields lie in one sector); allocation is fixed; `flush`,
encryption and mutex poisoning are left out.  A failed write of one WAL frame
may have written nothing, all of it or a torn frame; other failed calls leave
the file as it was.  Recovery keeps the largest commit frame and the newest
frame of each page before it, as both passes do by walking the file.

### `WriteLock` and the code

`gate[e]` is `TxnEnv.write_serialization`, taken by a weak compare-exchange
(so `GateBusy` may happen to a thread that found it free, at its deadline);
`byte` is WRITER_LOCK as the OS sees it.  It is an open-file-description lock
and every thread of a handle uses the handle's one descriptor, so the handle is
the owner: `TakeByte` is granted to the handle that has it, and `ReleaseByte`
frees it whoever of the handle uses it.  `ReleaseGate` comes before
`ReleaseByte`, as in `commit` and `rollback`.  `Die` is the death of the process
that owns a handle.  Reader slots are taken in shared mode and nothing requests
them exclusively, so they exclude nothing and are left out.

### `Sessions` and the code

`stage[e]` is how far `Db::open_with` of handle `e` has come: `load` (the main
file's header is read), `stamp` (the WAL has been recovered or created, the main
file's salt not yet written), `catalog`, `open`.  `mem[e]` is its pager: key,
header, salt, view, staged header, the end of the WAL it goes on from and the
page count it has grown the file to.  `main` and `log` are the two files: pages
with the commit and the key that wrote them, the header and salt of page 0, the
length; frames with page, body, salt, key and commit mark.

`Initialise` and `LoadHeader` are `Pager::open_with_backends` up to the WAL;
`RefuseKey` is the key diagnosis; `Recover`, `CreateFresh`, `Stamp` and
`StampInMemory` are what follows, with the checkpoint of a full log;
`InitCatalog`, `OpenCatalog`, `RefuseCatalog` are `Db`'s part.  `CommitWrites`
is a commit with its checkpoint, `RollBack`, `CheckpointHandle`, `BackUp` the
other ends of a `WriteTxn`, between `Ask`/`Obtain`/`Lock` and `Unlock`, which are
`WriteLock`'s actions.  `CloseHandle` closes; `Killed` is `Die`: the locks go,
the files stay.  A frame past the end of the log leaves a `Hole`, which reads as
salt 0.  `WriteFiles` also keeps history: the handles made `stale` by a
write of another, and `spoiled`, set by the first write of a stale handle.

Each call of a pager is one step, since what happens between its system calls is
`PagerWal`'s subject; processes are killed, power is not lost; the key of a page
is all there is of encryption, and a backup is taken of the plain format.

### `NodePages` and the code

A page's body is `Capacity` units where the code has bytes `PAYLOAD_OFFSET` to
`PAYLOAD_END`: cells grow from the front, slots from the back, with varint
prefixes.  `Image` is `encode_node`, `Stamped` and `Block` are compression,
checksum and encryption as `encode_page` orders them for formats 0, 1 and 2.
`DecodeNode`, `BorrowedLeaf` and `FindInPage` are the three decoders;
`LivePage` and `SnapPage` what the pager and a snapshot make of a block before
them; `Get`, `Descend`, `After`, `Advance`, `Scan` the two families of readers,
which share no line in the code; `IntegrityCheck` is `integrity.rs` with the
walk of the tree, of the freelist and the orphans.  Actions are `BTree`'s
operations (`Operate`), each of which rewrites the file at rest, and `Fault` on
the initial trees: one changed field or unit, with its old checksum or with one
made for it (`sealed`, only where no key is needed), a block in another's place,
a lost end of the file.

### `SchemaWalk` to `RecordLife` and the code

`SchemaWalk` is the stack machine of `codec/dynamic.rs`: `stack` the open frames,
`next` the schema of the slot to decode, `folding` a value on its way into the top
frame; one action per kind of slot and per way a frame takes a value, with
depth, node count, varint length and discriminant checked where the code checks
them.  The others are operators: `SchemaOf` (what obj-derive writes as schema),
`FromLive`/`Respecialize` (the stored form and its signedness hints), `FromDynamic`
(`dynamic_de.rs`), `AutoMigrate`, `ToTagged`/`FromTagged`, `Admission` (the checks of
a record's header), `Guard` (`ensure_schema_depth_bounded`), `Reflect`/`Extract`/`EncodeField`
(`extract.rs`, `key.rs`) and `DerivedIndexes`.  Widths are constants: a byte has
`2 * Cont` values, an integer `IntRange`.  They are recursive over data, so they
are checked by TLC and not proved about.

`RecordLife` puts them in the order of the program: `Write` (a typed insert with
its schema row, or raw bytes), `DecodeWith` (the checks of the record header, the
same version decoded directly, an older one walked), `Walk`, `MigrateDoc`,
`ExtractKeys`.

### `Reading` and the code

A read is an operator of a database `b` and the version `v` of the reader's type:
between transactions `b` is the committed state, as a `ReadTxn`'s snapshot has
it; inside one it is the transaction's own.  `Walk` is the range iterator of an
index tree between two bounds, `WidenLower`/`WidenUpper` what a logical bound
becomes over keys with an id suffix, `Fresh` the removal of duplicates,
`Refilled` one batch of `iter_range` and `Dump` one of the dump, `Refills` and
`Dumped` the caller that asks until nothing more comes.  Both are recursive
functions over the number of refills, of which one more than there are entries, or
ids, is enough.
`Candidates`, `FetchUnsorted`, `FetchSorted`, `CountFast`, `CountSlow` are
`query.rs`.  `Error` is a read that fails.

### How the modules fit together

Each layer is modelled over what the one below promises.  `PagerWal` implements
`TxnStore` (checked: `ImplementsStore`), one transaction at a time; `WriteLock`
is what makes it one at a time.  `DbCatalog` therefore keeps two states of the
pager, `disk` and `pager`, which a commit makes equal and a rollback too, and
`Documents` has `saved` and `db`; `BTree` has no transaction at all, because
pages, freelist and root are restored together.  `Sessions` takes `PagerWal`'s
calls as steps and asks what several handles do to each other.  `DbCatalog` shows under which condition the
catalog a transaction reads is the committed one; `Documents` takes that
condition for granted.

### `BTree` and the code

`tree` is the pages (a node each, or `Freed`), the freelist and `BTree.root`.
An operation holds the pager from its descent to its last `free_page`, so
`Insert` and `Delete` are one action each, and what they do is written as
operators that thread a work record `w` through the code's calls: `w.pages` and
`w.free` the pager, `w.ids` and `w.keys` the `ReplaceOutcome`, `w.freed` the
displaced pages, freed at the end by `Finished`.  `Put` is `write_new_node`, and
pages are taken and freed in the order of the code, so page numbers are the
code's.

`Inserted`: `Replaced` is the rewritten leaf, in one page or split
(`LeafGroups`/`SplitLeaf`), `Absorbed` is `replace_internal` with
`InternalGroups`/`SplitInternal`, `Rooted` is `build_new_root`.  `Cuts` is the
greedy loop that both packers share: where each group ends, the key that no
longer fits being the first of the next group of a leaf and the promoted pivot
of an internal node.  `Deleted`:
`Processed` is `process_parent` with `finalize_parent`, `Rebalanced` tries
`Merge` right, left, `Borrow` right, left, in that order, `Collapsed` is
`collapse_root`.  `LeafAfter`, `Advanced` and `Scanned` are
`descend_to_leaf_after`, `advance_to_next_leaf` and what a `RangeIter` emits.

All decisions are by bytes, so entries and pivots have sizes, as constants; a
value is no more than a share of its entry's size.  `SizesAssumption` is
`check_key_value_size`: an entry fits a page, a key is at most a quarter of one
(1024 bytes; with its slot and length 1038, of a payload of 4068), so that three
pivots fit; and a node of one child and no pivot, a few bytes, underflows.  `next_sibling` is written but followed by no reader and left out,
and so are the limits on depth and on scanned nodes.  The snapshot variants of
`get` and `range` are in `NodePages`.

### `DbCatalog` and the code

`pager` is the pages, the freelist, the page count and the header's
`root_catalog` as the open transaction sees them; `disk` is the same as last
committed.  `catalog` is the `Catalog` behind `Db.catalog` (`tree.root`,
`next_collection_id`), `poisoned` is `Db.catalog_poisoned`, `gate` the thread
that holds both locks of a `WriteTxn`.  `pc` is where a thread is in
`Db::transaction`: looking at the flag (`Call`), `recover_poisoned_catalog`
(`Recover`, `Clear`), `WriteTxn::begin` (`Begin`), the closure (`body`: `Use` is
`WriteTxn::collection` and the first write, `Reconcile` a reconciliation that
changes the row), `flush_descriptors` (`Flush`), then `Commit`, `Drop` (a failed
commit or flush, or a panic), or `Rollback` and `AfterRollback`, which refreshes
the catalog when the gate is open again.

`Cow` is `BTree::insert` or `delete` of one key: the new leaf, the new root, and
then the old pages freed, leaf first; `Catalog::update` is a delete followed by
an insert (`Replaced`), so the insert reuses the pages the delete has freed.
`InsertRow` is `Catalog::insert` with the watermark it persists.  Left out:
splits and underflow, schema rows, and the pages of document and index trees,
which share the freelist.  With them a page of a stale root could also be a
page of a document tree.

### `ErrorRing`, `CAnswers`, `CHandles` and the code

`ErrorRing` is `DbInner::set_error` in its four steps (claim a slot under the
lock, swap the message in, publish it as the last, free the displaced one after
the lock is given back) and the drop of `DbInner`.  None of these looks whether
`DbInner` is still there: that nobody records or drops after the drop, and nobody
is recording when it comes, is the contract of its callers (`RingNext`), which
`CHandles` has to keep (`RecordedAlive`).  `CAnswers` has an operator per call on a
handle: its argument checks in the code's order, an argument list being the set
of its defects; then the code, whether a message is recorded, and what is in the
out-parameter.  `InsertCalls` and the like are the answers of the calls of one
kind, by which an action of `CHandles` records a message or does not.

In `CHandles` a behaviour has Rust callers, and is `DbCatalog`'s, or C callers.
`strong` is the count of the `Arc<DbInner>`; `open`, `reads`, `iters` are the
handles out; `via` is what a failing call reaches the messages through: the
database handle, the read transaction, the open write transaction, or a clone of
the reference (`into_parts` in a commit, `db_arc` in a begin or an iterator that
fails), which is dropped after the message (`DropClone`).  C write
transactions are `BeginWriteC`, `DocInsert`, `DocUpdate`, `DocFails`, `FlushC`,
`CommitC`, `RollbackC`: `DbCatalog`'s pages and roots without the refreshes of
`Db::transaction`.  The C callers keep the header's contract: a handle is used by
one thread at a time and not after it was given back.

### `Documents` and the code

`db` is what the open transaction sees: the catalog row of the collection (a
`Descriptor`: `next_id`, and for the `Vec` of index descriptors the place of each
name in it and the set of those that are Active), the schema rows, the primary
tree (`docs`: id to value and version) and an index tree per name (`entries`).
`cache` is the entry of `WriteTxn.catalog_writes`, set by the first write and
flushed over the row by `Commit`.  `handle` is the version of the
`Collection<T>` in use, `staged` is `reconciled_staged`, `shared` the set of
`Db` it is promoted to.  `phase = "failed"` is a closure that returns its error;
after an error the closure may also go on, with whatever was written.

`OpenCollection` is `WriteTxn::collection`: lazy creation, then
`Catalog::reconcile_indexes` (declare what is missing, drop what no spec names)
unless this version has been reconciled.  `Insert`, `Update`, `Upsert`, `Delete`
are those of `Collection`, each with the order of its effects: descriptor,
schema row, primary tree, then `apply_doc_change` over the Active indexes in
descriptor order (`ActiveOrder`, the place in the walk of each index), which
stops at the first that refuses (`Reached`).  `Diffed`
and `Taken` are the unique and the standard diff of `index_maint.rs`.  Keys are
what the index extracts from a value (`Keys[n][d]`), migration a function on
values.  `RawInsert` and its siblings are the writes of a record's bytes: with
`keyed` they take the index entries of the version's own indexes from the caller
(`Given`), without it they leave the indexes alone.  One collection; blob overflow is left out.  `newest`,
`wentBack`, `behind`, `giving`, `given` and the fields `full` and `neglected` (a
write was kept without all its index maintenance: an index refused, or a raw
caller left out keys of an Active index) are history.

## 3. Runs

| Run | Instance | Checks | Shows |
|---|---|---|---|
| `PagerWal_faults` | 1 page and a root, ordered disk, one fault of five kinds | `TypeOK`, `CrashSafe`, `ImplementsStore` | killed or powered off between any two calls, also after a failed frame, fold, salt write, rollback header or unlink, an open finds a whole database; the pager is an atomic store |
| `PagerWal_anyfault` | 1 page and a root, reordering disk, one fault of any kind | `ReadsAreCommitted`, `DurableAtRest` | reads stay committed whatever fails; with no failure even a reordering disk loses nothing outside a commit's own window |
| `PagerWal_readers` | 1 page, 1 reader, no crash, fairness | `SnapshotsStableForOneReset`, `WalDrains` | a reader keeps its database until the WAL has been reset twice under it; a full WAL is given back once readers are gone |
| `WriteLock_shared` | 2 handles, 3 threads, a key each or none, 2 commits, 2 opens, fairness | `HandlesTypeOK`, `OneWriterPerEnv`, `NoOrphanedLock`, `ByteComesFree`, `DurableUnlessStale`, `BackupIsSnapshot` | the gate serialises a handle, no lock outlives its owner; until a handle writes over files another has changed, the next open finds the last commit, and a backup is the database it was taken of |
| `DbCatalog_fresh` | a root over two leaves, 3 names, 2 threads in Rust or in C, 5 transactions, 4 errors | `RowsKeptWhenFresh`, `WatermarkAhead`, `MessagesReadable`, `HandlesKept`, `RecordedAlive` | whatever is rolled back, dropped or refreshed late: as long as no transaction commits from a stale root, no collection is lost, no id given twice; the last message stays readable, the database lives as long as a handle, and no call has a message to record after it is gone |
| `Documents_indexes` | 3 indexes (one unique, one Each), 2 versions, 2 ids, 3 writes | `IndexesAgree`, `UniqueKeys`, `DeclaredIsActive`, `IdsNeverReissued`, `SchemaOfEveryRecord`, `ReadsFindAll`, `QueriesAgree`, `CheckPasses` | indexes follow the documents; ids are not given twice; every record keeps its schema; at every moment every way of reading gives the same documents, and the integrity check passes |
| `BTree_map` | 11 keys, leaves of 1 to 4 entries, nodes of 3 or 4 pivots, 5 initial trees in 3 formats, 3 operations, one damaged unit | `TypeOK`, `NodesFit`, `PagesAccounted`, `ScansFindAllInFullLeaves`, `ImplementsMap`, `ReadersAgree`, `DecodersAgree`, `DamageDetected` | splits, merges and borrows keep the map; no page is lost or freed twice; every node fits; live and snapshot readers and the three decoders agree; damage is met as an error |
| `Records_life` | 36 shapes of types, attributes and schemas with their edge values | `WalkDecodes`, `TaggedAccepts`, `StoredSchemasRestore`, `WideRecordsReadBack`, `KeysSortAsValues`, `WalkEnds` | the walk ends with what the schema means, at each of its limits; records read back under a newer type; stored schemas come back; keys sort as values |
| `PagerWal_residue` | 2 pages, a failed WAL sync | `CrashSafe` violated | frames of a failed commit come back |
| `DbCatalog_stale` | as `DbCatalog_fresh`, Rust only | `RowsKept` violated | a leaf committed as the whole catalog |
| `BTree_scan` | as `BTree_map` | `ScansFindAll` violated | a scan ends before keys that `get` finds |
| `Sessions_coexist` | 2 handles, one of them read-only, one thread | `CoexistsWithReaders` violated | a read-only open loses the writer's commits |

Sizes: `DbCatalog_fresh` has 4.1 million distinct states (under two minutes with
two workers), `Documents_indexes` 1.8 million (two to four minutes),
`WriteLock_shared` 0.7 million (three), `BTree_map` and `Records_life` 12 thousand each,
with large states.

The last four are disagreements between the code and what its comments say;
`PROJECT.json` quotes both sides.

1. *Residue.* `WalTxn::commit` writes its frames and then syncs.  When the sync
   fails, `end_offset` does not move, but valid frames with a commit mark lie
   behind it.  A later, shorter commit overwrites only the first of them, and
   recovery walks on to the failed commit's mark.
2. *Stale root.* A dropped transaction leaves the in-memory catalog where its
   closure advanced it, and after a rollback the gate opens before the refresh.
   `Catalog::update` leaves that root at a page number which, after the
   rollback, is the committed leaf it replaced.  The next transaction finds its
   collection in that leaf, and commits it as the root: the collections of the
   other leaves are gone, and the file cannot be opened again when the
   watermark's leaf is among them.  `RowsKeptWhenFresh` is what remains true.
3. *Read-only open.*  `Db::open_readonly` takes no lock and opens the pager as
   every open does.  When it finds no commit in the WAL, it empties it under a
   new salt and writes that salt into the main file; when it finds commits past
   the threshold, it checkpoints.  The writer goes on with the old salt and the
   old end, and what it commits then is acknowledged and not found by the next
   open.  `DurableUnlessStale` is what remains true.
4. *Empty leaf.*  An internal split promotes the pivot that does not fit and
   opens the next node with its right child.  When that is the last pivot, and
   with keys of one size it always is, the node has one child and no pivot,
   which `split_internal` says cannot be.  Deleting the last key of that
   child's leaf finds no sibling to merge with; the node is merged or borrows a
   level up, and the empty leaf then stands between full ones, where both loops
   of `RangeIter` take it for the end.  `ScansFindAllInFullLeaves` is what
   remains true.

### Known disagreements

Met while modelling, with the definition that has it; those reached by one change
of constants are excluded from the passing runs by their values.

The pager and the locks:

* a failed header write at the end of a checkpoint (`FaultPoints = {"hdrw"}`):
  the WAL has moved to a new salt and the main file has not, commits go on being
  acknowledged, the next open discards them (`CrashSafe`);
* `close` while a snapshot defers its checkpoint (`Readers = {r1}` with crash
  model `process`): the WAL is removed with commits in it (`CrashSafe`);
* a reordering disk inside a commit's window (`CrashModel = "any"`): the marked
  frame may persist without an earlier one (`CrashSafe`; this is why
  `DurableAtRest` excludes that window);
* a writer that never calls `Db::checkpoint` (`PersistentWriter`): a full WAL
  stays full, because only a successful commit checkpoints (`WalDrains`);
* the checkpoint is deferred while a reader is pinned below the end of the WAL,
  and pins are LSNs; a reader exactly at the end does not defer it, the reset
  starts LSNs at 1 again, and from then on its pin is above everything.  The
  second checkpoint after that overwrites main-file pages the reader falls
  through to (`SnapshotsStable`, of which `SnapshotsStableForOneReset` remains);
* `commit` and `rollback` release the gate, then the byte.  Between the two a
  second thread of the handle takes the gate and is granted the byte its
  descriptor already holds; the first thread's unlock then frees it and another
  handle may write (`SingleWriter` of `WriteLock`; theorem
  `ExclusionBetweenEnvs` says what remains);
* a handle that gets the lock does not look at the files again, so two handles
  that both write lose each other's commits (`DurableUnlessStale` stops there);
* a process killed between the length and the header of a new file
  (`pager/mod.rs:2490`) leaves zeros that no open accepts;
* `alloc_from_freelist` checks a freelist link against itself and the page count
  only, so a longer cycle or a cross-linked page is not noticed;
* the memory pager has neither rollback nor isolation.

Pages and backup:

* the compressed flag of a page's trailer (bit 31) is outside the checksum, and
  in a format-0 file that bit is the checksum's own; a backup of a database that
  may compress declares format 0 over format-1 pages, so about half its
  uncompressed pages read as compressed (`backup.rs:22`, `db.rs:1274`);
* a block in another page's place is noticed only under encryption; an
  out-of-range child aborts `integrity_check` instead of being reported; the
  empty leaf of finding 4 makes it report index entries as orphans;
* `integrity_check` is documented to open a read snapshot, and reads the live
  pager; `stat` reads under separate locks.

The catalog, documents and reading:

* the first write of a transaction caches the collection's descriptor; when a
  newer version of the type opens the collection later in the same transaction,
  its new index is declared in the catalog row, but writes go on with the cached
  descriptor, which commit puts back over the row, and the promoted skip-cache
  keeps the process from declaring the index again (`AddedIsActive`, which
  `DeclaredIsActive` restricts to the other transactions);
* a closure that goes on after `UniqueConstraintViolation` and commits leaves
  its document in the primary tree without the refused entry
  (`IndexesAgree` and `UniqueKeys` exclude `neglected`);
* the old keys of an older record are extracted from its migrated value, so a
  migration that changes an indexed key leaves the old entry behind
  (`MigrateAssumption` excludes it for indexes an older version declares);
* an index declared on a collection with documents is not filled (`full`);
* a name that was dropped and is declared again by a later version stays
  DroppedPending: `declare_index` finds the name and leaves it alone
  (`Declared`; the hypothesis `NoRevival` of `DeclaredActive`);
* an index that a version drops stays Active when its reconciliation was skipped
  (it is in the skip-cache) or ran behind a cached descriptor; a raw writer of
  that version knows nothing of it and names no entries for it, so that its old
  entries dangle (`neglected`, through `missed`; found by the proof of
  `IndexesFollow`);
* `upsert` above the watermark does not move it: a later insert fails with
  `BTreeKeyExists`, and an id that was only upserted may be issued later
  (`IdsNeverReissued` is about ids that inserts returned);
* `recover_poisoned_catalog` clears the flag outside the gate (`Clear`);
* raw writes leave records without a schema row, and without keys leave entries
  dangling or missing (`neglected`); a dangling entry is `None` to the typed
  `find_unique` and `Corruption` to the raw one;
* `iter_range` inside a write transaction keeps the index root it was made with;
* `Query::index_range` rejects the `Seq` bounds a composite index would need;
  the snapshot's descriptor look-up ignores namespaces.

Values:

* the derived schemas of `u8`, `i8` and `f32` say varint and 64-bit float, and
  the bytes have neither width (`obj-derive/src/lib.rs:551`): a record with such
  a field cannot be read by a newer version (`OldRecordsReadBack`, of which
  `WideRecordsReadBack` remains);
* a stored schema may be deeper than `walk_schema` can walk; the guard against
  drifted schemas ignores signedness; `take_varint_u64` loses bits above 64;
* `NullSerializer` has no 128-bit integers, and an indexed one is truncated;
  `Bytes` keys sort by length first; -0.0 and 0.0 are two keys;
* a composite that names a field twice compiles, and every write then fails with
  `IndexFieldMissing`; `indexes()` drops specifications that `validate` refuses,
  and nothing checks that names differ.

The C interface:

* its write transactions neither look at the poison flag nor refresh the catalog
  after a rollback, so that finding 2 needs no race there (`BeginWriteC`,
  `RollbackC`);
* refused arguments, "not found" and caught panics record no message, where the
  header says `obj_errmsg` tells of the last error (`Checked`); after `obj_close`
  messages live on with the last transaction.

### Bounds

Bodies: blank and one other, enough to tell an old page from a new one; a third
value would only rename states.  Salts: two, so that a generation can return
(the code draws 32-bit salts at random; a reuse after two rotations is the
worst case).  `WalCap = 3` frames and `Threshold = 2`: a two-frame commit fits
once and reaches the threshold, a second does not fit, and a one-frame commit
over the residue of a longer one does.  One page and a root give two-frame
commits with a header; the residue run has two pages because the header would
be rewritten last.  `MaxFaults = 1`: each finding needs one.  One reader: readers
do not interact.  Salts are symmetric in every safety run of `PagerWal` (no
action orders them).  `PagerWal_anyfault` turns deadlock checking off because an
open that failed stays failed.

`Sessions`: two threads of one handle and one of another are the least that can
meet at both locks; two pages, so that a commit may write one and grow the file
by the other; two salts, so that one returns; `MaxCommits = 2` and
`MaxOpens = 2`: one handle commits, the other opens beside it or after it.
`Sessions_coexist` has `Threshold = 3` and three opens: commit, read-only open,
commit, open again.  With `GoOn = FALSE`, in `WriteLock_shared`, only
the transactions under way end after the first write of a stale handle, where
`DurableUnlessStale` ceases to promise anything: nothing is opened, closed, killed
or begun any more.  `Sessions_coexist` has `GoOn = TRUE`, and the theorems hold
for both.  Handles may be closed when opens
are used up, so deadlock checking is off.

`DbCatalog`: two threads, because a late refresh concerns one transaction of
another; `MaxTxns = 5` for two that leave the memory stale, one that recovers
and two that commit; `MaxPage = 12` never bites.  Names are chosen so that each
leaf has a row and one name is new.  `CHandles` adds a ring of two and four
errors, so that a slot is used a second time while its first message is still
being displaced, one read transaction and one iterator, and four C transactions.

`Documents`: two ids, so that the space is
exhausted and two documents compete for a key; any number of transactions and
restarts; three writes in all, so that a document can be
written, moved and removed; version 2 drops an index of version 1 and declares
another, with a value that migrates.  `Reading`: batches of one, so that each
entry ends one, and `MaxDistinct = 1`, so that two ids are too many.

`BTree`: a payload of 20 units, pivots of a quarter of it or smaller, and entries
from a quarter to the whole give leaves of one to four entries and nodes of four
or five children.  The initial trees have one to three levels, and with three
operations reach each branch of the code: splits in two and in three, merges
right and left and borrows right and left of leaves and of internal nodes, a root
that grows and one that collapses.  The initial trees are built by the model's
own insert, and `ImplementsMap` and the invariants include them.  `NodePages`:
keys of one and two bytes, one a prefix of others; the continuation bit at 8, so
that lengths need two bytes; a damaged unit is 0, a small number, a large one or
one past the page, the values a comparison or a length can turn on.

`Records_life`: depth 4, 7 nodes, varints of three bytes, integers below 128 and
discriminants below 16, at most two Each entries: each limit is met, passed by one
and missed by one among the shapes of `MCRecordLife`.

In all of these, operations, transactions or calls are bounded and the system
stops when they are used up, so deadlock checking is off; in `PagerWal_faults` and
`PagerWal_readers` the system never stops.

### Fairness

`PersistentWriter`: the thread inside a pager call keeps running (weak fairness
of `InCall`, straight-line code under the mutex), a new transaction begins and is
committed (strong fairness of the commit call, because a rollback is always
possible instead).  `CheckpointingWriter` adds an application that calls
`Db::checkpoint` again and again.  Readers and `Close` have none.
`SessFairSpec`: the retry loops are bounded by a deadline, so a thread inside
`begin` gets an answer, and a transaction is finished by its owner or by `Drop`;
nobody need open, close or die.  `LifeSpec`: the walk is a loop of one thread
(weak fairness of `Walk`); that it ends is the code's merit.

## 4. Proofs

Assumptions are the modules' `ASSUME`s: there is a page body `Blank`, `None` is
neither a body nor a root, nor a header or a database, `Nothing` is neither a page
with its key nor a header, 0 is a root, every salt
has another salt to rotate to, limits are naturals, modes are among those listed;
each thread has a handle; a ring has a slot; the callers of the C interface are
the threads of the catalog, finitely many; a collection has finitely many indexes, and its
`NoDoc`, `NoRow`, `NoVersion` are no record, descriptor or version; the collections
there are at first are finitely many; a tree has finitely many keys, whose sizes are
those that `check_key_value_size` lets pass, and a tree there is at first was built
by inserting different keys; a document has finitely many keys in an index, a
batch has room for one entry, and `Error` is neither a document nor a count nor a
list of documents.

### The pager

* `PagerWal_proofs!TypeCorrect`, `Spec => []TypeOK`, for any number of pages,
  bodies, salts and readers, every crash model and every set of fault points.
  `TypeOK` alone is not inductive: a frame's body is `pending[id]`, a body only
  if `id` is staged, and `NextId(todo)` is an element only if `todo` is not
  empty.  `TypeInv` adds `CallShape`: in each `pc`, what `todo` ranges over and
  who the caller is.
* `PagerWal_proofs!ReadsCommitted`, `Spec => []ReadsAreCommitted`.  The inductive
  invariant `ReadInv` says where the acknowledged database is in every `pc`: the
  committed overlay over the main file (`OverlayCommitted`), the root readers
  get and the root in memory (`RootCommitted`), what a rollback would restore
  (`SnapshotCommitted`: the overlay remembered at begin over the main file is
  the same database), which pages of the overlay a checkpoint has folded already
  (`Folded`), and what the caller may be (`Callers`).  Folding a page changes the
  main file under the overlay that still shadows it, which is why rollback after
  `Db::checkpoint` is right although it restores an overlay that was emptied.
* `PagerWal_proofs!SnapshotsKept`, `Spec => []SnapshotsStableForOneReset` when no
  checkpoint call fails (`FaultPoints \cap CheckpointCalls = {}`).  Until the WAL is
  reset, a reader's pin tells whether anything was committed since (`PinInv`: at
  the last LSN its database is the acknowledged one, and a checkpoint only runs
  when no pin is below that); after the reset it tells nothing, but what was
  folded is the reader's own database, until the second reset is on its way
  (`ShieldInv`).  With a checkpoint that stops half-way the property is false: the
  next one folds newer pages without a reset in between.

The other theorems of the pager are about the files, and
one quantity carries them: the log, which is the part of the WAL that the first
pass of recovery accepts, and what it holds of each page.  The files are
`Intact` when the synced and the current WAL have the same log and it makes the
acknowledged database over the main file; they are `Spent` when the main file
alone, synced, is that database, and whether the log is still found does not
matter.  `Settled` is either.  `FileInv` says which of them holds in every `pc`:
`RestInv` (Intact) between calls, while frames are appended and while pages are
folded; `SyncInv` before a commit's sync, when the current WAL has one commit
more than the synced one; `RotateInv` (Spent) while the generation changes;
`EmptyInv` after it; `DropInv` in `close`; `DownInv` when the process is gone,
with the database that the next open will find; `FreshInv` while `open` creates a
WAL.  Lemmas `CrashIntact`, `CrashSpent` and `CrashSettled` take each of these
through a crash, whatever it keeps of what was not synced.

* `CrashesAreSafe`, `Courteous => []CrashSafe` when `CrashModel # "any"` and
  `FaultPoints \subseteq Tolerated`.  `Tolerated` are failing frames, folds, salt
  writes, rollback headers and unlinks; a failed sync, truncation or header write
  really loses commits (finding 1 and the first of the known disagreements),
  and so does a disk that reorders inside a commit's window.  `Courteous` is
  `Spec` with an application that does not close a handle while a reader defers
  its checkpoint, the second of them.  `WriterCrashesAreSafe` is the same of
  `Spec` itself when there are no readers.
* `RestIsDurable`, `Courteous => []DurableAtRest`, in every crash model and for
  every set of fault points: the property itself asks that no call has failed yet.
  `WriterRestIsDurable` is the same of `Spec` without readers.
* `ImplementsTxnStore`, `Courteous => ImplementsStore` under the hypotheses of
  `CrashesAreSafe`, and `WriterImplementsTxnStore`.  By `StoreMapped` the mapping
  of `PagerStore` is, while the process runs, the acknowledged database, and
  else the one the next open finds; so a commit takes effect at its sync, a crash
  inside it either way, and every other system call is a stutter, those of
  checkpoint and recovery included.

### Collections

`Documents_proofs` is about any documents, keys, indexes, versions and number of
ids.  Two lemmas make the many operations few: `OperateEffect` says that an
operation, typed or raw, either fails before it touches a tree or writes one
record and maintains the indexes up to the first that refuses (`Written`);
`ReconciledEffect` says what a reconciliation leaves.

* `SchemasKept`, `Spec => []SchemaOfEveryRecord`: the same of the transaction's
  own state, since a rollback goes back to the other.
* `IdsIssuedOnce`, `Spec => []IdsNeverReissued`.  The watermark that counts is the
  one of the live descriptor, cached or in the row (`Above`): it is above all
  that was given and is being given, and the committed row's above all that was
  given.  An exhausted watermark is above everything.
* `DeclaredActive`, `Spec => []DeclaredIsActive` if no version declares a name
  again that one before it dropped (`NoRevival`).  `MemoryInv` says that a
  descriptor remembers only what versions up to the newest used have declared,
  `DeclaredInv` that what is DroppedPending was dropped by one of them
  (`Buried`) and that the versions in the skip-caches find what they declare.
* `IndexesFollow`, `Spec => []IndexesAgree`, with no hypothesis.  `Follows` says of
  one index of one database that its entries belong to their documents, that
  those of a full index are all there, and, when migration may change its keys,
  that records of another version than the newest have none.  Without that last
  clause it is not inductive: the old keys of a record are extracted from its
  migrated value; it holds because such an index is declared by the last version
  only (`UnsteadyIsLast`).  The proof is what found that
  a raw writer may miss an index it does not declare (section 3).
* `UniqueKeysKept`, `Spec => []UniqueKeys` if migration leaves the keys of Unique
  indexes alone (`Unique \subseteq Steady`); otherwise a program that goes back to
  an older version may store a record whose key is compared in one form and
  filed in another.

What is read of a collection is an operator of its state, so the three properties
of `Reading` need few invariants more, and many lemmas.  The invariants are `TypeInv`,
`FollowInv` of `IndexesFollow`, and `AgreeInv`: unless a reconciliation has changed
the row behind it, the cached descriptor has the catalog row's Active indexes, so a
write maintains every index that a read may choose.  With them (`ViewFull`) an index
in `Complete` is full: it has an entry for each key of each document, and no other.

* `ReadsAreComplete`, `Spec => []ReadsFindAll`, with no hypothesis.  A walk lists
  the entries between its bounds in the one order they have (`WalkEnumerates`), and
  with the widened bounds these are the entries of the documents whose key is in the
  caller's range (`CollectWithin`); `Fresh` keeps one per document (`FreshGives`).
  For the batches, the invariant of the resume key is that what the
  iterator has given is what `Fresh` gives of a prefix of that walk, and that it
  resumes behind that prefix (`Consumed`); a refill moves it forward or ends it, so as
  many refills as there are entries are enough.  The dump has the same over the ids
  (`Passed`, `DumpPasses`).
* `QueriesCountAndSort`, `Spec => []QueriesAgree`.  The candidates of a query are the
  documents that `count_fast` counts (`CandidatesCount`); an unsorted query takes the
  first that pass (`UnsortedTakes`); sorting permutes them in an order that rank and
  place make total, so the cut keeps the least (`RankedOrders`, `SortedKeeps`).
* `IntegrityCheckPasses`, `Spec => []CheckPasses`: the entries without a document
  and the documents without an entry, from the same lemmas.

### Handles on one file

`Sessions_proofs` is about any number of handles, threads, keys, pages, commits and
opens, and both values of `GoOn`.

* `SessionsTypeCorrect`, `SessSpec => []HandlesTypeOK`.  The property is not
  inductive: what a handle recovers are the bodies of frames, and the property
  says nothing of those.  `SessTypeInv` adds the types of both files, and that every
  body, in the main file, in a frame or in a handle's view, was written by a commit
  that has been counted.  The second part is also what makes the bodies of the
  next commit new.
* `SessionsDurable`, `SessSpec => []DurableUnlessStale`.  `SyncInv` has two halves,
  and both are promised until a stale handle writes.  `FilesHold` is about the
  files: the WAL over the main file makes the acknowledged database; all the frames
  are of the main file's salt and one key and the last is a commit, so a recovery
  accepts all or, under a wrong key, refuses before it changes anything
  (`RecoversWhole`, `NothingDeciphered`).  `Knows` is about each handle that is not
  stale, by the stage of its open: between `load` and `stamp` it has seen the
  header and not the log; from `catalog` on it has the current header, salt, end of the
  log and file length, and its view covers every page the log holds.  The view may
  hold more than the log does, since a checkpoint by another empties the log
  but leaves the main file with the same page (`Covers`).

  Nothing locks the opens, so each write must be shown harmless to handles in
  every stage.  It is, because every write that changes a file makes all the others
  stale: only the writer's own knowledge has to be carried over.  `CommitKeeps`,
  `FoldKeeps` and `HeaderKeeps` say what a commit, a fold and a header write leave
  in the files; `SyncWrites`, `SyncFolds` and `SyncCommit` put the writer's
  knowledge back.  The hard case is a stale handle whose write leaves the files as
  they were, and so spoils nothing: `CommitChanges` shows that a commit is never
  one of those, its bodies being new, so nothing is acknowledged that is not in
  the files.
* `SessionsBackup`, `SessSpec => []BackupIsSnapshot`.  A backup copies what the handle
  sees and is opened without a WAL: `CopyRecovers` says that the file so
  made is the handle's database, for pages of the WAL, pages past the end of
  the main file (which nobody has written, by `FilesHold`) and a header that was never
  staged.

TLC checked `SyncInv` and `SessTypeInv` on the instance of `WriteLock_shared` before
they were proved.  `Sessions_coexist` shows what the hypothesis of
`DurableUnlessStale` is worth: without it the conclusion is false.

### The B-tree

`BTreeInsert_proofs` and `BTree_proofs` are about any finite set of keys, any sizes
of entries and pivots within the limits, any capacity, trees of any depth and any
number of operations.

* `BTreeInvariant`, `Spec => []TreeInv`.  A tree gives each page bounds: the root's
  are 0 and a number above every key, a child's are the pivots on its two sides.
  `TreeInv` says that such bounds exist (`TreeOn`): a node's keys rise and lie
  between its bounds (`Spans`), its children have the bounds its pivots say and
  are one level lower (`Bears`), it fits its page, no page has two parents, and every
  page is in the tree or once on the freelist (`Accounted`).  It is stated for several
  trees at once (`Forest`, with roots `R`) because that is what the pages are in
  the middle of an operation: the children beside the way from the root to the key
  (`Above`), and the pages written so far in place of the lower part of the way.
  The pages of the way itself are `D`, displaced and freed at the end, which is
  why the operation never writes over a page that it still reads.
* Insert (`InsertedSound`): `Climb` is that state after each level.  The leaf with
  its key takes at most two pages' bytes, so it is cut in at most three groups that
  fit (`LeafGroupsAre`); its parent gets at most two pivots more, so it is cut in at
  most two (`InternalGroupsAre`), and `Rooted` ends after one round.
* Delete (`DeletedSound`): `Shrinks` is the state after each level.  A merge and a
  borrow are one fact: the pair with the pivot between them, as one node (`Joint`),
  written as it is or cut in two elsewhere (`Recut`).  That a borrow leaves the giver
  with a key, and that the receiver, the giver and the parent fit, is what
  `HasSpare` and `BorrowFits` are for; nothing more is needed of them.  A root without
  pivots has one child with the root's own bounds, so `Collapsed` loses no key.
* Look-ups (`LookedUp`): the leaf on a key's way is the only one whose bounds are
  around it.  Any other would have a parent with the key in its bounds and off the
  way, and so on upwards without end, while levels are bounded (`NoneAscends`).
* So `BTreeTypeCorrect`, `BTreeNodesFit` and `BTreePagesAccounted`, the last with
  `PagesOfTree`: what `TreePages` collects level by level from the root are the pages
  of the tree, all of them; and `BTreeImplementsMap`, `Spec => ImplementsMap`: an
  insert or a delete changes what look-ups find by its key and by nothing else.
* Scans (`BTreeScans`, `Spec => []ScansFindAllInFullLeaves`): the leaf after a leaf's
  last key is the one that starts where that leaf ends (`LeafAfterIs`).  Below the
  lowest node of the way that has a next child, the way takes last children only, so
  that the leaf's upper bound is the lower bound of that next child (`BoundKept`,
  `NextChild`), and of the first leaf below it (`FirstLeaf`).  So the leaves visited are a
  `Chain`; a chain is not longer than the file, because its lower bounds rise
  (`ChainShort`), hence it ends at the tree's upper bound and has the leaf of every key
  from the start on (`ChainCovers`).  That no leaf but the root is empty is used in one
  place, `AdvancedIs`: a leaf without keys has no last key to go on from.  Without it
  the property is false (section 3, *Empty leaf*).

The recursive functions of `BTree` (`Total`, `Path`, `PutAll`, `Finished`, `Cuts`, the
climb of `Inserted` and of `Deleted`, `Loaded`, `Visited`) are each met by a lemma that says the
function satisfies its equations; the induction over its steps is then an ordinary one,
by the least counterexample (`LeastNatural`).  `TreeInv` speaks of bounds that exist,
which TLC cannot enumerate; `BTree_map` checks the five properties it implies.  That
run's specification, `SpecPages` of `NodePages`, has the same steps on `tree` as `Spec`
and adds file formats and damage, which do not touch it.

### The catalog

`DbCatalog_proofs` is about any threads, names, file size and number of
transactions, and both shapes of the tree.  `CowTree` is the lemma the rest hangs
on: in a file whose freelist names each free page once (`FileOK`), one key's
change leaves a tree that reads as before at every other key, in no more pages,
with the freelist again in order.  Because the pages are freed only after the new
ones were written, no new node lands on a page that is still in use.

* `CatalogSafe`, `Spec => [](RowsKeptWhenFresh /\ WatermarkAhead)`, and
  `CHandles_proofs!RowsAreKept` and `WatermarkStaysAhead`, the same of `CSpec`.
  `CatalogInv` says, until a transaction that began with a stale root commits:
  the committed tree holds what was acknowledged, has no second root and no
  second leaf with a watermark (`OnDisk`); the id in memory is never behind the
  file's watermark, although rollbacks let it run ahead (`InMemory`); the open
  transaction has either changed nothing or installed its tree in both places
  (`Staged`); and if its root was fresh it has changed one row (`Fresh`).  `Staged` is
  what makes a late refresh harmless, even in the middle of another thread's
  transaction: the root it reads is the one that is in memory already.  A stale
  root leads to nothing or to a leaf of the committed tree (`Standing`), so that
  even the pages such a transaction stages are a tree: what it writes is sound,
  but not what was acknowledged.

### Locks, handles, messages

* `Sessions_proofs!WritersOfOneEnv` and `NothingOrphaned`: the inductive
  `GateInv` says that a handle's gate is shut exactly while one of its threads
  is between acquisition and release.
* `Sessions_proofs!ExclusionBetweenEnvs`: with one writing thread per handle
  there is a single writer.  The hypothesis is the price of the release order.
* `Sessions_proofs!ImplementsLocks`: every step of `Sessions` is a step of
  `WriteLock` or leaves the locks alone, a kill being the death of its threads;
  so `SessionsOneWriter` and `SessionsOrphanNothing`.
* `CHandles_proofs!RingReadable`, `[]MessagesReadable`, for any number of threads
  and any length of the ring.  `RingInv` orders the messages by their numbers:
  whoever has the lock has the youngest, one after the last published
  (`LockOrder`); a slot holds numbers of its own, and only older ones when the
  next is swapped in (`SlotOrder`); a displaced message is a ring's length older
  than the one its thread records (`DisplacedOld`), which is published before
  the free, so it is not the last when it is freed.  That two numbers of
  one slot are at least `RingLen` apart is the lemma `Apart`, the only place
  where arithmetic with a symbolic modulus is needed.
* `CHandles_proofs!HandlesAreKept`, `CSpec => []HandlesKept`.  `HandleInv` adds
  that the count of the `Arc<DbInner>` is the number of those who hold one: the open
  handle, the live read transactions and iterators, the threads in a write
  transaction, the calls that keep a clone until they have recorded their
  message.  The last two are cardinalities over the threads, which one step
  changes by one (`CountUp`); a commit that fails gives up one and takes
  another in the same step.
* `CHandles_proofs!CallsKeepDbInner`, `CSpec => []RecordedAlive`: when `DbInner` is
  dropped, every call that failed has recorded its message.  `HandleInv` says of
  each such call what it reaches the messages through (`Anchored`): a clone, which
  is counted, or a handle it borrows, which its callers' contract keeps from being
  given back meanwhile, so that as many handles are out as calls borrow.  When
  the count is 0 there is no clone and no handle, hence nobody is recording.  The
  proof of each action that gives something back shows that it was not the
  last with a call still borrowing it.
* `CHandles_proofs!ImplementsRing`: every step of the C interface is a step of
  the ring or a stutter.  It rests on the same invariant, because the ring's
  contract is that nobody uses it after the drop; so `ErrmsgReadable`.

Only model-checked, because they are out of the prover's reach: the liveness
properties `WalDrains`, `ByteComesFree` and `WalkEnds`, and whatever rests on
`RECURSIVE` operators or on what a recursive definition computes for every input,
which is `NodePages` (`ReadersAgree`, `DecodersAgree`, `DamageDetected`) and
`RecordLife` with the value modules below it.

## 5. What is not modelled

* The page cache: it holds clean pages and is written through, so it changes no
  result of a file-backed pager.  Memory mappings, `flush` and the memory backend.
* A torn page 0 or WAL header: their fields lie in one sector and are written in
  one call.
* The ciphers, and collisions of checksums and tags.  A damaged WAL frame is one
  with `ok = FALSE`; a key is the name of a key.
* The bytes of a catalog row; names and paths beyond telling them apart.
* `attach`: an attached database is one more read-only handle (`Sessions`); its
  namespaces and its pin in a read transaction are left out.
* An iterator that is held across writes of its own transaction.
* A freelist shared by several trees, and several collections in one transaction,
  which share only the catalog.
* Power loss with several handles; the system calls inside a backup; the two
  writes that initialise a file.
* Mutex poisoning, out-of-memory, failures of memory mappings.
* Token generation in the derive macro; the layout of C buffers, the texts of
  `obj_strerror`.

## 6. Plan

1. `PageAlloc`: `alloc_page`/`free_page` with the freelist and file extension,
   for several trees, composed with the transaction of `DbCatalog`.  Theorem: no
   page is both free and in a tree.
2. Iterators held across writes, over `Reading` and the pages of `BTree`.
3. Namespaces and pins of attached databases, over `Sessions`.

Proofs: every safety property that a passing run checks of the pager, the handles, the
B-tree, the catalog, the collections with their reads, and the C interface is a
theorem, some under the hypotheses section 4 gives.  What is left is `NodePages`,
whose decoders would have to be stated without recursion over the bytes of a page, and
`RecordLife`, whose values are trees.
