------------------------------ MODULE CHandles ------------------------------
(***************************************************************************)
(* The handles of the C interface over the catalog of DbCatalog: obj_db_t, *)
(* write and read transactions and iterators each keep a reference to the  *)
(* DbInner they share, which owns the Db and its messages (ErrorRing).     *)
(* A C caller drives a transaction call by call, without Db::transaction:  *)
(* begin does not ask whether the catalog is poisoned, and no call reads   *)
(* it again after a rollback.                                              *)
(*                                                                         *)
(* A behaviour has callers of one kind.  The C callers keep the contract   *)
(* of the header file: a handle is used by one thread at a time, and not   *)
(* after it was given back.  Arguments are valid here: a call that refuses *)
(* its arguments changes nothing (CAnswers).                               *)
(***************************************************************************)
EXTENDS DbCatalog, ErrorRing, CAnswers

CONSTANTS
    MaxErrors,  \* bound on failing calls
    MaxReads,   \* bound on read transactions and on iterators
    MaxCalls    \* bound on write transactions of C callers

VARIABLES
    lang,    \* the callers: "Rust" or "C"
    open,    \* the obj_db_t has not been closed
    strong,  \* the Arc<DbInner>'s count
    reads,   \* read transactions
    iters,   \* iterators
    via      \* how a failing call reaches the messages

catalogVars == vars
handleVars == <<open, strong, reads, iters>>
chVars == <<catalogVars, ringVars, lang, handleVars, via>>

ASSUME CallersAssumption == Callers = Threads /\ IsFiniteSet(Threads)

\* Either obj_open has returned a handle, or Db::open a Db.
CInit ==
    /\ Init /\ RingInit
    /\ lang \in {"Rust", "C"}
    /\ open = (lang = "C") /\ strong = IF lang = "C" THEN 1 ELSE 0
    /\ reads = 0 /\ iters = 0 /\ via = [t \in Threads |-> "none"]

Handles == UNCHANGED handleVars
Catalog_ == UNCHANGED catalogVars
CanCall(t) == lang = "C" /\ stage[t] = "quiet" /\ via[t] = "none"

\* Threads whose failing call borrows a handle of this kind.
Borrow(k) == Cardinality({t \in Threads : via[t] = k})

\* What a call of t has told: if that is an error, it goes on in set_error.
Returns(t, answer, k) ==
    IF answer.told THEN /\ seq + Cardinality({u \in Threads : stage[u] = "lock"}) < MaxErrors
                        /\ Record(t) /\ via' = [via EXCEPT ![t] = k]
                   ELSE UNCHANGED <<ringVars, via>>

\* n references are dropped, with the last one DbInner.
Release(n) ==
    /\ strong' = strong - n
    /\ IF strong = n THEN DropRing ELSE UNCHANGED ringVars

-----------------------------------------------------------------------------
(* Write transactions.                                                     *)

\* obj_txn_begin_write clones the reference, and begins a core WriteTxn.
BeginWriteC(t) ==
    /\ CanCall(t) /\ open /\ pc[t] = "idle" /\ txns < MaxCalls /\ gate = None
    /\ gate' = t /\ Goto(t, "body")
    /\ txns' = txns + 1
    /\ stale' = (catalog.root # pager.root)
    /\ strong' = strong + 1
    /\ Returns(t, obj_txn_begin_write({}, "ok"), "none")
    /\ UNCHANGED <<disk, pager, catalog, poisoned, using, row, acked, tainted,
                   lang, open, reads, iters>>

\* Not before busy_timeout is over.
BeginWriteBusy(t) ==
    /\ CanCall(t) /\ open /\ pc[t] = "idle" /\ gate # None
    /\ strong' = strong + 1
    /\ Returns(t, obj_txn_begin_write({}, "Busy"), "arc")
    /\ UNCHANGED <<catalogVars, lang, open, reads, iters>>

InTxn(t) == CanCall(t) /\ pc[t] = "body"

\* insert and upsert, raw or indexed: ensure_collection_raw registers a name
\* the catalog does not know.
DocInsert(t, name) ==
    /\ InTxn(t) /\ Use(t, name)
    /\ \E answer \in InsertCalls("ok") : Returns(t, answer, "none")
    /\ UNCHANGED lang /\ Handles

\* update and delete: catalog_get_required.
DocUpdate(t, name) ==
    /\ InTxn(t) /\ using[t] = None
    /\ Reachable(pager, catalog.root, name)
    /\ IF Get(pager, catalog.root, name) # None
       THEN /\ using' = [using EXCEPT ![t] = name]
            /\ row' = [row EXCEPT ![t] = Get(pager, catalog.root, name)]
            /\ \E answer \in UpdateCalls("ok") : Returns(t, answer, "none")
       ELSE /\ UNCHANGED <<using, row>>
            /\ \E answer \in UpdateCalls("CollectionNotFound") : Returns(t, answer, "write")
    /\ UNCHANGED <<disk, pager, catalog, poisoned, gate, pc, txns, history, lang>> /\ Handles

\* The root in memory leads nowhere.
DocFails(t, name) ==
    /\ InTxn(t) /\ using[t] = None /\ ~ Reachable(pager, catalog.root, name)
    /\ \E answer \in InsertCalls("Corruption") \cup UpdateCalls("Corruption") :
          Returns(t, answer, "write")
    /\ UNCHANGED lang /\ Catalog_ /\ Handles

\* WriteTxn::commit writes the descriptors back ...
FlushC(t) ==
    /\ InTxn(t) /\ Flush(t)
    /\ UNCHANGED <<ringVars, lang, via>> /\ Handles

\* Faulty: the box is forgotten with the reference in it.
CommitLeaking(t) ==
    /\ CanCall(t) /\ Commit(t)
    /\ UNCHANGED <<ringVars, lang, via>> /\ Handles

\* ... and commits the pager; obj_txn_commit then drops the reference that
\* into_parts took out of the handle.
CommitC(t) ==
    /\ CanCall(t) /\ Commit(t)
    /\ Release(1)
    /\ UNCHANGED <<lang, open, reads, iters, via>>

\* Nothing was written.
CommitNothing(t) ==
    /\ InTxn(t) /\ using[t] = None
    /\ gate' = None /\ Goto(t, "idle")
    /\ Release(1)
    /\ UNCHANGED <<disk, pager, catalog, poisoned, using, row, txns, history,
                   lang, open, reads, iters, via>>

\* The flush or the WAL refuses: the transaction is dropped, then the message
\* is recorded, then the reference goes.
CommitFails(t) ==
    /\ CanCall(t) /\ Drop(t)
    /\ \E e \in {"Io", "InvalidArgument"} : Returns(t, obj_txn_commit({}, e), "arc")
    /\ UNCHANGED lang /\ Handles

\* obj_txn_rollback drops the box.
RollbackC(t) ==
    /\ InTxn(t) /\ Drop(t)
    /\ Release(1)
    /\ UNCHANGED <<lang, open, reads, iters, via>>

-----------------------------------------------------------------------------
(* Reading, and calls on the database.                                     *)

BeginReadC(t) ==
    /\ CanCall(t) /\ open /\ reads < MaxReads
    /\ reads' = reads + 1 /\ strong' = strong + 1
    /\ Returns(t, obj_txn_begin_read({}, "ok"), "none")
    /\ UNCHANGED <<lang, open, iters>> /\ Catalog_

\* No reader's lock, or no iterator: the reference cloned for the handle to come
\* is what the message is recorded through.
BeginReadFails(t) ==
    /\ CanCall(t)
    /\ \/ open /\ Returns(t, obj_txn_begin_read({}, "Busy"), "arc")
       \/ /\ reads > Borrow("read")
          /\ \E answer \in IterCalls("CollectionNotFound") : Returns(t, answer, "arc")
    /\ strong' = strong + 1
    /\ UNCHANGED <<lang, open, reads, iters>> /\ Catalog_

\* obj_txn_end_read, while no other call uses the transaction.
EndReadC(t) ==
    /\ CanCall(t) /\ reads > Borrow("read")
    /\ reads' = reads - 1
    /\ Release(1)
    /\ UNCHANGED <<lang, open, iters, via>> /\ Catalog_

\* obj_iter_all or obj_iter_index_range: the rows are read at once, and the
\* iterator outlives the transaction.
IterC(t) ==
    /\ CanCall(t) /\ reads > Borrow("read") /\ iters < MaxReads
    /\ iters' = iters + 1 /\ strong' = strong + 1
    /\ \E answer \in IterCalls("ok") : Returns(t, answer, "none")
    /\ UNCHANGED <<lang, open, reads>> /\ Catalog_

IterFree(t) ==
    /\ CanCall(t) /\ iters > 0
    /\ iters' = iters - 1
    /\ Release(1)
    /\ UNCHANGED <<lang, open, reads, via>> /\ Catalog_

\* A read that fails: an index that is not there, a damaged page.  The message
\* is recorded through the transaction.
ReadFails(t) ==
    /\ CanCall(t) /\ reads > Borrow("read")
    /\ \E answer \in ReadCalls("Corruption") \cup {obj_find_unique({}, "IndexNotFound")} :
          Returns(t, answer, "read")
    /\ UNCHANGED lang /\ Catalog_ /\ Handles

\* obj_stat, obj_integrity_check, obj_backup_to: the message is recorded
\* through the handle itself.
DbCallFails(t) ==
    /\ CanCall(t) /\ open
    /\ \E answer \in DbCalls("Io") : Returns(t, answer, "db")
    /\ UNCHANGED lang /\ Catalog_ /\ Handles

\* obj_close, when no call uses the handle.
CloseC(t) ==
    /\ CanCall(t) /\ open /\ Borrow("db") = 0
    /\ open' = FALSE
    /\ Release(1)
    /\ UNCHANGED <<lang, reads, iters, via>> /\ Catalog_

-----------------------------------------------------------------------------
\* The steps of set_error, then the return of the call, after a reference that
\* only the call holds has been dropped.
Recording(t) ==
    /\ Claim(t) \/ Swap(t) \/ Publish(t)
    /\ UNCHANGED <<lang, via>> /\ Catalog_ /\ Handles

Returned(t) ==
    /\ FreeDisplaced(t)
    /\ via' = IF via[t] = "arc" THEN via ELSE [via EXCEPT ![t] = "none"]
    /\ UNCHANGED lang /\ Catalog_ /\ Handles

\* Faulty: the reference goes before the message is recorded.
DropCloneFirst(t) ==
    /\ via[t] = "arc"
    /\ via' = [via EXCEPT ![t] = "none"]
    /\ Release(1)
    /\ UNCHANGED <<lang, open, reads, iters>> /\ Catalog_

DropClone(t) ==
    /\ stage[t] = "quiet" /\ via[t] = "arc"
    /\ via' = [via EXCEPT ![t] = "none"]
    /\ Release(1)
    /\ UNCHANGED <<lang, open, reads, iters>> /\ Catalog_

Rust(t) == lang = "Rust" /\ Step(t) /\ UNCHANGED <<ringVars, lang, handleVars, via>>

CStep(t) ==
    \/ BeginWriteC(t) \/ BeginWriteBusy(t)
    \/ \E name \in Names : DocInsert(t, name) \/ DocUpdate(t, name) \/ DocFails(t, name)
    \/ FlushC(t) \/ CommitC(t) \/ CommitNothing(t) \/ CommitFails(t) \/ RollbackC(t)
    \/ BeginReadC(t) \/ BeginReadFails(t) \/ EndReadC(t) \/ IterC(t) \/ IterFree(t)
    \/ ReadFails(t) \/ DbCallFails(t) \/ CloseC(t)
    \/ Recording(t) \/ Returned(t) \/ DropClone(t)

CNext == \E t \in Threads : Rust(t) \/ CStep(t)

CSpec == CInit /\ [][CNext]_chVars

-----------------------------------------------------------------------------
\* The Db and its messages live exactly as long as a handle or a call can
\* reach them, in whatever order database, transactions and iterators are
\* given back (the Arc in each box, obj_write_txn_t::into_parts).
HandlesKept ==
    lang = "C" =>
        /\ strong = (IF open THEN 1 ELSE 0) + reads + iters + Borrow("arc")
                    + Cardinality({t \in Threads : pc[t] \in {"body", "flushed"}})
        /\ gone <=> strong = 0

\* No call is still recording its message when DbInner is dropped, whatever the
\* other threads close, end and free meanwhile: a commit that fails has given
\* its handle up before it tells why (obj_txn_commit), and a begin that fails
\* never had one.
RecordedAlive == gone => \A t \in Threads : stage[t] = "quiet"
=============================================================================
