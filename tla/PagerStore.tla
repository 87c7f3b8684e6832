----------------------------- MODULE PagerStore -----------------------------
(***************************************************************************)
(* PagerWal implements TxnStore.  The committed database is the committed  *)
(* overlay over the main file while the pager is open and what recovery    *)
(* would find once it is gone; the working copy is the overlay of pending  *)
(* pages over it.  A checkpoint, an open and a rollback of the header are  *)
(* stutters: they move data between the files and memory and change        *)
(* nothing a transaction can see.                                          *)
(***************************************************************************)
EXTENDS PagerWal

Committed ==
    IF Running THEN [page |-> Over(main.page, view), root |-> cRoot]
               ELSE Recovered(main, wal)

\* The transaction is over once its frames are synced or its commit failed.
Working ==
    IF txn = "open" /\ pc \in {"idle", "frame", "walsync"}
    THEN [page |-> Over(Over(main.page, view), pending), root |-> root]
    ELSE None

Store == INSTANCE TxnStore WITH
            Databases <- Database, NoWork <- None,
            db <- Committed, work <- Working, committing <- pc \in {"frame", "walsync"}

\* Every step of the pager, its calls, crashes and recoveries included, is a
\* step of the abstract store or changes nothing in it (WriteTxn::commit,
\* Pager::checkpoint, recover_or_create_wal): transactions are atomic.
ImplementsStore == Store!Spec
=============================================================================
