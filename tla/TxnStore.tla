------------------------------ MODULE TxnStore ------------------------------
(***************************************************************************)
(* What the pager and its write-ahead log promise to the code above them   *)
(* (crates/obj-core/src/txn.rs, module comment and WriteTxn): one database *)
(* and at most one write transaction, whose working copy becomes the       *)
(* database as a whole or not at all, whatever happens meanwhile.          *)
(***************************************************************************)
CONSTANTS Databases, \* the databases there can be
          NoWork     \* the working copy when no transaction is open: no database

VARIABLES db,         \* the committed database: what an open would find
          work,       \* the open transaction's database
          committing  \* the transaction has been asked to commit

store == <<db, work, committing>>

Init == db \in Databases /\ work = NoWork /\ committing = FALSE

Begin == work = NoWork /\ work' = db /\ UNCHANGED <<db, committing>>

Write ==
    /\ work # NoWork /\ ~ committing
    /\ work' \in Databases
    /\ UNCHANGED <<db, committing>>

\* From here a crash may leave either database.
StartCommit ==
    /\ work # NoWork /\ ~ committing
    /\ committing' = TRUE
    /\ UNCHANGED <<db, work>>

\* The transaction is over, with its database or without it.
Finish == work' = NoWork /\ committing' = FALSE

Commit == committing /\ db' = work /\ Finish

\* Rolled back, or its commit returned an error.
Abort == work # NoWork /\ UNCHANGED db /\ Finish

Crash ==
    /\ db' \in {db} \cup (IF committing THEN {work} ELSE {})
    /\ Finish

Next == Begin \/ Write \/ StartCommit \/ Commit \/ Abort \/ Crash

Spec == Init /\ [][Next]_store
=============================================================================
