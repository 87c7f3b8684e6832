------------------------------ MODULE PagerWal ------------------------------
(***************************************************************************)
(* The pager, its write-ahead log and the write transaction that drives    *)
(* them: crates/obj-core/src/pager/mod.rs, wal/mod.rs and txn.rs.          *)
(*                                                                         *)
(* Two files, the main file and the WAL sidecar, and one process.  Every   *)
(* system call of a commit, a checkpoint or an open is a step of its own,  *)
(* because the process, the machine or the call may fail between any two;  *)
(* the pager mutex is held from the first to the last of them, so pc is    *)
(* the position of the thread inside the pager call it is executing.       *)
(*                                                                         *)
(* Page 0 (the file header) is the pair of the catalog root and the WAL    *)
(* salt; the data pages are 1..NumPages, already allocated (allocation is  *)
(* the subject of another module).  A WAL frame for page 0 has id 0.       *)
(***************************************************************************)
EXTENDS Integers, Sequences, FiniteSets, FiniteSetsExt

CONSTANTS
    NumPages,    \* data pages of the file
    Vals,        \* page bodies
    Blank,       \* the body every page starts with
    None,        \* "no entry for this page" in an overlay
    Roots,       \* values of header.root_catalog (0: none yet)
    Salts,       \* WAL generation salts
    NoSalt,      \* the salt read from a WAL too short to hold a header
    Readers,     \* readers of this process (Pager::reader_snapshot)
    WalCap,      \* Config::wal_size_limit, in frames
    Threshold,   \* Config::checkpoint_threshold, in frames
    CrashModel,  \* what a crash does to writes no sync has covered
    FaultPoints, \* the values of pc whose system call may return an error
    MaxFaults    \* bound on the errors injected in one behaviour

\* CrashModel: "never"; "process" (SIGKILL, the OS keeps every write);
\* "ordered" (power loss, unsynced WAL frames persist in write order);
\* "any" (power loss, each unsynced block persists or not, alone).
CrashModels == {"never", "process", "ordered", "any"}
Faults == {"frame", "walsync", "ckpt", "saltw", "salts", "trunc", "truncs",
           "hdrw", "hdrs", "rollback", "unlink"}

ASSUME PagesAssumption == NumPages \in Nat
ASSUME BodiesAssumption == Blank \in Vals /\ None \notin Vals \cup Roots /\ 0 \in Roots
ASSUME SaltsAssumption == /\ NoSalt \notin Salts
                          /\ \A s \in Salts : \E t \in Salts : t # s
                          /\ Salts # {}
ASSUME LimitsAssumption == WalCap \in Nat /\ Threshold \in Nat /\ MaxFaults \in Nat
ASSUME ModesAssumption == CrashModel \in CrashModels /\ FaultPoints \subseteq Faults

Pages == 1 .. NumPages

VARIABLES
    main,      \* main file as the OS shows it: page bodies, header root and salt
    mainD,     \* main file as of its last sync
    wal,       \* WAL file as the OS shows it: header salt and frames
    walD,      \* WAL file as of its last sync
    pc,        \* position inside the pager call in progress
    todo,      \* pages (0: the header) the call has still to write
    cur,       \* WalTxn::commit's running offset, in frames
    txn,       \* who drives the pager: "none", a WriteTxn ("open"),
               \* Db::checkpoint's guard ("ckpt"), Pager::close ("close")
    atBegin,   \* its HeaderSnapshot
    pending,   \* WalState.pending
    view,      \* WalState.view
    viewHdr,   \* WalState.view_header
    root,      \* Pager.header.root_catalog
    dirty,     \* WalState.header_dirty
    cRoot,     \* WalState.committed_root_catalog
    salt,      \* Wal.salt
    nextLsn,   \* Wal.next_lsn
    endOff,    \* Wal.end_offset, in frames
    nFrames,   \* Wal.committed_frames
    snaps,     \* live ReaderSnapshots
    acked,     \* history: the database after the last commit that returned Ok
    limbo,     \* history: databases of commits whose sync failed since then
    faults     \* history: errors injected so far

files == <<main, mainD, wal, walD>>
walMem == <<salt, nextLsn, endOff, nFrames>>
overlay == <<pending, view, viewHdr, root, dirty, cRoot>>
call == <<pc, todo, cur>>
session == <<txn, atBegin>>
history == <<acked, limbo, faults>>
vars == <<files, walMem, overlay, call, session, snaps, history>>

-----------------------------------------------------------------------------
(* Data.                                                                   *)

Overlay == [Pages -> Vals \cup {None}]
Empty == [p \in Pages |-> None]
\* top's entries over base's: the lookup order of read_page.
Over(base, top) == [p \in Pages |-> IF top[p] = None THEN base[p] ELSE top[p]]
Entries(o) == {p \in Pages : o[p] # None}

Database == [page : [Pages -> Vals], root : Roots]
Header == [root : Roots, salt : Salts]
\* "No entry" is neither a header nor a database.
ASSUME NoneAssumption == None \notin Header \cup Database

FrameOf(ids, bodies) == [id : ids, body : bodies, lsn : Nat, salt : Salts \cup {NoSalt},
                         commit : BOOLEAN, ok : BOOLEAN]
Frame == FrameOf({0}, Roots) \cup FrameOf(Pages, Vals)
MainFile == [page : [Pages -> Vals], root : Roots, salt : Salts]
WalFile == [salt : Salts \cup {NoSalt}, frames : Seq(Frame)]
\* A slot of the file no write has reached reads as zeros.
Hole == [id |-> 0, body |-> 0, lsn |-> 0, salt |-> NoSalt, commit |-> FALSE, ok |-> FALSE]

Slot(frames, i) == IF i \in DOMAIN frames THEN frames[i] ELSE Hole

\* Writing past the end of the file leaves a hole.
WriteAt(frames, i, f) ==
    [j \in 1 .. (IF i <= Len(frames) THEN Len(frames) ELSE i) |->
        IF j = i THEN f ELSE Slot(frames, j)]

\* WalTxn order: page ids ascending, the page-0 frame last.
NextId(ids) == IF ids \subseteq {0} THEN 0 ELSE Min(ids \ {0})

-----------------------------------------------------------------------------
(* Recovery (Wal::open_for_recovery_with_key and the two passes).          *)

Current(f, s) == f.salt = s /\ f.ok

\* Pass 1: the last valid commit frame of generation s, 0 if there is none.
LastCommit(frames, s) ==
    Max({0} \cup {i \in DOMAIN frames : Current(frames[i], s) /\ frames[i].commit})

\* Pass 2's range: the valid frames up to that commit.
Replayed(frames, s) == {i \in 1 .. LastCommit(frames, s) : Current(frames[i], s)}
OfPage(frames, s, p) == {i \in Replayed(frames, s) : frames[i].id = p}

RecoveredView(frames, s) ==
    [p \in Pages |-> LET w == OfPage(frames, s, p)
                     IN  IF w = {} THEN None ELSE frames[Max(w)].body]
RecoveredHeader(frames, s) ==
    LET w == OfPage(frames, s, 0)
    IN  IF w = {} THEN None ELSE [root |-> frames[Max(w)].body, salt |-> s]

\* Pass 2 fails on a frame of this generation with a bad checksum.
Corrupt(m, w) ==
    /\ w.salt = m.salt
    /\ \E i \in 1 .. LastCommit(w.frames, m.salt) :
          w.frames[i].salt = m.salt /\ ~ w.frames[i].ok

HasCommits(m, w) == w.salt = m.salt /\ LastCommit(w.frames, m.salt) > 0

\* The database an open finds in main file m and WAL w.
Recovered(m, w) ==
    IF HasCommits(m, w)
    THEN LET h == RecoveredHeader(w.frames, m.salt)
         IN  [page |-> Over(m.page, RecoveredView(w.frames, m.salt)),
              root |-> IF h = None THEN m.root ELSE h.root]
    ELSE [page |-> m.page, root |-> m.root]

-----------------------------------------------------------------------------
(* What a crash may leave in the files.                                    *)

PowerLoss == CrashModel \in {"ordered", "any"}

MainOutcomes ==
    {[page |-> [p \in Pages |-> IF p \in kept THEN main.page[p] ELSE mainD.page[p]],
      root |-> h.root, salt |-> h.salt] :
        kept \in SUBSET {p \in Pages : main.page[p] # mainD.page[p]}, h \in {main, mainD}}

Torn(f) == [f EXCEPT !.ok = FALSE]

\* Frames 1..k persisted, the next one torn or not, the rest as last synced.
InOrder(k, torn) ==
    [i \in 1 .. (IF k + 1 > Len(walD.frames) THEN IF torn THEN k + 1 ELSE k
                 ELSE Len(walD.frames)) |->
        IF i <= k THEN wal.frames[i]
        ELSE IF torn /\ i = k + 1 THEN Torn(wal.frames[i]) ELSE walD.frames[i]]

OrderedOutcomes ==
    {wal.frames, walD.frames}
    \cup {InOrder(k, FALSE) : k \in 0 .. Len(wal.frames)}
    \cup {InOrder(k, TRUE) : k \in {j \in 0 .. Len(wal.frames) - 1 :
                                      Slot(walD.frames, j + 1) # wal.frames[j + 1]}}

\* What becomes of slot i when its last write was kept, torn or lost.
SlotAfter(i, fate) ==
    LET new == wal.frames[i]
        old == Slot(walD.frames, i)
    IN  IF new = old \/ fate = "lost" THEN old
        ELSE IF fate = "torn" THEN Torn(new) ELSE new

AnyOutcomes ==
    {walD.frames} \cup
    {[i \in DOMAIN wal.frames |-> SlotAfter(i, fates[i])] :
        fates \in [DOMAIN wal.frames -> {"kept", "torn", "lost"}]}

WalOutcomes ==
    {[salt |-> s, frames |-> f] : s \in {wal.salt, walD.salt},
                                  f \in IF CrashModel = "ordered" THEN OrderedOutcomes
                                                                  ELSE AnyOutcomes}

\* The pairs <<main file, WAL>> the next open may find.
CrashOutcomes == IF PowerLoss THEN MainOutcomes \X WalOutcomes ELSE {<<main, wal>>}

-----------------------------------------------------------------------------
(* Writes reach the OS; only a sync covers them against power loss.        *)

SetMain(m) == main' = m /\ mainD' = IF PowerLoss THEN mainD ELSE m
SetWal(w) == wal' = w /\ walD' = IF PowerLoss THEN walD ELSE w
\* Faulty: the sync is not done.
NoSync == UNCHANGED <<main, mainD, wal, walD>>

SyncMain == mainD' = main /\ UNCHANGED <<main, wal, walD>>
SyncWal == walD' = wal /\ UNCHANGED <<main, mainD, wal>>

\* A system call of the current step returns an error.
Fault(point) ==
    /\ point \in FaultPoints
    /\ faults < MaxFaults
    /\ faults' = faults + 1

NoTxn == [root |-> 0, view |-> Empty]

\* The state of a pager that has no transaction and has recovered nothing.
ResetOverlay(r) ==
    /\ pending' = Empty
    /\ view' = Empty
    /\ viewHdr' = None
    /\ root' = r
    /\ dirty' = FALSE
    /\ cRoot' = r

\* Faulty: a new generation starts with the LSN that stands for "none", or
\* goes on writing where the last one ended.
ResetWalToLsnZero(s) == salt' = s /\ nextLsn' = 0 /\ endOff' = 0 /\ nFrames' = 0
ResetWalInPlace(s) == salt' = s /\ nextLsn' = 1 /\ nFrames' = 0 /\ UNCHANGED endOff

ResetWal(s) == salt' = s /\ nextLsn' = 1 /\ endOff' = 0 /\ nFrames' = 0

\* A database closed cleanly and opened again: pages blank, an empty WAL.
Init ==
    /\ main \in {[page |-> [p \in Pages |-> Blank], root |-> 0, salt |-> s] : s \in Salts}
    /\ mainD = main
    /\ wal = [salt |-> main.salt, frames |-> <<>>]
    /\ walD = wal
    /\ pc = "idle" /\ todo = {} /\ cur = 0
    /\ txn = "none" /\ atBegin = NoTxn
    /\ pending = Empty /\ view = Empty /\ viewHdr = None
    /\ root = 0 /\ dirty = FALSE /\ cRoot = 0
    /\ salt = main.salt /\ nextLsn = 1 /\ endOff = 0 /\ nFrames = 0
    /\ snaps = [r \in Readers |-> None]
    /\ acked = [page |-> main.page, root |-> 0]
    /\ limbo = {} /\ faults = 0

-----------------------------------------------------------------------------
(* The write transaction's in-memory operations.                           *)

BeginWrite ==
    /\ pc = "idle" /\ txn = "none"
    /\ txn' = "open"
    /\ atBegin' = [root |-> root, view |-> view]
    /\ UNCHANGED <<files, walMem, overlay, call, snaps, history>>

WritePage(p, v) ==
    /\ pc = "idle" /\ txn = "open"
    /\ pending' = [pending EXCEPT ![p] = v]
    /\ UNCHANGED <<files, walMem, view, viewHdr, root, dirty, cRoot, call, session,
                   snaps, history>>

SetRootCatalog(r) ==
    /\ pc = "idle" /\ txn = "open"
    /\ root' = r
    /\ dirty' = TRUE
    /\ UNCHANGED <<files, walMem, pending, view, viewHdr, cRoot, call, session,
                   snaps, history>>

\* Faulty: the staged pages survive a rollback.
RestoreAllButPending ==
    /\ dirty' = FALSE
    /\ root' = atBegin.root
    /\ view' = atBegin.view
    /\ UNCHANGED <<pending, viewHdr, cRoot>>

\* Discard the overlay, restore header and view as they were at begin.
RestoreSnapshot ==
    /\ pending' = Empty
    /\ dirty' = FALSE
    /\ root' = atBegin.root
    /\ view' = atBegin.view
    /\ UNCHANGED <<viewHdr, cRoot>>

EndTxn == txn' = "none" /\ atBegin' = NoTxn
Return == pc' = "idle" /\ todo' = {} /\ cur' = 0

CanRollBack == (pc = "idle" /\ txn # "none") \/ pc = "abort"

\* rollback, or Drop after a commit that returned an error: the restored
\* header goes to page 0 in place, unsynced.
Rollback ==
    /\ CanRollBack
    /\ RestoreSnapshot
    /\ SetMain([main EXCEPT !.root = atBegin.root, !.salt = salt])
    /\ EndTxn /\ Return
    /\ UNCHANGED <<wal, walD, walMem, snaps, history>>

RollbackFails ==
    /\ CanRollBack
    /\ Fault("rollback")
    /\ RestoreSnapshot
    /\ EndTxn /\ Return
    /\ UNCHANGED <<files, walMem, snaps, acked, limbo>>

-----------------------------------------------------------------------------
(* Commit: the frames, one sync, publication, auto-checkpoint.             *)

Staged == Entries(pending) \cup (IF dirty THEN {0} ELSE {})

\* The database this transaction would make current.
Tentative == [page |-> Over(acked.page, pending), root |-> IF dirty THEN root ELSE acked.root]

CommitEmpty ==
    /\ pc = "idle" /\ txn = "open" /\ Staged = {}
    /\ pc' = "post"
    /\ UNCHANGED <<files, walMem, overlay, todo, cur, session, snaps, history>>

FitsInWal == endOff + Cardinality(Staged) <= WalCap

\* append_raw refuses the frame before anything is written.
CommitTooLarge ==
    /\ pc = "idle" /\ txn = "open" /\ Staged # {} /\ ~ FitsInWal
    /\ pc' = "abort"
    /\ UNCHANGED <<files, walMem, overlay, todo, cur, session, snaps, history>>

CommitStart ==
    /\ pc = "idle" /\ txn = "open" /\ Staged # {} /\ FitsInWal
    /\ pc' = "frame" /\ todo' = Staged /\ cur' = endOff
    /\ UNCHANGED <<files, walMem, overlay, session, snaps, history>>

FrameFor(id) ==
    [id |-> id, body |-> IF id = 0 THEN root ELSE pending[id], lsn |-> nextLsn,
     salt |-> salt, commit |-> todo = {id}, ok |-> TRUE]

WriteFrame ==
    /\ pc = "frame"
    /\ LET id == NextId(todo)
       IN  /\ SetWal([wal EXCEPT !.frames = WriteAt(@, cur + 1, FrameFor(id))])
           /\ todo' = todo \ {id}
           /\ pc' = IF todo = {id} THEN "walsync" ELSE "frame"
    /\ cur' = cur + 1
    /\ nextLsn' = nextLsn + 1
    /\ UNCHANGED <<main, mainD, salt, endOff, nFrames, overlay, session, snaps, history>>

\* The failed write may have torn the slot; the LSN is spent either way.
WriteFrameFails ==
    /\ pc = "frame" /\ Fault("frame")
    /\ \/ UNCHANGED <<wal, walD>>
       \/ SetWal([wal EXCEPT !.frames =
                    WriteAt(@, cur + 1, Torn(FrameFor(NextId(todo))))])
    /\ nextLsn' = nextLsn + 1
    /\ pc' = "abort" /\ todo' = {} /\ cur' = 0
    /\ UNCHANGED <<main, mainD, salt, endOff, nFrames, overlay, session, snaps, acked, limbo>>

\* Faulty: readers are never told of the committed root.
PublishPagesOnly ==
    /\ pending' = Empty
    /\ view' = Over(view, pending)
    /\ dirty' = FALSE
    /\ viewHdr' = IF dirty THEN [root |-> root, salt |-> salt] ELSE viewHdr
    /\ UNCHANGED <<root, cRoot>>

\* Pages move from pending to the committed view, a dirty header with them.
Publish ==
    /\ pending' = Empty
    /\ view' = Over(view, pending)
    /\ dirty' = FALSE
    /\ viewHdr' = IF dirty THEN [root |-> root, salt |-> salt] ELSE viewHdr
    /\ cRoot' = IF dirty THEN root ELSE cRoot
    /\ UNCHANGED root

SyncCommit ==
    /\ pc = "walsync"
    /\ SyncWal
    /\ endOff' = cur
    /\ nFrames' = nFrames + (cur - endOff)
    /\ Publish
    /\ acked' = Tentative
    /\ limbo' = {}
    /\ pc' = "post" /\ cur' = 0
    /\ UNCHANGED <<salt, nextLsn, todo, session, snaps, faults>>

SyncCommitFails ==
    /\ pc = "walsync" /\ Fault("walsync")
    /\ limbo' = limbo \cup {Tentative}
    /\ pc' = "abort" /\ cur' = 0
    /\ UNCHANGED <<files, walMem, overlay, todo, session, snaps, acked>>

-----------------------------------------------------------------------------
(* Checkpoint: fold the view into the main file, rotate the WAL salt.      *)

EndLsn == nextLsn - 1
\* Faulty: a checkpoint looks at no reader.
NeverDeferred == FALSE

\* A reader of this process is pinned below the end of the WAL.
Deferred == \E r \in Readers : snaps[r] # None /\ snaps[r].pin < EndLsn

StartCheckpoint ==
    /\ pc' = "ckpt"
    /\ todo' = Entries(view) \cup (IF viewHdr = None THEN {} ELSE {0})
    /\ UNCHANGED cur

\* The caller is commit, which ends the transaction whatever the outcome,
\* Db::checkpoint, whose guard is then rolled back, or close, which goes on
\* to remove the WAL unless the checkpoint failed.
CheckpointReturns(ok) ==
    /\ todo' = {} /\ cur' = 0
    /\ pc' = IF txn # "close" THEN "idle" ELSE IF ok THEN "unlink" ELSE "drop"
    /\ IF txn = "open" THEN EndTxn ELSE UNCHANGED session

AutoCheckpointDue == nFrames >= Threshold /\ ~ Deferred

CommitReturns ==
    /\ pc = "post" /\ ~ AutoCheckpointDue
    /\ EndTxn /\ Return
    /\ UNCHANGED <<files, walMem, overlay, snaps, history>>

AutoCheckpoint ==
    /\ pc = "post" /\ AutoCheckpointDue
    /\ StartCheckpoint
    /\ UNCHANGED <<files, walMem, overlay, session, snaps, history>>

DbCheckpoint ==
    /\ pc = "idle" /\ txn = "none"
    /\ txn' = "ckpt"
    /\ atBegin' = [root |-> root, view |-> view]
    /\ IF Deferred THEN UNCHANGED call ELSE StartCheckpoint
    /\ UNCHANGED <<files, walMem, overlay, snaps, history>>

CheckpointWrite ==
    /\ pc = "ckpt" /\ todo # {}
    /\ LET id == NextId(todo)
       IN  /\ SetMain(IF id = 0
                       THEN [main EXCEPT !.root = viewHdr.root, !.salt = viewHdr.salt]
                       ELSE [main EXCEPT !.page[id] = view[id]])
           /\ todo' = todo \ {id}
    /\ UNCHANGED <<wal, walD, walMem, overlay, pc, cur, session, snaps, history>>

NothingToDo == Entries(view) = {} /\ viewHdr = None

CheckpointSync ==
    /\ pc = "ckpt" /\ todo = {}
    /\ SyncMain
    /\ IF NothingToDo THEN CheckpointReturns(TRUE)
                      ELSE pc' = "saltw" /\ UNCHANGED <<todo, cur, session>>
    /\ UNCHANGED <<walMem, overlay, snaps, history>>

RotateSalt ==
    /\ pc = "saltw"
    /\ \E s \in Salts \ {salt} : SetWal([wal EXCEPT !.salt = s])
    /\ pc' = "salts"
    /\ UNCHANGED <<main, mainD, walMem, overlay, todo, cur, session, snaps, history>>

SyncSalt ==
    /\ pc = "salts"
    /\ SyncWal
    /\ pc' = "trunc"
    /\ UNCHANGED <<walMem, overlay, todo, cur, session, snaps, history>>

TruncateWal ==
    /\ pc = "trunc"
    /\ SetWal([wal EXCEPT !.frames = <<>>])
    /\ pc' = "truncs"
    /\ UNCHANGED <<main, mainD, walMem, overlay, todo, cur, session, snaps, history>>

\* Only now does the in-memory Wal move to the new generation.
SyncTruncate ==
    /\ pc = "truncs"
    /\ SyncWal
    /\ ResetWal(wal.salt)
    /\ snaps' = [r \in Readers |-> IF snaps[r] = None THEN None
                                   ELSE [snaps[r] EXCEPT !.resets = IF @ = 0 THEN 1 ELSE 2]]
    /\ pc' = "hdrw"
    /\ UNCHANGED <<overlay, todo, cur, session, history>>

WriteHeader ==
    /\ pc = "hdrw"
    /\ SetMain([main EXCEPT !.root = root, !.salt = salt])
    /\ pc' = "hdrs"
    /\ UNCHANGED <<wal, walD, walMem, overlay, todo, cur, session, snaps, history>>

\* The whole checkpoint succeeded: drop the overlay.
SyncHeader ==
    /\ pc = "hdrs"
    /\ SyncMain
    /\ view' = Empty /\ viewHdr' = None
    /\ CheckpointReturns(TRUE)
    /\ UNCHANGED <<walMem, pending, root, dirty, cRoot, snaps, history>>

CheckpointCalls == {"ckpt", "saltw", "salts", "trunc", "truncs", "hdrw", "hdrs"}

\* An error leaves the overlay as it was; commit swallows it.
CheckpointFails ==
    /\ pc \in CheckpointCalls \cup {"unlink"} /\ Fault(pc)
    /\ CheckpointReturns(FALSE)
    /\ UNCHANGED <<files, walMem, overlay, snaps, acked, limbo>>

-----------------------------------------------------------------------------
(* Pager::close: a last checkpoint, then the sidecar is removed.           *)

Close ==
    /\ pc = "idle" /\ txn = "none"
    /\ txn' = "close"
    /\ pending' = Empty
    /\ IF Deferred THEN pc' = "unlink" /\ UNCHANGED <<todo, cur>> ELSE StartCheckpoint
    /\ UNCHANGED <<files, walMem, view, viewHdr, root, dirty, cRoot, atBegin, snaps, history>>

RemoveWal ==
    /\ pc = "unlink"
    /\ SetWal([salt |-> NoSalt, frames |-> <<>>])
    /\ pc' = "drop"
    /\ UNCHANGED <<main, mainD, walMem, overlay, todo, cur, session, snaps, history>>

\* Nothing of the process's memory survives, whether it ends or crashes.
ForgetMemory ==
    /\ ResetOverlay(0) /\ ResetWal(NoSalt)
    /\ pc' = "down" /\ todo' = {} /\ cur' = 0
    /\ EndTxn
    /\ snaps' = [r \in Readers |-> None]

DropPager ==
    /\ pc = "drop"
    /\ ForgetMemory
    /\ UNCHANGED <<files, history>>

-----------------------------------------------------------------------------
(* Readers take the pager mutex, free between calls and before a Drop.     *)

MutexFree == pc \in {"idle", "abort"}

\* db and resets are history: the database to be seen, and how often the
\* WAL has been reset since (2: twice or more).
BeginRead(r) ==
    /\ MutexFree /\ snaps[r] = None
    /\ snaps' = [snaps EXCEPT ![r] = [pin |-> EndLsn, view |-> view, root |-> cRoot,
                                      db |-> acked, resets |-> 0]]
    /\ UNCHANGED <<files, walMem, overlay, call, session, history>>

EndRead(r) ==
    /\ snaps[r] # None
    /\ snaps' = [snaps EXCEPT ![r] = None]
    /\ UNCHANGED <<files, walMem, overlay, call, session, history>>

\* ReaderSnapshot::read_page: the frozen view, then the main file.
SnapRead(r, p) == IF snaps[r].view[p] # None THEN snaps[r].view[p] ELSE main.page[p]

-----------------------------------------------------------------------------
(* Crash, and opening again.                                               *)

Running == pc \notin {"down", "failed"}

Crash ==
    /\ CrashModel # "never" /\ Running
    /\ \E o \in CrashOutcomes :
          main' = o[1] /\ mainD' = o[1] /\ wal' = o[2] /\ walD' = o[2]
    /\ ForgetMemory
    /\ limbo' = IF pc = "walsync" THEN limbo \cup {Tentative} ELSE limbo
    /\ UNCHANGED <<acked, faults>>

\* What recovery finds is from now on the current database.
Adopt == acked' = Recovered(main, wal) /\ limbo' = {} /\ UNCHANGED faults

OpenFails ==
    /\ pc = "down" /\ Corrupt(main, wal)
    /\ pc' = "failed"
    /\ UNCHANGED <<files, walMem, overlay, todo, cur, session, snaps, history>>

OpenRecover ==
    /\ pc = "down" /\ ~ Corrupt(main, wal) /\ HasCommits(main, wal)
    /\ LET s == main.salt
           n == LastCommit(wal.frames, s)
           db == Recovered(main, wal)
       IN  /\ view' = RecoveredView(wal.frames, s)
           /\ viewHdr' = RecoveredHeader(wal.frames, s)
           /\ root' = db.root /\ cRoot' = db.root
           /\ salt' = s
           /\ nextLsn' = wal.frames[n].lsn + 1
           /\ endOff' = n
           /\ nFrames' = Cardinality(Replayed(wal.frames, s))
    /\ pc' = "idle"
    /\ Adopt
    /\ UNCHANGED <<files, pending, dirty, todo, cur, session, snaps>>

\* Nothing to replay: the WAL is created afresh under a new salt.
OpenFresh ==
    /\ pc = "down" /\ ~ HasCommits(main, wal)
    /\ ResetOverlay(main.root)
    /\ pc' = "ftrunc"
    /\ Adopt
    /\ UNCHANGED <<files, walMem, todo, cur, session, snaps>>

FreshTruncate ==
    /\ pc = "ftrunc"
    /\ SetWal([salt |-> NoSalt, frames |-> <<>>])
    /\ pc' = "fhdr"
    /\ UNCHANGED <<main, mainD, walMem, overlay, todo, cur, session, snaps, history>>

FreshHeader ==
    /\ pc = "fhdr"
    /\ \E s \in Salts : SetWal([wal EXCEPT !.salt = s])
    /\ pc' = "fsync"
    /\ UNCHANGED <<main, mainD, walMem, overlay, todo, cur, session, snaps, history>>

FreshSync ==
    /\ pc = "fsync"
    /\ SyncWal
    /\ ResetWal(wal.salt)
    /\ pc' = "fstamp"
    /\ UNCHANGED <<overlay, todo, cur, session, snaps, history>>

FreshStamp ==
    /\ pc = "fstamp"
    /\ SetMain([main EXCEPT !.salt = salt])
    /\ pc' = "fstamps"
    /\ UNCHANGED <<wal, walD, walMem, overlay, todo, cur, session, snaps, history>>

FreshStampSync ==
    /\ pc = "fstamps"
    /\ SyncMain
    /\ pc' = "idle"
    /\ UNCHANGED <<walMem, overlay, todo, cur, session, snaps, history>>

-----------------------------------------------------------------------------
WriterNext ==
    \/ BeginWrite
    \/ \E p \in Pages, v \in Vals : WritePage(p, v)
    \/ \E r \in Roots : SetRootCatalog(r)
    \/ Rollback \/ RollbackFails
    \/ CommitEmpty \/ CommitTooLarge \/ CommitStart
    \/ WriteFrame \/ WriteFrameFails \/ SyncCommit \/ SyncCommitFails \/ CommitReturns

CheckpointNext ==
    \/ AutoCheckpoint \/ DbCheckpoint
    \/ CheckpointWrite \/ CheckpointSync
    \/ RotateSalt \/ SyncSalt \/ TruncateWal \/ SyncTruncate
    \/ WriteHeader \/ SyncHeader \/ CheckpointFails
    \/ Close \/ RemoveWal \/ DropPager

ReaderNext == \E r \in Readers : BeginRead(r) \/ EndRead(r)

OpenNext ==
    \/ OpenFails \/ OpenRecover \/ OpenFresh
    \/ FreshTruncate \/ FreshHeader \/ FreshSync \/ FreshStamp \/ FreshStampSync

Next == WriterNext \/ CheckpointNext \/ ReaderNext \/ Crash \/ OpenNext

Spec == Init /\ [][Next]_vars

(* Fairness: the thread inside a pager call keeps running, and a writer    *)
(* whose transactions keep failing keeps trying.                           *)

CommitCall == CommitEmpty \/ CommitTooLarge \/ CommitStart

InCall ==
    \/ WriteFrame \/ SyncCommit \/ AutoCheckpoint \/ CommitReturns
    \/ CheckpointWrite \/ CheckpointSync \/ RotateSalt \/ SyncSalt
    \/ TruncateWal \/ SyncTruncate \/ WriteHeader \/ SyncHeader
    \/ RemoveWal \/ DropPager \/ OpenNext
    \/ (txn # "open" \/ pc = "abort") /\ Rollback

PersistentWriter ==
    Spec /\ WF_vars(InCall) /\ WF_vars(BeginWrite) /\ SF_vars(CommitCall)

\* The same for an application that also calls Db::checkpoint again and again.
CheckpointingWriter == PersistentWriter /\ SF_vars(DbCheckpoint)

-----------------------------------------------------------------------------
(* Properties.                                                             *)

PinnedSnap == [pin : Nat, view : Overlay, root : Roots, db : Database, resets : 0 .. 2]
PCs == {"idle", "abort", "frame", "walsync", "post", "down", "failed",
        "ftrunc", "fhdr", "fsync", "fstamp", "fstamps", "unlink", "drop"} \cup CheckpointCalls

\* Every variable has its type: the overlays map each page to a body or to
\* no entry, the files are well formed, the counters are naturals.
TypeOK ==
    /\ main \in MainFile /\ mainD \in MainFile
    /\ wal \in WalFile /\ walD \in WalFile
    /\ pc \in PCs /\ todo \subseteq 0 .. NumPages /\ cur \in Nat
    /\ txn \in {"none", "open", "ckpt", "close"}
    /\ atBegin \in [root : Roots, view : Overlay]
    /\ pending \in Overlay /\ view \in Overlay
    /\ viewHdr \in Header \cup {None}
    /\ root \in Roots /\ dirty \in BOOLEAN /\ cRoot \in Roots
    /\ salt \in Salts \cup {NoSalt}
    /\ nextLsn \in Nat \ {0} /\ endOff \in Nat /\ nFrames \in Nat
    /\ snaps \in [Readers -> PinnedSnap \cup {None}]
    /\ acked \in Database /\ limbo \subseteq Database /\ faults \in 0 .. MaxFaults

\* The databases a crash at this instant may legitimately leave: the last
\* acknowledged one, one whose commit failed at its sync and has not been
\* superseded, or the commit whose frames are all written.
Survivors == {acked} \cup limbo \cup (IF pc = "walsync" THEN {Tentative} ELSE {})

\* Atomicity and durability (Pager::commit, Pager::checkpoint, recovery): a
\* crash between any two system calls leaves files from which open recovers
\* a whole database, the last acknowledged one or the one being committed.
CrashSafe ==
    pc # "failed" =>
      \A o \in CrashOutcomes : /\ ~ Corrupt(o[1], o[2])
                               /\ Recovered(o[1], o[2]) \in Survivors

\* Durability under the weakest disk (Wal::begin_txn .. commit, rotation):
\* while no call has failed and no commit is between its first frame and its
\* sync, a power loss that keeps or loses every unsynced block on its own
\* still leaves a WAL that opens, to a surviving database.
DurableAtRest ==
    (faults = 0 /\ pc \notin {"frame", "walsync", "down", "failed"}) =>
      \A o \in CrashOutcomes : /\ ~ Corrupt(o[1], o[2])
                               /\ Recovered(o[1], o[2]) \in Survivors

\* Outside a pager call the committed overlay over the main file is the last
\* acknowledged database (read_page, committed_root_catalog), whatever
\* failed, was rolled back or was checkpointed before.
ReadsAreCommitted ==
    (Running /\ MutexFree) => /\ Over(main.page, view) = acked.page
                             /\ cRoot = acked.root
                             /\ (txn = "none" => root = acked.root)

Stable(r) ==
    /\ snaps[r].root = snaps[r].db.root
    /\ \A p \in Pages : SnapRead(r, p) = snaps[r].db.page[p]

\* A reader sees the database as of its begin (ReaderSnapshot::read_page),
\* however many commits and checkpoints follow.
SnapshotsStable == \A r \in Readers : (MutexFree /\ snaps[r] # None) => Stable(r)

\* The same up to the second reset of the WAL: the reader's pin keeps every
\* checkpoint that has something newer to fold away from it, until the LSNs
\* the pin is compared with start again.
SnapshotsStableForOneReset ==
    \A r \in Readers : (MutexFree /\ snaps[r] # None /\ snaps[r].resets < 2) => Stable(r)

\* A WAL at its size limit is given back once the readers that kept it from
\* being folded are gone (Db::checkpoint, "until the reader is dropped").
WalDrains ==
    (endOff = WalCap /\ \A r \in Readers : snaps[r] = None)
        ~> (endOff < WalCap \/ \E r \in Readers : snaps[r] # None)
=============================================================================
