------------------------------ MODULE Sessions ------------------------------
(***************************************************************************)
(* Several handles on one database file, each with a pager and a catalog   *)
(* of its own, in one process or in several: Db::open_with and             *)
(* Pager::open_with_backends, the write transactions, checkpoints and      *)
(* backups that WriteLock admits one at a time, handles closed or killed.  *)
(* An open takes no lock, and a transaction that gets the lock does not    *)
(* look at the files again: what a handle knows of them is what it read    *)
(* when it was opened.                                                     *)
(*                                                                         *)
(* The system calls inside a commit or a checkpoint are PagerWal's; here   *)
(* each is one step, and an open is a step per file it reads or writes.    *)
(* Commit n writes the body n; pages are 1..Pages, page 0 is the header.   *)
(***************************************************************************)
EXTENDS WriteLock, Naturals, Sequences, FiniteSetsExt

CONSTANTS
    ReadOnly,   \* the handles opened with Config::readonly
    KeysOf,     \* the encryption keys each may be opened with, NoKey: none
    NoKey,
    Salts,      \* what the entropy source returns for a WAL generation
    Nothing,    \* no page, no header frame, no backup
    Threshold,  \* Config::checkpoint_threshold, in frames
    MaxPages,   \* bound on the pages of the file
    MaxCommits, \* bound on the commits of a behaviour
    MaxOpens,   \* bound on its opens
    GoOn        \* a bound: does more than the ends of transactions follow a stale write?

Keys == {NoKey} \cup UNION {KeysOf[e] : e \in Envs}

ASSUME HandlesAssumption == ReadOnly \subseteq Envs /\ Nothing \notin Keys
ASSUME BoundsAssumption ==
    /\ Threshold \in Nat /\ MaxPages \in Nat \ {0} /\ MaxCommits \in Nat /\ MaxOpens \in Nat
    /\ GoOn \in BOOLEAN
    /\ Salts \subseteq Nat \ {0} /\ \A s \in Salts : \E r \in Salts : r # s

Pages == 1 .. MaxPages
Body == [by : 1 .. MaxCommits, key : Keys]
Overlay == [Pages -> Body \cup {Nothing}]
Blank == [p \in Pages |-> Nothing]
Over(base, top) == [p \in Pages |-> IF top[p] = Nothing THEN base[p] ELSE top[p]]
Entries(o) == {p \in Pages : o[p] # Nothing}
Header == [root : 0 .. MaxPages, count : 0 .. MaxPages]

ASSUME NothingAssumption == Nothing \notin Body \cup Header

VARIABLES
    stage,  \* each handle: "closed", then the steps of its open, then "open"
    mem,    \* what its pager holds
    main,   \* the main file
    log,    \* the WAL sidecar
    backup, \* the destination of Db::backup_to
    commits, opens, \* counters
    acked,  \* history: the database after the last commit that returned Ok
    stale,  \* history: handles that another has changed the files under
    spoiled \* history: one of those has written to the files

handles == <<stage, mem>>
files == <<main, log>>
counts == <<commits, opens>>
past == <<acked, stale, spoiled>>
sessVars == <<vars, handles, files, backup, counts, past>>

Stages == {"closed", "load", "stamp", "catalog", "open"}
Pagers == [key : Keys, hdr : Header, salt : Salts \cup {0}, view : Overlay,
           viewHdr : Header \cup {Nothing}, end : Nat, hw : 0 .. MaxPages]
NoPager == [key |-> NoKey, hdr |-> [root |-> 0, count |-> 0], salt |-> 0, view |-> Blank,
            viewHdr |-> Nothing, end |-> 0, hw |-> 0]
EmptyFile == [made |-> FALSE, locked |-> FALSE, hdr |-> [root |-> 0, count |-> 0],
              salt |-> 0, page |-> Blank, len |-> 0]
EmptyLog == [salt |-> 0, frames |-> <<>>]

-----------------------------------------------------------------------------
(* What an open finds in main file m and WAL w with key k.                 *)

OfGeneration(m, w) ==
    {i \in DOMAIN w.frames : w.salt = m.salt /\ w.frames[i].salt = m.salt}
Deciphered(m, w, k) == {i \in OfGeneration(m, w) : w.frames[i].key = k}
LastCommit(m, w, k) == Max({0} \cup {i \in Deciphered(m, w, k) : w.frames[i].commit})
Replayed(m, w, k) == {i \in Deciphered(m, w, k) : i <= LastCommit(m, w, k)}

\* A frame of this generation that the key does not open: the committed
\* prefix is damaged, or, when nothing opens at all, the key is wrong.
RefusesKey(m, w, k) ==
    LET shut == OfGeneration(m, w) \ Deciphered(m, w, k)
    IN  /\ k # NoKey /\ shut # {}
        /\ IF LastCommit(m, w, k) > 0 THEN Min(shut) < LastCommit(m, w, k)
                                      ELSE Deciphered(m, w, k) = {}

Newest(m, w, k, id) == {i \in Replayed(m, w, k) : w.frames[i].id = id}
RecoveredView(m, w, k) ==
    [p \in Pages |-> IF Newest(m, w, k, p) = {} THEN Nothing
                     ELSE w.frames[Max(Newest(m, w, k, p))].body]
RecoveredHdr(m, w, k) ==
    IF Newest(m, w, k, 0) = {} THEN Nothing ELSE w.frames[Max(Newest(m, w, k, 0))].body

\* Pages the file is too short for cannot be read.
Database(hdr, page) == [root |-> hdr.root, page |-> [p \in 1 .. hdr.count |-> page[p]]]
Recovered(m, w, k) ==
    LET h == RecoveredHdr(m, w, k)
    IN  Database(IF h = Nothing THEN m.hdr ELSE h, Over(m.page, RecoveredView(m, w, k)))

-----------------------------------------------------------------------------
(* Writing to the files.                                                   *)

\* Whoever else has the files open no longer knows what is in them.
WriteFiles(e, m, w) ==
    /\ main' = m /\ log' = w
    /\ IF <<m, w>> = files THEN UNCHANGED <<stale, spoiled>>
       ELSE /\ stale' = stale \cup {f \in Envs \ {e} : stage[f] # "closed"}
            /\ spoiled' = (spoiled \/ e \in stale)

\* write_header, of the header a handle holds.
WithHeader(m, g) == [m EXCEPT !.hdr = g.hdr, !.salt = g.salt]

\* Pager::commit_inner over the handle's end of the WAL: the pages of ids, in
\* order, then the header if it was staged.
FramesOf(g, ids, staged, n) ==
    LET last == Cardinality(ids) + (IF staged THEN 1 ELSE 0)
        nth(i) == CHOOSE p \in ids : Cardinality({q \in ids : q <= p}) = i
        frame(i) == IF i <= Cardinality(ids)
                    THEN [id |-> nth(i), body |-> [by |-> n, key |-> g.key]]
                    ELSE [id |-> 0, body |-> g.hdr]
    IN  [i \in 1 .. last |-> [id |-> frame(i).id, body |-> frame(i).body, salt |-> g.salt,
                              key |-> g.key, commit |-> i = last]]
Hole == [id |-> 0, body |-> Nothing, salt |-> 0, key |-> NoKey, commit |-> FALSE]
Appended(w, g, new) ==
    [w EXCEPT !.frames = [i \in 1 .. Max({Len(w.frames), g.end + Len(new)}) |->
        IF i > g.end /\ i <= g.end + Len(new) THEN new[i - g.end]
        ELSE IF i <= Len(w.frames) THEN w.frames[i] ELSE Hole]]
Published(g, ids, staged, new, n) ==
    [g EXCEPT !.view = [p \in Pages |-> IF p \in ids THEN [by |-> n, key |-> g.key] ELSE @[p]],
              !.viewHdr = IF staged THEN g.hdr ELSE @, !.end = @ + Len(new)]

\* Pager::checkpoint: grow_main_to_cover sets the length of the file by what
\* the handle remembers of it.
NothingToFold(g) == Entries(g.view) = {} /\ g.viewHdr = Nothing
Length(m, g) ==
    IF Entries(g.view) = {} \/ Max(Entries(g.view)) <= g.hw THEN m.len ELSE Max(Entries(g.view))
Folded(m, g, s) ==
    [WithHeader(m, [g EXCEPT !.salt = s]) EXCEPT
        !.page = [p \in Pages |-> IF p <= Length(m, g) THEN Over(m.page, g.view)[p] ELSE Nothing],
        !.len = Length(m, g)]
Reset(g, s, m) ==
    [g EXCEPT !.salt = s, !.view = Blank, !.viewHdr = Nothing, !.end = 0,
              !.hw = IF Length(m, g) = m.len THEN @ ELSE Length(m, g)]
EmptiedLog(s) == [salt |-> s, frames |-> <<>>]

\* Pager::commit ends with a checkpoint when the WAL is long enough, unless a
\* snapshot of this handle defers it (or it fails, which is swallowed).
MayCheckpoint(e, g, m, w) ==
    \/ WriteFiles(e, m, w) /\ mem' = [mem EXCEPT ![e] = g]
    \/ /\ g.end >= Threshold /\ ~ NothingToFold(g)
       /\ \E s \in Salts \ {g.salt} :
             /\ WriteFiles(e, Folded(m, g, s), EmptiedLog(s))
             /\ mem' = [mem EXCEPT ![e] = Reset(g, s, m)]

-----------------------------------------------------------------------------
SessInit ==
    /\ Init
    /\ stage = [e \in Envs |-> "closed"]
    /\ mem = [e \in Envs |-> NoPager]
    /\ main = EmptyFile /\ log = EmptyLog /\ backup = Nothing
    /\ commits = 0 /\ opens = 0
    /\ acked = Database(EmptyFile.hdr, Blank) /\ stale = {} /\ spoiled = FALSE

Reach(e, s) == stage' = [stage EXCEPT ![e] = s]
Locks == UNCHANGED vars

\* Pager::open on an empty file: initialise_file, in the format the
\* configuration asks for.
Initialise(e, k) ==
    /\ stage[e] = "closed" /\ opens < MaxOpens /\ ~ main.made
    /\ LET m == [EmptyFile EXCEPT !.made = TRUE, !.locked = k # NoKey]
       IN  main' = m /\ UNCHANGED log
    /\ mem' = [mem EXCEPT ![e] = [NoPager EXCEPT !.key = k]]
    /\ Reach(e, "load")
    /\ opens' = opens + 1
    /\ stale' = (stale \cup {f \in Envs : stage[f] # "closed"}) \ {e}
    /\ UNCHANGED <<backup, commits, acked, spoiled>> /\ Locks

\* load_header; derive_key_for_open refuses a key the file does not want and
\* a file that wants one.
LoadHeader(e, k) ==
    /\ stage[e] = "closed" /\ opens < MaxOpens /\ main.made
    /\ main.locked <=> k # NoKey
    /\ mem' = [mem EXCEPT ![e] = [NoPager EXCEPT !.key = k, !.hdr = main.hdr, !.salt = main.salt]]
    /\ Reach(e, "load")
    /\ opens' = opens + 1
    /\ stale' = stale \ {e}
    /\ UNCHANGED <<files, backup, commits, acked, spoiled>> /\ Locks

\* The file as the handle remembers it when it comes to the WAL.
Known(e) == [main EXCEPT !.hdr = mem[e].hdr, !.salt = mem[e].salt]

RefuseKey(e) ==
    /\ stage[e] = "load" /\ RefusesKey(Known(e), log, mem[e].key)
    /\ Reach(e, "closed") /\ mem' = [mem EXCEPT ![e] = NoPager]
    /\ UNCHANGED <<files, backup, counts, past>> /\ Locks

\* recover_or_create_wal with commits to roll forward.
Recover(e) ==
    LET g == mem[e]
        h == RecoveredHdr(Known(e), log, g.key)
        n == LastCommit(Known(e), log, g.key)
    IN  /\ stage[e] = "load" /\ ~ RefusesKey(Known(e), log, g.key) /\ n > 0
        /\ mem' = [mem EXCEPT ![e] =
              [g EXCEPT !.view = RecoveredView(Known(e), log, g.key), !.viewHdr = h,
                        !.hdr = IF h = Nothing THEN @ ELSE h, !.end = n, !.hw = main.len]]
        /\ Reach(e, "catalog")
        /\ UNCHANGED <<files, backup, counts, past>> /\ Locks

\* recover_or_create_wal without: create_fresh_with truncates the WAL ...
CreateFresh(e) ==
    /\ stage[e] = "load" /\ ~ RefusesKey(Known(e), log, mem[e].key)
    /\ LastCommit(Known(e), log, mem[e].key) = 0
    /\ \E s \in Salts :
          /\ mem' = [mem EXCEPT ![e].salt = s]
          /\ WriteFiles(e, main, EmptiedLog(s))
    /\ Reach(e, "stamp")
    /\ UNCHANGED <<backup, counts, acked>> /\ Locks

\* Faulty: the new salt stays in memory.
StampInMemory(e) ==
    /\ stage[e] = "stamp"
    /\ mem' = [mem EXCEPT ![e].hw = main.len]
    /\ Reach(e, "catalog")
    /\ UNCHANGED <<files, backup, counts, past>> /\ Locks

\* ... and the header it loaded goes back to the file with the new salt.
Stamp(e) ==
    /\ stage[e] = "stamp"
    /\ WriteFiles(e, WithHeader(main, mem[e]), log)
    /\ mem' = [mem EXCEPT ![e].hw = main.len]
    /\ Reach(e, "catalog")
    /\ UNCHANGED <<backup, counts, acked>> /\ Locks

\* The page as the pager finds it: the view, then the main file.
ReadPage(e, p) == Over(main.page, mem[e].view)[p]
RootOpens(e) ==
    LET page == ReadPage(e, mem[e].hdr.root)
    IN  page # Nothing /\ page.key = mem[e].key

\* Db::from_parts on a database without a catalog: allocate the root, commit.
InitCatalog(e) ==
    LET g == [mem[e] EXCEPT !.hdr = [root |-> 1, count |-> 1]]
        new == FramesOf(g, {1}, TRUE, commits + 1)
    IN  /\ stage[e] = "catalog" /\ mem[e].hdr.root = 0 /\ commits < MaxCommits
        /\ MayCheckpoint(e, Published(g, {1}, TRUE, new, commits + 1), main,
                         Appended(log, g, new))
        /\ acked' = Database(g.hdr, [Blank EXCEPT ![1] = [by |-> commits + 1, key |-> g.key]])
        /\ Reach(e, "open")
        /\ commits' = commits + 1
        /\ UNCHANGED <<opens, backup>> /\ Locks

\* Db::from_parts on any other: Catalog::open reads the root, and the commit
\* of nothing may still checkpoint what was recovered.
OpenCatalog(e) ==
    /\ stage[e] = "catalog" /\ mem[e].hdr.root # 0 /\ RootOpens(e)
    /\ MayCheckpoint(e, mem[e], main, log)
    /\ Reach(e, "open")
    /\ UNCHANGED <<acked, counts, backup>> /\ Locks

\* A root that is not there, or not under this key, fails the open.
RefuseCatalog(e) ==
    /\ stage[e] = "catalog" /\ mem[e].hdr.root # 0 /\ ~ RootOpens(e)
    /\ Reach(e, "closed") /\ mem' = [mem EXCEPT ![e] = NoPager]
    /\ UNCHANGED <<files, backup, counts, past>> /\ Locks

\* The last clone of the handle is dropped: its descriptors close, the WAL
\* stays, and the WRITER_LOCK byte cannot be held by then.
CloseHandle(e) ==
    /\ stage[e] = "open" /\ \A t \in Threads : EnvOf[t] = e => pc[t] = "idle"
    /\ Reach(e, "closed") /\ mem' = [mem EXCEPT ![e] = NoPager]
    /\ UNCHANGED <<files, backup, counts, past>> /\ Locks

Killed(e) ==
    /\ Die(e)
    /\ Reach(e, "closed") /\ mem' = [mem EXCEPT ![e] = NoPager]
    /\ UNCHANGED <<files, backup, counts, past>>

-----------------------------------------------------------------------------
(* Under the writer lock.  Each ends by giving back the gate.              *)

Writes(t) == stage[EnvOf[t]] = "open" /\ EnvOf[t] \notin ReadOnly /\ pc[t] = "writing"

\* WriteTxn::commit of one that wrote the pages of ids, allocating one more
\* page or not, moving the catalog root to one of them or not.
CommitWrites(t, ids, grown, r) ==
    LET e == EnvOf[t]
        n == commits + 1
        hdr == [root |-> r, count |-> mem[e].hdr.count + grown]
        staged == hdr # mem[e].hdr
        g == [mem[e] EXCEPT !.hdr = hdr]
        new == FramesOf(g, ids, staged, n)
        after == Published(g, ids, staged, new, n)
    IN  /\ Writes(t) /\ n <= MaxCommits
        /\ hdr.count <= MaxPages /\ ids # {} /\ ids \subseteq 1 .. hdr.count
        /\ grown = 1 => hdr.count \in ids
        /\ r \in ids \cup {mem[e].hdr.root}
        /\ MayCheckpoint(e, after, main, Appended(log, g, new))
        /\ acked' = Database(hdr, Over(main.page, after.view))
        /\ commits' = n
        /\ ReleaseGate(t)
        /\ UNCHANGED <<stage, opens, backup>>

\* WriteTxn::rollback (and Drop): memory is what it was, and that header goes
\* to the main file, whose pages may still be in the WAL.
RollBack(t) ==
    /\ Writes(t)
    /\ WriteFiles(EnvOf[t], WithHeader(main, mem[EnvOf[t]]), log)
    /\ ReleaseGate(t)
    /\ UNCHANGED <<handles, backup, counts, acked>>

\* Db::checkpoint under a WriteTxn that is then rolled back: the rollback puts
\* the view of its begin back over the pages that were just folded.
CheckpointHandle(t) ==
    LET e == EnvOf[t]
        g == mem[e]
    IN  /\ Writes(t) /\ ~ NothingToFold(g)
        /\ \E s \in Salts \ {g.salt} :
              /\ WriteFiles(e, Folded(main, g, s), EmptiedLog(s))
              /\ mem' = [mem EXCEPT ![e] = [Reset(g, s, main) EXCEPT !.view = g.view]]
        /\ ReleaseGate(t)
        /\ UNCHANGED <<stage, backup, counts, acked>>

\* Faulty: the header of the main file is left as it was copied.
CopiedMainHeader(g) ==
    [EmptyFile EXCEPT
        !.made = TRUE, !.hdr = main.hdr, !.len = Max({main.len, g.hdr.count}),
        !.page = [p \in Pages |-> IF p <= g.hdr.count THEN Over(main.page, g.view)[p]
                                                      ELSE main.page[p]]]

\* backup_pager_to_path: the main file, the view over it, the frozen header
\* over its page 0, and no salt.
Copied(g) ==
    [EmptyFile EXCEPT
        !.made = TRUE,
        !.hdr = IF g.viewHdr = Nothing THEN main.hdr ELSE g.viewHdr,
        !.len = Max({main.len, g.hdr.count}),
        !.page = [p \in Pages |-> IF p <= g.hdr.count THEN Over(main.page, g.view)[p]
                                                      ELSE main.page[p]]]

\* Db::backup_to, which read-only handles may call: refused when the database
\* is encrypted or the destination is there; its guard is rolled back, which
\* writes the header.
BackUp(t) ==
    LET e == EnvOf[t]
    IN  /\ stage[e] = "open" /\ pc[t] = "writing"
        /\ backup' = IF mem[e].key # NoKey \/ backup # Nothing THEN backup
                     ELSE [file |-> Copied(mem[e]),
                           of |-> IF spoiled \/ e \in stale THEN Nothing ELSE acked]
        /\ WriteFiles(e, WithHeader(main, mem[e]), log)
        /\ ReleaseGate(t)
        /\ UNCHANGED <<handles, counts, acked>>

Finish(t) ==
    \/ RollBack(t) \/ BackUp(t) \/ CheckpointHandle(t)
    \/ \E ids \in SUBSET Pages, grown \in {0, 1}, r \in 0 .. MaxPages :
          CommitWrites(t, ids, grown, r)

Idle == UNCHANGED <<handles, files, backup, counts, past>>
GoesOn == spoiled => GoOn
Ask(t) == stage[EnvOf[t]] = "open" /\ Begin(t) /\ Idle
Obtain(t) == (TakeGate(t) \/ GateBusy(t)) /\ Idle
Lock(t) == (TakeByte(t) \/ ByteFails(t)) /\ Idle
\* By then the caller of a backup has taken the destination away.
Unlock(t) ==
    /\ ReleaseByte(t)
    /\ backup' = Nothing
    /\ UNCHANGED <<handles, files, counts, past>>

Open(e) ==
    \/ \E k \in KeysOf[e] : Initialise(e, k) \/ LoadHeader(e, k)
    \/ RefuseKey(e) \/ Recover(e) \/ CreateFresh(e) \/ Stamp(e)
    \/ InitCatalog(e) \/ OpenCatalog(e) \/ RefuseCatalog(e)

SessNext ==
    \/ \E e \in Envs : GoesOn /\ (Open(e) \/ CloseHandle(e) \/ Killed(e))
    \/ \E t \in Threads : GoesOn /\ (Ask(t) \/ Obtain(t) \/ Lock(t))
    \/ \E t \in Threads : Finish(t) \/ Unlock(t)

SessSpec == SessInit /\ [][SessNext]_sessVars

\* As WriteLock's FairSpec: the retry loops of begin are bounded, and a
\* transaction is finished by its owner (it can always be rolled back).
SessFairSpec ==
    /\ SessSpec
    /\ \A t \in Threads :
          /\ WF_vars(GoesOn /\ (TakeGate(t) \/ GateBusy(t)))
          /\ WF_vars(GoesOn /\ (TakeByte(t) \/ ByteFails(t)))
          /\ WF_vars(ReleaseGate(t) \/ ReleaseByte(t))

-----------------------------------------------------------------------------
HandlesTypeOK ==
    /\ TypeOK
    /\ stage \in [Envs -> Stages]
    /\ mem \in [Envs -> Pagers]
    /\ main.hdr \in Header /\ main.page \in Overlay /\ main.salt \in Salts \cup {0}
    /\ main.len \in 0 .. MaxPages
    /\ \A i \in DOMAIN log.frames : log.frames[i].salt \in Salts \cup {0}
    /\ stale \subseteq Envs

\* The keys an open of what was acknowledged may be given.
RightKeys ==
    {k \in Keys : /\ main.locked <=> k # NoKey
                  /\ acked.root # 0 => acked.page[acked.root].key = k}
AckedIsFound ==
    \A k \in RightKeys : ~ RefusesKey(main, log, k) /\ Recovered(main, log, k) = acked

\* As long as no handle writes to files that another has changed since it
\* opened them, the next open finds the last acknowledged database, whoever is
\* killed where: opens that recover, truncate the WAL and rewrite the header
\* without any lock, or are given a wrong key, rollbacks and backups that
\* write a header whose pages are in the WAL, checkpoints by an opener, and a
\* salt that comes back (Pager::commit: "a commit that returns Ok is committed").
DurableUnlessStale == ~ spoiled => AckedIsFound

\* A backup opened by itself is the database that was acknowledged when it was
\* taken, also when its pages are in the WAL, the main file is too short for
\* them, or its header was never staged (backup_pager_to_path).
BackupIsSnapshot ==
    backup # Nothing => (backup.of = Nothing \/ Recovered(backup.file, EmptyLog, NoKey) = backup.of)

\* One handle writes, the others were opened read-only, in this process or in
\* another: nothing acknowledged is lost (Db::open_readonly: "Coexists safely
\* with a writer in another process").
CoexistsWithReaders == Cardinality(Envs \ ReadOnly) <= 1 => AckedIsFound
=============================================================================
