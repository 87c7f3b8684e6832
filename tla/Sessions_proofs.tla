--------------------------- MODULE Sessions_proofs ---------------------------
(***************************************************************************)
(* Proofs about handles that open, write, back up, checkpoint, close and   *)
(* are killed, for any number of handles and threads, keys, pages and      *)
(* commits:                                                                *)
(*   - what the two lock layers of WriteLock guarantee, and that the       *)
(*     handles use them as WriteLock says, so that it holds of them;       *)
(*   - the types;                                                          *)
(*   - as long as no handle writes to files that another has changed since *)
(*     it opened them, the next open finds the last acknowledged database; *)
(*   - a backup is the database that was acknowledged when it was taken.   *)
(*                                                                         *)
(* The last two rest on one invariant, SyncInv: what the main file and the *)
(* WAL hold between them, and what a handle that is at some step of its    *)
(* open, or open, knows of it.                                             *)
(***************************************************************************)
EXTENDS Sessions, NatSetLemmas, FiniteSetTheorems

-----------------------------------------------------------------------------
(* The locks, for any number of handles and threads.                       *)

\* No step leaves the types.
LEMMA TypeInductive == TypeOK /\ [Next]_vars => TypeOK'
<1>. SUFFICES ASSUME TypeOK, [Next]_vars PROVE TypeOK'
  OBVIOUS
<1>. USE EnvOfAssumption DEF TypeOK, PCs
<1>1. ASSUME NEW t \in Threads, Step(t) PROVE TypeOK'
  BY <1>1 DEF Step, Begin, TakeGate, GateBusy, TakeByte, ByteFails, ReleaseGate,
              ReleaseByte, Goto, SetGate
<1>2. ASSUME NEW e \in Envs, Die(e) PROVE TypeOK'
  BY <1>2 DEF Die
<1>3. CASE UNCHANGED vars
  BY <1>3 DEF vars
<1>. QED BY <1>1, <1>2, <1>3 DEF Next

\* The shape of the locks: any number of handles and threads.
THEOREM TypeCorrect == Spec => []TypeOK
<1>1. Init => TypeOK
  BY EnvOfAssumption, NoEnvAssumption DEF Init, TypeOK, PCs
<1>. QED BY <1>1, TypeInductive, PTL DEF Spec

-----------------------------------------------------------------------------
(* The gate.                                                               *)

Gated == {"byte", "writing"}

\* Whoever is past the gate has shut it; with OneWriterPerEnv this is
\* inductive, without it TakeGate could let a second thread in.
GateShut == \A t \in Threads : pc[t] \in Gated => gate[EnvOf[t]]

GateInv == TypeOK /\ GateShut /\ OneWriterPerEnv

\* Every step keeps the gate shut behind the one who is past it.
LEMMA GateInductive == GateInv /\ [Next]_vars => GateInv'
<1>. SUFFICES ASSUME GateInv, [Next]_vars PROVE GateInv'
  OBVIOUS
<1>. USE EnvOfAssumption DEF GateInv, TypeOK, GateShut, OneWriterPerEnv, Gated, PCs
<1>0. TypeOK'
  BY TypeInductive
<1>1. ASSUME NEW t \in Threads, Begin(t) \/ GateBusy(t) \/ ReleaseByte(t)
      PROVE  GateShut' /\ OneWriterPerEnv'
  BY <1>1 DEF Begin, GateBusy, ReleaseByte, Goto
<1>2. ASSUME NEW t \in Threads, TakeGate(t) PROVE GateShut' /\ OneWriterPerEnv'
  BY <1>2 DEF TakeGate, Goto, SetGate
<1>3. ASSUME NEW t \in Threads, TakeByte(t) PROVE GateShut' /\ OneWriterPerEnv'
  BY <1>3 DEF TakeByte, Goto
<1>4. ASSUME NEW t \in Threads, ByteFails(t) \/ ReleaseGate(t)
      PROVE  GateShut' /\ OneWriterPerEnv'
  BY <1>4 DEF ByteFails, ReleaseGate, Goto, SetGate
<1>5. ASSUME NEW e \in Envs, Die(e) PROVE GateShut' /\ OneWriterPerEnv'
  BY <1>5 DEF Die
<1>6. CASE UNCHANGED vars
  BY <1>6 DEF vars
<1>. QED BY <1>0, <1>1, <1>2, <1>3, <1>4, <1>5, <1>6 DEF Next, Step

\* One writer per handle, however many threads use it: TxnEnv's gate.
THEOREM WritersOfOneEnv == Spec => []OneWriterPerEnv
<1>1. Init => GateInv
  BY EnvOfAssumption, NoEnvAssumption
     DEF Init, GateInv, TypeOK, GateShut, OneWriterPerEnv, Gated, PCs
<1>2. GateInv => OneWriterPerEnv
  BY DEF GateInv
<1>. QED BY <1>1, <1>2, GateInductive, PTL DEF Spec

-----------------------------------------------------------------------------
(* Locks left behind.                                                      *)

OrphanInv == GateInv /\ NoOrphanedLock

\* No begin that fails, no late unlock and no crash wedges later writers:
\* every lock that is held has a thread that will give it back.
THEOREM NothingOrphaned == Spec => []NoOrphanedLock
<1>1. Init => OrphanInv
  BY EnvOfAssumption, NoEnvAssumption
     DEF Init, OrphanInv, NoOrphanedLock, GateInv, TypeOK, GateShut, OneWriterPerEnv,
         Gated, PCs
<1>2. OrphanInv /\ [Next]_vars => OrphanInv'
  <2>. SUFFICES ASSUME OrphanInv, [Next]_vars PROVE NoOrphanedLock'
    BY GateInductive DEF OrphanInv
  <2>. USE EnvOfAssumption, NoEnvAssumption
       DEF OrphanInv, GateInv, TypeOK, GateShut, OneWriterPerEnv, NoOrphanedLock, Gated, PCs
  <2>1. ASSUME NEW t \in Threads, Begin(t) \/ GateBusy(t) PROVE NoOrphanedLock'
    BY <2>1 DEF Begin, GateBusy, Goto
  <2>2. ASSUME NEW t \in Threads, TakeGate(t) PROVE NoOrphanedLock'
    BY <2>2 DEF TakeGate, Goto, SetGate
  <2>3. ASSUME NEW t \in Threads, TakeByte(t) PROVE NoOrphanedLock'
    BY <2>3 DEF TakeByte, Goto
  <2>4. ASSUME NEW t \in Threads, ByteFails(t) PROVE NoOrphanedLock'
    BY <2>4 DEF ByteFails, Goto, SetGate
  <2>5. ASSUME NEW t \in Threads, ReleaseGate(t) PROVE NoOrphanedLock'
    BY <2>5 DEF ReleaseGate, Goto, SetGate
  <2>6. ASSUME NEW t \in Threads, ReleaseByte(t) PROVE NoOrphanedLock'
    BY <2>6 DEF ReleaseByte, Goto
  <2>7. ASSUME NEW e \in Envs, Die(e) PROVE NoOrphanedLock'
    BY <2>7 DEF Die
  <2>8. CASE UNCHANGED vars
    BY <2>8 DEF vars
  <2>. QED BY <2>1, <2>2, <2>3, <2>4, <2>5, <2>6, <2>7, <2>8 DEF Next, Step
<1>3. OrphanInv => NoOrphanedLock
  BY DEF OrphanInv
<1>. QED BY <1>1, <1>2, <1>3, PTL DEF Spec

-----------------------------------------------------------------------------
(* Exclusion between handles.                                              *)

\* A thread that writes holds the byte: lost as soon as a second thread of
\* the same handle can be between its two releases.
ByteHeld == \A t \in Threads : pc[t] \in {"writing", "unlock"} => byte = EnvOf[t]

\* With one writing thread per handle, one WriteTxn at a time over all
\* handles: the hypothesis is what the order of the two releases costs.
THEOREM ExclusionBetweenEnvs == OneThreadPerEnv /\ Spec => []SingleWriter
<1>. SUFFICES ASSUME OneThreadPerEnv PROVE Spec => []SingleWriter
  OBVIOUS
<1>. DEFINE Inv == TypeOK /\ ByteHeld
<1>1. Init => Inv
  BY EnvOfAssumption, NoEnvAssumption DEF Init, TypeOK, ByteHeld, PCs
<1>2. TypeOK /\ ByteHeld /\ [Next]_vars => ByteHeld'
  <2>. SUFFICES ASSUME TypeOK, ByteHeld, [Next]_vars PROVE ByteHeld'
    OBVIOUS
  <2>. USE EnvOfAssumption, NoEnvAssumption DEF TypeOK, ByteHeld, PCs
  <2>1. ASSUME NEW t \in Threads, Begin(t) \/ GateBusy(t) \/ TakeGate(t) \/ ByteFails(t)
        PROVE  ByteHeld'
    BY <2>1 DEF Begin, GateBusy, TakeGate, ByteFails, Goto
  <2>2. ASSUME NEW t \in Threads, TakeByte(t) PROVE ByteHeld'
    BY <2>2 DEF TakeByte, Goto, OneThreadPerEnv
  <2>3. ASSUME NEW t \in Threads, ReleaseGate(t) PROVE ByteHeld'
    BY <2>3 DEF ReleaseGate, Goto
  <2>4. ASSUME NEW t \in Threads, ReleaseByte(t) PROVE ByteHeld'
    BY <2>4 DEF ReleaseByte, Goto, OneThreadPerEnv
  <2>5. ASSUME NEW e \in Envs, Die(e) PROVE ByteHeld'
    BY <2>5 DEF Die
  <2>6. CASE UNCHANGED vars
    BY <2>6 DEF vars
  <2>. QED BY <2>1, <2>2, <2>3, <2>4, <2>5, <2>6 DEF Next, Step
<1>3. TypeOK /\ ByteHeld => SingleWriter
  BY EnvOfAssumption DEF TypeOK, ByteHeld, SingleWriter, Writers, OneThreadPerEnv
<1>. QED BY <1>1, <1>2, <1>3, TypeCorrect, PTL DEF Spec

-----------------------------------------------------------------------------
(* The handles.                                                            *)

\* Opening and closing take no lock.
LEMMA OpensLockFree ==
    ASSUME NEW e \in Envs, Open(e) \/ CloseHandle(e)
    PROVE  UNCHANGED vars
  BY DEF Open, CloseHandle, Initialise, LoadHeader, RefuseKey, Recover, CreateFresh, Stamp,
         InitCatalog, OpenCatalog, RefuseCatalog, Locks

\* A transaction ends by giving back the gate, whatever it wrote.
LEMMA FinishReleases ==
    ASSUME NEW t \in Threads, Finish(t)
    PROVE  ReleaseGate(t)
<1>1. CASE RollBack(t)
  BY <1>1, Zenon DEF RollBack
<1>2. CASE BackUp(t)
  BY <1>2, Zenon DEF BackUp
<1>3. CASE CheckpointHandle(t)
  BY <1>3, Zenon DEF CheckpointHandle
<1>4. ASSUME NEW ids, NEW grown, NEW r, CommitWrites(t, ids, grown, r) PROVE ReleaseGate(t)
  BY <1>4, Zenon DEF CommitWrites
<1> QED BY <1>1, <1>2, <1>3, <1>4, Zenon DEF Finish

\* Every step of a handle is a step of WriteLock, or touches no lock.
LEMMA StepsTheLocks == [SessNext]_sessVars => [Next]_vars
<1> SUFFICES ASSUME [SessNext]_sessVars PROVE [Next]_vars
  OBVIOUS
<1>1. ASSUME NEW e \in Envs, Open(e) \/ CloseHandle(e) PROVE [Next]_vars
  BY <1>1, OpensLockFree
<1>2. ASSUME NEW e \in Envs, Killed(e) PROVE [Next]_vars
  BY <1>2 DEF Killed, Next
<1>3. ASSUME NEW t \in Threads, Finish(t) PROVE [Next]_vars
  BY <1>3, FinishReleases DEF Next, Step
<1>4. ASSUME NEW t \in Threads, Ask(t) \/ Obtain(t) \/ Lock(t) \/ Unlock(t) PROVE [Next]_vars
  BY <1>4 DEF Ask, Obtain, Lock, Unlock, Next, Step
<1>5. CASE UNCHANGED sessVars
  BY <1>5 DEF sessVars
<1> QED BY <1>1, <1>2, <1>3, <1>4, <1>5 DEF SessNext

\* The handles implement WriteLock.
THEOREM ImplementsLocks == SessSpec => Spec
<1>1. SessInit => Init
  BY DEF SessInit
<1> QED BY <1>1, StepsTheLocks, PTL DEF SessSpec, Spec

\* One writer per handle, through every open, failed open, backup, checkpoint,
\* close and kill.
THEOREM SessionsOneWriter == SessSpec => []OneWriterPerEnv
  BY ImplementsLocks, WritersOfOneEnv, PTL

\* No handle that is killed or closed, and no backup that is refused, leaves a
\* lock behind.
THEOREM SessionsOrphanNothing == SessSpec => []NoOrphanedLock
  BY ImplementsLocks, NothingOrphaned, PTL

-----------------------------------------------------------------------------
(* Types.                                                                  *)

MainFiles == [made : BOOLEAN, locked : BOOLEAN, hdr : Header, salt : Salts \cup {0},
              page : Overlay, len : 0 .. MaxPages]

\* A page, or a header: the body tells which, as its id does.
PageFrames == [id : Pages, body : Body, salt : Salts \cup {0}, key : Keys, commit : BOOLEAN]
HeaderFrames == [id : {0}, body : Header \cup {Nothing}, salt : Salts \cup {0}, key : Keys,
                 commit : BOOLEAN]
Frames == PageFrames \cup HeaderFrames
Logs == [salt : Salts \cup {0}, frames : Seq(Frames)]

\* HandlesTypeOK is not inductive: a recovered view is made of the bodies of
\* frames, and a body is new only while all others have lower numbers.
PagesBy(o, n) == \A p \in Pages : o[p] # Nothing => o[p].by <= n
FramesBy(w, n) == \A i \in DOMAIN w.frames : w.frames[i].id # 0 => w.frames[i].body.by <= n

\* The inductive type invariant.
SessTypeInv ==
    /\ HandlesTypeOK
    /\ main \in MainFiles /\ log \in Logs
    /\ commits \in 0 .. MaxCommits
    /\ PagesBy(main.page, commits) /\ FramesBy(log, commits)
    /\ \A e \in Envs : PagesBy(mem[e].view, commits)

-----------------------------------------------------------------------------
(* The files.                                                              *)

\* What the WAL holds of each page and of the header, whoever reads it.
Holders(w, id) == {i \in DOMAIN w.frames : w.frames[i].id = id}
LogView(w) ==
    [p \in Pages |-> IF Holders(w, p) = {} THEN Nothing ELSE w.frames[Max(Holders(w, p))].body]
LogHdr(w) == IF Holders(w, 0) = {} THEN Nothing ELSE w.frames[Max(Holders(w, 0))].body
CurHdr(m, w) == IF LogHdr(w) = Nothing THEN m.hdr ELSE LogHdr(w)

\* The key of a database is that of its root page.
DbKey(a) == a.page[a.root].key

\* One generation under one key, all of it committed ...
WholeLog(m, w, k) ==
    /\ \A i \in DOMAIN w.frames :
          w.frames[i].salt = m.salt /\ w.frames[i].key = k /\ w.frames[i].body # Nothing
    /\ w.frames # <<>> => w.salt = m.salt /\ w.frames[Len(w.frames)].commit

\* ... that makes the database a over the main file.
FilesHold(m, w, a) ==
    /\ a = Database(CurHdr(m, w), Over(m.page, LogView(w)))
    /\ \A p \in Pages : p > m.len => m.page[p] = Nothing
    /\ ~ m.made => m = EmptyFile
    /\ a.root = 0 => w.frames = <<>>
    /\ a.root # 0 => /\ a.root \in 1 .. CurHdr(m, w).count
                     /\ m.made /\ (m.locked <=> DbKey(a) # NoKey)
                     /\ WholeLog(m, w, DbKey(a))

\* A view over the main file is what the WAL makes of it: it has at least
\* the pages of the WAL; what it has beyond them is in the file as well, as
\* after a checkpoint that was rolled back.
Covers(view, m, w) ==
    \A p \in Pages :
        /\ LogView(w)[p] # Nothing => view[p] = LogView(w)[p]
        /\ view[p] # Nothing => view[p] = Over(m.page, LogView(w))[p]

\* What a handle that has got as far as stage s knows of the files, if no
\* other has changed them.
Knows(s, g, m, w, a) ==
    /\ m.locked <=> g.key # NoKey
    /\ m.made
    /\ s \in {"load", "stamp"} =>
          g.hdr = m.hdr /\ g.view = Blank /\ g.viewHdr = Nothing /\ g.end = 0
    /\ s = "load" => g.salt = m.salt
    /\ s = "stamp" => w.frames = <<>> /\ w.salt = g.salt
    /\ s \in {"catalog", "open"} =>
          /\ g.hdr = CurHdr(m, w) /\ g.viewHdr = LogHdr(w) /\ g.end = Len(w.frames)
          /\ g.salt = m.salt /\ g.salt = w.salt /\ g.hw = m.len
          /\ Covers(g.view, m, w)
    /\ s = "open" => a.root # 0 /\ g.key = DbKey(a)

\* Until a handle writes to files that another has changed under it.
SyncInv ==
    ~ spoiled =>
        /\ FilesHold(main, log, acked)
        /\ \A e \in Envs : mem[e].hw <= main.len
        /\ \A e \in Envs \ stale :
              stage[e] # "closed" => Knows(stage[e], mem[e], main, log, acked)

\* The inductive invariant of the handles.
SessInv == SessTypeInv /\ SyncInv /\ BackupIsSnapshot
-----------------------------------------------------------------------------
(* Sets, sequences and the operators on files.                             *)

\* Pages are finitely many numbers, none of them that of the header.
LEMMA PagesFacts ==
    /\ MaxPages \in Nat /\ MaxPages >= 1 /\ IsFiniteSet(Pages) /\ 0 \notin Pages
    /\ Pages \subseteq 1 .. MaxPages /\ Pages \subseteq Nat
    /\ \A ids \in SUBSET Pages : IsFiniteSet(ids) /\ Cardinality(ids) \in Nat
<1>1. MaxPages \in Nat /\ MaxPages >= 1
  BY BoundsAssumption
<1>2. IsFiniteSet(Pages)
  BY <1>1, FS_Interval DEF Pages
<1>3. 0 \notin Pages /\ Pages \subseteq 1 .. MaxPages /\ Pages \subseteq Nat
  BY <1>1 DEF Pages
<1>4. ASSUME NEW ids \in SUBSET Pages PROVE IsFiniteSet(ids) /\ Cardinality(ids) \in Nat
  BY <1>2, FS_Subset, FS_CardinalityType
<1> QED BY <1>1, <1>2, <1>3, <1>4

\* The place of a page in a set of pages.
LEMMA Ranks ==
    ASSUME NEW ids \in SUBSET Pages
    PROVE  /\ \A p \in ids : Cardinality({x \in ids : x <= p}) \in 1 .. Cardinality(ids)
           /\ \A p, q \in ids :
                 Cardinality({x \in ids : x <= p}) = Cardinality({x \in ids : x <= q}) => p = q
<1>1. IsFiniteSet(ids) /\ Cardinality(ids) \in Nat /\ ids \subseteq Nat
  BY PagesFacts
<1>2. ASSUME NEW p \in ids
      PROVE  /\ IsFiniteSet({x \in ids : x <= p})
             /\ Cardinality({x \in ids : x <= p}) \in 1 .. Cardinality(ids)
  <2>1. {x \in ids : x <= p} \subseteq ids /\ p \in {x \in ids : x <= p}
    BY <1>1
  <2>2. /\ IsFiniteSet({x \in ids : x <= p}) /\ Cardinality({x \in ids : x <= p}) \in Nat
        /\ Cardinality({x \in ids : x <= p}) <= Cardinality(ids)
    BY <1>1, <2>1, FS_Subset, FS_CardinalityType
  <2>3. Cardinality({x \in ids : x <= p}) # 0
    BY <2>1, <2>2, FS_EmptySet
  <2> QED BY <2>2, <2>3, <1>1
<1>3. ASSUME NEW p \in ids, NEW q \in ids, p < q
      PROVE  Cardinality({x \in ids : x <= p}) # Cardinality({x \in ids : x <= q})
  <2>1. \A x \in ids : x <= p => x <= q
    BY <1>1, <1>3
  <2>2. q <= q /\ ~ (q <= p)
    BY <1>1, <1>3
  <2>3. {x \in ids : x <= p} \subseteq {x \in ids : x <= q}
        /\ q \in {x \in ids : x <= q} /\ q \notin {x \in ids : x <= p}
    BY <2>1, <2>2
  <2> QED BY <1>2, <2>3, FS_Subset
<1>4. ASSUME NEW p \in ids, NEW q \in ids,
             Cardinality({x \in ids : x <= p}) = Cardinality({x \in ids : x <= q})
      PROVE  p = q
  <2>1. p < q \/ q < p \/ p = q
    BY <1>1
  <2> QED BY <1>3, <1>4, <2>1
<1> QED BY <1>2, <1>4

\* A set of pages in order: each place has a page.
LEMMA InOrder ==
    ASSUME NEW ids \in SUBSET Pages, NEW i \in 1 .. Cardinality(ids)
    PROVE  \E p \in ids : Cardinality({x \in ids : x <= p}) = i
<1> DEFINE n == Cardinality(ids)
           f == [p \in ids |-> Cardinality({x \in ids : x <= p})]
<1>1. IsFiniteSet(ids) /\ n \in Nat
  BY PagesFacts
<1>2. f \in Injection(ids, 1 .. n)
  <2>1. f \in [ids -> 1 .. n]
    BY Ranks
  <2>2. \A p, q \in ids : f[p] = f[q] => p = q
    BY Ranks
  <2> HIDE DEF f
  <2> QED BY <2>1, <2>2 DEF Injection, IsInjective
<1>3. IsFiniteSet(1 .. n) /\ Cardinality(1 .. n) = n
  BY <1>1, FS_Interval
<1>4. f \in Surjection(ids, 1 .. n)
  BY <1>2, <1>3, FS_Injection
<1>5. PICK p \in ids : f[p] = i
  BY <1>4 DEF Surjection
<1> QED BY <1>5

\* A frame of commit n: a page of ids, or the header if it was staged.
IsFrame(f, g, ids, staged, n, i, last) ==
    /\ f = [id |-> f.id, body |-> f.body, salt |-> f.salt, key |-> f.key, commit |-> f.commit]
    /\ f.salt = g.salt /\ f.key = g.key /\ f.commit \in BOOLEAN /\ (f.commit <=> i = last)
    /\ \/ f.id \in ids /\ f.body = [by |-> n, key |-> g.key]
       \/ staged /\ i = last /\ f.id = 0 /\ f.body = g.hdr

\* What a commit appends: each page of ids, then the header if it was staged;
\* the last of them commits.
AreFrames(new, g, ids, staged, n) ==
    /\ Len(new) \in Nat /\ Len(new) >= 1
    /\ \A i \in 1 .. Len(new) : IsFrame(new[i], g, ids, staged, n, i, Len(new))
    /\ \A p \in ids : \E i \in 1 .. Len(new) : new[i].id = p
    /\ staged => new[Len(new)].id = 0
    /\ new[1].id \in ids

\* FramesOf is a frame for each page, the header after them, the last one a commit.
LEMMA FramesOfShape ==
    ASSUME NEW g, NEW ids \in SUBSET Pages, ids # {}, NEW staged \in BOOLEAN, NEW n
    PROVE  AreFrames(FramesOf(g, ids, staged, n), g, ids, staged, n)
<1> DEFINE new == FramesOf(g, ids, staged, n)
           c == Cardinality(ids)
           last == c + (IF staged THEN 1 ELSE 0)
           rank(p) == Cardinality({q \in ids : q <= p})
           nth(i) == CHOOSE p \in ids : rank(p) = i
<1>1. c \in Nat /\ c >= 1
  BY PagesFacts, FS_EmptySet
<1>2. last \in Nat /\ last >= 1 /\ c <= last /\ (staged => last = c + 1) /\ (~ staged => last = c)
  BY <1>1
<1>3. \A i \in 1 .. c : nth(i) \in ids /\ rank(nth(i)) = i
  <2> TAKE i \in 1 .. c
  <2>1. \E p \in ids : rank(p) = i
    BY InOrder
  <2> HIDE DEF rank
  <2> QED BY <2>1
<1>4. \A p \in ids : rank(p) \in 1 .. c
  BY Ranks
<1>5. \A p, q \in ids : rank(p) = rank(q) => p = q
  BY Ranks
<1>6. \A p \in ids : nth(rank(p)) = p
  BY <1>3, <1>4, <1>5
<1>7. new = [i \in 1 .. last |->
               [id |-> IF i <= c THEN nth(i) ELSE 0,
                body |-> IF i <= c THEN [by |-> n, key |-> g.key] ELSE g.hdr,
                salt |-> g.salt, key |-> g.key, commit |-> i = last]]
  BY Zenon DEF FramesOf
<1> HIDE DEF new, nth, rank
<1>8. Len(new) = last
  BY <1>7, <1>2
<1>9. ASSUME NEW i \in 1 .. last
      PROVE  IsFrame(new[i], g, ids, staged, n, i, last)
  <2>1. new[i] = [id |-> IF i <= c THEN nth(i) ELSE 0,
                  body |-> IF i <= c THEN [by |-> n, key |-> g.key] ELSE g.hdr,
                  salt |-> g.salt, key |-> g.key, commit |-> i = last]
    BY <1>7
  <2>0. new[i].commit = (i = last)
    BY <2>1, SMT
  <2>9. /\ new[i] = [id |-> new[i].id, body |-> new[i].body, salt |-> new[i].salt,
                     key |-> new[i].key, commit |-> new[i].commit]
        /\ new[i].salt = g.salt /\ new[i].key = g.key
        /\ new[i].commit \in BOOLEAN /\ (new[i].commit <=> i = last)
    <3>1. new[i].commit \in BOOLEAN /\ (new[i].commit <=> i = last)
      BY <2>0
    <3> QED BY <2>1, <3>1
  <2>2. CASE i <= c
    <3>1. i \in 1 .. c
      BY <2>2, <1>1, <1>2
    <3>2. new[i].id = nth(i) /\ new[i].body = [by |-> n, key |-> g.key]
      BY <2>1, <2>2
    <3> QED BY <2>9, <3>1, <3>2, <1>3 DEF IsFrame
  <2>3. CASE ~ (i <= c)
    <3>1. staged /\ i = last
      BY <2>3, <1>1, <1>2
    <3>2. new[i].id = 0 /\ new[i].body = g.hdr
      BY <2>1, <2>3
    <3> QED BY <2>9, <3>1, <3>2 DEF IsFrame
  <2> QED BY <2>2, <2>3
<1>10. \A p \in ids : \E i \in 1 .. last : new[i].id = p
  <2> TAKE p \in ids
  <2>1. rank(p) \in 1 .. c /\ rank(p) \in 1 .. last /\ rank(p) <= c
    BY <1>4, <1>2, <1>1
  <2>2. new[rank(p)].id = p
    BY <1>7, <2>1, <1>6
  <2> QED BY <2>1, <2>2
<1>11. staged => new[last].id = 0
  <2>1. staged => ~ (last <= c) /\ last \in 1 .. last
    BY <1>1, <1>2
  <2> QED BY <2>1, <1>7
<1>12. new[1].id \in ids
  <2>1. 1 \in 1 .. last /\ 1 \in 1 .. c /\ 1 <= c
    BY <1>1, <1>2
  <2>2. new[1].id = nth(1)
    BY <2>1, <1>7
  <2> QED BY <2>1, <2>2, <1>3
<1> HIDE DEF last
<1>13. AreFrames(new, g, ids, staged, n)
  BY <1>2, <1>8, <1>9, <1>10, <1>11, <1>12 DEF AreFrames
<1> QED BY <1>13 DEF new
\* Max of two.
LEMMA MaxOfTwo ==
    ASSUME NEW a \in Nat, NEW b \in Nat
    PROVE  Max({a, b}) = IF a >= b THEN a ELSE b
<1>1. {a, b} \in SUBSET (0 .. a + b) /\ {a, b} # {}
  OBVIOUS
<1>2. Max({a, b}) \in {a, b} /\ \A y \in {a, b} : Max({a, b}) >= y
  <2>1. a + b \in Nat
    OBVIOUS
  <2> QED BY <1>1, <2>1, MaxIn
<1> QED BY <1>2

\* A function on 1 .. n is a sequence.
LEMMA IndexedSeq ==
    ASSUME NEW S, NEW n \in Nat, NEW f \in [1 .. n -> S]
    PROVE  f \in Seq(S) /\ Len(f) = n
  OBVIOUS

\* Frames written at the end a handle knows, holes included.
LEMMA AppendedShape ==
    ASSUME NEW w \in Logs, NEW g, g.end \in Nat, NEW new, Len(new) \in Nat
    PROVE  LET k == IF Len(w.frames) >= g.end + Len(new) THEN Len(w.frames)
                                                         ELSE g.end + Len(new)
               w1 == Appended(w, g, new)
           IN  /\ k \in Nat
               /\ w1 = [w EXCEPT !.frames = w1.frames]
               /\ w1.salt = w.salt
               /\ w1.frames = [i \in 1 .. k |-> w1.frames[i]]
               /\ \A i \in 1 .. k :
                     w1.frames[i] = IF i > g.end /\ i <= g.end + Len(new) THEN new[i - g.end]
                                    ELSE IF i <= Len(w.frames) THEN w.frames[i] ELSE Hole
<1> DEFINE a == Len(w.frames)
           b == g.end + Len(new)
           k == IF a >= b THEN a ELSE b
           fs == [i \in 1 .. k |-> IF i > g.end /\ i <= b THEN new[i - g.end]
                                   ELSE IF i <= a THEN w.frames[i] ELSE Hole]
<1>1. a \in Nat /\ b \in Nat /\ k \in Nat
  BY DEF Logs
<1>2. Max({a, b}) = k
  BY <1>1, MaxOfTwo
<1>3. Appended(w, g, new) = [w EXCEPT !.frames = fs]
  BY <1>2, Zenon DEF Appended
<1>4. [w EXCEPT !.frames = fs].frames = fs /\ [w EXCEPT !.frames = fs].salt = w.salt
  BY DEF Logs
<1> HIDE DEF fs
<1>5. Appended(w, g, new).frames = fs /\ Appended(w, g, new).salt = w.salt
  BY <1>3, <1>4
<1>6. fs = [i \in 1 .. k |-> fs[i]]
      /\ \A i \in 1 .. k : fs[i] = IF i > g.end /\ i <= b THEN new[i - g.end]
                                   ELSE IF i <= a THEN w.frames[i] ELSE Hole
  BY DEF fs
<1> HIDE DEF k
<1> QED BY <1>1, <1>3, <1>5, <1>6 DEF k

\* The fields of a pager.
LEMMA PagersType ==
    ASSUME NEW g \in Pagers
    PROVE  /\ g.key \in Keys /\ g.hdr \in Header /\ g.salt \in Salts \cup {0}
           /\ g.view \in Overlay /\ g.viewHdr \in Header \cup {Nothing}
           /\ g.end \in Nat /\ g.hw \in 0 .. MaxPages
  BY DEF Pagers

\* The frames of commit n are frames.
LEMMA IsFrameType ==
    ASSUME NEW f, NEW g \in Pagers, NEW ids \in SUBSET Pages, NEW staged, NEW n \in 1 .. MaxCommits,
           NEW i, NEW last, IsFrame(f, g, ids, staged, n, i, last)
    PROVE  f \in Frames
<1>1. /\ f = [id |-> f.id, body |-> f.body, salt |-> f.salt, key |-> f.key, commit |-> f.commit]
      /\ f.salt = g.salt /\ f.key = g.key /\ f.commit \in BOOLEAN
      /\ \/ f.id \in ids /\ f.body = [by |-> n, key |-> g.key]
         \/ f.id = 0 /\ f.body = g.hdr
  BY DEF IsFrame
<1>2. CASE f.id \in ids /\ f.body = [by |-> n, key |-> g.key]
  <2>1. f.body \in Body /\ f.id \in Pages
    BY <1>2, PagersType DEF Body
  <2>2. f \in PageFrames
    BY <1>1, <2>1, PagersType DEF PageFrames
  <2> QED BY <2>2 DEF Frames
<1>3. CASE f.id = 0 /\ f.body = g.hdr
  <2>1. f \in HeaderFrames
    BY <1>1, <1>3, PagersType DEF HeaderFrames
  <2> QED BY <2>1 DEF Frames
<1> QED BY <1>1, <1>2, <1>3

\* The frames of a commit are frames.
LEMMA FramesOfType ==
    ASSUME NEW g \in Pagers, NEW ids \in SUBSET Pages, ids # {}, NEW staged \in BOOLEAN,
           NEW n \in 1 .. MaxCommits, NEW i \in 1 .. Len(FramesOf(g, ids, staged, n))
    PROVE  FramesOf(g, ids, staged, n)[i] \in Frames
  BY FramesOfShape, IsFrameType DEF AreFrames

\* So is what a write beyond the end of the WAL leaves before it.
LEMMA HoleType == Hole \in Frames
  BY DEF Hole, Frames, HeaderFrames, Keys

\* A commit makes a WAL of frames, and not the one that was there: its bodies
\* are new.
LEMMA AppendedType ==
    ASSUME NEW w \in Logs, NEW g \in Pagers, NEW ids \in SUBSET Pages, ids # {},
           NEW staged \in BOOLEAN, NEW n \in 1 .. MaxCommits
    PROVE  LET w1 == Appended(w, g, FramesOf(g, ids, staged, n))
           IN  /\ w1 \in Logs
               /\ FramesBy(w, n - 1) => FramesBy(w1, n) /\ w1 # w
<1> DEFINE new == FramesOf(g, ids, staged, n)
           w1 == Appended(w, g, new)
           k == IF Len(w.frames) >= g.end + Len(new) THEN Len(w.frames) ELSE g.end + Len(new)
<1>1. /\ Len(new) \in Nat /\ Len(new) >= 1
      /\ \A i \in 1 .. Len(new) : new[i] \in Frames
                                 /\ (new[i].id # 0 => new[i].body = [by |-> n, key |-> g.key])
      /\ new[1].id \in ids
  <2>1. /\ Len(new) \in Nat /\ Len(new) >= 1 /\ new[1].id \in ids
        /\ \A i \in 1 .. Len(new) : IsFrame(new[i], g, ids, staged, n, i, Len(new))
    BY FramesOfShape DEF AreFrames
  <2>2. \A i \in 1 .. Len(new) : new[i] \in Frames
    BY FramesOfType
  <2>3. ids \subseteq Pages /\ 0 \notin Pages
    BY PagesFacts
  <2> HIDE DEF new
  <2>4. \A i \in 1 .. Len(new) : new[i].id # 0 => new[i].body = [by |-> n, key |-> g.key]
    BY <2>1 DEF IsFrame
  <2> QED BY <2>1, <2>2, <2>4
<1> HIDE DEF new
<1>2. g.end \in Nat
  BY PagersType
<1>3. /\ k \in Nat /\ w1 = [w EXCEPT !.frames = w1.frames]
      /\ w1.frames = [i \in 1 .. k |-> w1.frames[i]]
      /\ \A i \in 1 .. k :
            w1.frames[i] = IF i > g.end /\ i <= g.end + Len(new) THEN new[i - g.end]
                           ELSE IF i <= Len(w.frames) THEN w.frames[i] ELSE Hole
  BY AppendedShape, <1>1, <1>2
<1> HIDE DEF w1
<1>4. w.frames \in Seq(Frames) /\ w.salt \in Salts \cup {0} /\ Len(w.frames) \in Nat
      /\ \A i \in 1 .. Len(w.frames) : w.frames[i] \in Frames
      /\ DOMAIN w.frames = 1 .. Len(w.frames)
  BY DEF Logs
<1>5. ASSUME NEW i \in 1 .. k
      PROVE  \/ \E j \in 1 .. Len(new) : w1.frames[i] = new[j]
             \/ i \in 1 .. Len(w.frames) /\ w1.frames[i] = w.frames[i]
             \/ w1.frames[i] = Hole
  <2>1. CASE i > g.end /\ i <= g.end + Len(new)
    <3>1. i - g.end \in 1 .. Len(new)
      BY <2>1, <1>1, <1>2
    <3> QED BY <2>1, <3>1, <1>3
  <2>2. CASE ~ (i > g.end /\ i <= g.end + Len(new)) /\ i <= Len(w.frames)
    <3>1. w1.frames[i] = w.frames[i]
      BY <2>2, <1>3
    <3>2. i \in 1 .. Len(w.frames)
      BY <2>2, <1>3, <1>4
    <3> QED BY <3>1, <3>2
  <2>3. CASE ~ (i > g.end /\ i <= g.end + Len(new)) /\ ~ (i <= Len(w.frames))
    BY <2>3, <1>3
  <2> QED BY <2>1, <2>2, <2>3
<1>6. \A i \in 1 .. k : w1.frames[i] \in Frames
  BY <1>5, <1>1, <1>4, HoleType
<1>7. w1.frames \in Seq(Frames) /\ Len(w1.frames) = k /\ DOMAIN w1.frames = 1 .. k
  <2> HIDE DEF k
  <2>1. w1.frames \in [1 .. k -> Frames]
    BY <1>3, <1>6
  <2> QED BY <2>1, <1>3, IndexedSeq
<1>8. w1 \in Logs
  <2> HIDE DEF k
  <2> QED BY <1>3, <1>7, <1>4 DEF Logs
<1>9. ASSUME FramesBy(w, n - 1) PROVE FramesBy(w1, n) /\ w1 # w
  <2> USE <1>9
  <2>0. \A i \in 1 .. Len(w.frames) :
           w.frames[i].id # 0 => w.frames[i].body \in Body /\ w.frames[i].body.by <= n - 1
    BY <1>4, PagesFacts DEF FramesBy, Frames, PageFrames, HeaderFrames
  <2>1. ASSUME NEW i \in 1 .. k, w1.frames[i].id # 0 PROVE w1.frames[i].body.by <= n
    <3>1. CASE \E j \in 1 .. Len(new) : w1.frames[i] = new[j]
      BY <3>1, <2>1, <1>1
    <3>2. CASE i \in 1 .. Len(w.frames) /\ w1.frames[i] = w.frames[i]
      <4>1. w.frames[i].body \in Body /\ w.frames[i].body.by <= n - 1
        BY <3>2, <2>1, <2>0
      <4>2. w.frames[i].body.by \in Nat
        BY <4>1, BoundsAssumption DEF Body
      <4> QED BY <4>1, <4>2, <3>2
    <3>3. CASE w1.frames[i] = Hole
      BY <3>3, <2>1 DEF Hole
    <3> QED BY <1>5, <3>1, <3>2, <3>3
  <2>2. FramesBy(w1, n)
    <3> HIDE DEF k
    <3> QED BY <2>1, <1>7 DEF FramesBy
  <2>3. ASSUME w1 = w PROVE FALSE
    <3> DEFINE j == g.end + 1
    <3>1. j \in 1 .. k /\ j > g.end /\ j <= g.end + Len(new) /\ j - g.end = 1
      BY <1>1, <1>2, <1>4, SMTT(60)
    <3>2. w1.frames[j] = new[1]
      BY <3>1, <1>3
    <3>3. k = Len(w.frames)
      BY <2>3, <1>7
    <3>4. w.frames[j] = new[1] /\ j \in 1 .. Len(w.frames)
      BY <3>1, <3>2, <3>3, <2>3
    <3>5. new[1].id # 0 /\ new[1].body.by = n
      BY <1>1, PagesFacts
    <3> QED BY <3>4, <3>5, <2>0
  <2> QED BY <2>2, <2>3
<1> QED BY <1>8, <1>9 DEF w1, new
\* The fields of a WAL.
LEMMA LogsType ==
    ASSUME NEW w \in Logs
    PROVE  /\ w.frames \in Seq(Frames) /\ w.salt \in Salts \cup {0} /\ Len(w.frames) \in Nat
           /\ DOMAIN w.frames = 1 .. Len(w.frames)
           /\ \A i \in DOMAIN w.frames : w.frames[i] \in Frames
           /\ w.frames = <<>> <=> Len(w.frames) = 0
  BY DEF Logs

\* The fields of a frame: a page has a body, the header a header.
LEMMA FramesType ==
    ASSUME NEW f \in Frames
    PROVE  /\ f.id \in 0 .. MaxPages /\ f.salt \in Salts \cup {0} /\ f.key \in Keys
           /\ f.id \in Pages => f.body \in Body
           /\ f.id = 0 => f.body \in Header \cup {Nothing}
           /\ f.id # 0 => f.id \in Pages
<1>1. Pages \subseteq 1 .. MaxPages /\ MaxPages \in Nat /\ 0 \notin Pages
  BY PagesFacts
<1>2. CASE f \in PageFrames
  <2>1. f.id \in Pages /\ f.body \in Body /\ f.salt \in Salts \cup {0} /\ f.key \in Keys
    BY <1>2 DEF PageFrames
  <2>2. f.id \in 1 .. MaxPages /\ f.id # 0
    BY <1>1, <2>1
  <2>3. f.id \in 0 .. MaxPages
    BY <1>1, <2>2
  <2> QED BY <2>1, <2>2, <2>3
<1>3. CASE f \in HeaderFrames
  BY <1>1, <1>3 DEF HeaderFrames
<1> QED BY <1>2, <1>3 DEF Frames

\* The newest of a set of frames.
LEMMA NewestIn ==
    ASSUME NEW w \in Logs, NEW S \in SUBSET DOMAIN w.frames
    PROVE  /\ S # {} => Max(S) \in S /\ \A j \in S : Max(S) >= j
           /\ Max({0} \cup S) \in {0} \cup S /\ \A j \in S : Max({0} \cup S) >= j
           /\ Max({0} \cup S) \in Nat
<1> DEFINE n == Len(w.frames)
<1>1. n \in Nat /\ S \subseteq 1 .. n
  BY LogsType
<1> HIDE DEF n
<1>2. S \in SUBSET (0 .. n) /\ {0} \cup S \in SUBSET (0 .. n) /\ {0} \cup S # {}
  BY <1>1
<1>3. S # {} => Max(S) \in S /\ \A j \in S : Max(S) >= j
  BY <1>1, <1>2, MaxIn
<1>4. Max({0} \cup S) \in {0} \cup S /\ \A j \in {0} \cup S : Max({0} \cup S) >= j
  BY <1>1, <1>2, MaxIn
<1> QED BY <1>1, <1>3, <1>4

\* The newest frame of an id is one of the WAL.
LEMMA HoldersIn ==
    ASSUME NEW w \in Logs, NEW id, Holders(w, id) # {}
    PROVE  /\ Max(Holders(w, id)) \in DOMAIN w.frames
           /\ w.frames[Max(Holders(w, id))].id = id
           /\ \A j \in DOMAIN w.frames : w.frames[j].id = id => Max(Holders(w, id)) >= j
<1>1. Holders(w, id) \in SUBSET DOMAIN w.frames
  BY DEF Holders
<1>2. Max(Holders(w, id)) \in Holders(w, id) /\ \A j \in Holders(w, id) : Max(Holders(w, id)) >= j
  BY <1>1, NewestIn
<1> QED BY <1>2 DEF Holders

\* A recovered view is an overlay, a recovered header a header, of commits so far.
LEMMA RecoveredTypes ==
    ASSUME NEW m, NEW w \in Logs, NEW k
    PROVE  /\ RecoveredView(m, w, k) \in Overlay
           /\ RecoveredHdr(m, w, k) \in Header \cup {Nothing}
           /\ LastCommit(m, w, k) \in Nat
           /\ \A n : FramesBy(w, n) => PagesBy(RecoveredView(m, w, k), n)
<1>1. \A id : Newest(m, w, k, id) \in SUBSET DOMAIN w.frames
  BY DEF Newest, Replayed, Deciphered, OfGeneration
<1>2. ASSUME NEW id, Newest(m, w, k, id) # {}
      PROVE  /\ Max(Newest(m, w, k, id)) \in DOMAIN w.frames
             /\ w.frames[Max(Newest(m, w, k, id))] \in Frames
             /\ w.frames[Max(Newest(m, w, k, id))].id = id
  <2>1. Max(Newest(m, w, k, id)) \in Newest(m, w, k, id)
    BY <1>1, <1>2, NewestIn
  <2>2. w.frames[Max(Newest(m, w, k, id))].id = id
    BY <2>1 DEF Newest
  <2> QED BY <2>1, <2>2, <1>1, LogsType
<1>3. ASSUME NEW p \in Pages
      PROVE  /\ RecoveredView(m, w, k)[p] \in Body \cup {Nothing}
             /\ \A n : FramesBy(w, n) /\ RecoveredView(m, w, k)[p] # Nothing
                          => RecoveredView(m, w, k)[p].by <= n
  <2>1. RecoveredView(m, w, k)[p] = IF Newest(m, w, k, p) = {} THEN Nothing
                                    ELSE w.frames[Max(Newest(m, w, k, p))].body
    BY DEF RecoveredView
  <2>2. p # 0
    BY PagesFacts
  <2> QED BY <2>1, <2>2, <1>2, FramesType DEF FramesBy
<1>4. RecoveredView(m, w, k) \in Overlay
  BY <1>3 DEF RecoveredView, Overlay
<1>5. RecoveredHdr(m, w, k) \in Header \cup {Nothing}
  BY <1>2, FramesType DEF RecoveredHdr
<1>6. LastCommit(m, w, k) \in Nat
  <2>1. {i \in Deciphered(m, w, k) : w.frames[i].commit} \in SUBSET DOMAIN w.frames
    BY DEF Deciphered, OfGeneration
  <2> QED BY <2>1, NewestIn, Zenon DEF LastCommit
<1>7. \A n : FramesBy(w, n) => PagesBy(RecoveredView(m, w, k), n)
  BY <1>3 DEF PagesBy
<1> QED BY <1>4, <1>5, <1>6, <1>7

\* The view and the header of a WAL.
LEMMA LogViewType ==
    ASSUME NEW w \in Logs
    PROVE  LogView(w) \in Overlay /\ LogHdr(w) \in Header \cup {Nothing}
<1>1. ASSUME NEW id, Holders(w, id) # {}
      PROVE  w.frames[Max(Holders(w, id))] \in Frames /\ w.frames[Max(Holders(w, id))].id = id
  BY <1>1, HoldersIn, LogsType
<1>2. \A p \in Pages : LogView(w)[p] \in Body \cup {Nothing}
  BY <1>1, FramesType, PagesFacts DEF LogView
<1>3. LogView(w) \in Overlay
  BY <1>2 DEF LogView, Overlay
<1>4. LogHdr(w) \in Header \cup {Nothing}
  BY <1>1, FramesType DEF LogHdr
<1> QED BY <1>3, <1>4

\* A whole log is recovered as it is.
LEMMA RecoversWhole ==
    ASSUME NEW m, NEW w \in Logs, NEW k, WholeLog(m, w, k)
    PROVE  /\ ~ RefusesKey(m, w, k) /\ LastCommit(m, w, k) = Len(w.frames)
           /\ RecoveredView(m, w, k) = LogView(w)
           /\ RecoveredHdr(m, w, k) = LogHdr(w)
           /\ Recovered(m, w, k) = Database(CurHdr(m, w), Over(m.page, LogView(w)))
<1>0. /\ Len(w.frames) \in Nat /\ DOMAIN w.frames = 1 .. Len(w.frames)
      /\ w.frames = <<>> <=> Len(w.frames) = 0
  BY LogsType
<1>1. Deciphered(m, w, k) = DOMAIN w.frames /\ OfGeneration(m, w) = DOMAIN w.frames
  BY <1>0 DEF WholeLog, Deciphered, OfGeneration
<1>2. LastCommit(m, w, k) = Len(w.frames)
  <2> DEFINE S == {i \in Deciphered(m, w, k) : w.frames[i].commit}
  <2>1. S \in SUBSET DOMAIN w.frames
    BY <1>1
  <2>2. w.frames # <<>> => Len(w.frames) \in S
    BY <1>0, <1>1 DEF WholeLog
  <2>3. LastCommit(m, w, k) = Max({0} \cup S)
    BY Zenon DEF LastCommit
  <2> HIDE DEF S
  <2>4. Max({0} \cup S) \in {0} \cup S /\ \A j \in S : Max({0} \cup S) >= j
    BY <2>1, NewestIn
  <2>5. CASE w.frames = <<>>
    BY <2>5, <2>1, <2>3, <2>4, <1>0
  <2>6. CASE w.frames # <<>>
    <3>1. Max({0} \cup S) >= Len(w.frames)
      BY <2>6, <2>2, <2>4
    <3>2. Max({0} \cup S) \in 0 .. Len(w.frames)
      BY <2>1, <2>4, <1>0
    <3> QED BY <3>1, <3>2, <2>3, <1>0
  <2> QED BY <2>5, <2>6
<1>3. Replayed(m, w, k) = DOMAIN w.frames
  BY <1>0, <1>1, <1>2 DEF Replayed
<1>4. \A id : Newest(m, w, k, id) = Holders(w, id)
  BY <1>3 DEF Newest, Holders
<1>5. RecoveredView(m, w, k) = LogView(w) /\ RecoveredHdr(m, w, k) = LogHdr(w)
  BY <1>4 DEF RecoveredView, LogView, RecoveredHdr, LogHdr
<1>6. ~ RefusesKey(m, w, k)
  BY <1>1 DEF RefusesKey
<1>7. Recovered(m, w, k) = Database(CurHdr(m, w), Over(m.page, LogView(w)))
  BY <1>5, Zenon DEF Recovered, CurHdr
<1> QED BY <1>2, <1>5, <1>6, <1>7

\* A commit at the end of the log puts its pages over those of the log.
ViewAppended(w1, w, g, ids, staged, n) ==
    /\ w1.salt = w.salt
    /\ Len(w1.frames) = g.end + Len(FramesOf(g, ids, staged, n))
    /\ \A p \in Pages : LogView(w1)[p] = IF p \in ids THEN [by |-> n, key |-> g.key]
                                         ELSE LogView(w)[p]
    /\ LogHdr(w1) = IF staged THEN g.hdr ELSE LogHdr(w)
    /\ \A m : WholeLog(m, w, g.key) /\ g.salt = m.salt /\ w.salt = m.salt
                 => WholeLog(m, w1, g.key)

\* The pages and the header of the commit are the newest of the WAL.
LEMMA AppendedView ==
    ASSUME NEW w \in Logs, NEW g \in Pagers, g.end = Len(w.frames),
           NEW ids \in SUBSET Pages, ids # {}, NEW staged \in BOOLEAN, NEW n \in 1 .. MaxCommits
    PROVE  ViewAppended(Appended(w, g, FramesOf(g, ids, staged, n)), w, g, ids, staged, n)
<1> DEFINE new == FramesOf(g, ids, staged, n)
           w1 == Appended(w, g, new)
           a == Len(w.frames)
           b == Len(new)
<1>1. /\ b \in Nat /\ b >= 1
      /\ \A i \in 1 .. b : IsFrame(new[i], g, ids, staged, n, i, b)
      /\ \A p \in ids : \E i \in 1 .. b : new[i].id = p
      /\ staged => new[b].id = 0
  <2>1. AreFrames(new, g, ids, staged, n)
    BY FramesOfShape
  <2> HIDE DEF new
  <2> QED BY <2>1 DEF AreFrames
<1> HIDE DEF new
<1>2. a \in Nat /\ g.end = a /\ DOMAIN w.frames = 1 .. a
  BY LogsType
<1>3. /\ w1.frames = [i \in 1 .. a + b |-> w1.frames[i]] /\ w1.salt = w.salt
      /\ \A i \in 1 .. a + b :
            w1.frames[i] = IF i > a /\ i <= a + b THEN new[i - a]
                           ELSE IF i <= a THEN w.frames[i] ELSE Hole
  <2>1. (IF Len(w.frames) >= g.end + Len(new) THEN Len(w.frames) ELSE g.end + Len(new)) = a + b
    BY <1>1, <1>2
  <2>2. g.end \in Nat /\ Len(new) \in Nat
    BY <1>1, <1>2
  <2>3. LET k == IF Len(w.frames) >= g.end + Len(new) THEN Len(w.frames) ELSE g.end + Len(new)
        IN  /\ w1.salt = w.salt
            /\ w1.frames = [i \in 1 .. k |-> w1.frames[i]]
            /\ \A i \in 1 .. k :
                  w1.frames[i] = IF i > g.end /\ i <= g.end + Len(new) THEN new[i - g.end]
                                 ELSE IF i <= Len(w.frames) THEN w.frames[i] ELSE Hole
    BY <2>2, AppendedShape, SMTT(60)
  <2> HIDE DEF w1
  <2> QED BY <2>1, <2>3, <1>2
<1> HIDE DEF w1
<1>4. DOMAIN w1.frames = 1 .. a + b /\ Len(w1.frames) = a + b
  BY <1>1, <1>2, <1>3
<1>5. \A i \in 1 .. a : i \in DOMAIN w1.frames /\ w1.frames[i] = w.frames[i]
  <2> TAKE i \in 1 .. a
  <2>1. i \in 1 .. a + b /\ ~ (i > a) /\ i <= a
    BY <1>1, <1>2
  <2> QED BY <2>1, <1>3, <1>4
<1>6. \A j \in 1 .. b : a + j \in DOMAIN w1.frames /\ w1.frames[a + j] = new[j]
  <2> TAKE j \in 1 .. b
  <2>1. a + j \in 1 .. a + b /\ a + j > a /\ a + j <= a + b /\ (a + j) - a = j
    BY <1>1, <1>2
  <2> QED BY <2>1, <1>3, <1>4
<1>7. \A i \in DOMAIN w1.frames : i \in 1 .. a \/ \E j \in 1 .. b : i = a + j
  <2> SUFFICES ASSUME NEW i \in 1 .. a + b, ~ (i \in 1 .. a) PROVE \E j \in 1 .. b : i = a + j
    BY <1>4
  <2>1. i - a \in 1 .. b /\ i = a + (i - a)
    BY <1>1, <1>2
  <2> QED BY <2>1
<1>8. w1 \in Logs
  BY AppendedType DEF w1, new
<1>9. \A j \in 1 .. b : \/ new[j].id \in ids /\ new[j].body = [by |-> n, key |-> g.key]
                        \/ staged /\ j = b /\ new[j].id = 0 /\ new[j].body = g.hdr
  BY <1>1 DEF IsFrame
<1>10. 0 \notin ids
  BY PagesFacts
<1>11. ASSUME NEW id, \A j \in 1 .. b : new[j].id # id
       PROVE  Holders(w1, id) = Holders(w, id)
              /\ (Holders(w, id) # {} =>
                     w1.frames[Max(Holders(w1, id))] = w.frames[Max(Holders(w, id))])
  <2>1. Holders(w1, id) = Holders(w, id)
    <3>1. ASSUME NEW i \in DOMAIN w1.frames, w1.frames[i].id = id
          PROVE  i \in DOMAIN w.frames /\ w.frames[i].id = id
      BY <3>1, <1>2, <1>5, <1>6, <1>7, <1>11
    <3>2. ASSUME NEW i \in DOMAIN w.frames, w.frames[i].id = id
          PROVE  i \in DOMAIN w1.frames /\ w1.frames[i].id = id
      BY <3>2, <1>2, <1>5
    <3> QED BY <3>1, <3>2 DEF Holders
  <2>2. Holders(w, id) # {} => Max(Holders(w, id)) \in 1 .. a
    BY <1>2, HoldersIn
  <2> QED BY <2>1, <2>2, <1>5
<1>12. ASSUME NEW j \in 1 .. b
       PROVE  /\ Holders(w1, new[j].id) # {}
              /\ \E i \in 1 .. b : /\ w1.frames[Max(Holders(w1, new[j].id))] = new[i]
                                   /\ new[i].id = new[j].id
  <2> DEFINE id == new[j].id
             x == Max(Holders(w1, id))
  <2>1. a + j \in Holders(w1, id)
    BY <1>6 DEF Holders
  <2>2. x \in DOMAIN w1.frames /\ w1.frames[x].id = id /\ x >= a + j
    BY <2>1, <1>6, <1>8, HoldersIn
  <2>3. ~ (x \in 1 .. a)
    BY <2>2, <1>2, <1>4
  <2>4. PICK i \in 1 .. b : x = a + i
    BY <2>2, <2>3, <1>7
  <2> QED BY <2>1, <2>2, <2>4, <1>6
<1>13. ASSUME NEW p \in Pages
       PROVE  LogView(w1)[p] = IF p \in ids THEN [by |-> n, key |-> g.key] ELSE LogView(w)[p]
  <2>1. p # 0
    BY PagesFacts
  <2>2. LogView(w1)[p] = IF Holders(w1, p) = {} THEN Nothing
                         ELSE w1.frames[Max(Holders(w1, p))].body
    BY DEF LogView
  <2>3. LogView(w)[p] = IF Holders(w, p) = {} THEN Nothing
                        ELSE w.frames[Max(Holders(w, p))].body
    BY DEF LogView
  <2>4. CASE p \in ids
    <3>1. PICK j \in 1 .. b : new[j].id = p
      BY <2>4, <1>1
    <3>2. Holders(w1, p) # {} /\ \E i \in 1 .. b : w1.frames[Max(Holders(w1, p))] = new[i]
                                                   /\ new[i].id = p
      BY <3>1, <1>12
    <3> QED BY <3>2, <2>1, <2>2, <2>4, <1>9
  <2>5. CASE p \notin ids
    <3>1. \A j \in 1 .. b : new[j].id # p
      BY <2>1, <2>5, <1>9
    <3> QED BY <3>1, <2>2, <2>3, <2>5, <1>11
  <2> QED BY <2>4, <2>5
<1>14. LogHdr(w1) = IF staged THEN g.hdr ELSE LogHdr(w)
  <2>1. CASE staged
    <3>1. b \in 1 .. b /\ new[b].id = 0
      BY <1>1, <2>1
    <3>2. Holders(w1, 0) # {} /\ \E i \in 1 .. b : w1.frames[Max(Holders(w1, 0))] = new[i]
                                                   /\ new[i].id = 0
      BY <3>1, <1>12
    <3> QED BY <3>2, <2>1, <1>9, <1>10 DEF LogHdr
  <2>2. CASE ~ staged
    <3>1. \A j \in 1 .. b : new[j].id # 0
      BY <2>2, <1>9, <1>10
    <3> QED BY <3>1, <2>2, <1>11 DEF LogHdr
  <2> QED BY <2>1, <2>2
<1>15. ASSUME NEW m, WholeLog(m, w, g.key), g.salt = m.salt, w.salt = m.salt
       PROVE  WholeLog(m, w1, g.key)
  <2>1. \A j \in 1 .. b : new[j].salt = g.salt /\ new[j].key = g.key /\ (j = b => new[j].commit)
    BY <1>1 DEF IsFrame
  <2>2. \A j \in 1 .. b : new[j].body # Nothing
    <3>1. [by |-> n, key |-> g.key] \in Body /\ g.hdr \in Header
      BY PagersType DEF Body
    <3> QED BY <3>1, <1>9, NothingAssumption
  <2>3. ASSUME NEW i \in DOMAIN w1.frames
        PROVE  w1.frames[i].salt = m.salt /\ w1.frames[i].key = g.key /\ w1.frames[i].body # Nothing
    <3>1. CASE i \in 1 .. a
      BY <3>1, <1>2, <1>5, <1>15 DEF WholeLog
    <3>2. CASE \E j \in 1 .. b : i = a + j
      BY <3>2, <1>6, <1>15, <2>1, <2>2
    <3> QED BY <3>1, <3>2, <1>7
  <2>4. w1.frames[Len(w1.frames)].commit
    <3>1. b \in 1 .. b
      BY <1>1
    <3> QED BY <3>1, <2>1, <1>4, <1>6
  <2> QED BY <2>3, <2>4, <1>3, <1>15 DEF WholeLog
<1>16. ViewAppended(w1, w, g, ids, staged, n)
  BY <1>2, <1>3, <1>4, <1>13, <1>14, <1>15 DEF ViewAppended, new
<1> QED BY <1>16 DEF w1, new
-----------------------------------------------------------------------------
(* What commits, checkpoints and rollbacks make of the files and of the    *)
(* handle, one lemma per operator.                                         *)

\* The fields of a main file.
LEMMA MainFilesType ==
    ASSUME NEW m \in MainFiles
    PROVE  /\ m.made \in BOOLEAN /\ m.locked \in BOOLEAN /\ m.hdr \in Header
           /\ m.salt \in Salts \cup {0} /\ m.page \in Overlay /\ m.len \in 0 .. MaxPages
           /\ m.len \in Nat
  BY BoundsAssumption DEF MainFiles

\* Pages over pages.
LEMMA OverType ==
    ASSUME NEW base \in Overlay, NEW top \in Overlay
    PROVE  /\ Over(base, top) \in Overlay
           /\ \A p \in Pages : Over(base, top)[p] = IF top[p] = Nothing THEN base[p] ELSE top[p]
           /\ \A n : PagesBy(base, n) /\ PagesBy(top, n) => PagesBy(Over(base, top), n)
  BY DEF Over, Overlay, PagesBy

\* No page at all.
LEMMA BlankType ==
    /\ Blank \in Overlay /\ \A p \in Pages : Blank[p] = Nothing
    /\ Entries(Blank) = {} /\ \A n : PagesBy(Blank, n)
  BY DEF Blank, Overlay, Entries, PagesBy

\* An empty log holds nothing.
LEMMA EmptyLogHolds ==
    ASSUME NEW w, w.frames = <<>>
    PROVE  LogView(w) = Blank /\ LogHdr(w) = Nothing /\ \A m, k : WholeLog(m, w, k)
<1>1. DOMAIN w.frames = {}
  OBVIOUS
<1>2. \A id : Holders(w, id) = {}
  BY <1>1 DEF Holders
<1> QED BY <1>1, <1>2 DEF LogView, LogHdr, Blank, WholeLog

\* A WAL that was just truncated.
LEMMA EmptiedLogType ==
    ASSUME NEW s \in Salts \cup {0}
    PROVE  /\ EmptiedLog(s) \in Logs /\ EmptiedLog(s).frames = <<>> /\ EmptiedLog(s).salt = s
           /\ Len(EmptiedLog(s).frames) = 0
           /\ \A n : FramesBy(EmptiedLog(s), n)
<1>1. <<>> \in Seq(Frames) /\ Len(<<>>) = 0 /\ DOMAIN <<>> = {}
  OBVIOUS
<1> QED BY <1>1 DEF EmptiedLog, Logs, FramesBy

\* write_header changes the header and the salt.
LEMMA WithHeaderFields ==
    ASSUME NEW m \in MainFiles, NEW g \in Pagers
    PROVE  /\ WithHeader(m, g) \in MainFiles
           /\ WithHeader(m, g).hdr = g.hdr /\ WithHeader(m, g).salt = g.salt
           /\ WithHeader(m, g).page = m.page /\ WithHeader(m, g).len = m.len
           /\ WithHeader(m, g).made = m.made /\ WithHeader(m, g).locked = m.locked
<1>0. m = [made |-> m.made, locked |-> m.locked, hdr |-> m.hdr, salt |-> m.salt,
           page |-> m.page, len |-> m.len]
  BY DEF MainFiles
<1> DEFINE m1 == WithHeader(m, g)
<1>2. m1 = [m EXCEPT !.hdr = g.hdr, !.salt = g.salt]
  BY DEF WithHeader
<1> HIDE DEF m1
<1>1. m1 = [made |-> m.made, locked |-> m.locked, hdr |-> g.hdr, salt |-> g.salt,
            page |-> m.page, len |-> m.len]
  BY <1>0, <1>2
<1>3. m1 \in MainFiles
  BY <1>1, MainFilesType, PagersType DEF MainFiles
<1>4. /\ m1.hdr = g.hdr /\ m1.salt = g.salt /\ m1.page = m.page /\ m1.len = m.len
      /\ m1.made = m.made /\ m1.locked = m.locked
  BY <1>1
<1> QED BY <1>3, <1>4 DEF m1

\* The length of the file after a checkpoint covers what was folded, and what
\* was there if the handle knows how long the file is.
LEMMA LengthCovers ==
    ASSUME NEW m \in MainFiles, NEW g \in Pagers
    PROVE  /\ Length(m, g) \in 0 .. MaxPages /\ Length(m, g) \in Nat
           /\ g.hw <= m.len => \A p \in Entries(g.view) : p <= Length(m, g)
           /\ g.hw = m.len => Length(m, g) >= m.len
<1>1. m.len \in 0 .. MaxPages /\ m.len \in Nat /\ g.hw \in 0 .. MaxPages
  BY MainFilesType, PagersType
<1>2. Entries(g.view) \in SUBSET (0 .. MaxPages) /\ MaxPages \in Nat
      /\ Entries(g.view) \subseteq 1 .. MaxPages
  <2>1. Entries(g.view) \subseteq Pages
    BY DEF Entries
  <2>2. Entries(g.view) \subseteq 1 .. MaxPages /\ MaxPages \in Nat
    BY <2>1, PagesFacts
  <2>3. 1 .. MaxPages \subseteq 0 .. MaxPages
    BY <2>2
  <2> QED BY <2>2, <2>3
<1>3. CASE Entries(g.view) = {}
  BY <1>1, <1>3 DEF Length
<1>4. CASE Entries(g.view) # {}
  <2> DEFINE x == Max(Entries(g.view))
  <2>1. x \in Entries(g.view) /\ \A p \in Entries(g.view) : x >= p
    BY <1>2, <1>4, MaxIn
  <2> HIDE DEF x
  <2>2. Length(m, g) = IF x <= g.hw THEN m.len ELSE x
    BY <1>4 DEF Length, x
  <2>3. x \in 1 .. MaxPages
    BY <2>1, <1>2
  <2>4. \A p \in Entries(g.view) : p \in Nat
    BY <1>2
  <2>5. Length(m, g) \in 0 .. MaxPages /\ Length(m, g) \in Nat
    BY <1>1, <1>2, <2>2, <2>3
  <2>6. g.hw <= m.len => Length(m, g) >= x
    BY <1>1, <1>2, <2>2, <2>3
  <2>7. g.hw = m.len => Length(m, g) >= m.len
    BY <1>1, <1>2, <2>2, <2>3
  <2>8. ASSUME g.hw <= m.len, NEW p \in Entries(g.view) PROVE p <= Length(m, g)
    <3>1. p <= x /\ x <= Length(m, g) /\ p \in Nat /\ x \in Nat
      BY <2>1, <2>3, <2>4, <2>6, <2>8
    <3> QED BY <3>1, <2>5
  <2> QED BY <2>5, <2>7, <2>8
<1> QED BY <1>3, <1>4

\* A checkpoint puts the view over the pages that the file is long enough for.
LEMMA FoldedFields ==
    ASSUME NEW m \in MainFiles, NEW g \in Pagers, NEW s \in Salts
    PROVE  /\ Folded(m, g, s) \in MainFiles
           /\ Folded(m, g, s).hdr = g.hdr /\ Folded(m, g, s).salt = s
           /\ Folded(m, g, s).len = Length(m, g)
           /\ Folded(m, g, s).made = m.made /\ Folded(m, g, s).locked = m.locked
           /\ \A p \in Pages : Folded(m, g, s).page[p] =
                 IF p <= Length(m, g) THEN Over(m.page, g.view)[p] ELSE Nothing
           /\ \A n : PagesBy(m.page, n) /\ PagesBy(g.view, n) => PagesBy(Folded(m, g, s).page, n)
<1> DEFINE page == [p \in Pages |-> IF p <= Length(m, g) THEN Over(m.page, g.view)[p] ELSE Nothing]
           h == [g EXCEPT !.salt = s]
<1>1. h \in Pagers /\ h.hdr = g.hdr /\ h.salt = s
  BY DEF Pagers
<1> HIDE DEF h
<1>2. /\ WithHeader(m, h) \in MainFiles /\ WithHeader(m, h).hdr = g.hdr
      /\ WithHeader(m, h).salt = s /\ WithHeader(m, h).made = m.made
      /\ WithHeader(m, h).locked = m.locked
  BY <1>1, WithHeaderFields
<1>3. Length(m, g) \in 0 .. MaxPages
  BY LengthCovers
<1>4. m.page \in Overlay /\ g.view \in Overlay
  BY MainFilesType, PagersType
<1>5. page \in Overlay
  BY <1>4, OverType DEF Overlay
<1>6. \A n : PagesBy(m.page, n) /\ PagesBy(g.view, n) => PagesBy(page, n)
  BY <1>4, OverType DEF PagesBy
<1>7. Folded(m, g, s) = [WithHeader(m, h) EXCEPT !.page = page, !.len = Length(m, g)]
  BY Zenon DEF Folded, h
<1>8. \A p \in Pages : page[p] = IF p <= Length(m, g) THEN Over(m.page, g.view)[p] ELSE Nothing
  OBVIOUS
<1> HIDE DEF page
<1>9. Folded(m, g, s) = [made |-> m.made, locked |-> m.locked, hdr |-> g.hdr, salt |-> s,
                         page |-> page, len |-> Length(m, g)]
  BY <1>2, <1>7 DEF MainFiles
<1>10. m.made \in BOOLEAN /\ m.locked \in BOOLEAN /\ g.hdr \in Header
  BY MainFilesType, PagersType
<1>11. Folded(m, g, s) \in MainFiles
  BY <1>3, <1>5, <1>9, <1>10 DEF MainFiles
<1> QED BY <1>6, <1>8, <1>9, <1>11

\* A handle after a checkpoint, with the view it is left.
IsReset(r, g, s, m, view) ==
    /\ r \in Pagers /\ r.key = g.key /\ r.hdr = g.hdr /\ r.salt = s /\ r.view = view
    /\ r.viewHdr = Nothing /\ r.end = 0
    /\ r.hw = (IF Length(m, g) = m.len THEN g.hw ELSE Length(m, g))

\* That is what Reset makes of it.
LEMMA ResetFields ==
    ASSUME NEW g \in Pagers, NEW s \in Salts, NEW m \in MainFiles, NEW view \in Overlay
    PROVE  IsReset([Reset(g, s, m) EXCEPT !.view = view], g, s, m, view)
<1>1. g \in Pagers /\ Length(m, g) \in 0 .. MaxPages
  BY LengthCovers
<1> DEFINE hw == IF Length(m, g) = m.len THEN g.hw ELSE Length(m, g)
<1>4. g = [key |-> g.key, hdr |-> g.hdr, salt |-> g.salt, view |-> g.view, viewHdr |-> g.viewHdr,
           end |-> g.end, hw |-> g.hw]
  BY DEF Pagers
<1>5. Reset(g, s, m) = [g EXCEPT !.salt = s, !.view = Blank, !.viewHdr = Nothing, !.end = 0,
                                !.hw = hw]
  BY Zenon DEF Reset
<1> HIDE DEF hw
<1>6. Reset(g, s, m) = [key |-> g.key, hdr |-> g.hdr, salt |-> s, view |-> Blank,
                        viewHdr |-> Nothing, end |-> 0, hw |-> hw]
  BY <1>4, <1>5
<1>2. [Reset(g, s, m) EXCEPT !.view = view] =
        [key |-> g.key, hdr |-> g.hdr, salt |-> s, view |-> view, viewHdr |-> Nothing,
         end |-> 0, hw |-> hw]
  BY <1>6
<1>3. hw \in 0 .. MaxPages
  BY <1>1, PagersType DEF hw
<1> DEFINE r == [Reset(g, s, m) EXCEPT !.view = view]
<1>7. r \in Pagers
  BY <1>2, <1>3, PagersType DEF Pagers
<1>8. /\ r.key = g.key /\ r.hdr = g.hdr /\ r.salt = s /\ r.view = view
      /\ r.viewHdr = Nothing /\ r.end = 0 /\ r.hw = hw
  BY <1>2
<1> HIDE DEF r
<1>9. IsReset(r, g, s, m, view)
  BY <1>7, <1>8 DEF hw, IsReset
<1> QED BY <1>9 DEF r

\* A checkpoint by itself leaves no view.
LEMMA ResetIsBlank ==
    ASSUME NEW g \in Pagers, NEW s, NEW m
    PROVE  Reset(g, s, m) = [Reset(g, s, m) EXCEPT !.view = Blank]
  BY DEF Reset, Pagers

\* A handle after a commit.
IsPublished(r, g, ids, staged, new, n) ==
    /\ r \in Pagers /\ r.key = g.key /\ r.hdr = g.hdr /\ r.salt = g.salt
    /\ r.hw = g.hw /\ r.end = g.end + Len(new)
    /\ r.viewHdr = (IF staged THEN g.hdr ELSE g.viewHdr)
    /\ \A p \in Pages : r.view[p] = IF p \in ids THEN [by |-> n, key |-> g.key]
                                    ELSE g.view[p]
    /\ PagesBy(g.view, n - 1) => PagesBy(r.view, n)
    /\ ids # {} => Entries(r.view) # {} /\ ids \subseteq Entries(r.view)

\* That is what Published makes of it.
LEMMA PublishedFields ==
    ASSUME NEW g \in Pagers, NEW ids \in SUBSET Pages, NEW staged \in BOOLEAN, NEW new,
           Len(new) \in Nat, NEW n \in 1 .. MaxCommits
    PROVE  IsPublished(Published(g, ids, staged, new, n), g, ids, staged, new, n)
<1> DEFINE view == [p \in Pages |-> IF p \in ids THEN [by |-> n, key |-> g.key] ELSE g.view[p]]
           viewHdr == IF staged THEN g.hdr ELSE g.viewHdr
           r == Published(g, ids, staged, new, n)
<1>0. g.view \in Overlay /\ g.end \in Nat /\ g.key \in Keys /\ n \in Nat
  BY PagersType
<1>1. [by |-> n, key |-> g.key] \in Body
  BY <1>0 DEF Body
<1>2. [by |-> n, key |-> g.key] # Nothing
  BY <1>1, NothingAssumption
<1>3. \A p \in Pages : g.view[p] \in Body \cup {Nothing}
  BY <1>0 DEF Overlay
<1>4. view \in Overlay
  BY <1>1, <1>3 DEF Overlay
<1>5. ASSUME PagesBy(g.view, n - 1) PROVE PagesBy(view, n)
  <2> SUFFICES ASSUME NEW p \in Pages, p \notin ids, g.view[p] # Nothing PROVE g.view[p].by <= n
    BY <1>0 DEF PagesBy
  <2>1. g.view[p] \in Body
    BY <1>3
  <2>2. g.view[p].by \in Nat
    BY <2>1, BoundsAssumption DEF Body
  <2>3. g.view[p].by <= n - 1
    BY <1>5 DEF PagesBy
  <2> QED BY <2>2, <2>3, <1>0
<1>6. \A p \in ids : view[p] # Nothing
  BY <1>2
<1>7. \A p \in Pages : view[p] = IF p \in ids THEN [by |-> n, key |-> g.key] ELSE g.view[p]
  OBVIOUS
<1> HIDE DEF view
<1>8. viewHdr \in Header \cup {Nothing} /\ g.end + Len(new) \in Nat
  BY <1>0, PagersType
<1>9. r = [g EXCEPT !.view = view, !.viewHdr = viewHdr, !.end = g.end + Len(new)]
  BY Zenon DEF Published, view
<1> HIDE DEF viewHdr, r
<1>10. r = [key |-> g.key, hdr |-> g.hdr, salt |-> g.salt, view |-> view, viewHdr |-> viewHdr,
            end |-> g.end + Len(new), hw |-> g.hw]
  BY <1>9 DEF Pagers
<1>11. r \in Pagers
  BY <1>4, <1>8, <1>10, PagersType DEF Pagers
<1>12. ids # {} => Entries(view) # {} /\ ids \subseteq Entries(view)
  BY <1>6 DEF Entries
<1>13. r.view = view /\ r.viewHdr = viewHdr
  BY <1>10
<1>14. IsPublished(r, g, ids, staged, new, n)
  BY <1>5, <1>7, <1>10, <1>11, <1>12, <1>13 DEF viewHdr, IsPublished
<1> QED BY <1>14 DEF r
-----------------------------------------------------------------------------
(* What a handle knows stays true through its own writes.                  *)

\* A view that covers the WAL reads like it.
LEMMA CoversOver ==
    ASSUME NEW m, NEW w, NEW view, Covers(view, m, w)
    PROVE  Over(m.page, view) = Over(m.page, LogView(w))
<1>1. ASSUME NEW p \in Pages
      PROVE  Over(m.page, view)[p] = Over(m.page, LogView(w))[p]
  BY DEF Covers, Over
<1> QED BY <1>1 DEF Over

\* The header that counts is a header.
LEMMA CurHdrType ==
    ASSUME NEW m \in MainFiles, NEW w \in Logs
    PROVE  CurHdr(m, w) \in Header
  BY LogViewType, MainFilesType DEF CurHdr

\* The fields of a header.
LEMMA HeaderFacts ==
    ASSUME NEW h \in Header
    PROVE  h.root \in 0 .. MaxPages /\ h.count \in 0 .. MaxPages /\ h # Nothing
           /\ 1 .. h.count \subseteq Pages
<1>1. h.root \in 0 .. MaxPages /\ h.count \in 0 .. MaxPages /\ MaxPages \in Nat
  BY PagesFacts DEF Header
<1> QED BY <1>1, NothingAssumption DEF Pages

\* The fields of a database.
LEMMA DatabaseFields ==
    ASSUME NEW h, NEW page
    PROVE  /\ Database(h, page).root = h.root
           /\ DOMAIN Database(h, page).page = 1 .. h.count
           /\ \A p \in 1 .. h.count : Database(h, page).page[p] = page[p]
  BY DEF Database

\* A commit of the pages of ids under the header hdr, by a handle g: the
\* handle and the WAL after it, before it may checkpoint.
IsCommit(after, w1, g, w, hdr, ids, staged, n) ==
    \E h \in Pagers :
        /\ h = [g EXCEPT !.hdr = hdr]
        /\ after = Published(h, ids, staged, FramesOf(h, ids, staged, n), n)
        /\ w1 = Appended(w, h, FramesOf(h, ids, staged, n))

\* A commit of a handle that knows the files: the next open finds what was
\* committed, and the handle knows that.
LEMMA CommitKeeps ==
    ASSUME NEW m \in MainFiles, NEW w \in Logs, NEW g \in Pagers, NEW a,
           FilesHold(m, w, a), Knows("catalog", g, m, w, a), WholeLog(m, w, g.key),
           NEW hdr \in Header, hdr.root \in 1 .. hdr.count,
           NEW ids \in SUBSET Pages, ids # {}, NEW staged \in BOOLEAN, staged <=> hdr # g.hdr,
           NEW n \in 1 .. MaxCommits, NEW after, NEW w1,
           IsCommit(after, w1, g, w, hdr, ids, staged, n),
           NEW b, b = Database(hdr, Over(m.page, after.view)), b.page[hdr.root].key = g.key
    PROVE  FilesHold(m, w1, b) /\ Knows("open", after, m, w1, b)
<1> PICK h \in Pagers :
       /\ h = [g EXCEPT !.hdr = hdr]
       /\ after = Published(h, ids, staged, FramesOf(h, ids, staged, n), n)
       /\ w1 = Appended(w, h, FramesOf(h, ids, staged, n))
  BY DEF IsCommit
<1>1. /\ h \in Pagers /\ h.hdr = hdr /\ h.key = g.key /\ h.salt = g.salt /\ h.end = g.end
      /\ h.view = g.view /\ h.viewHdr = g.viewHdr /\ h.hw = g.hw
  BY DEF Pagers
<1>2. /\ g.hdr = CurHdr(m, w) /\ g.viewHdr = LogHdr(w) /\ g.end = Len(w.frames)
      /\ g.salt = m.salt /\ g.salt = w.salt /\ g.hw = m.len /\ Covers(g.view, m, w)
      /\ m.made /\ (m.locked <=> g.key # NoKey)
  BY DEF Knows
<1> DEFINE new == FramesOf(h, ids, staged, n)
<1>3. Len(new) \in Nat
  BY FramesOfShape DEF AreFrames
<1>4. /\ Len(w1.frames) = g.end + Len(new)
      /\ \A p \in Pages : LogView(w1)[p] = IF p \in ids THEN [by |-> n, key |-> g.key]
                                           ELSE LogView(w)[p]
      /\ LogHdr(w1) = IF staged THEN hdr ELSE LogHdr(w)
      /\ WholeLog(m, w1, g.key) /\ w1.salt = w.salt
  <2>1. h.end = Len(w.frames)
    BY <1>1, <1>2
  <2>2. ViewAppended(w1, w, h, ids, staged, n)
    BY <2>1, <1>1, AppendedView
  <2> QED BY <2>2, <1>1, <1>2, ZenonT(60) DEF ViewAppended
<1>5. /\ after.key = g.key /\ after.hdr = hdr /\ after.salt = g.salt
      /\ after.hw = g.hw /\ after.end = g.end + Len(new)
      /\ after.viewHdr = (IF staged THEN hdr ELSE g.viewHdr)
      /\ \A p \in Pages : after.view[p] = IF p \in ids THEN [by |-> n, key |-> g.key]
                                          ELSE g.view[p]
  <2>1. IsPublished(after, h, ids, staged, new, n)
    BY <1>1, <1>3, PublishedFields
  <2> QED BY <2>1, <1>1 DEF IsPublished
<1> HIDE DEF new
<1>7. hdr # Nothing
  BY HeaderFacts
<1>8. CurHdr(m, w1) = hdr
  BY <1>2, <1>4, <1>7 DEF CurHdr
<1>9. [by |-> n, key |-> g.key] # Nothing
  <2>1. [by |-> n, key |-> g.key] \in Body
    BY PagersType DEF Body
  <2> QED BY <2>1, NothingAssumption
<1>10. Covers(after.view, m, w1)
  <2> SUFFICES ASSUME NEW p \in Pages
               PROVE  /\ LogView(w1)[p] # Nothing => after.view[p] = LogView(w1)[p]
                      /\ after.view[p] # Nothing => after.view[p] = Over(m.page, LogView(w1))[p]
    BY DEF Covers
  <2>1. Over(m.page, LogView(w1))[p] =
           IF LogView(w1)[p] = Nothing THEN m.page[p] ELSE LogView(w1)[p]
    BY DEF Over
  <2>2. Over(m.page, LogView(w))[p] = IF LogView(w)[p] = Nothing THEN m.page[p] ELSE LogView(w)[p]
    BY DEF Over
  <2>3. /\ LogView(w)[p] # Nothing => g.view[p] = LogView(w)[p]
        /\ g.view[p] # Nothing => g.view[p] = Over(m.page, LogView(w))[p]
    BY <1>2 DEF Covers
  <2>4. CASE p \in ids
    BY <2>1, <2>4, <1>4, <1>5, <1>9
  <2>5. CASE p \notin ids
    BY <2>1, <2>2, <2>3, <2>5, <1>4, <1>5
  <2> QED BY <2>4, <2>5
<1>11. b = Database(CurHdr(m, w1), Over(m.page, LogView(w1)))
  BY <1>8, <1>10, CoversOver
<1>12. b.root = hdr.root /\ b.root # 0 /\ DbKey(b) = g.key
  <2>1. b.root = hdr.root
    BY DatabaseFields
  <2>2. hdr.root # 0
    BY HeaderFacts
  <2> QED BY <2>1, <2>2 DEF DbKey
<1>13. FilesHold(m, w1, b)
  <2>1. \A p \in Pages : p > m.len => m.page[p] = Nothing
    BY DEF FilesHold
  <2> QED BY <2>1, <1>2, <1>4, <1>8, <1>11, <1>12 DEF FilesHold
<1>14. Knows("open", after, m, w1, b)
  BY <1>2, <1>4, <1>5, <1>8, <1>10, <1>12 DEF Knows
<1> QED BY <1>13, <1>14

\* A checkpoint of a handle that knows the files folds the acknowledged
\* database into the main file, and the handle knows that, whether its view
\* was emptied or put back by a rollback.
LEMMA FoldKeeps ==
    ASSUME NEW m \in MainFiles, NEW w \in Logs, NEW g \in Pagers, NEW a,
           FilesHold(m, w, a), Knows("open", g, m, w, a), NEW s \in Salts,
           NEW view \in {Blank, g.view}
    PROVE  /\ FilesHold(Folded(m, g, s), EmptiedLog(s), a)
           /\ Knows("open", [Reset(g, s, m) EXCEPT !.view = view],
                    Folded(m, g, s), EmptiedLog(s), a)
<1> DEFINE m1 == Folded(m, g, s)
           w1 == EmptiedLog(s)
           r == [Reset(g, s, m) EXCEPT !.view = view]
           L == Length(m, g)
<1>1. /\ m1.hdr = g.hdr /\ m1.salt = s /\ m1.len = L /\ m1.made = m.made /\ m1.locked = m.locked
      /\ \A p \in Pages : m1.page[p] = IF p <= L THEN Over(m.page, g.view)[p] ELSE Nothing
      /\ m1 \in MainFiles
  BY FoldedFields
<1>2. w1.frames = <<>> /\ w1.salt = s /\ Len(w1.frames) = 0
  BY EmptiedLogType
<1>3. /\ r.key = g.key /\ r.hdr = g.hdr /\ r.salt = s /\ r.view = view
      /\ r.viewHdr = Nothing /\ r.end = 0
      /\ r.hw = (IF L = m.len THEN g.hw ELSE L)
  <2>1. view \in Overlay
    BY BlankType, PagersType
  <2>2. IsReset(r, g, s, m, view)
    BY <2>1, ResetFields
  <2> QED BY <2>2 DEF IsReset
<1>4. /\ L \in Nat /\ L >= m.len /\ \A p \in Entries(g.view) : p <= L
  <2>1. g.hw = m.len /\ m.len \in Nat
    BY MainFilesType DEF Knows
  <2>2. g.hw <= m.len
    BY <2>1
  <2> QED BY <2>1, <2>2, LengthCovers
<1>5. /\ g.hdr = CurHdr(m, w) /\ g.hw = m.len /\ Covers(g.view, m, w)
      /\ m.made /\ (m.locked <=> g.key # NoKey) /\ a.root # 0 /\ g.key = DbKey(a)
  BY DEF Knows
<1>6. LogView(w1) = Blank /\ LogHdr(w1) = Nothing /\ \A k : WholeLog(m1, w1, k)
  BY <1>2, EmptyLogHolds
<1> HIDE DEF m1, w1, r, L
<1>7. ASSUME NEW p \in Pages
      PROVE  m1.page[p] = Over(m.page, g.view)[p] /\ (p > L => m1.page[p] = Nothing)
  <2>1. p \in Nat /\ m.len \in Nat
    BY PagesFacts, MainFilesType
  <2>2. CASE p <= L
    BY <2>1, <2>2, <1>1, <1>4
  <2>3. CASE ~ (p <= L)
    <3>1. g.view[p] = Nothing
      BY <2>3, <1>4 DEF Entries
    <3>2. p > m.len
      BY <2>1, <2>3, <1>4
    <3>3. m.page[p] = Nothing
      BY <3>2 DEF FilesHold
    <3> QED BY <3>1, <3>3, <2>3, <1>1 DEF Over
  <2> QED BY <2>2, <2>3
<1>8. Over(m1.page, LogView(w1)) = Over(m.page, LogView(w))
  <2>1. Over(m.page, g.view) = Over(m.page, LogView(w))
    BY <1>5, CoversOver
  <2>2. \A p \in Pages : Over(m1.page, Blank)[p] = Over(m.page, g.view)[p]
    BY <1>7, BlankType DEF Over
  <2>3. Over(m1.page, Blank) = Over(m.page, g.view)
    BY <2>2 DEF Over
  <2> QED BY <2>1, <2>3, <1>6
<1>9. CurHdr(m1, w1) = g.hdr
  BY <1>1, <1>6 DEF CurHdr
<1>10. FilesHold(m1, w1, a)
  <2>1. a = Database(CurHdr(m1, w1), Over(m1.page, LogView(w1)))
    BY <1>5, <1>8, <1>9 DEF FilesHold
  <2>2. a.root \in 1 .. CurHdr(m1, w1).count /\ (m1.locked <=> DbKey(a) # NoKey) /\ m1.made
    BY <1>1, <1>5, <1>9 DEF FilesHold
  <2>3. \A p \in Pages : p > m1.len => m1.page[p] = Nothing
    BY <1>1, <1>7
  <2> QED BY <2>1, <2>2, <2>3, <1>2, <1>5, <1>6 DEF FilesHold
<1>11. Covers(view, m1, w1)
  <2> SUFFICES ASSUME NEW p \in Pages, view[p] # Nothing
               PROVE  view[p] = Over(m1.page, Blank)[p]
    BY <1>6, BlankType DEF Covers
  <2>1. view = g.view
    BY BlankType
  <2> QED BY <2>1, <1>7, BlankType DEF Over
<1>12. r.hw = m1.len
  BY <1>1, <1>3, <1>5
<1>13. Knows("open", r, m1, w1, a)
  BY <1>1, <1>2, <1>3, <1>5, <1>6, <1>9, <1>11, <1>12 DEF Knows
<1> QED BY <1>10, <1>13 DEF m1, w1, r

\* The header a handle writes back is the one that is there or in the WAL.
LEMMA HeaderKeeps ==
    ASSUME NEW m \in MainFiles, NEW w \in Logs, NEW g \in Pagers, NEW a,
           FilesHold(m, w, a), Knows("open", g, m, w, a)
    PROVE  /\ FilesHold(WithHeader(m, g), w, a)
           /\ Knows("open", g, WithHeader(m, g), w, a)
<1> DEFINE m1 == WithHeader(m, g)
<1>1. /\ m1.hdr = g.hdr /\ m1.salt = g.salt /\ m1.page = m.page /\ m1.len = m.len
      /\ m1.made = m.made /\ m1.locked = m.locked
  BY WithHeaderFields
<1> HIDE DEF m1
<1>2. g.hdr = CurHdr(m, w) /\ g.salt = m.salt /\ m.made /\ a.root # 0
  BY DEF Knows
<1>3. CurHdr(m1, w) = CurHdr(m, w) /\ m1.salt = m.salt
  BY <1>1, <1>2 DEF CurHdr
<1>4. FilesHold(m1, w, a)
  BY <1>1, <1>2, <1>3 DEF FilesHold, WholeLog
<1>5. Knows("open", g, m1, w, a)
  BY <1>1, <1>2, <1>3 DEF Knows, Covers
<1> QED BY <1>4, <1>5 DEF m1
-----------------------------------------------------------------------------
(* Every step keeps the types.                                             *)

\* Files and handles of the first n commits.
FilesType(m, w, n) == m \in MainFiles /\ w \in Logs /\ PagesBy(m.page, n) /\ FramesBy(w, n)
HandleType(g, n) == g \in Pagers /\ PagesBy(g.view, n)

\* What was written before commit n was before n + 1.
LEMMA ByMonotone ==
    ASSUME NEW n \in Nat, NEW k \in Nat, n <= k
    PROVE  /\ \A o \in Overlay : PagesBy(o, n) => PagesBy(o, k)
           /\ \A w \in Logs : FramesBy(w, n) => FramesBy(w, k)
           /\ \A m, w : FilesType(m, w, n) => FilesType(m, w, k)
           /\ \A g : HandleType(g, n) => HandleType(g, k)
<1>0. \A b \in Body : b.by \in Nat
  BY BoundsAssumption DEF Body
<1>1. ASSUME NEW o \in Overlay, PagesBy(o, n) PROVE PagesBy(o, k)
  <2> SUFFICES ASSUME NEW p \in Pages, o[p] # Nothing PROVE o[p].by <= k
    BY DEF PagesBy
  <2>1. o[p] \in Body
    BY DEF Overlay
  <2>2. o[p].by <= n
    BY <1>1 DEF PagesBy
  <2> QED BY <1>0, <2>1, <2>2
<1>2. ASSUME NEW w \in Logs, FramesBy(w, n) PROVE FramesBy(w, k)
  <2> SUFFICES ASSUME NEW i \in DOMAIN w.frames, w.frames[i].id # 0 PROVE w.frames[i].body.by <= k
    BY DEF FramesBy
  <2>1. w.frames[i].body \in Body
    BY LogsType, FramesType
  <2>2. w.frames[i].body.by <= n
    BY <1>2 DEF FramesBy
  <2> QED BY <1>0, <2>1, <2>2
<1>3. ASSUME NEW m, NEW w, FilesType(m, w, n) PROVE FilesType(m, w, k)
  BY <1>1, <1>2, <1>3, MainFilesType DEF FilesType
<1>4. ASSUME NEW g, HandleType(g, n) PROVE HandleType(g, k)
  BY <1>1, <1>4, PagersType DEF HandleType
<1> QED BY <1>1, <1>2, <1>3, <1>4

\* What the types say, conjunct by conjunct.
LEMMA TypeFacts ==
    ASSUME SessTypeInv
    PROVE  /\ TypeOK /\ stage \in [Envs -> Stages] /\ mem \in [Envs -> Pagers]
           /\ stale \subseteq Envs
           /\ FilesType(main, log, commits) /\ main \in MainFiles /\ log \in Logs
           /\ \A e \in Envs : HandleType(mem[e], commits) /\ mem[e] \in Pagers
           /\ commits \in Nat /\ commits <= MaxCommits /\ MaxCommits \in Nat
  BY BoundsAssumption DEF SessTypeInv, HandlesTypeOK, FilesType, HandleType

\* One handle changes, and the files.
LEMMA TypesStep ==
    ASSUME SessTypeInv, TypeOK', NEW e \in Envs, NEW g, NEW s \in Stages,
           commits' \in {commits, commits + 1}, commits' <= MaxCommits,
           FilesType(main', log', commits'), HandleType(g, commits'),
           mem' = [mem EXCEPT ![e] = g], stage' = [stage EXCEPT ![e] = s], stale' \subseteq Envs
    PROVE  SessTypeInv'
<1>1. commits' \in Nat /\ commits <= commits' /\ commits \in Nat /\ commits' \in 0 .. MaxCommits
  BY TypeFacts
<1>2. \A f \in Envs : HandleType(mem'[f], commits')
  <2> TAKE f \in Envs
  <2>1. CASE f = e
    BY <2>1, TypeFacts
  <2>2. CASE f # e
    <3>1. HandleType(mem[f], commits')
      BY <1>1, TypeFacts, ByMonotone
    <3> QED BY <2>2, <3>1, TypeFacts
  <2> QED BY <2>1, <2>2
<1>3. mem' \in [Envs -> Pagers]
  BY TypeFacts DEF HandleType
<1>4. stage' \in [Envs -> Stages]
  BY TypeFacts
<1>5. \A i \in DOMAIN log'.frames : log'.frames[i].salt \in Salts \cup {0}
  <2>1. log' \in Logs
    BY DEF FilesType
  <2> QED BY <2>1, LogsType, FramesType
<1>6. /\ main'.hdr \in Header /\ main'.page \in Overlay /\ main'.salt \in Salts \cup {0}
      /\ main'.len \in 0 .. MaxPages
  <2>1. main' \in MainFiles
    BY DEF FilesType
  <2> QED BY <2>1, MainFilesType
<1>7. HandlesTypeOK'
  BY <1>3, <1>4, <1>5, <1>6 DEF HandlesTypeOK
<1> QED BY <1>1, <1>2, <1>7 DEF SessTypeInv, FilesType, HandleType

\* The same where the handle stays at its stage, or as it is.
LEMMA SameHandle ==
    ASSUME SessTypeInv, NEW e \in Envs
    PROVE  /\ mem = [mem EXCEPT ![e] = mem[e]] /\ stage = [stage EXCEPT ![e] = stage[e]]
           /\ stage[e] \in Stages
  BY TypeFacts

\* Writing to the files touches nothing else but who is stale.
LEMMA WriteFilesType ==
    ASSUME SessTypeInv, NEW e, NEW m, NEW w, WriteFiles(e, m, w)
    PROVE  main' = m /\ log' = w /\ stale' \subseteq Envs
  BY TypeFacts DEF WriteFiles

\* The checkpoint at the end of a commit keeps the types, run or not.
LEMMA MayCheckpointType ==
    ASSUME SessTypeInv, NEW e \in Envs, NEW m, NEW w, NEW g, NEW n,
           FilesType(m, w, n), HandleType(g, n), MayCheckpoint(e, g, m, w)
    PROVE  /\ FilesType(main', log', n) /\ stale' \subseteq Envs
           /\ \E h : HandleType(h, n) /\ mem' = [mem EXCEPT ![e] = h]
<1>1. CASE WriteFiles(e, m, w) /\ mem' = [mem EXCEPT ![e] = g]
  BY <1>1, WriteFilesType
<1>2. ASSUME NEW s \in Salts, WriteFiles(e, Folded(m, g, s), EmptiedLog(s)),
             mem' = [mem EXCEPT ![e] = Reset(g, s, m)]
      PROVE  /\ FilesType(main', log', n) /\ stale' \subseteq Envs
             /\ \E h : HandleType(h, n) /\ mem' = [mem EXCEPT ![e] = h]
  <2>0. m \in MainFiles /\ g \in Pagers /\ PagesBy(m.page, n) /\ PagesBy(g.view, n)
    BY DEF FilesType, HandleType
  <2>1. main' = Folded(m, g, s) /\ log' = EmptiedLog(s) /\ stale' \subseteq Envs
    BY <1>2, WriteFilesType
  <2>2. FilesType(Folded(m, g, s), EmptiedLog(s), n)
    BY <2>0, FoldedFields, EmptiedLogType DEF FilesType
  <2>3. HandleType(Reset(g, s, m), n)
    <3> DEFINE r == [Reset(g, s, m) EXCEPT !.view = Blank]
    <3>1. IsReset(r, g, s, m, Blank)
      BY <2>0, BlankType, ResetFields
    <3>2. r = Reset(g, s, m)
      BY <2>0, ResetIsBlank
    <3> HIDE DEF r
    <3>3. HandleType(r, n)
      BY <3>1, BlankType DEF IsReset, HandleType
    <3> QED BY <3>2, <3>3
  <2> QED BY <1>2, <2>1, <2>2, <2>3
<1> QED BY <1>1, <1>2 DEF MayCheckpoint

\* What there is before anything was opened.
LEMMA FreshTypes ==
    /\ [root |-> 0, count |-> 0] \in Header
    /\ EmptyFile \in MainFiles /\ EmptyLog \in Logs /\ NoPager \in Pagers
    /\ \A n : FilesType(EmptyFile, EmptyLog, n) /\ HandleType(NoPager, n)
    /\ \A e \in Envs : KeysOf[e] \subseteq Keys
<1>1. 0 \in 0 .. MaxPages /\ [root |-> 0, count |-> 0] \in Header /\ NoKey \in Keys
  BY PagesFacts DEF Header, Keys
<1>2. EmptyFile \in MainFiles
  BY <1>1, BlankType DEF EmptyFile, MainFiles
<1>3. EmptyLog \in Logs /\ \A n : FramesBy(EmptyLog, n)
  <2>1. EmptyLog = EmptiedLog(0)
    BY DEF EmptyLog, EmptiedLog
  <2> QED BY <2>1, EmptiedLogType
<1>4. NoPager \in Pagers
  BY <1>1, BlankType DEF NoPager, Pagers
<1>5. EmptyFile.page = Blank /\ NoPager.view = Blank
  BY DEF EmptyFile, NoPager
<1>6. \A e \in Envs : KeysOf[e] \subseteq Keys
  BY DEF Keys
<1> QED BY <1>1, <1>2, <1>3, <1>4, <1>5, <1>6, BlankType DEF FilesType, HandleType

\* The steps of an open, and the ends of a handle.
LEMMA OpenTypes ==
    ASSUME SessTypeInv, TypeOK', NEW e \in Envs, Open(e) \/ CloseHandle(e) \/ Killed(e)
    PROVE  SessTypeInv'
<1> USE TypeFacts
<1>0. \A s \in {"closed", "load", "stamp", "catalog", "open"} : s \in Stages
  BY DEF Stages
<1>1. ASSUME NEW k \in KeysOf[e], Initialise(e, k) PROVE SessTypeInv'
  <2> DEFINE m == [EmptyFile EXCEPT !.made = TRUE, !.locked = k # NoKey]
             g == [NoPager EXCEPT !.key = k]
  <2>1. k \in Keys
    BY FreshTypes
  <2>2. HandleType(g, commits)
    BY <2>1, FreshTypes, BlankType DEF NoPager, Pagers, HandleType
  <2>3. m.page = Blank /\ m \in MainFiles
    <3> DEFINE b == k # NoKey
               t == TRUE
               z == [root |-> 0, count |-> 0]
    <3>1. EmptyFile = [made |-> FALSE, locked |-> FALSE, hdr |-> z, salt |-> 0, page |-> Blank,
                       len |-> 0]
      BY Zenon DEF EmptyFile
    <3>2. m = [EmptyFile EXCEPT !.made = t, !.locked = b] /\ b \in BOOLEAN /\ t \in BOOLEAN
      OBVIOUS
    <3>3. z \in Header /\ 0 \in 0 .. MaxPages
      BY FreshTypes, PagesFacts
    <3> HIDE DEF b, t, m, z
    <3>4. m = [made |-> t, locked |-> b, hdr |-> z, salt |-> 0, page |-> Blank, len |-> 0]
      BY <3>1, <3>2
    <3>5. m \in MainFiles
      BY <3>2, <3>3, <3>4, BlankType DEF MainFiles
    <3> QED BY <3>4, <3>5
  <2>4. main' = m /\ log' = log /\ mem' = [mem EXCEPT ![e] = g] /\ commits' = commits
        /\ stage' = [stage EXCEPT ![e] = "load"] /\ stale' \subseteq Envs
    BY <1>1 DEF Initialise, Reach
  <2> HIDE DEF m, g
  <2>5. FilesType(main', log', commits')
    BY <2>3, <2>4, BlankType DEF FilesType
  <2> QED BY <1>0, <2>2, <2>4, <2>5, TypesStep
<1>2. ASSUME NEW k \in KeysOf[e], LoadHeader(e, k) PROVE SessTypeInv'
  <2> DEFINE g == [NoPager EXCEPT !.key = k, !.hdr = main.hdr, !.salt = main.salt]
  <2>1. k \in Keys
    BY FreshTypes
  <2>2. HandleType(g, commits)
    BY <2>1, FreshTypes, BlankType, MainFilesType DEF NoPager, Pagers, HandleType
  <2>4. main' = main /\ log' = log /\ mem' = [mem EXCEPT ![e] = g] /\ commits' = commits
        /\ stage' = [stage EXCEPT ![e] = "load"] /\ stale' \subseteq Envs
    BY <1>2 DEF LoadHeader, Reach, files
  <2> HIDE DEF g
  <2> QED BY <1>0, <2>2, <2>4, TypesStep
<1>3. CASE RefuseKey(e) \/ RefuseCatalog(e) \/ CloseHandle(e) \/ Killed(e)
  <2>1. main' = main /\ log' = log /\ mem' = [mem EXCEPT ![e] = NoPager] /\ commits' = commits
        /\ stage' = [stage EXCEPT ![e] = "closed"] /\ stale' \subseteq Envs
    BY <1>3 DEF RefuseKey, RefuseCatalog, CloseHandle, Killed, Reach, files, counts, past
  <2> QED BY <1>0, <2>1, FreshTypes, TypesStep
<1>4. CASE Recover(e)
  <2> DEFINE g == mem[e]
             view == RecoveredView(Known(e), log, g.key)
             h == RecoveredHdr(Known(e), log, g.key)
             n == LastCommit(Known(e), log, g.key)
             hdr == IF h = Nothing THEN g.hdr ELSE h
             g1 == [g EXCEPT !.view = view, !.viewHdr = h, !.hdr = hdr, !.end = n, !.hw = main.len]
  <2>1. mem' = [mem EXCEPT ![e] = g1] /\ main' = main /\ log' = log /\ commits' = commits
        /\ stage' = [stage EXCEPT ![e] = "catalog"] /\ stale' \subseteq Envs
    BY <1>4, Zenon DEF Recover, Reach, files, counts, past
  <2>2. view \in Overlay /\ h \in Header \cup {Nothing} /\ n \in Nat /\ PagesBy(view, commits)
    BY RecoveredTypes DEF FilesType
  <2>3. g \in Pagers /\ hdr \in Header /\ main.len \in 0 .. MaxPages
    BY <2>2, PagersType, MainFilesType
  <2> HIDE DEF g, view, h, n, hdr
  <2>4. g1 = [key |-> g.key, hdr |-> hdr, salt |-> g.salt, view |-> view, viewHdr |-> h,
              end |-> n, hw |-> main.len]
    <3>1. g = [key |-> g.key, hdr |-> g.hdr, salt |-> g.salt, view |-> g.view,
               viewHdr |-> g.viewHdr, end |-> g.end, hw |-> g.hw]
      BY <2>3 DEF Pagers
    <3>2. g1 = [g EXCEPT !.view = view, !.viewHdr = h, !.hdr = hdr, !.end = n, !.hw = main.len]
      OBVIOUS
    <3> HIDE DEF g1
    <3> QED BY <3>1, <3>2
  <2> HIDE DEF g1
  <2>5. HandleType(g1, commits)
    BY <2>2, <2>3, <2>4, PagersType DEF HandleType, Pagers
  <2> QED BY <1>0, <2>1, <2>5, TypesStep
<1>5. CASE CreateFresh(e)
  <2>1. PICK s \in Salts : mem' = [mem EXCEPT ![e].salt = s] /\ WriteFiles(e, main, EmptiedLog(s))
    BY <1>5 DEF CreateFresh
  <2> DEFINE g == [mem[e] EXCEPT !.salt = s]
  <2>2. HandleType(g, commits)
    BY PagersType DEF HandleType, Pagers
  <2>3. mem' = [mem EXCEPT ![e] = g]
    BY <2>1
  <2>4. commits' = commits /\ stage' = [stage EXCEPT ![e] = "stamp"]
    BY <1>5 DEF CreateFresh, Reach, counts
  <2>5. main' = main /\ log' = EmptiedLog(s) /\ stale' \subseteq Envs
    BY <2>1, WriteFilesType
  <2>6. FilesType(main', log', commits')
    BY <2>4, <2>5, EmptiedLogType DEF FilesType
  <2> HIDE DEF g
  <2> QED BY <1>0, <2>2, <2>3, <2>4, <2>5, <2>6, TypesStep
<1>6. CASE Stamp(e)
  <2> DEFINE g == [mem[e] EXCEPT !.hw = main.len]
  <2>1. HandleType(g, commits)
    BY PagersType, MainFilesType DEF HandleType, Pagers
  <2>2. mem' = [mem EXCEPT ![e] = g] /\ commits' = commits
        /\ stage' = [stage EXCEPT ![e] = "catalog"] /\ WriteFiles(e, WithHeader(main, mem[e]), log)
    BY <1>6 DEF Stamp, Reach, counts
  <2>3. main' = WithHeader(main, mem[e]) /\ log' = log /\ stale' \subseteq Envs
    BY <2>2, WriteFilesType
  <2>4. FilesType(main', log', commits')
    BY <2>2, <2>3, WithHeaderFields DEF FilesType
  <2> HIDE DEF g
  <2> QED BY <1>0, <2>1, <2>2, <2>3, <2>4, TypesStep
<1>7. CASE InitCatalog(e)
  <2> DEFINE g == [mem[e] EXCEPT !.hdr = [root |-> 1, count |-> 1]]
             n == commits + 1
             new == FramesOf(g, {1}, TRUE, n)
             after == Published(g, {1}, TRUE, new, n)
             w == Appended(log, g, new)
  <2>0. commits < MaxCommits /\ MayCheckpoint(e, after, main, w) /\ commits' = n
        /\ stage' = [stage EXCEPT ![e] = "open"]
    BY <1>7, Zenon DEF InitCatalog, Reach
  <2>1. n \in 1 .. MaxCommits /\ MayCheckpoint(e, after, main, w) /\ commits' = n
        /\ stage' = [stage EXCEPT ![e] = "open"]
    <3>1. n \in 1 .. MaxCommits
      BY <2>0
    <3> QED BY <2>0, <3>1
  <2>2. {1} \in SUBSET Pages /\ {1} # {} /\ TRUE \in BOOLEAN
    BY PagesFacts DEF Pages
  <2>3. g \in Pagers /\ PagesBy(g.view, n - 1) /\ n - 1 = commits
    BY PagesFacts DEF HandleType, Pagers, Header
  <2> HIDE DEF g
  <2>4. w \in Logs /\ FramesBy(w, n)
    <3>1. FramesBy(log, n - 1)
      BY <2>3 DEF FilesType
    <3> HIDE DEF n
    <3> QED BY <2>1, <2>2, <2>3, <3>1, AppendedType
  <2>5. HandleType(after, n)
    <3>1. Len(new) \in Nat
      BY <2>1, <2>2, <2>3, FramesOfShape DEF AreFrames
    <3>2. IsPublished(after, g, {1}, TRUE, new, n)
      BY <2>1, <2>2, <2>3, <3>1, PublishedFields
    <3> HIDE DEF after, new, n
    <3> QED BY <2>3, <3>2 DEF IsPublished, HandleType
  <2>6. FilesType(main, w, n)
    <3>1. FilesType(main, log, n)
      BY <2>1, ByMonotone
    <3> QED BY <2>4, <3>1 DEF FilesType
  <2> HIDE DEF after, w, n
  <2>7. FilesType(main', log', n) /\ stale' \subseteq Envs
    BY <2>1, <2>5, <2>6, MayCheckpointType
  <2>8. PICK h : HandleType(h, n) /\ mem' = [mem EXCEPT ![e] = h]
    BY <2>1, <2>5, <2>6, MayCheckpointType
  <2>9. commits' \in {commits, commits + 1} /\ commits' <= MaxCommits
    BY <2>1 DEF n
  <2> QED BY <1>0, <2>1, <2>7, <2>8, <2>9, TypesStep
<1>8. CASE OpenCatalog(e)
  <2>1. MayCheckpoint(e, mem[e], main, log) /\ commits' = commits
        /\ stage' = [stage EXCEPT ![e] = "open"]
    BY <1>8 DEF OpenCatalog, Reach, counts
  <2>2. FilesType(main', log', commits) /\ stale' \subseteq Envs
    BY <2>1, MayCheckpointType
  <2>3. PICK h : HandleType(h, commits) /\ mem' = [mem EXCEPT ![e] = h]
    BY <2>1, MayCheckpointType
  <2> QED BY <1>0, <2>1, <2>2, <2>3, TypesStep
<1> QED BY <1>1, <1>2, <1>3, <1>4, <1>5, <1>6, <1>7, <1>8 DEF Open
\* A transaction that allocates at most one page, and moves the root or not.
LEMMA CommitHeader ==
    ASSUME NEW h \in Header, NEW grown \in {0, 1}, NEW r \in 0 .. MaxPages,
           h.count + grown <= MaxPages
    PROVE  [root |-> r, count |-> h.count + grown] \in Header
<1>1. h.count \in 0 .. MaxPages /\ MaxPages \in Nat
  BY HeaderFacts, PagesFacts
<1>2. h.count + grown \in 0 .. MaxPages
  BY <1>1
<1> QED BY <1>2 DEF Header

\* The pages of ids are in the view of the handle, with the body of commit n.
Wrote(after, g, hdr, ids, n) ==
    /\ ids \subseteq Entries(after.view) /\ Entries(after.view) # {}
    /\ \A p \in ids : after.view[p] = [by |-> n, key |-> g.key]
    /\ after.hw = g.hw /\ after.salt = g.salt /\ after.hdr = hdr /\ after.key = g.key

\* What a commit has before it may checkpoint.
LEMMA CommitTypes ==
    ASSUME SessTypeInv, NEW g \in Pagers, PagesBy(g.view, commits), commits < MaxCommits,
           NEW hdr \in Header, NEW ids \in SUBSET Pages, ids # {}, NEW staged \in BOOLEAN,
           NEW n, n = commits + 1, NEW after, NEW w,
           IsCommit(after, w, g, log, hdr, ids, staged, n)
    PROVE  /\ n \in 1 .. MaxCommits /\ HandleType(after, n) /\ FilesType(main, w, n)
           /\ w # log /\ Wrote(after, g, hdr, ids, n)
<1> PICK h \in Pagers :
       /\ h = [g EXCEPT !.hdr = hdr]
       /\ after = Published(h, ids, staged, FramesOf(h, ids, staged, n), n)
       /\ w = Appended(log, h, FramesOf(h, ids, staged, n))
  BY DEF IsCommit
<1> DEFINE new == FramesOf(h, ids, staged, n)
<1>1. n \in 1 .. MaxCommits /\ n - 1 = commits /\ commits \in Nat /\ commits <= n /\ n \in Nat
  BY TypeFacts
<1>2. /\ h \in Pagers /\ h.hdr = hdr /\ h.key = g.key /\ h.salt = g.salt
      /\ h.view = g.view /\ h.hw = g.hw
  BY DEF Pagers
<1>3. log \in Logs /\ FramesBy(log, n - 1) /\ main \in MainFiles
  BY <1>1, TypeFacts DEF FilesType
<1>4. w \in Logs /\ FramesBy(w, n) /\ w # log
  BY <1>1, <1>2, <1>3, AppendedType
<1>5. Len(new) \in Nat
  BY <1>1, <1>2, FramesOfShape DEF AreFrames
<1>6. IsPublished(after, h, ids, staged, new, n)
  BY <1>1, <1>2, <1>5, PublishedFields
<1> HIDE DEF new
<1>7. HandleType(after, n)
  BY <1>1, <1>2, <1>6 DEF IsPublished, HandleType
<1>8. FilesType(main, w, n)
  <2>1. FilesType(main, log, n)
    BY <1>1, TypeFacts, ByMonotone
  <2> QED BY <2>1, <1>4 DEF FilesType
<1>9. Wrote(after, g, hdr, ids, n)
  BY <1>2, <1>6 DEF IsPublished, Wrote
<1> QED BY <1>1, <1>4, <1>7, <1>8, <1>9

\* The ends of a transaction.
LEMMA FinishTypes ==
    ASSUME SessTypeInv, TypeOK', NEW t \in Threads, Finish(t)
    PROVE  SessTypeInv'
<1> DEFINE e == EnvOf[t]
<1> USE TypeFacts
<1>0. e \in Envs
  BY EnvOfAssumption
<1> HIDE DEF e
<1>1. CASE RollBack(t) \/ BackUp(t)
  <2>1. WriteFiles(e, WithHeader(main, mem[e]), log) /\ UNCHANGED <<stage, mem, commits>>
    BY <1>1 DEF RollBack, BackUp, handles, counts, e
  <2>2. main' = WithHeader(main, mem[e]) /\ log' = log /\ stale' \subseteq Envs
    BY <2>1, WriteFilesType
  <2>3. FilesType(main', log', commits')
    BY <1>0, <2>1, <2>2, WithHeaderFields DEF FilesType
  <2>4. mem' = [mem EXCEPT ![e] = mem[e]] /\ stage' = [stage EXCEPT ![e] = stage[e]]
        /\ stage[e] \in Stages
    BY <1>0, <2>1, SameHandle
  <2> QED BY <1>0, <2>1, <2>2, <2>3, <2>4, TypesStep
<1>2. CASE CheckpointHandle(t)
  <2>1. PICK s \in Salts :
          /\ WriteFiles(e, Folded(main, mem[e], s), EmptiedLog(s))
          /\ mem' = [mem EXCEPT ![e] = [Reset(mem[e], s, main) EXCEPT !.view = mem[e].view]]
    BY <1>2 DEF CheckpointHandle, e
  <2> DEFINE g == mem[e]
             r == [Reset(g, s, main) EXCEPT !.view = g.view]
  <2>2. commits' = commits /\ stage' = stage
    BY <1>2 DEF CheckpointHandle, counts
  <2>3. main' = Folded(main, g, s) /\ log' = EmptiedLog(s) /\ stale' \subseteq Envs
    BY <2>1, WriteFilesType
  <2>4. /\ g \in Pagers /\ PagesBy(g.view, commits) /\ PagesBy(main.page, commits)
        /\ g.view \in Overlay
    BY <1>0, PagersType DEF FilesType, HandleType
  <2> HIDE DEF g
  <2>5. FilesType(main', log', commits')
    BY <2>2, <2>3, <2>4, FoldedFields, EmptiedLogType DEF FilesType
  <2>6. HandleType(r, commits')
    <3>1. IsReset(r, g, s, main, g.view)
      BY <2>4, ResetFields
    <3> QED BY <2>2, <2>4, <3>1 DEF IsReset, HandleType
  <2>7. mem' = [mem EXCEPT ![e] = r]
    BY <2>1 DEF g
  <2> HIDE DEF r
  <2>8. stage' = [stage EXCEPT ![e] = stage[e]] /\ stage[e] \in Stages
    BY <1>0, <2>2, SameHandle
  <2> QED BY <1>0, <2>2, <2>3, <2>5, <2>6, <2>7, <2>8, TypesStep
<1>3. ASSUME NEW ids \in SUBSET Pages, NEW grown \in {0, 1}, NEW r \in 0 .. MaxPages,
             CommitWrites(t, ids, grown, r)
      PROVE  SessTypeInv'
  <2> DEFINE g == mem[e]
             hdr == [root |-> r, count |-> g.hdr.count + grown]
             staged == hdr # g.hdr
             n == commits + 1
             h == [g EXCEPT !.hdr = hdr]
             new == FramesOf(h, ids, staged, n)
             after == Published(h, ids, staged, new, n)
             w == Appended(log, h, new)
  <2>1. /\ n <= MaxCommits /\ hdr.count <= MaxPages /\ ids # {}
        /\ MayCheckpoint(e, after, main, w) /\ commits' = n /\ stage' = stage
    BY <1>3, Zenon DEF CommitWrites, e
  <2>2. g \in Pagers /\ PagesBy(g.view, commits) /\ commits < MaxCommits /\ staged \in BOOLEAN
    BY <1>0, <2>1 DEF HandleType
  <2>3. hdr \in Header
    <3>1. g.hdr \in Header /\ g.hdr.count + grown <= MaxPages
      BY <2>1, <2>2, PagersType
    <3> HIDE DEF g
    <3> QED BY <3>1, CommitHeader
  <2> HIDE DEF g, hdr, staged
  <2>5. commits' \in {commits, commits + 1} /\ commits' <= MaxCommits
    BY <2>1
  <2>6. h = [g EXCEPT !.hdr = hdr] /\ h \in Pagers
    BY <2>2, <2>3 DEF Pagers
  <2> HIDE DEF h
  <2>4. IsCommit(after, w, g, log, hdr, ids, staged, n)
    BY <2>6, Zenon DEF IsCommit
  <2>10. n = commits + 1
    OBVIOUS
  <2> HIDE DEF after, w, new, n
  <2>11. n \in 1 .. MaxCommits /\ HandleType(after, n) /\ FilesType(main, w, n)
    BY <2>1, <2>2, <2>3, <2>4, <2>10, CommitTypes
  <2>7. FilesType(main', log', n) /\ stale' \subseteq Envs
    BY <1>0, <2>1, <2>11, MayCheckpointType
  <2>8. PICK k : HandleType(k, n) /\ mem' = [mem EXCEPT ![e] = k]
    BY <1>0, <2>1, <2>11, MayCheckpointType
  <2>9. stage' = [stage EXCEPT ![e] = stage[e]] /\ stage[e] \in Stages
    BY <1>0, <2>1, SameHandle
  <2> QED BY <1>0, <2>1, <2>5, <2>7, <2>8, <2>9, TypesStep
<1> QED BY <1>1, <1>2, <1>3 DEF Finish

\* Steps that leave handles and files alone.
LEMMA IdleTypes ==
    ASSUME SessTypeInv, TypeOK', UNCHANGED <<handles, files, counts, past>>
    PROVE  SessTypeInv'
  BY DEF SessTypeInv, HandlesTypeOK, handles, files, counts, past

\* Every step keeps the types.
LEMMA SessTypeStep == SessTypeInv /\ [SessNext]_sessVars => SessTypeInv'
<1> SUFFICES ASSUME SessTypeInv, [SessNext]_sessVars PROVE SessTypeInv'
  OBVIOUS
<1>1. TypeOK'
  BY StepsTheLocks, TypeFacts, TypeInductive
<1>2. ASSUME NEW e \in Envs, Open(e) \/ CloseHandle(e) \/ Killed(e) PROVE SessTypeInv'
  BY <1>1, <1>2, OpenTypes
<1>3. ASSUME NEW t \in Threads, Finish(t) PROVE SessTypeInv'
  BY <1>1, <1>3, FinishTypes
<1>4. ASSUME NEW t \in Threads, Ask(t) \/ Obtain(t) \/ Lock(t) \/ Unlock(t) PROVE SessTypeInv'
  BY <1>1, <1>4, IdleTypes DEF Ask, Obtain, Lock, Unlock, Idle
<1>5. CASE UNCHANGED sessVars
  BY <1>1, <1>5, IdleTypes DEF sessVars
<1> QED BY <1>2, <1>3, <1>4, <1>5 DEF SessNext

\* And they hold initially.
LEMMA SessTypeInit == SessInit => SessTypeInv
<1> SUFFICES ASSUME SessInit PROVE SessTypeInv
  OBVIOUS
<1>1. TypeOK
  BY DEF SessInit, Init, TypeOK, PCs
<1>2. main = EmptyFile /\ log = EmptyLog /\ mem = [e \in Envs |-> NoPager] /\ commits = 0
      /\ stage = [e \in Envs |-> "closed"] /\ stale = {}
  BY DEF SessInit
<1>3. \A e \in Envs : HandleType(mem[e], commits)
  BY <1>2, FreshTypes
<1>4. FilesType(main, log, commits)
  BY <1>2, FreshTypes
<1>5. \A i \in DOMAIN log.frames : log.frames[i].salt \in Salts \cup {0}
  BY <1>4, LogsType, FramesType DEF FilesType
<1>6. HandlesTypeOK
  BY <1>1, <1>2, <1>3, <1>4, <1>5, MainFilesType, FreshTypes
     DEF HandlesTypeOK, FilesType, HandleType, Stages
<1>7. commits \in 0 .. MaxCommits
  BY <1>2, BoundsAssumption
<1> QED BY <1>3, <1>4, <1>6, <1>7 DEF SessTypeInv, FilesType, HandleType

\* Types: every header, page and salt that a pager, the main file, the WAL and
\* the views of handles hold is one that the code writes, whatever opens,
\* commits, checkpoints and kills.
THEOREM SessionsTypeCorrect == SessSpec => []HandlesTypeOK
<1>1. SessTypeInv => HandlesTypeOK
  BY DEF SessTypeInv
<1> QED BY <1>1, SessTypeInit, SessTypeStep, PTL DEF SessSpec
-----------------------------------------------------------------------------
(* Every step keeps what the files hold and what the handles know.         *)

\* A handle writes to the files, or leaves them as they are.  Whoever else has
\* them open is stale if they changed, so only the writer has to know them.
LEMMA SyncWrites ==
    ASSUME SessTypeInv, SyncInv, NEW e \in Envs, NEW g, NEW s,
           WriteFiles(e, main', log'),
           mem' = [mem EXCEPT ![e] = g], stage' = [stage EXCEPT ![e] = s],
           ~ spoiled /\ <<main', log'>> = files => acked' = acked /\ g.hw <= main'.len,
           ~ spoiled /\ e \notin stale =>
               /\ FilesHold(main', log', acked')
               /\ main.len <= main'.len /\ main'.len \in Nat /\ g.hw <= main'.len
               /\ s # "closed" => Knows(s, g, main', log', acked')
    PROVE  SyncInv'
<1> SUFFICES ASSUME ~ spoiled'
             PROVE  /\ FilesHold(main', log', acked')
                    /\ \A f \in Envs : mem'[f].hw <= main'.len
                    /\ \A f \in Envs \ stale' :
                          stage'[f] # "closed" => Knows(stage'[f], mem'[f], main', log', acked')
  BY DEF SyncInv
<1>0. /\ ~ spoiled
      /\ <<main', log'>> = files => stale' = stale
      /\ <<main', log'>> # files =>
            e \notin stale /\ stale' = stale \cup {f \in Envs \ {e} : stage[f] # "closed"}
  BY DEF WriteFiles
<1>1. /\ FilesHold(main, log, acked)
      /\ \A f \in Envs : mem[f].hw <= main.len
      /\ \A f \in Envs \ stale : stage[f] # "closed" => Knows(stage[f], mem[f], main, log, acked)
  BY <1>0 DEF SyncInv
<1>2. /\ mem'[e] = g /\ stage'[e] = s
      /\ \A f \in Envs \ {e} : mem'[f] = mem[f] /\ stage'[f] = stage[f]
  BY TypeFacts
<1>3. CASE <<main', log'>> = files
  <2>1. main' = main /\ log' = log /\ acked' = acked /\ g.hw <= main'.len /\ stale' = stale
    BY <1>0, <1>3 DEF files
  <2>2. ASSUME NEW f \in Envs PROVE mem'[f].hw <= main'.len
    BY <1>1, <1>2, <2>1
  <2>3. ASSUME NEW f \in Envs \ stale', stage'[f] # "closed"
        PROVE  Knows(stage'[f], mem'[f], main', log', acked')
    <3>1. CASE f = e
      BY <3>1, <2>1, <2>3, <1>0, <1>2
    <3>2. CASE f # e
      BY <3>2, <2>1, <2>3, <1>1, <1>2
    <3> QED BY <3>1, <3>2
  <2> QED BY <1>1, <2>1, <2>2, <2>3
<1>4. CASE <<main', log'>> # files
  <2>1. /\ FilesHold(main', log', acked') /\ main.len <= main'.len /\ main'.len \in Nat
        /\ g.hw <= main'.len /\ (s # "closed" => Knows(s, g, main', log', acked'))
        /\ stale' = stale \cup {f \in Envs \ {e} : stage[f] # "closed"}
    BY <1>0, <1>4
  <2>2. ASSUME NEW f \in Envs PROVE mem'[f].hw <= main'.len
    <3>1. CASE f = e
      BY <3>1, <2>1, <1>2
    <3>2. CASE f # e
      <4>1. mem[f].hw \in 0 .. MaxPages /\ main.len \in Nat /\ MaxPages \in Nat
        BY TypeFacts, PagersType, MainFilesType, PagesFacts
      <4>2. mem[f].hw <= main.len /\ mem[f].hw \in Nat
        BY <1>1, <4>1
      <4>3. mem[f].hw <= main'.len
        BY <2>1, <4>1, <4>2
      <4> QED BY <3>2, <4>3, <1>2
    <3> QED BY <3>1, <3>2
  <2>3. ASSUME NEW f \in Envs \ stale', stage'[f] # "closed"
        PROVE  Knows(stage'[f], mem'[f], main', log', acked')
    <3>1. f = e
      BY <2>1, <2>3, <1>2
    <3> QED BY <3>1, <2>1, <2>3, <1>2
  <2> QED BY <2>1, <2>2, <2>3
<1> QED BY <1>3, <1>4

\* A handle that read the files, or let go of them.
LEMMA SyncReads ==
    ASSUME SessTypeInv, SyncInv, NEW e \in Envs, NEW g, NEW s,
           UNCHANGED files, UNCHANGED past,
           mem' = [mem EXCEPT ![e] = g], stage' = [stage EXCEPT ![e] = s],
           ~ spoiled => g.hw <= main.len,
           ~ spoiled /\ e \notin stale /\ s # "closed" => Knows(s, g, main, log, acked)
    PROVE  SyncInv'
<1>1. WriteFiles(e, main', log') /\ main' = main /\ log' = log /\ acked' = acked
  BY DEF WriteFiles, files, past
<1>2. main.len \in Nat
  BY TypeFacts, MainFilesType
<1>3. ~ spoiled => FilesHold(main', log', acked') /\ main.len <= main'.len /\ main'.len \in Nat
  BY <1>1, <1>2 DEF SyncInv
<1> QED BY <1>1, <1>3, SyncWrites

\* What a handle knows when it is not stale, and how long it takes the file to be.
LEMMA SyncFacts ==
    ASSUME SessTypeInv, SyncInv, ~ spoiled
    PROVE  /\ FilesHold(main, log, acked)
           /\ \A e \in Envs : mem[e].hw <= main.len
           /\ \A e \in Envs : e \notin stale /\ stage[e] # "closed"
                                 => Knows(stage[e], mem[e], main, log, acked)
  BY DEF SyncInv

\* The fields of a handle that is not open.
LEMMA NewPager ==
    NoPager.hw = 0 /\ NoPager.view = Blank /\ NoPager.viewHdr = Nothing /\ NoPager.end = 0
    /\ NoPager.hdr = [root |-> 0, count |-> 0] /\ NoPager.salt = 0
  BY DEF NoPager

\* Opens that are refused, handles that are closed or killed.
LEMMA SyncLeaves ==
    ASSUME SessTypeInv, SyncInv, NEW e \in Envs,
           RefuseKey(e) \/ RefuseCatalog(e) \/ CloseHandle(e) \/ Killed(e)
    PROVE  SyncInv'
<1>1. /\ UNCHANGED files /\ UNCHANGED past
      /\ mem' = [mem EXCEPT ![e] = NoPager] /\ stage' = [stage EXCEPT ![e] = "closed"]
  BY DEF RefuseKey, RefuseCatalog, CloseHandle, Killed, Reach
<1>2. NoPager.hw <= main.len
  BY NewPager, TypeFacts, MainFilesType
<1> QED BY <1>1, <1>2, SyncReads

\* initialise_file: there was nothing to lose.
LEMMA SyncInitialise ==
    ASSUME SessTypeInv, SyncInv, NEW e \in Envs, NEW k \in KeysOf[e], Initialise(e, k)
    PROVE  SyncInv'
<1> DEFINE b == k # NoKey
           m == [EmptyFile EXCEPT !.made = TRUE, !.locked = b]
           g == [NoPager EXCEPT !.key = k]
<1>1. /\ ~ main.made /\ main' = m /\ log' = log /\ acked' = acked /\ spoiled' = spoiled
      /\ mem' = [mem EXCEPT ![e] = g] /\ stage' = [stage EXCEPT ![e] = "load"]
      /\ stale' = (stale \cup {f \in Envs : stage[f] # "closed"}) \ {e}
  BY DEF Initialise, Reach
<1>2. /\ m.made /\ (m.locked <=> b) /\ m.hdr = EmptyFile.hdr /\ m.salt = EmptyFile.salt
      /\ m.page = EmptyFile.page /\ m.len = EmptyFile.len
  BY DEF EmptyFile
<1>3. g.key = k /\ g.hdr = NoPager.hdr /\ g.view = Blank /\ g.viewHdr = Nothing /\ g.end = 0
      /\ g.hw = 0 /\ g.salt = 0
  BY DEF NoPager
<1>4. EmptyFile.hdr = NoPager.hdr /\ EmptyFile.salt = 0 /\ EmptyFile.len = 0
  BY DEF EmptyFile, NoPager
<1> HIDE DEF m, g
<1> SUFFICES ASSUME ~ spoiled'
             PROVE  /\ FilesHold(m, log, acked)
                    /\ \A f \in Envs : mem'[f].hw <= m.len
                    /\ \A f \in Envs \ stale' :
                          stage'[f] # "closed" => Knows(stage'[f], mem'[f], m, log, acked)
  BY <1>1 DEF SyncInv
<1>5. main = EmptyFile /\ acked.root = 0 /\ log.frames = <<>> /\ \A f \in Envs : mem[f].hw <= 0
  <2>1. FilesHold(main, log, acked) /\ \A f \in Envs : mem[f].hw <= main.len
    BY <1>1, SyncFacts
  <2>2. main = EmptyFile /\ acked.root = 0 /\ log.frames = <<>>
    BY <2>1, <1>1 DEF FilesHold
  <2> QED BY <2>1, <2>2, <1>4
<1>6. FilesHold(m, log, acked)
  <2>1. FilesHold(main, log, acked)
    BY <1>1, SyncFacts
  <2>2. CurHdr(m, log) = CurHdr(main, log)
    BY <1>2, <1>5 DEF CurHdr
  <2> QED BY <2>1, <2>2, <1>2, <1>5 DEF FilesHold
<1>7. Knows("load", g, m, log, acked)
  BY <1>2, <1>3, <1>4 DEF Knows
<1>8. ASSUME NEW f \in Envs PROVE mem'[f].hw <= m.len
  BY <1>1, <1>2, <1>3, <1>4, <1>5, TypeFacts
<1>9. ASSUME NEW f \in Envs \ stale', stage'[f] # "closed"
      PROVE  Knows(stage'[f], mem'[f], m, log, acked)
  <2>1. f = e
    BY <1>1, <1>9, TypeFacts
  <2> QED BY <2>1, <1>1, <1>7, TypeFacts
<1> QED BY <1>6, <1>8, <1>9

\* load_header: whatever the handle knew before, it knows the file now.
LEMMA SyncLoad ==
    ASSUME SessTypeInv, SyncInv, NEW e \in Envs, NEW k \in KeysOf[e], LoadHeader(e, k)
    PROVE  SyncInv'
<1> DEFINE g == [NoPager EXCEPT !.key = k, !.hdr = main.hdr, !.salt = main.salt]
<1>1. /\ main.made /\ (main.locked <=> k # NoKey)
      /\ main' = main /\ log' = log /\ acked' = acked /\ spoiled' = spoiled
      /\ mem' = [mem EXCEPT ![e] = g] /\ stage' = [stage EXCEPT ![e] = "load"]
      /\ stale' = stale \ {e}
  BY DEF LoadHeader, Reach, files
<1>2. g.key = k /\ g.hdr = main.hdr /\ g.view = Blank /\ g.viewHdr = Nothing /\ g.end = 0
      /\ g.hw = 0 /\ g.salt = main.salt
  BY DEF NoPager
<1> HIDE DEF g
<1> SUFFICES ASSUME ~ spoiled
             PROVE  /\ FilesHold(main, log, acked)
                    /\ \A f \in Envs : mem'[f].hw <= main.len
                    /\ \A f \in Envs \ stale' :
                          stage'[f] # "closed" => Knows(stage'[f], mem'[f], main, log, acked)
  BY <1>1 DEF SyncInv
<1>3. Knows("load", g, main, log, acked)
  BY <1>1, <1>2 DEF Knows
<1>4. ASSUME NEW f \in Envs PROVE mem'[f].hw <= main.len
  <2>1. CASE f = e
    BY <2>1, <1>1, <1>2, TypeFacts, MainFilesType
  <2>2. CASE f # e
    BY <2>2, <1>1, SyncFacts, TypeFacts
  <2> QED BY <2>1, <2>2
<1>5. ASSUME NEW f \in Envs \ stale', stage'[f] # "closed"
      PROVE  Knows(stage'[f], mem'[f], main, log, acked)
  <2>1. CASE f = e
    BY <2>1, <1>1, <1>3, TypeFacts
  <2>2. CASE f # e
    <3>1. stage'[f] = stage[f] /\ mem'[f] = mem[f] /\ f \notin stale
      BY <2>2, <1>1, TypeFacts
    <3> QED BY <3>1, <1>5, SyncFacts
  <2> QED BY <2>1, <2>2
<1> QED BY <1>4, <1>5, SyncFacts
\* The file as a handle remembers it that has just loaded the header.
LEMMA KnownFile ==
    ASSUME SessTypeInv, NEW e \in Envs, Knows("load", mem[e], main, log, acked)
    PROVE  Known(e) = main
<1>1. mem[e].hdr = main.hdr /\ mem[e].salt = main.salt
  BY DEF Knows
<1>2. [main EXCEPT !.hdr = main.hdr, !.salt = main.salt] = main
  BY TypeFacts DEF MainFiles
<1> QED BY <1>1, <1>2 DEF Known

\* A key that opens a frame is the key of the database.
LEMMA DecipheredKey ==
    ASSUME NEW m, NEW w \in Logs, NEW a, FilesHold(m, w, a), NEW k, LastCommit(m, w, k) > 0
    PROVE  a.root # 0 /\ k = DbKey(a) /\ w.frames # <<>>
<1> DEFINE S == {i \in Deciphered(m, w, k) : w.frames[i].commit}
<1>1. S \in SUBSET DOMAIN w.frames
  BY DEF Deciphered, OfGeneration
<1>2. LastCommit(m, w, k) = Max({0} \cup S)
  BY Zenon DEF LastCommit
<1>3. \A i \in S : i \in DOMAIN w.frames /\ w.frames[i].key = k
  BY DEF Deciphered, OfGeneration
<1> HIDE DEF S
<1>4. LastCommit(m, w, k) \in {0} \cup S /\ LastCommit(m, w, k) # 0
  <2>1. Max({0} \cup S) \in {0} \cup S /\ Max({0} \cup S) \in Nat
    BY <1>1, NewestIn
  <2> QED BY <2>1, <1>2
<1>5. PICK i \in DOMAIN w.frames : w.frames[i].key = k
  BY <1>3, <1>4
<1>6. w.frames # <<>>
  BY <1>5
<1>7. a.root # 0 /\ WholeLog(m, w, DbKey(a))
  BY <1>6 DEF FilesHold
<1> QED BY <1>5, <1>6, <1>7 DEF WholeLog

\* A key that opens nothing, and is not refused, found an empty WAL.
LEMMA NothingDeciphered ==
    ASSUME NEW m, NEW w \in Logs, NEW a, FilesHold(m, w, a), NEW k, m.locked <=> k # NoKey,
           ~ RefusesKey(m, w, k), LastCommit(m, w, k) = 0
    PROVE  w.frames = <<>>
<1> SUFFICES ASSUME w.frames # <<>> PROVE FALSE
  OBVIOUS
<1>0. Len(w.frames) \in Nat /\ Len(w.frames) # 0 /\ DOMAIN w.frames = 1 .. Len(w.frames)
  BY LogsType
<1>1. a.root # 0 /\ (m.locked <=> DbKey(a) # NoKey) /\ WholeLog(m, w, DbKey(a))
  BY DEF FilesHold
<1>2. CASE k = DbKey(a)
  BY <1>0, <1>1, <1>2, RecoversWhole
<1>3. CASE k # DbKey(a)
  <2>1. k # NoKey
    BY <1>1, <1>3
  <2>2. OfGeneration(m, w) = DOMAIN w.frames /\ Deciphered(m, w, k) = {}
    BY <1>0, <1>1, <1>3 DEF WholeLog, OfGeneration, Deciphered
  <2>3. DOMAIN w.frames # {}
    <3>1. 1 \in 1 .. Len(w.frames)
      BY <1>0
    <3> QED BY <3>1, <1>0
  <2>4. ~ (LastCommit(m, w, k) > 0)
    OBVIOUS
  <2>5. RefusesKey(m, w, k)
    BY <2>1, <2>2, <2>3, <2>4 DEF RefusesKey
  <2> QED BY <2>5
<1> QED BY <1>2, <1>3

\* recover_or_create_wal, rolling forward: what is recovered is acknowledged.
LEMMA SyncRecover ==
    ASSUME SessTypeInv, SyncInv, NEW e \in Envs, Recover(e)
    PROVE  SyncInv'
<1> DEFINE g == mem[e]
           view == RecoveredView(Known(e), log, g.key)
           h == RecoveredHdr(Known(e), log, g.key)
           n == LastCommit(Known(e), log, g.key)
           hdr == IF h = Nothing THEN g.hdr ELSE h
           g1 == [g EXCEPT !.view = view, !.viewHdr = h, !.hdr = hdr, !.end = n, !.hw = main.len]
<1>1. /\ stage[e] = "load" /\ n > 0 /\ mem' = [mem EXCEPT ![e] = g1]
      /\ stage' = [stage EXCEPT ![e] = "catalog"] /\ UNCHANGED files /\ UNCHANGED past
  BY Zenon DEF Recover, Reach
<1>2. g = [key |-> g.key, hdr |-> g.hdr, salt |-> g.salt, view |-> g.view,
           viewHdr |-> g.viewHdr, end |-> g.end, hw |-> g.hw]
  BY TypeFacts DEF Pagers
<1>3. g1 = [g EXCEPT !.view = view, !.viewHdr = h, !.hdr = hdr, !.end = n, !.hw = main.len]
  OBVIOUS
<1> HIDE DEF g1
<1>4. ASSUME ~ spoiled, e \notin stale PROVE Knows("catalog", g1, main, log, acked)
  <2>0. stage[e] # "closed"
    BY <1>1
  <2>1. Knows("load", g, main, log, acked) /\ FilesHold(main, log, acked)
    BY <1>1, <1>4, <2>0, SyncFacts
  <2>2. Known(e) = main
    BY <2>1, KnownFile
  <2>3. g.key = DbKey(acked) /\ acked.root # 0 /\ log.frames # <<>>
    BY <1>1, <2>1, <2>2, TypeFacts, DecipheredKey
  <2>4. WholeLog(main, log, g.key) /\ log.salt = main.salt
    BY <2>1, <2>3 DEF FilesHold, WholeLog
  <2>5. view = LogView(log) /\ h = LogHdr(log) /\ n = Len(log.frames)
    BY <2>2, <2>4, TypeFacts, RecoversWhole
  <2>6. g.hdr = main.hdr /\ g.salt = main.salt /\ main.made /\ (main.locked <=> g.key # NoKey)
    BY <2>1 DEF Knows
  <2>7. hdr = CurHdr(main, log)
    BY <2>5, <2>6 DEF CurHdr
  <2>8. Covers(view, main, log)
    BY <2>5 DEF Covers, Over
  <2> HIDE DEF g, view, h, n, hdr
  <2>9. /\ g1.key = g.key /\ g1.hdr = hdr /\ g1.salt = g.salt /\ g1.view = view
        /\ g1.viewHdr = h /\ g1.end = n /\ g1.hw = main.len
    BY <1>2, <1>3
  <2> QED BY <2>4, <2>5, <2>6, <2>7, <2>8, <2>9 DEF Knows
<1>5. g1.hw <= main.len
  <2>1. main.len \in Nat
    BY TypeFacts, MainFilesType
  <2> HIDE DEF g, view, h, n, hdr
  <2>2. g1.hw = main.len
    BY <1>2, <1>3
  <2> QED BY <2>1, <2>2
<1> QED BY <1>1, <1>4, <1>5, SyncReads

\* recover_or_create_wal, starting a new WAL: the old one held nothing.
LEMMA SyncCreateFresh ==
    ASSUME SessTypeInv, SyncInv, NEW e \in Envs, CreateFresh(e)
    PROVE  SyncInv'
<1>1. PICK s \in Salts : mem' = [mem EXCEPT ![e].salt = s] /\ WriteFiles(e, main, EmptiedLog(s))
  BY DEF CreateFresh
<1> DEFINE g == mem[e]
           g1 == [g EXCEPT !.salt = s]
           w == EmptiedLog(s)
<1>2. /\ stage[e] = "load" /\ ~ RefusesKey(Known(e), log, g.key)
      /\ LastCommit(Known(e), log, g.key) = 0
      /\ stage' = [stage EXCEPT ![e] = "stamp"] /\ acked' = acked
      /\ mem' = [mem EXCEPT ![e] = g1]
  BY <1>1 DEF CreateFresh, Reach
<1>3. main' = main /\ log' = w
  BY <1>1 DEF WriteFiles
<1>4. /\ g1.key = g.key /\ g1.hdr = g.hdr /\ g1.salt = s /\ g1.view = g.view
      /\ g1.viewHdr = g.viewHdr /\ g1.end = g.end /\ g1.hw = g.hw
  BY TypeFacts DEF Pagers
<1>5. w.frames = <<>> /\ w.salt = s
  BY EmptiedLogType
<1>6. main.len \in Nat
  BY TypeFacts, MainFilesType
<1>7. ~ spoiled => g.hw <= main.len
  BY SyncFacts
<1> HIDE DEF w, g1
<1>8. ASSUME ~ spoiled, e \notin stale
      PROVE  FilesHold(main, w, acked) /\ Knows("stamp", g1, main, w, acked)
  <2>0. stage[e] # "closed"
    BY <1>2
  <2>1. Knows("load", g, main, log, acked) /\ FilesHold(main, log, acked)
    BY <1>2, <1>8, <2>0, SyncFacts
  <2>2. Known(e) = main
    BY <2>1, KnownFile
  <2>3. g.hdr = main.hdr /\ main.made /\ (main.locked <=> g.key # NoKey)
        /\ g.view = Blank /\ g.viewHdr = Nothing /\ g.end = 0
    BY <2>1 DEF Knows
  <2>4. log.frames = <<>>
    BY <1>2, <2>1, <2>2, <2>3, TypeFacts, NothingDeciphered
  <2>5. /\ LogView(w) = LogView(log) /\ LogHdr(w) = LogHdr(log)
        /\ \A k : WholeLog(main, w, k)
    BY <1>5, <2>4, EmptyLogHolds
  <2>6. CurHdr(main, w) = CurHdr(main, log)
    BY <2>5 DEF CurHdr
  <2>7. FilesHold(main, w, acked)
    BY <1>5, <2>1, <2>5, <2>6 DEF FilesHold
  <2>8. Knows("stamp", g1, main, w, acked)
    BY <1>4, <1>5, <2>3 DEF Knows
  <2> QED BY <2>7, <2>8
<1>9. WriteFiles(e, main', log')
  BY <1>1, <1>3 DEF w
<1>10. ~ spoiled /\ <<main', log'>> = files => acked' = acked /\ g1.hw <= main'.len
  BY <1>2, <1>3, <1>4, <1>7
<1>11. ~ spoiled /\ e \notin stale =>
          /\ FilesHold(main', log', acked')
          /\ main.len <= main'.len /\ main'.len \in Nat /\ g1.hw <= main'.len
          /\ "stamp" # "closed" => Knows("stamp", g1, main', log', acked')
  BY <1>2, <1>3, <1>4, <1>6, <1>7, <1>8
<1> QED BY <1>2, <1>9, <1>10, <1>11, SyncWrites

\* ... and the header goes back with the new salt.
LEMMA SyncStamp ==
    ASSUME SessTypeInv, SyncInv, NEW e \in Envs, Stamp(e)
    PROVE  SyncInv'
<1> DEFINE g == mem[e]
           g1 == [g EXCEPT !.hw = main.len]
           m == WithHeader(main, g)
<1>1. /\ stage[e] = "stamp" /\ WriteFiles(e, m, log) /\ mem' = [mem EXCEPT ![e] = g1]
      /\ stage' = [stage EXCEPT ![e] = "catalog"] /\ acked' = acked
  BY DEF Stamp, Reach
<1>2. main' = m /\ log' = log
  BY <1>1 DEF WriteFiles
<1>3. /\ m.hdr = g.hdr /\ m.salt = g.salt /\ m.page = main.page /\ m.len = main.len
      /\ m.made = main.made /\ m.locked = main.locked
  BY TypeFacts, WithHeaderFields
<1>4. /\ g1.key = g.key /\ g1.hdr = g.hdr /\ g1.salt = g.salt /\ g1.view = g.view
      /\ g1.viewHdr = g.viewHdr /\ g1.end = g.end /\ g1.hw = main.len
  BY TypeFacts DEF Pagers
<1>5. main.len \in Nat
  BY TypeFacts, MainFilesType
<1> HIDE DEF m, g1
<1>6. ASSUME ~ spoiled, e \notin stale
      PROVE  FilesHold(m, log, acked) /\ Knows("catalog", g1, m, log, acked)
  <2>0. stage[e] # "closed"
    BY <1>1
  <2>1. Knows("stamp", g, main, log, acked) /\ FilesHold(main, log, acked)
    BY <1>1, <1>6, <2>0, SyncFacts
  <2>2. /\ g.hdr = main.hdr /\ main.made /\ (main.locked <=> g.key # NoKey)
        /\ g.view = Blank /\ g.viewHdr = Nothing /\ g.end = 0
        /\ log.frames = <<>> /\ log.salt = g.salt
    BY <2>1 DEF Knows
  <2>3. /\ LogView(log) = Blank /\ LogHdr(log) = Nothing
        /\ \A k : WholeLog(m, log, k)
    BY <2>2, EmptyLogHolds
  <2>4. CurHdr(m, log) = CurHdr(main, log) /\ CurHdr(m, log) = g.hdr
    BY <1>3, <2>2, <2>3 DEF CurHdr
  <2>5. FilesHold(m, log, acked)
    BY <1>3, <2>1, <2>2, <2>3, <2>4 DEF FilesHold
  <2>6. Covers(Blank, m, log)
    BY <2>3, BlankType DEF Covers
  <2>7. Len(log.frames) = 0
    BY <2>2
  <2>8. Knows("catalog", g1, m, log, acked)
    BY <1>3, <1>4, <2>2, <2>3, <2>4, <2>6, <2>7 DEF Knows
  <2> QED BY <2>5, <2>8
<1>9. WriteFiles(e, main', log')
  BY <1>1, <1>2
<1>10. ~ spoiled /\ <<main', log'>> = files => acked' = acked /\ g1.hw <= main'.len
  BY <1>1, <1>2, <1>3, <1>4, <1>5
<1>11. ~ spoiled /\ e \notin stale =>
          /\ FilesHold(main', log', acked')
          /\ main.len <= main'.len /\ main'.len \in Nat /\ g1.hw <= main'.len
          /\ "catalog" # "closed" => Knows("catalog", g1, main', log', acked')
  BY <1>1, <1>2, <1>3, <1>4, <1>5, <1>6
<1> QED BY <1>1, <1>9, <1>10, <1>11, SyncWrites
\* A checkpoint, of a handle that may just have committed.
LEMMA SyncFolds ==
    ASSUME SessTypeInv, SyncInv, NEW e \in Envs, NEW g, NEW w, NEW n, NEW s \in Salts,
           FilesType(main, w, n), HandleType(g, n), NEW view \in {Blank, g.view},
           WriteFiles(e, Folded(main, g, s), EmptiedLog(s)),
           mem' = [mem EXCEPT ![e] = [Reset(g, s, main) EXCEPT !.view = view]],
           stage' = [stage EXCEPT ![e] = "open"], g.hw = mem[e].hw,
           ~ spoiled /\ e \notin stale =>
               FilesHold(main, w, acked') /\ Knows("open", g, main, w, acked'),
           ~ spoiled /\ Folded(main, g, s) = main => acked' = acked
    PROVE  SyncInv'
<1> DEFINE m1 == Folded(main, g, s)
           w1 == EmptiedLog(s)
           r == [Reset(g, s, main) EXCEPT !.view = view]
           L == Length(main, g)
<1>1. main \in MainFiles /\ g \in Pagers /\ w \in Logs
  BY DEF FilesType, HandleType
<1>2. main' = m1 /\ log' = w1
  BY DEF WriteFiles
<1>3. m1.len = L
  BY <1>1, FoldedFields
<1>4. r.hw = (IF L = main.len THEN g.hw ELSE L)
  <2>1. view \in Overlay
    BY <1>1, BlankType, PagersType
  <2>2. IsReset(r, g, s, main, view)
    BY <1>1, <2>1, ResetFields
  <2> QED BY <2>2 DEF IsReset
<1>5. L \in Nat /\ main.len \in Nat
  BY <1>1, LengthCovers, MainFilesType
<1>6. ~ spoiled => r.hw <= m1.len
  <2>1. ~ spoiled => g.hw <= main.len
    BY SyncFacts
  <2> HIDE DEF m1, r, L
  <2> QED BY <2>1, <1>3, <1>4, <1>5
<1>7. ASSUME ~ spoiled, e \notin stale
      PROVE  FilesHold(m1, w1, acked') /\ Knows("open", r, m1, w1, acked') /\ main.len <= L
  <2>0. FilesHold(main, w, acked') /\ Knows("open", g, main, w, acked')
    BY <1>7
  <2>1. FilesHold(m1, w1, acked') /\ Knows("open", r, m1, w1, acked')
    BY <1>1, <2>0, FoldKeeps
  <2>2. g.hw = main.len
    BY <2>0 DEF Knows
  <2>3. L >= main.len
    BY <1>1, <2>2, LengthCovers
  <2> QED BY <2>1, <2>3, <1>5
<1> HIDE DEF m1, w1, r, L
<1>8. ~ spoiled /\ <<main', log'>> = files => acked' = acked /\ r.hw <= main'.len
  BY <1>2, <1>6 DEF files, m1
<1>9. ~ spoiled /\ e \notin stale =>
         /\ FilesHold(main', log', acked')
         /\ main.len <= main'.len /\ main'.len \in Nat /\ r.hw <= main'.len
         /\ "open" # "closed" => Knows("open", r, main', log', acked')
  BY <1>2, <1>3, <1>5, <1>6, <1>7
<1>10. WriteFiles(e, main', log') /\ mem' = [mem EXCEPT ![e] = r]
  BY <1>2 DEF m1, w1, r
<1> QED BY <1>8, <1>9, <1>10, SyncWrites

\* What was committed stays acknowledged, with or without the checkpoint.
LEMMA SyncMayCheckpoint ==
    ASSUME SessTypeInv, SyncInv, NEW e \in Envs, NEW g, NEW w, NEW n,
           FilesType(main, w, n), HandleType(g, n), MayCheckpoint(e, g, main, w),
           stage' = [stage EXCEPT ![e] = "open"], g.hw = mem[e].hw,
           ~ spoiled /\ e \notin stale =>
               FilesHold(main, w, acked') /\ Knows("open", g, main, w, acked'),
           ~ spoiled /\ w = log => acked' = acked,
           \A s \in Salts : ~ spoiled /\ Folded(main, g, s) = main => acked' = acked
    PROVE  SyncInv'
<1>0. main \in MainFiles /\ g \in Pagers /\ main.len \in Nat
  BY MainFilesType DEF FilesType, HandleType
<1>1. CASE WriteFiles(e, main, w) /\ mem' = [mem EXCEPT ![e] = g]
  <2>1. main' = main /\ log' = w
    BY <1>1 DEF WriteFiles
  <2>2. ~ spoiled => g.hw <= main.len
    BY SyncFacts
  <2>3. WriteFiles(e, main', log')
    BY <1>1, <2>1
  <2>4. ~ spoiled /\ <<main', log'>> = files => acked' = acked /\ g.hw <= main'.len
    BY <2>1, <2>2 DEF files
  <2>5. ~ spoiled /\ e \notin stale =>
           /\ FilesHold(main', log', acked')
           /\ main.len <= main'.len /\ main'.len \in Nat /\ g.hw <= main'.len
           /\ "open" # "closed" => Knows("open", g, main', log', acked')
    BY <1>0, <2>1, <2>2
  <2> QED BY <1>1, <2>3, <2>4, <2>5, SyncWrites
<1>2. ASSUME NEW s \in Salts, WriteFiles(e, Folded(main, g, s), EmptiedLog(s)),
             mem' = [mem EXCEPT ![e] = Reset(g, s, main)]
      PROVE  SyncInv'
  <2>1. Reset(g, s, main) = [Reset(g, s, main) EXCEPT !.view = Blank]
    BY <1>0, ResetIsBlank
  <2>2. mem' = [mem EXCEPT ![e] = [Reset(g, s, main) EXCEPT !.view = Blank]]
    BY <1>2, <2>1
  <2>3. ~ spoiled /\ Folded(main, g, s) = main => acked' = acked
    OBVIOUS
  <2> QED BY <1>2, <2>2, <2>3, SyncFolds
<1> QED BY <1>1, <1>2 DEF MayCheckpoint

\* A commit changes the files, folded or not: the body of its pages is new.
LEMMA CommitChanges ==
    ASSUME SessTypeInv, SyncInv, ~ spoiled, NEW e \in Envs, NEW hdr,
           NEW ids \in SUBSET Pages, ids # {}, NEW n, n = commits + 1, n <= MaxCommits,
           NEW after, HandleType(after, n), Wrote(after, mem[e], hdr, ids, n), NEW s \in Salts
    PROVE  Folded(main, after, s) # main
<1> DEFINE m1 == Folded(main, after, s)
<1>0. commits \in Nat /\ main \in MainFiles /\ after \in Pagers /\ mem[e] \in Pagers
  BY TypeFacts DEF HandleType
<1>1. PICK p \in ids : TRUE
  OBVIOUS
<1>2. p \in Pages /\ p \in Entries(after.view) /\ after.view[p] = [by |-> n, key |-> mem[e].key]
      /\ after.hw = mem[e].hw
  BY <1>1 DEF Wrote
<1>3. after.hw <= main.len
  BY <1>2, SyncFacts
<1>4. p <= Length(main, after)
  BY <1>0, <1>2, <1>3, LengthCovers
<1>5. m1.page[p] = Over(main.page, after.view)[p]
  BY <1>0, <1>2, <1>4, FoldedFields
<1>6. after.view[p] # Nothing
  BY <1>2 DEF Entries
<1>7. m1.page[p] = [by |-> n, key |-> mem[e].key] /\ m1.page[p] # Nothing
  BY <1>2, <1>5, <1>6 DEF Over
<1>8. m1.page[p].by = n
  BY <1>7
<1>9. main.page[p] # Nothing => main.page[p].by <= commits
  BY <1>2 DEF SessTypeInv, PagesBy
<1> HIDE DEF m1
<1>10. SUFFICES ASSUME m1 = main PROVE FALSE
  BY DEF m1
<1> QED BY <1>0, <1>7, <1>8, <1>9, <1>10

\* Knowing the catalog is open is knowing the files.
LEMMA KnowsOpen ==
    ASSUME NEW g, NEW m, NEW w, NEW a, Knows("open", g, m, w, a)
    PROVE  Knows("catalog", g, m, w, a)
  BY DEF Knows

\* A commit.
LEMMA SyncCommit ==
    ASSUME SessTypeInv, SyncInv, NEW e \in Envs, NEW hdr \in Header, commits < MaxCommits,
           NEW ids \in SUBSET Pages, ids # {}, NEW staged \in BOOLEAN, staged <=> hdr # mem[e].hdr,
           NEW n, n = commits + 1, NEW after, NEW w,
           IsCommit(after, w, mem[e], log, hdr, ids, staged, n),
           MayCheckpoint(e, after, main, w), stage' = [stage EXCEPT ![e] = "open"],
           ~ spoiled /\ e \notin stale =>
               /\ Knows("catalog", mem[e], main, log, acked) /\ WholeLog(main, log, mem[e].key)
               /\ hdr.root \in 1 .. hdr.count
               /\ acked' = Database(hdr, Over(main.page, after.view))
               /\ acked'.page[hdr.root].key = mem[e].key
    PROVE  SyncInv'
<1>1. mem[e] \in Pagers /\ PagesBy(mem[e].view, commits)
  BY TypeFacts DEF HandleType
<1>2. /\ n \in 1 .. MaxCommits /\ HandleType(after, n) /\ FilesType(main, w, n)
      /\ w # log /\ Wrote(after, mem[e], hdr, ids, n)
  BY <1>1, CommitTypes
<1>3. after.hw = mem[e].hw
  BY <1>2 DEF Wrote
<1>4. n <= MaxCommits
  BY <1>2, TypeFacts
<1>5. \A s \in Salts : ~ spoiled /\ Folded(main, after, s) = main => acked' = acked
  BY <1>2, <1>4, CommitChanges
<1>6. ASSUME ~ spoiled, e \notin stale
      PROVE  FilesHold(main, w, acked') /\ Knows("open", after, main, w, acked')
  <2>1. FilesHold(main, log, acked)
    BY <1>6, SyncFacts
  <2>2. main \in MainFiles /\ log \in Logs
    BY TypeFacts
  <2>3. /\ Knows("catalog", mem[e], main, log, acked) /\ WholeLog(main, log, mem[e].key)
        /\ hdr.root \in 1 .. hdr.count
        /\ acked' = Database(hdr, Over(main.page, after.view))
        /\ acked'.page[hdr.root].key = mem[e].key
    BY <1>6
  <2> QED BY <1>1, <1>2, <2>1, <2>2, <2>3, CommitKeeps
<1> QED BY <1>2, <1>3, <1>5, <1>6, SyncMayCheckpoint
\* Db::from_parts commits the first catalog.
LEMMA SyncInitCatalog ==
    ASSUME SessTypeInv, SyncInv, NEW e \in Envs, InitCatalog(e)
    PROVE  SyncInv'
<1> DEFINE hdr == [root |-> 1, count |-> 1]
           h == [mem[e] EXCEPT !.hdr = hdr]
           n == commits + 1
           new == FramesOf(h, {1}, TRUE, n)
           after == Published(h, {1}, TRUE, new, n)
           w == Appended(log, h, new)
<1>1. /\ stage[e] = "catalog" /\ mem[e].hdr.root = 0 /\ commits < MaxCommits
      /\ MayCheckpoint(e, after, main, w) /\ stage' = [stage EXCEPT ![e] = "open"]
      /\ acked' = Database(h.hdr, [Blank EXCEPT ![1] = [by |-> n, key |-> h.key]])
  BY Zenon DEF InitCatalog, Reach
<1>2. hdr \in Header /\ hdr.root = 1 /\ hdr.count = 1 /\ 1 \in Pages
  BY PagesFacts DEF Header, Pages
<1>3. hdr # mem[e].hdr
  BY <1>1, <1>2
<1> HIDE DEF hdr
<1>4. h \in Pagers /\ h.hdr = hdr /\ h.key = mem[e].key
  BY <1>2, TypeFacts DEF Pagers
<1>5. h = [mem[e] EXCEPT !.hdr = hdr]
  OBVIOUS
<1> HIDE DEF h
<1>6. IsCommit(after, w, mem[e], log, hdr, {1}, TRUE, n)
  BY <1>4, <1>5, Zenon DEF IsCommit
<1>7. n = commits + 1
  OBVIOUS
<1> HIDE DEF after, w, new, n
<1>8. {1} \in SUBSET Pages /\ {1} # {} /\ TRUE \in BOOLEAN /\ (TRUE <=> hdr # mem[e].hdr)
  BY <1>2, <1>3
<1>9. Wrote(after, mem[e], hdr, {1}, n)
  <2>1. mem[e] \in Pagers /\ PagesBy(mem[e].view, commits)
    BY TypeFacts DEF HandleType
  <2> QED BY <2>1, <1>1, <1>2, <1>6, <1>7, <1>8, CommitTypes
<1>10. /\ after.view[1] = [by |-> n, key |-> mem[e].key] /\ after.view[1] # Nothing
  BY <1>9 DEF Wrote, Entries
<1>11. 1 .. hdr.count = {1}
  BY <1>2
<1>12. acked' = Database(hdr, Over(main.page, after.view))
  <2> DEFINE f == [Blank EXCEPT ![1] = [by |-> n, key |-> mem[e].key]]
             o == Over(main.page, after.view)
  <2>1. f[1] = [by |-> n, key |-> mem[e].key]
    BY <1>2 DEF Blank
  <2>2. o[1] = after.view[1]
    BY <1>2, <1>10 DEF Over
  <2>3. acked' = Database(hdr, f)
    BY <1>1, <1>4
  <2> HIDE DEF f, o
  <2>4. [p \in 1 .. hdr.count |-> f[p]] = [p \in 1 .. hdr.count |-> o[p]]
    BY <1>10, <1>11, <2>1, <2>2
  <2>5. Database(hdr, f) = Database(hdr, o)
    BY <2>4, Zenon DEF Database
  <2> QED BY <2>3, <2>5 DEF o
<1>13. acked'.page[hdr.root].key = mem[e].key
  <2>1. acked'.page[1] = Over(main.page, after.view)[1]
    BY <1>11, <1>12, DatabaseFields
  <2>2. Over(main.page, after.view)[1] = after.view[1]
    BY <1>2, <1>10 DEF Over
  <2> QED BY <2>1, <2>2, <1>2, <1>10
<1>14. ASSUME ~ spoiled, e \notin stale
       PROVE  Knows("catalog", mem[e], main, log, acked) /\ WholeLog(main, log, mem[e].key)
  <2>0. stage[e] # "closed"
    BY <1>1
  <2>1. Knows("catalog", mem[e], main, log, acked) /\ FilesHold(main, log, acked)
    BY <1>1, <1>14, <2>0, SyncFacts
  <2>2. acked.root = CurHdr(main, log).root
    BY <2>1, DatabaseFields DEF FilesHold
  <2>3. acked.root = 0
    BY <2>1, <2>2, <1>1 DEF Knows
  <2>4. log.frames = <<>>
    BY <2>1, <2>3 DEF FilesHold
  <2> QED BY <2>1, <2>4, EmptyLogHolds
<1>15. hdr.root \in 1 .. hdr.count
  BY <1>2
<1> QED BY <1>1, <1>2, <1>6, <1>7, <1>8, <1>12, <1>13, <1>14, <1>15, SyncCommit

\* The root of the acknowledged database, as a handle that knows the files
\* reads it.
LEMMA RootRead ==
    ASSUME NEW m \in MainFiles, NEW w \in Logs, NEW g, NEW a, a.root # 0,
           FilesHold(m, w, a), Knows("catalog", g, m, w, a)
    PROVE  /\ g.hdr.root = a.root /\ g.hdr.root \in 1 .. g.hdr.count
           /\ g.hdr.root \in Pages
           /\ DbKey(a) = Over(m.page, g.view)[g.hdr.root].key
<1>1. g.hdr = CurHdr(m, w) /\ Over(m.page, g.view) = Over(m.page, LogView(w))
  BY CoversOver DEF Knows
<1>2. a = Database(g.hdr, Over(m.page, g.view)) /\ a.root \in 1 .. g.hdr.count
  BY <1>1 DEF FilesHold
<1>3. a.root = g.hdr.root
  BY <1>2, DatabaseFields
<1>4. g.hdr \in Header
  BY <1>1, CurHdrType
<1>5. a.page[g.hdr.root] = Over(m.page, g.view)[g.hdr.root]
  BY <1>2, <1>3, DatabaseFields
<1>6. 1 .. g.hdr.count \subseteq Pages
  BY <1>4, HeaderFacts
<1> QED BY <1>2, <1>3, <1>5, <1>6 DEF DbKey

\* Catalog::open: the root under the handle's key is the root that was
\* acknowledged, so that its key is the key of the database.
LEMMA SyncOpenCatalog ==
    ASSUME SessTypeInv, SyncInv, NEW e \in Envs, OpenCatalog(e)
    PROVE  SyncInv'
<1> DEFINE g == mem[e]
<1>1. /\ stage[e] = "catalog" /\ g.hdr.root # 0 /\ RootOpens(e)
      /\ MayCheckpoint(e, g, main, log) /\ stage' = [stage EXCEPT ![e] = "open"]
      /\ acked' = acked
  BY DEF OpenCatalog, Reach
<1>2. HandleType(g, commits) /\ FilesType(main, log, commits) /\ main \in MainFiles /\ log \in Logs
  BY TypeFacts
<1>3. ASSUME ~ spoiled, e \notin stale
      PROVE  FilesHold(main, log, acked) /\ Knows("open", g, main, log, acked)
  <2>0. stage[e] # "closed"
    BY <1>1
  <2>1. Knows("catalog", g, main, log, acked) /\ FilesHold(main, log, acked)
    BY <1>1, <1>3, <2>0, SyncFacts
  <2>2. acked.root = CurHdr(main, log).root
    BY <2>1, DatabaseFields DEF FilesHold
  <2>3. acked.root # 0
    BY <2>1, <2>2, <1>1 DEF Knows
  <2>4. DbKey(acked) = Over(main.page, g.view)[g.hdr.root].key
    BY <2>1, <2>3, <1>2, RootRead
  <2>5. g.key = DbKey(acked)
    BY <2>4, <1>1 DEF RootOpens, ReadPage
  <2> QED BY <2>1, <2>3, <2>5 DEF Knows
<1> HIDE DEF g
<1>4. g.hw = mem[e].hw
  BY DEF g
<1>5. /\ ~ spoiled /\ log = log => acked' = acked
      /\ \A s \in Salts : ~ spoiled /\ Folded(main, g, s) = main => acked' = acked
      /\ ~ spoiled /\ e \notin stale =>
            FilesHold(main, log, acked') /\ Knows("open", g, main, log, acked')
  BY <1>1, <1>3
<1> QED BY <1>1, <1>2, <1>4, <1>5, SyncMayCheckpoint

\* WriteTxn::commit.
LEMMA SyncCommitWrites ==
    ASSUME SessTypeInv, SyncInv, NEW t \in Threads, NEW ids \in SUBSET Pages,
           NEW grown \in {0, 1}, NEW r \in 0 .. MaxPages, CommitWrites(t, ids, grown, r)
    PROVE  SyncInv'
<1> DEFINE e == EnvOf[t]
           g == mem[e]
           hdr == [root |-> r, count |-> g.hdr.count + grown]
           staged == hdr # g.hdr
           n == commits + 1
           h == [g EXCEPT !.hdr = hdr]
           new == FramesOf(h, ids, staged, n)
           after == Published(h, ids, staged, new, n)
           w == Appended(log, h, new)
<1>1. /\ n <= MaxCommits /\ hdr.count <= MaxPages /\ ids # {} /\ ids \subseteq 1 .. hdr.count
      /\ r \in ids \cup {g.hdr.root} /\ stage[e] = "open"
      /\ MayCheckpoint(e, after, main, w) /\ stage' = stage
      /\ acked' = Database(hdr, Over(main.page, after.view))
  BY Zenon DEF CommitWrites, Writes
<1>0. e \in Envs
  BY EnvOfAssumption
<1> HIDE DEF e
<1>2. g \in Pagers /\ PagesBy(g.view, commits) /\ commits < MaxCommits /\ staged \in BOOLEAN
  BY <1>0, <1>1, TypeFacts DEF HandleType
<1>3. hdr \in Header /\ hdr.root = r /\ hdr.count = g.hdr.count + grown
  <2>1. g.hdr \in Header /\ g.hdr.count + grown <= MaxPages
    BY <1>1, <1>2, PagersType
  <2> HIDE DEF g
  <2> QED BY <2>1, CommitHeader
<1>4. staged <=> hdr # g.hdr
  OBVIOUS
<1> HIDE DEF hdr, staged
<1>5. h = [g EXCEPT !.hdr = hdr] /\ h \in Pagers
  BY <1>2, <1>3 DEF Pagers
<1> HIDE DEF h
<1>6. IsCommit(after, w, g, log, hdr, ids, staged, n)
  BY <1>5, Zenon DEF IsCommit
<1>7. n = commits + 1 /\ g = mem[e]
  OBVIOUS
<1> HIDE DEF after, w, new, n, g
<1>8. Wrote(after, g, hdr, ids, n)
  BY <1>1, <1>2, <1>3, <1>6, <1>7, CommitTypes
<1>9. ASSUME ~ spoiled, e \notin stale
      PROVE  /\ Knows("catalog", g, main, log, acked) /\ WholeLog(main, log, g.key)
             /\ hdr.root \in 1 .. hdr.count /\ acked'.page[hdr.root].key = g.key
  <2>0. stage[e] # "closed"
    BY <1>1
  <2>1. Knows("open", g, main, log, acked) /\ FilesHold(main, log, acked)
    BY <1>0, <1>1, <1>7, <1>9, <2>0, SyncFacts
  <2>2. acked.root # 0 /\ g.key = DbKey(acked)
    BY <2>1 DEF Knows
  <2>3. Knows("catalog", g, main, log, acked)
    BY <2>1, KnowsOpen
  <2>4. WholeLog(main, log, g.key)
    BY <2>1, <2>2 DEF FilesHold
  <2>5. /\ g.hdr.root \in 1 .. g.hdr.count /\ g.hdr.root \in Pages
        /\ g.key = Over(main.page, g.view)[g.hdr.root].key
    BY <2>1, <2>2, <2>3, TypeFacts, RootRead
  <2>6. g.hdr.root \in 1 .. hdr.count
    <3>1. g.hdr.count \in Nat /\ grown \in Nat
      BY <1>2, PagersType, HeaderFacts
    <3> QED BY <3>1, <2>5, <1>3
  <2>7. r \in 1 .. hdr.count
    BY <2>6, <1>1
  <2>8. acked'.page[r] = Over(main.page, after.view)[r]
    BY <2>7, <1>1, DatabaseFields
  <2>9. Over(main.page, after.view)[r].key = g.key
    <3>1. CASE r \in ids
      <4>1. after.view[r] = [by |-> n, key |-> g.key] /\ after.view[r] # Nothing /\ r \in Pages
        BY <3>1, <1>8 DEF Wrote, Entries
      <4>2. Over(main.page, after.view)[r] = after.view[r]
        BY <4>1 DEF Over
      <4> QED BY <4>1, <4>2
    <3>2. CASE r \notin ids
      <4>1. r = g.hdr.root
        BY <3>2, <1>1
      <4>2. after.view[r] = g.view[r]
        <5>1. Len(FramesOf(h, ids, staged, n)) \in Nat /\ n \in 1 .. MaxCommits
          <6>1. n \in 1 .. MaxCommits
            BY <1>1, <1>7, TypeFacts
          <6> QED BY <6>1, <1>1, <1>2, <1>5, FramesOfShape DEF AreFrames
        <5>2. IsPublished(after, h, ids, staged, new, n)
          BY <5>1, <1>2, <1>5, PublishedFields DEF after, new
        <5>3. after.view[r] = h.view[r]
          BY <5>2, <3>2, <2>5, <4>1 DEF IsPublished
        <5>4. h.view = g.view
          BY <1>2, <1>5 DEF Pagers
        <5> QED BY <5>3, <5>4
      <4>3. Over(main.page, after.view)[r] = Over(main.page, g.view)[r]
        BY <4>1, <4>2, <2>5 DEF Over
      <4> QED BY <4>1, <4>3, <2>5
    <3> QED BY <3>1, <3>2
  <2> QED BY <2>3, <2>4, <2>7, <2>8, <2>9, <1>3
<1>10. stage' = [stage EXCEPT ![e] = "open"]
  BY <1>0, <1>1, TypeFacts
<1>11. ~ spoiled /\ e \notin stale =>
               /\ Knows("catalog", mem[e], main, log, acked) /\ WholeLog(main, log, mem[e].key)
               /\ hdr.root \in 1 .. hdr.count
               /\ acked' = Database(hdr, Over(main.page, after.view))
               /\ acked'.page[hdr.root].key = mem[e].key
  BY <1>1, <1>7, <1>9
<1>12. IsCommit(after, w, mem[e], log, hdr, ids, staged, n) /\ (staged <=> hdr # mem[e].hdr)
  BY <1>4, <1>6, <1>7
<1> QED BY <1>0, <1>1, <1>2, <1>3, <1>7, <1>10, <1>11, <1>12, SyncCommit

\* The header that a rollback or a backup writes back.
LEMMA SyncRollBack ==
    ASSUME SessTypeInv, SyncInv, NEW t \in Threads, RollBack(t) \/ BackUp(t)
    PROVE  SyncInv'
<1> DEFINE e == EnvOf[t]
           m == WithHeader(main, mem[e])
<1>1. /\ stage[e] = "open" /\ WriteFiles(e, m, log)
      /\ mem' = mem /\ stage' = stage /\ acked' = acked
  BY DEF RollBack, BackUp, Writes, handles
<1>0. e \in Envs
  BY EnvOfAssumption
<1> HIDE DEF e
<1>2. main' = m /\ log' = log /\ m.len = main.len /\ main.len \in Nat
  BY <1>0, <1>1, TypeFacts, WithHeaderFields, MainFilesType DEF WriteFiles
<1> HIDE DEF m
<1>3. ~ spoiled => mem[e].hw <= main'.len
  BY <1>0, <1>2, SyncFacts
<1>4. ASSUME ~ spoiled, e \notin stale
      PROVE  FilesHold(m, log, acked) /\ Knows("open", mem[e], m, log, acked)
  <2>0. stage[e] # "closed"
    BY <1>1
  <2>1. Knows("open", mem[e], main, log, acked) /\ FilesHold(main, log, acked)
    BY <1>0, <1>1, <1>4, <2>0, SyncFacts
  <2> QED BY <2>1, <1>0, TypeFacts, HeaderKeeps DEF m
<1>5. mem' = [mem EXCEPT ![e] = mem[e]] /\ stage' = [stage EXCEPT ![e] = "open"]
  BY <1>0, <1>1, TypeFacts
<1>6. WriteFiles(e, main', log')
  BY <1>1, <1>2
<1>7. ~ spoiled /\ <<main', log'>> = files => acked' = acked /\ mem[e].hw <= main'.len
  BY <1>1, <1>3
<1>8. ~ spoiled /\ e \notin stale =>
         /\ FilesHold(main', log', acked')
         /\ main.len <= main'.len /\ main'.len \in Nat /\ mem[e].hw <= main'.len
         /\ "open" # "closed" => Knows("open", mem[e], main', log', acked')
  BY <1>1, <1>2, <1>3, <1>4
<1> QED BY <1>0, <1>5, <1>6, <1>7, <1>8, SyncWrites

\* Db::checkpoint under a transaction that is rolled back.
LEMMA SyncCheckpoint ==
    ASSUME SessTypeInv, SyncInv, NEW t \in Threads, CheckpointHandle(t)
    PROVE  SyncInv'
<1> DEFINE e == EnvOf[t]
           g == mem[e]
<1>0. e \in Envs
  BY EnvOfAssumption
<1>1. PICK s \in Salts :
         /\ WriteFiles(e, Folded(main, g, s), EmptiedLog(s))
         /\ mem' = [mem EXCEPT ![e] = [Reset(g, s, main) EXCEPT !.view = g.view]]
  BY DEF CheckpointHandle
<1>2. stage[e] = "open" /\ stage' = stage /\ acked' = acked
  BY DEF CheckpointHandle, Writes
<1>3. stage' = [stage EXCEPT ![e] = "open"]
  BY <1>0, <1>2, TypeFacts
<1>4. FilesType(main, log, commits) /\ HandleType(g, commits)
  BY <1>0, TypeFacts
<1>5. ASSUME ~ spoiled, e \notin stale
      PROVE  FilesHold(main, log, acked') /\ Knows("open", g, main, log, acked')
  <2>0. stage[e] # "closed"
    BY <1>2
  <2> QED BY <2>0, <1>0, <1>2, <1>5, SyncFacts
<1>6. g.view \in {Blank, g.view} /\ g.hw = mem[e].hw
  OBVIOUS
<1>7. ~ spoiled /\ Folded(main, g, s) = main => acked' = acked
  BY <1>2
<1> HIDE DEF e, g
<1>8. ~ spoiled /\ e \notin stale =>
         FilesHold(main, log, acked') /\ Knows("open", g, main, log, acked')
  BY <1>5
<1> QED BY <1>0, <1>1, <1>3, <1>4, <1>6, <1>7, <1>8, SyncFolds

\* Steps that touch neither handles nor files.
LEMMA SyncIdle ==
    ASSUME SyncInv, UNCHANGED <<handles, files, counts, past>>
    PROVE  SyncInv'
  BY DEF SyncInv, handles, files, past

\* Every step keeps what the files hold and what the handles know.
LEMMA SyncStep == SessTypeInv /\ SyncInv /\ [SessNext]_sessVars => SyncInv'
<1> SUFFICES ASSUME SessTypeInv, SyncInv, [SessNext]_sessVars PROVE SyncInv'
  OBVIOUS
<1>1. ASSUME NEW e \in Envs, Open(e) \/ CloseHandle(e) \/ Killed(e) PROVE SyncInv'
  BY <1>1, SyncInitialise, SyncLoad, SyncLeaves, SyncRecover, SyncCreateFresh, SyncStamp,
     SyncInitCatalog, SyncOpenCatalog DEF Open
<1>2. ASSUME NEW t \in Threads, Finish(t) PROVE SyncInv'
  BY <1>2, SyncCommitWrites, SyncRollBack, SyncCheckpoint DEF Finish
<1>3. ASSUME NEW t \in Threads, Ask(t) \/ Obtain(t) \/ Lock(t) \/ Unlock(t) PROVE SyncInv'
  BY <1>3, SyncIdle DEF Ask, Obtain, Lock, Unlock, Idle
<1>4. CASE UNCHANGED sessVars
  BY <1>4, SyncIdle DEF sessVars
<1> QED BY <1>1, <1>2, <1>3, <1>4 DEF SessNext

\* And it holds initially, of the empty database.
LEMMA SyncInit == SessInit => SyncInv
<1> SUFFICES ASSUME SessInit PROVE SyncInv
  OBVIOUS
<1>1. /\ main = EmptyFile /\ log = EmptyLog /\ acked = Database(EmptyFile.hdr, Blank)
      /\ stage = [e \in Envs |-> "closed"] /\ mem = [e \in Envs |-> NoPager]
  BY DEF SessInit
<1>2. EmptyLog.frames = <<>>
  BY DEF EmptyLog
<1>3. LogView(EmptyLog) = Blank /\ LogHdr(EmptyLog) = Nothing
  BY <1>2, EmptyLogHolds
<1>4. EmptyFile.page = Blank /\ EmptyFile.len = 0 /\ EmptyFile.hdr.root = 0
  BY DEF EmptyFile
<1>5. Over(Blank, Blank) = Blank
  BY DEF Over, Blank
<1>6. acked = Database(CurHdr(main, log), Over(main.page, LogView(log)))
  BY <1>1, <1>3, <1>4, <1>5 DEF CurHdr
<1>7. acked.root = 0
  BY <1>1, <1>4, DatabaseFields
<1>8. FilesHold(main, log, acked)
  BY <1>1, <1>2, <1>4, <1>6, <1>7, BlankType DEF FilesHold
<1>9. \A e \in Envs : mem[e].hw <= main.len
  BY <1>1, <1>4, NewPager
<1> QED BY <1>1, <1>8, <1>9 DEF SyncInv
-----------------------------------------------------------------------------
(* What an open finds, and what a backup holds.                            *)

\* Files that hold a database give it back to whoever opens them with its key.
LEMMA FoundWhileSynced ==
    ASSUME SessTypeInv, SyncInv PROVE DurableUnlessStale
<1> SUFFICES ASSUME ~ spoiled, NEW k \in RightKeys
             PROVE  ~ RefusesKey(main, log, k) /\ Recovered(main, log, k) = acked
  BY DEF DurableUnlessStale, AckedIsFound
<1>1. FilesHold(main, log, acked) /\ log \in Logs
  BY SyncFacts, TypeFacts
<1>2. WholeLog(main, log, k)
  <2>1. CASE acked.root = 0
    <3>1. log.frames = <<>>
      BY <2>1, <1>1 DEF FilesHold
    <3> QED BY <3>1, EmptyLogHolds
  <2>2. CASE acked.root # 0
    <3>1. k = DbKey(acked)
      BY <2>2 DEF RightKeys, DbKey
    <3> QED BY <2>2, <3>1, <1>1 DEF FilesHold
  <2> QED BY <2>1, <2>2
<1>3. acked = Database(CurHdr(main, log), Over(main.page, LogView(log)))
  BY <1>1 DEF FilesHold
<1> QED BY <1>1, <1>2, <1>3, RecoversWhole

\* A copy made by a handle that knows the files recovers by itself as the
\* acknowledged database.
LEMMA CopyRecovers ==
    ASSUME SessTypeInv, NEW g \in Pagers, FilesHold(main, log, acked),
           Knows("open", g, main, log, acked)
    PROVE  Recovered(Copied(g), EmptyLog, NoKey) = acked
<1> DEFINE page == [p \in Pages |-> IF p <= g.hdr.count THEN Over(main.page, g.view)[p]
                                                         ELSE main.page[p]]
           hdr == IF g.viewHdr = Nothing THEN main.hdr ELSE g.viewHdr
           len == Max({main.len, g.hdr.count})
           made == TRUE
           m == Copied(g)
<1>1. m = [EmptyFile EXCEPT !.made = made, !.hdr = hdr, !.len = len, !.page = page]
  BY Zenon DEF Copied
<1>2. g.hdr = CurHdr(main, log) /\ g.viewHdr = LogHdr(log)
      /\ Over(main.page, g.view) = Over(main.page, LogView(log))
  BY CoversOver DEF Knows
<1>3. hdr = g.hdr
  BY <1>2 DEF CurHdr
<1>4. acked = Database(g.hdr, Over(main.page, g.view))
  BY <1>2 DEF FilesHold
<1>5. 1 .. g.hdr.count \subseteq Pages /\ \A p \in 1 .. g.hdr.count : p <= g.hdr.count
  BY PagersType, HeaderFacts
<1>6. \A p \in 1 .. g.hdr.count : page[p] = Over(main.page, g.view)[p]
  BY <1>5
<1>7. page = [p \in Pages |-> page[p]]
  OBVIOUS
<1> HIDE DEF page, hdr, len, made, m
<1>8. m.hdr = hdr /\ m.page = page
  BY <1>1 DEF EmptyFile
<1>9. EmptyLog.frames = <<>> /\ EmptyLog \in Logs
  BY FreshTypes DEF EmptyLog
<1>10. LogView(EmptyLog) = Blank /\ LogHdr(EmptyLog) = Nothing /\ WholeLog(m, EmptyLog, NoKey)
  BY <1>9, EmptyLogHolds
<1>11. Recovered(m, EmptyLog, NoKey) = Database(hdr, Over(page, Blank))
  <2>1. CurHdr(m, EmptyLog) = hdr
    BY <1>8, <1>10 DEF CurHdr
  <2> QED BY <2>1, <1>8, <1>9, <1>10, RecoversWhole
<1>12. Over(page, Blank) = page
  BY <1>7, BlankType DEF Over
<1>13. Database(g.hdr, page) = Database(g.hdr, Over(main.page, g.view))
  <2>1. [p \in 1 .. g.hdr.count |-> page[p]] =
           [p \in 1 .. g.hdr.count |-> Over(main.page, g.view)[p]]
    BY <1>6
  <2> QED BY <2>1, Zenon DEF Database
<1> QED BY <1>3, <1>4, <1>11, <1>12, <1>13 DEF m

\* Only a backup writes the destination.
LEMMA BackupLeft ==
    ASSUME [SessNext]_sessVars, ~ \E t \in Threads : BackUp(t)
    PROVE  backup' \in {backup, Nothing}
<1>1. ASSUME NEW e \in Envs, Open(e) \/ CloseHandle(e) \/ Killed(e) PROVE backup' = backup
  BY <1>1 DEF Open, Initialise, LoadHeader, RefuseKey, Recover, CreateFresh, Stamp, InitCatalog,
              OpenCatalog, RefuseCatalog, CloseHandle, Killed
<1>2. ASSUME NEW t \in Threads, Finish(t) PROVE backup' = backup
  <2>1. ASSUME NEW ids \in SUBSET Pages, NEW grown \in {0, 1}, NEW r \in 0 .. MaxPages,
               CommitWrites(t, ids, grown, r)
        PROVE  backup' = backup
    BY <2>1, Zenon DEF CommitWrites
  <2> QED BY <1>2, <2>1 DEF Finish, RollBack, CheckpointHandle
<1>3. ASSUME NEW t \in Threads, Ask(t) \/ Obtain(t) \/ Lock(t) \/ Unlock(t)
      PROVE  backup' \in {backup, Nothing}
  BY <1>3 DEF Ask, Obtain, Lock, Unlock, Idle
<1>4. CASE UNCHANGED sessVars
  BY <1>4 DEF sessVars
<1> QED BY <1>1, <1>2, <1>3, <1>4 DEF SessNext

\* No step makes, or leaves, a backup that is not a snapshot.
LEMMA BackupStep ==
    SessTypeInv /\ SyncInv /\ BackupIsSnapshot /\ [SessNext]_sessVars => BackupIsSnapshot'
<1> SUFFICES ASSUME SessTypeInv, SyncInv, BackupIsSnapshot, [SessNext]_sessVars
             PROVE  BackupIsSnapshot'
  OBVIOUS
<1>1. CASE backup' \in {backup, Nothing}
  BY <1>1 DEF BackupIsSnapshot
<1>2. ASSUME NEW t \in Threads, BackUp(t), ~ (backup' \in {backup, Nothing})
      PROVE  BackupIsSnapshot'
  <2> DEFINE e == EnvOf[t]
             of == IF spoiled \/ e \in stale THEN Nothing ELSE acked
  <2>1. stage[e] = "open" /\ backup' = [file |-> Copied(mem[e]), of |-> of]
    BY <1>2 DEF BackUp
  <2>2. e \in Envs
    BY EnvOfAssumption
  <2>3. of # Nothing => Recovered(Copied(mem[e]), EmptyLog, NoKey) = of
    <3> SUFFICES ASSUME of # Nothing PROVE Recovered(Copied(mem[e]), EmptyLog, NoKey) = acked
      OBVIOUS
    <3>1. ~ spoiled /\ e \notin stale /\ stage[e] # "closed"
      BY <2>1
    <3>2. FilesHold(main, log, acked) /\ Knows("open", mem[e], main, log, acked)
      BY <2>1, <2>2, <3>1, SyncFacts
    <3> QED BY <2>2, <3>2, TypeFacts, CopyRecovers
  <2> HIDE DEF of, e
  <2>4. backup'.of = of /\ backup'.file = Copied(mem[e])
    BY <2>1
  <2> QED BY <2>3, <2>4 DEF BackupIsSnapshot
<1> QED BY <1>1, <1>2, BackupLeft

\* The invariant of the handles is inductive.
LEMMA SessInvInductive == SessInv /\ [SessNext]_sessVars => SessInv'
  BY SessTypeStep, SyncStep, BackupStep DEF SessInv

\* And holds initially.
LEMMA SessInvInit == SessInit => SessInv
<1>1. SessInit => BackupIsSnapshot
  BY DEF SessInit, BackupIsSnapshot
<1> QED BY <1>1, SessTypeInit, SyncInit DEF SessInv

\* Until a handle writes to files that another has changed under it, the next
\* open with the right key finds the last acknowledged database, whoever was
\* killed or refused where: recoveries, truncated WALs, headers written back
\* without their pages, checkpoints by openers, a salt that comes back.
THEOREM SessionsDurable == SessSpec => []DurableUnlessStale
<1>1. SessInv => DurableUnlessStale
  BY FoundWhileSynced DEF SessInv
<1> QED BY <1>1, SessInvInit, SessInvInductive, PTL DEF SessSpec

\* A backup that a handle which knows the files took opens, by itself, as the
\* database that was acknowledged when it was taken.
THEOREM SessionsBackup == SessSpec => []BackupIsSnapshot
<1>1. SessInv => BackupIsSnapshot
  BY DEF SessInv
<1> QED BY <1>1, SessInvInit, SessInvInductive, PTL DEF SessSpec
=============================================================================
