--------------------------- MODULE PagerWal_proofs ---------------------------
(***************************************************************************)
(* What PagerWal guarantees for every number of pages, bodies, salts and   *)
(* readers, every limit, every crash model and every set of calls that may *)
(* fail: its types, and that a pager between two calls shows exactly the   *)
(* last acknowledged database; then what it keeps through a crash, and     *)
(* that it implements TxnStore.                                            *)
(*                                                                         *)
(* The argument about crashes follows one quantity through every system    *)
(* call: the log, the part of the WAL that pass 1 of recovery will accept, *)
(* and what it holds of each page.  At any moment the log is whole in both *)
(* the synced and the unsynced WAL and holds the acknowledged database     *)
(* over the main file, or the main file holds that database alone, synced, *)
(* and whether the log is still found no longer matters.                   *)
(***************************************************************************)
EXTENDS PagerStore, NatSetLemmas, FiniteSetTheorems, TLAPS

USE PagesAssumption, BodiesAssumption

(* The data operators.                                                     *)

\* Laying an overlay over page bodies gives page bodies.
LEMMA OverPages ==
  ASSUME NEW base \in [Pages -> Vals], NEW top \in Overlay
  PROVE  Over(base, top) \in [Pages -> Vals]
  BY DEF Over, Overlay

\* Laying one overlay over another gives an overlay.
LEMMA OverOverlay ==
  ASSUME NEW base \in Overlay, NEW top \in Overlay
  PROVE  Over(base, top) \in Overlay
  BY DEF Over, Overlay

\* Overlays compose: two layers over a file are one layer.
LEMMA OverOver ==
  ASSUME NEW base \in [Pages -> Vals], NEW mid \in Overlay, NEW top \in Overlay
  PROVE  Over(base, Over(mid, top)) = Over(Over(base, mid), top)
  BY DEF Over, Overlay

\* The empty overlay changes nothing.
LEMMA OverEmpty ==
  ASSUME NEW base \in [Pages -> Vals]
  PROVE  Over(base, Empty) = base
  BY DEF Over, Empty

\* The overlay without entries is an overlay.
LEMMA EmptyOverlay == Empty \in Overlay
  BY DEF Empty, Overlay

\* A hole decodes as a frame, if not a valid one.
LEMMA HoleFrame == Hole \in Frame
  BY DEF Hole, Frame, FrameOf

\* A torn frame is a frame with a bad checksum.
LEMMA TornFrame == ASSUME NEW f \in Frame PROVE Torn(f) \in Frame
  BY DEF Torn, Frame, FrameOf

\* Every slot, written or not, reads as a frame.
LEMMA SlotFrame ==
  ASSUME NEW frames \in Seq(Frame), NEW i
  PROVE  Slot(frames, i) \in Frame
  BY HoleFrame DEF Slot

\* A function on an initial interval is a sequence.
LEMMA IntervalSeq ==
  ASSUME NEW S, NEW n \in Nat, NEW f \in [1 .. n -> S]
  PROVE  f \in Seq(S)
  OBVIOUS

\* A frame written anywhere leaves a sequence of frames.
LEMMA WriteAtFrames ==
  ASSUME NEW frames \in Seq(Frame), NEW i \in Nat \ {0}, NEW f \in Frame
  PROVE  WriteAt(frames, i, f) \in Seq(Frame)
<1>. DEFINE n == IF i <= Len(frames) THEN Len(frames) ELSE i
<1>1. n \in Nat
  OBVIOUS
<1>2. \A j \in 1 .. n : (IF j = i THEN f ELSE Slot(frames, j)) \in Frame
  BY SlotFrame
<1>3. WriteAt(frames, i, f) \in [1 .. n -> Frame]
  BY <1>2 DEF WriteAt
<1>. QED BY <1>1, <1>3, IntervalSeq

\* The next page of a call is one of those it has still to write.
LEMMA NextIdIn ==
  ASSUME NEW ids, ids \subseteq 0 .. NumPages, ids # {}
  PROVE  NextId(ids) \in ids
<1>1. CASE ids \subseteq {0}
  BY <1>1 DEF NextId
<1>2. CASE ~ (ids \subseteq {0})
  <2>1. ids \ {0} \subseteq Nat /\ ids \ {0} # {}
    BY <1>2
  <2>2. Min(ids \ {0}) \in ids \ {0}
    BY <2>1, MinIn
  <2>. QED BY <1>2, <2>2 DEF NextId
<1>. QED BY <1>1, <1>2

-----------------------------------------------------------------------------
(* Recovery.                                                               *)

\* Pass 1 finds a position of the WAL, or 0.
LEMMA LastCommitType ==
  ASSUME NEW frames \in Seq(Frame), NEW s
  PROVE  /\ LastCommit(frames, s) \in 0 .. Len(frames)
         /\ LastCommit(frames, s) > 0 => LastCommit(frames, s) \in DOMAIN frames
<1>. DEFINE S == {0} \cup {i \in DOMAIN frames : Current(frames[i], s) /\ frames[i].commit}
<1>1. Len(frames) \in Nat /\ S \in SUBSET (0 .. Len(frames)) /\ S # {}
  OBVIOUS
<1>2. Max(S) \in S
  BY <1>1, MaxIn
<1>3. LastCommit(frames, s) = Max(S)
  BY DEF LastCommit
<1>. HIDE DEF S
<1>4. DOMAIN frames = 1 .. Len(frames)
  OBVIOUS
<1>5. Max(S) \in 0 .. Len(frames)
  BY <1>1, <1>2
<1>. QED BY <1>1, <1>3, <1>4, <1>5

\* Pass 2 replays positions of the WAL.
LEMMA ReplayedType ==
  ASSUME NEW frames \in Seq(Frame), NEW s
  PROVE  /\ Replayed(frames, s) \in SUBSET (DOMAIN frames)
         /\ Cardinality(Replayed(frames, s)) \in Nat
<1>1. Replayed(frames, s) \in SUBSET (1 .. Len(frames))
  <2>. DEFINE n == LastCommit(frames, s)
  <2>1. n \in 0 .. Len(frames) /\ Len(frames) \in Nat
    BY LastCommitType
  <2>. HIDE DEF n
  <2>2. 1 .. n \subseteq 1 .. Len(frames)
    BY <2>1
  <2>3. Replayed(frames, s) \subseteq 1 .. n
    BY DEF Replayed, n
  <2>. QED BY <2>2, <2>3
<1>2. IsFiniteSet(1 .. Len(frames))
  BY FS_Interval
<1>3. IsFiniteSet(Replayed(frames, s))
  BY <1>1, <1>2, FS_Subset
<1>. QED BY <1>1, <1>3, FS_CardinalityType

\* The frame a page is recovered from.
LEMMA NewestFrame ==
  ASSUME NEW frames \in Seq(Frame), NEW s, NEW p, OfPage(frames, s, p) # {}
  PROVE  /\ Max(OfPage(frames, s, p)) \in DOMAIN frames
         /\ frames[Max(OfPage(frames, s, p))].id = p
<1>1. OfPage(frames, s, p) \in SUBSET (0 .. Len(frames)) /\ Len(frames) \in Nat
  BY ReplayedType DEF OfPage
<1>2. Max(OfPage(frames, s, p)) \in OfPage(frames, s, p)
  BY <1>1, MaxIn
<1>. QED BY <1>2, ReplayedType DEF OfPage

\* Pass 2 rebuilds an overlay of pages.
LEMMA RecoveredViewType ==
  ASSUME NEW frames \in Seq(Frame), NEW s
  PROVE  RecoveredView(frames, s) \in Overlay
<1>1. ASSUME NEW p \in Pages, OfPage(frames, s, p) # {}
      PROVE  frames[Max(OfPage(frames, s, p))].body \in Vals
  BY <1>1, NewestFrame DEF Frame, FrameOf, Pages
<1>. QED BY <1>1 DEF RecoveredView, Overlay

\* ... and a header, if one was committed.
LEMMA RecoveredHeaderType ==
  ASSUME NEW frames \in Seq(Frame), NEW s \in Salts
  PROVE  RecoveredHeader(frames, s) \in Header \cup {None}
<1>1. ASSUME OfPage(frames, s, 0) # {}
      PROVE  frames[Max(OfPage(frames, s, 0))].body \in Roots
  BY <1>1, NewestFrame DEF Frame, FrameOf, Pages
<1>. QED BY <1>1 DEF RecoveredHeader, Header

\* Recovery finds a database.
LEMMA RecoveredType ==
  ASSUME NEW m \in MainFile, NEW w \in WalFile
  PROVE  Recovered(m, w) \in Database
<1>1. w.frames \in Seq(Frame) /\ m.salt \in Salts /\ m.page \in [Pages -> Vals] /\ m.root \in Roots
  BY DEF MainFile, WalFile
<1>2. Over(m.page, RecoveredView(w.frames, m.salt)) \in [Pages -> Vals]
  BY <1>1, RecoveredViewType, OverPages
<1>3. RecoveredHeader(w.frames, m.salt) # None => RecoveredHeader(w.frames, m.salt).root \in Roots
  BY <1>1, RecoveredHeaderType DEF Header
<1>. QED BY <1>1, <1>2, <1>3 DEF Recovered, Database

-----------------------------------------------------------------------------
(* Crashes.                                                                *)

\* What a power loss leaves of the main file is a main file.
LEMMA MainOutcomesType ==
  ASSUME main \in MainFile, mainD \in MainFile
  PROVE  MainOutcomes \subseteq MainFile
  BY DEF MainOutcomes, MainFile

\* A WAL cut off in order, its next frame torn or not, is a WAL.
LEMMA OrderedOutcomesType ==
  ASSUME wal \in WalFile, walD \in WalFile
  PROVE  OrderedOutcomes \subseteq Seq(Frame)
<1>1. wal.frames \in Seq(Frame) /\ walD.frames \in Seq(Frame)
  BY DEF WalFile
<1>2. ASSUME NEW k \in 0 .. Len(wal.frames), NEW torn \in BOOLEAN,
             torn => k < Len(wal.frames)
      PROVE  InOrder(k, torn) \in Seq(Frame)
  <2>. DEFINE n == IF k + 1 > Len(walD.frames) THEN IF torn THEN k + 1 ELSE k
                   ELSE Len(walD.frames)
              frame(i) == IF i <= k THEN wal.frames[i]
                          ELSE IF torn /\ i = k + 1 THEN Torn(wal.frames[i])
                          ELSE walD.frames[i]
  <2>1. n \in Nat
    BY <1>1
  <2>2. ASSUME NEW i \in 1 .. n PROVE frame(i) \in Frame
    <3>1. CASE i <= k
      BY <1>1, <3>1
    <3>2. CASE torn /\ i = k + 1
      <4>1. wal.frames[i] \in Frame
        BY <1>1, <1>2, <3>2
      <4>. QED BY <3>2, <4>1, TornFrame
    <3>3. CASE i > k /\ ~ (torn /\ i = k + 1)
      <4>1. i \in 1 .. Len(walD.frames)
        BY <1>1, <3>3
      <4>. QED BY <1>1, <3>3, <4>1
    <3>. QED BY <3>1, <3>2, <3>3
  <2>3. InOrder(k, torn) = [i \in 1 .. n |-> frame(i)]
    BY DEF InOrder
  <2>. HIDE DEF n, frame
  <2>4. InOrder(k, torn) \in [1 .. n -> Frame]
    BY <2>2, <2>3
  <2>. QED BY <2>1, <2>4, IntervalSeq
<1>3. \A k \in 0 .. Len(wal.frames) : InOrder(k, FALSE) \in Seq(Frame)
  BY <1>2
<1>4. ASSUME NEW k \in 0 .. Len(wal.frames) - 1 PROVE InOrder(k, TRUE) \in Seq(Frame)
  <2>1. k \in 0 .. Len(wal.frames) /\ k < Len(wal.frames)
    BY <1>1
  <2>. QED BY <1>2, <2>1
<1>. QED BY <1>1, <1>3, <1>4 DEF OrderedOutcomes

\* So is one whose unsynced blocks were kept or lost one by one.
LEMMA AnyOutcomesType ==
  ASSUME wal \in WalFile, walD \in WalFile
  PROVE  AnyOutcomes \subseteq Seq(Frame)
<1>1. wal.frames \in Seq(Frame) /\ walD.frames \in Seq(Frame)
  BY DEF WalFile
<1>2. ASSUME NEW fates \in [DOMAIN wal.frames -> {"kept", "torn", "lost"}]
      PROVE  [i \in DOMAIN wal.frames |-> SlotAfter(i, fates[i])] \in Seq(Frame)
  <2>1. ASSUME NEW i \in DOMAIN wal.frames PROVE SlotAfter(i, fates[i]) \in Frame
    <3>1. wal.frames[i] \in Frame /\ Slot(walD.frames, i) \in Frame
      BY <1>1, SlotFrame
    <3>. QED BY <3>1, TornFrame DEF SlotAfter
  <2>. QED BY <1>1, <2>1, IntervalSeq
<1>. QED BY <1>1, <1>2 DEF AnyOutcomes

\* Whatever a crash leaves, the next open finds two well-formed files.
LEMMA CrashOutcomesType ==
  ASSUME main \in MainFile, mainD \in MainFile, wal \in WalFile, walD \in WalFile,
         NEW o \in CrashOutcomes
  PROVE  o[1] \in MainFile /\ o[2] \in WalFile
<1>1. WalOutcomes \subseteq WalFile
  BY OrderedOutcomesType, AnyOutcomesType DEF WalOutcomes, WalFile
<1>. QED BY <1>1, MainOutcomesType DEF CrashOutcomes

-----------------------------------------------------------------------------
(* Type correctness.  A call needs more than its variables' types: that    *)
(* the pages it has still to write have a body in the overlay it takes     *)
(* them from, that its offset has not fallen behind the committed end, and *)
(* that the salts it will stamp are salts.                                 *)

Opening == {"down", "failed", "ftrunc", "fhdr", "fsync"}

CallShape ==
    /\ pc = "frame" => todo # {} /\ todo \subseteq Staged
    /\ pc \in {"frame", "walsync"} => cur >= endOff
    /\ pc = "ckpt" => todo \subseteq Entries(view) \cup (IF viewHdr = None THEN {} ELSE {0})
    /\ pc \in {"salts", "trunc", "truncs", "fsync"} => wal.salt \in Salts
    /\ pc \notin Opening => salt \in Salts

TypeInv == TypeOK /\ CallShape

\* A pager just opened on a clean file is well typed.
LEMMA TypeInit == Init => TypeInv
<1>. SUFFICES ASSUME Init PROVE TypeInv
  OBVIOUS
<1>1. main \in MainFile /\ main.salt \in Salts
  BY DEF Init, MainFile
<1>2. wal \in WalFile /\ wal.salt \in Salts
  BY <1>1 DEF Init, WalFile, MainFile
<1>3. acked \in Database
  BY <1>1 DEF Init, Database, MainFile
<1>4. NoTxn \in [root : Roots, view : Overlay]
  BY EmptyOverlay DEF NoTxn
<1>5. mainD \in MainFile /\ walD \in WalFile /\ salt \in Salts
  BY <1>1, <1>2 DEF Init
<1>6. snaps \in [Readers -> PinnedSnap \cup {None}]
  BY DEF Init
<1>7. faults \in 0 .. MaxFaults
  BY LimitsAssumption DEF Init
<1>8. /\ pc \in PCs /\ todo \subseteq 0 .. NumPages
       /\ txn \in {"none", "open", "ckpt", "close"}
       /\ cur \in Nat /\ nextLsn \in Nat \ {0} /\ endOff \in Nat /\ nFrames \in Nat
  BY DEF Init, PCs
<1>9. atBegin \in [root : Roots, view : Overlay]
  BY <1>4 DEF Init
<1>10. TypeOK
  BY <1>1, <1>2, <1>3, <1>5, <1>6, <1>7, <1>8, <1>9, EmptyOverlay
     DEF Init, TypeOK
<1>11. CallShape
  BY <1>1 DEF Init, CallShape, Opening
<1>. QED BY <1>10, <1>11 DEF TypeInv

\* What Tentative, the database being committed, is.
LEMMA TentativeType == TypeOK => Tentative \in Database
<1>. SUFFICES ASSUME TypeOK PROVE Tentative \in Database
  OBVIOUS
<1>1. acked.page \in [Pages -> Vals] /\ acked.root \in Roots
  BY DEF TypeOK, Database
<1>2. Over(acked.page, pending) \in [Pages -> Vals]
  BY <1>1, OverPages DEF TypeOK
<1>. QED BY <1>1, <1>2 DEF TypeOK, Tentative, Database

\* The frame a commit writes next, when there is one to write.
LEMMA FrameForType ==
  TypeInv /\ pc = "frame" => FrameFor(NextId(todo)) \in Frame
<1>. SUFFICES ASSUME TypeInv, pc = "frame" PROVE FrameFor(NextId(todo)) \in Frame
  OBVIOUS
<1>1. NextId(todo) \in todo /\ todo \subseteq Staged /\ todo \subseteq 0 .. NumPages
  BY NextIdIn DEF TypeInv, TypeOK, CallShape
<1>. DEFINE id == NextId(todo)
<1>2. nextLsn \in Nat /\ salt \in Salts /\ root \in Roots
  BY DEF TypeInv, TypeOK, CallShape, Opening
<1>3. CASE id = 0
  BY <1>2, <1>3 DEF FrameFor, Frame, FrameOf
<1>4. CASE id # 0
  <2>1. id \in Pages /\ pending[id] # None
    BY <1>1, <1>4 DEF Staged, Entries
  <2>2. pending[id] \in Vals
    BY <2>1 DEF TypeInv, TypeOK, Overlay
  <2>3. ASSUME NEW i \in Pages, pending[i] \in Vals PROVE FrameFor(i) \in Frame
    <3>1. i # 0
      BY DEF Pages
    <3>. QED BY <1>2, <2>3, <3>1 DEF FrameFor, Frame, FrameOf
  <2>. QED BY <2>1, <2>2, <2>3
<1>. QED BY <1>3, <1>4

\* Begin, the in-memory writes and rollback keep the types.
LEMMA TypeTxn ==
  ASSUME TypeInv,
         \/ BeginWrite \/ Rollback \/ RollbackFails
         \/ \E p \in Pages, v \in Vals : WritePage(p, v)
         \/ \E r \in Roots : SetRootCatalog(r)
  PROVE  TypeInv'
<1>. USE EmptyOverlay DEF TypeInv, TypeOK, CallShape, Opening, PCs, CheckpointCalls,
         files, walMem, overlay, call, session, history
<1>1. CASE BeginWrite
  BY <1>1 DEF BeginWrite
<1>2. ASSUME NEW p \in Pages, NEW v \in Vals, WritePage(p, v) PROVE TypeInv'
  BY <1>2 DEF WritePage, Overlay
<1>3. ASSUME NEW r \in Roots, SetRootCatalog(r) PROVE TypeInv'
  BY <1>3 DEF SetRootCatalog
<1>. DEFINE m == [main EXCEPT !.root = atBegin.root, !.salt = salt]
<1>4. ASSUME CanRollBack PROVE m \in MainFile
  <2>1. salt \in Salts
    BY <1>4 DEF CanRollBack
  <2>. QED BY <2>1 DEF MainFile
<1>5. CASE Rollback
  <2>. HIDE DEF m
  <2>1. main' = m /\ mainD' \in {m, mainD} /\ m \in MainFile
    BY <1>4, <1>5 DEF Rollback, SetMain, m
  <2>2. NoTxn \in [root : Roots, view : Overlay]
    BY DEF NoTxn
  <2>. QED BY <1>5, <2>1, <2>2 DEF Rollback, RestoreSnapshot, EndTxn, Return, CanRollBack
<1>6. CASE RollbackFails
  <2>1. NoTxn \in [root : Roots, view : Overlay]
    BY DEF NoTxn
  <2>2. faults' \in 0 .. MaxFaults
    BY <1>6, LimitsAssumption DEF RollbackFails, Fault
  <2>3. salt \in Salts /\ salt' = salt
    BY <1>6 DEF RollbackFails, CanRollBack
  <2>. QED BY <1>6, <2>1, <2>2, <2>3 DEF RollbackFails, RestoreSnapshot, EndTxn, Return
<1>. QED BY <1>1, <1>2, <1>3, <1>5, <1>6

\* So does every step of a commit.
LEMMA TypeCommit ==
  ASSUME TypeInv,
         \/ CommitEmpty \/ CommitTooLarge \/ CommitStart
         \/ WriteFrame \/ WriteFrameFails \/ SyncCommit \/ SyncCommitFails \/ CommitReturns
  PROVE  TypeInv'
<1>. USE EmptyOverlay DEF TypeInv, TypeOK, CallShape, Opening, PCs, CheckpointCalls,
         files, walMem, overlay, call, session, history
<1>0. NoTxn \in [root : Roots, view : Overlay]
  BY DEF NoTxn
<1>1. CASE CommitEmpty
  BY <1>1 DEF CommitEmpty
<1>2. CASE CommitTooLarge
  BY <1>2 DEF CommitTooLarge
<1>3. CASE CommitStart
  <2>1. Staged \subseteq 0 .. NumPages /\ Staged' = Staged
    BY <1>3 DEF CommitStart, Staged, Entries, Pages
  <2>. QED BY <1>3, <2>1 DEF CommitStart
<1>4. ASSUME NEW f \in Frame
      PROVE  LET w == [wal EXCEPT !.frames = WriteAt(@, cur + 1, f)]
             IN  w \in WalFile /\ w.salt = wal.salt
  <2>1. wal.frames \in Seq(Frame) /\ cur + 1 \in Nat \ {0}
    BY DEF WalFile
  <2>2. WriteAt(wal.frames, cur + 1, f) \in Seq(Frame)
    BY <2>1, WriteAtFrames
  <2>. QED BY <2>2 DEF WalFile
<1>5. CASE WriteFrame
  <2>. DEFINE id == NextId(todo)
              w == [wal EXCEPT !.frames = WriteAt(@, cur + 1, FrameFor(id))]
  <2>1. w \in WalFile /\ w.salt = wal.salt
    BY <1>4, <1>5, FrameForType DEF WriteFrame
  <2>2. wal' = w /\ walD' \in {w, walD}
    BY <1>5 DEF WriteFrame, SetWal
  <2>3. todo' = todo \ {id} /\ pc' = IF todo = {id} THEN "walsync" ELSE "frame"
    BY <1>5 DEF WriteFrame
  <2>4. id \in todo
    BY <1>5, NextIdIn DEF WriteFrame
  <2>5. Staged' = Staged
    BY <1>5 DEF WriteFrame, Staged, Entries
  <2>. HIDE DEF w, id
  <2>6. todo' \subseteq 0 .. NumPages /\ (pc' = "frame" => todo' # {} /\ todo' \subseteq Staged')
    BY <1>5, <2>3, <2>4, <2>5 DEF WriteFrame
  <2>7. cur' \in Nat /\ nextLsn' \in Nat \ {0} /\ cur' >= endOff'
    BY <1>5 DEF WriteFrame
  <2>. QED BY <1>5, <2>1, <2>2, <2>3, <2>6, <2>7 DEF WriteFrame
<1>6. CASE WriteFrameFails
  <2>1. Torn(FrameFor(NextId(todo))) \in Frame
    BY <1>6, FrameForType, TornFrame DEF WriteFrameFails
  <2>2. wal' \in WalFile /\ walD' \in WalFile
    BY <1>4, <1>6, <2>1 DEF WriteFrameFails, SetWal
  <2>3. nextLsn' \in Nat \ {0} /\ faults' \in 0 .. MaxFaults
    BY <1>6, LimitsAssumption DEF WriteFrameFails, Fault
  <2>. QED BY <1>6, <2>2, <2>3 DEF WriteFrameFails, Fault
<1>7. CASE SyncCommit
  <2>1. Over(view, pending) \in Overlay
    BY OverOverlay
  <2>2. Tentative \in Database
    BY TentativeType
  <2>3. viewHdr' \in Header \cup {None}
    BY <1>7 DEF SyncCommit, Publish, Header
  <2>4. endOff' \in Nat /\ nFrames' \in Nat
    BY <1>7 DEF SyncCommit
  <2>. QED BY <1>7, <2>1, <2>2, <2>3, <2>4 DEF SyncCommit, SyncWal, Publish
<1>8. CASE SyncCommitFails
  <2>1. limbo' \subseteq Database
    BY <1>8, TentativeType DEF SyncCommitFails
  <2>2. faults' \in 0 .. MaxFaults
    BY <1>8, LimitsAssumption DEF SyncCommitFails, Fault
  <2>. QED BY <1>8, <2>1, <2>2 DEF SyncCommitFails, Fault
<1>9. CASE CommitReturns
  BY <1>0, <1>9 DEF CommitReturns, EndTxn, Return
<1>. QED BY <1>1, <1>2, <1>3, <1>5, <1>6, <1>7, <1>8, <1>9

\* The memory of a process that is gone is well typed, and no call runs.
LEMMA ForgetMemoryType ==
  ASSUME ForgetMemory
  PROVE  /\ pc' = "down" /\ todo' = {} /\ cur' = 0
         /\ txn' = "none" /\ atBegin' \in [root : Roots, view : Overlay]
         /\ pending' \in Overlay /\ view' \in Overlay /\ viewHdr' = None
         /\ root' \in Roots /\ dirty' \in BOOLEAN /\ cRoot' \in Roots
         /\ salt' = NoSalt /\ nextLsn' \in Nat \ {0} /\ endOff' \in Nat /\ nFrames' \in Nat
         /\ snaps' \in [Readers -> PinnedSnap \cup {None}]
<1>1. snaps' \in [Readers -> PinnedSnap \cup {None}]
  BY DEF ForgetMemory
<1>2. atBegin' \in [root : Roots, view : Overlay]
  BY EmptyOverlay DEF ForgetMemory, EndTxn, NoTxn
<1>3. /\ pending' = Empty /\ view' = Empty /\ viewHdr' = None
      /\ root' = 0 /\ dirty' = FALSE /\ cRoot' = 0
  BY DEF ForgetMemory, ResetOverlay
<1>4. salt' = NoSalt /\ nextLsn' = 1 /\ endOff' = 0 /\ nFrames' = 0
  BY DEF ForgetMemory, ResetWal
<1>5. pc' = "down" /\ todo' = {} /\ cur' = 0 /\ txn' = "none"
  BY DEF ForgetMemory, EndTxn
<1>6. pending' \in Overlay /\ view' \in Overlay /\ dirty' \in BOOLEAN
  BY <1>3, EmptyOverlay
<1>. QED BY <1>1, <1>2, <1>3, <1>4, <1>5, <1>6

\* So does every step of a checkpoint and of a close.
LEMMA TypeCheckpoint == ASSUME TypeInv, CheckpointNext PROVE TypeInv'
<1>. USE EmptyOverlay DEF TypeInv, TypeOK, CallShape, Opening, PCs, CheckpointCalls,
         files, walMem, overlay, call, session, history
<1>0. NoTxn \in [root : Roots, view : Overlay]
  BY DEF NoTxn
<1>1. ASSUME StartCheckpoint, UNCHANGED <<view, viewHdr>>
      PROVE  /\ pc' = "ckpt" /\ todo' \subseteq 0 .. NumPages /\ cur' \in Nat
             /\ todo' \subseteq Entries(view') \cup (IF viewHdr' = None THEN {} ELSE {0})
  BY <1>1 DEF StartCheckpoint, Entries, Pages
<1>2. CASE AutoCheckpoint
  BY <1>1, <1>2 DEF AutoCheckpoint
<1>3. CASE DbCheckpoint
  <2>1. CASE Deferred
    BY <1>3, <2>1 DEF DbCheckpoint
  <2>2. CASE ~ Deferred
    BY <1>1, <1>3, <2>2 DEF DbCheckpoint
  <2>. QED BY <2>1, <2>2
<1>4. CASE CheckpointWrite
  <2>. DEFINE id == NextId(todo)
              m == IF id = 0 THEN [main EXCEPT !.root = viewHdr.root, !.salt = viewHdr.salt]
                             ELSE [main EXCEPT !.page[id] = view[id]]
  <2>1. id \in todo /\ id \in 0 .. NumPages
    BY <1>4, NextIdIn DEF CheckpointWrite
  <2>2. m \in MainFile
    <3>1. CASE id = 0
      <4>1. viewHdr \in Header
        BY <1>4, <2>1, <3>1 DEF CheckpointWrite, Entries, Pages
      <4>. QED BY <3>1, <4>1 DEF Header, MainFile
    <3>2. CASE id # 0
      <4>1. id \in Pages /\ view[id] \in Vals
        BY <1>4, <2>1, <3>2 DEF CheckpointWrite, Entries, Overlay
      <4>. HIDE DEF id
      <4>. QED BY <3>2, <4>1 DEF MainFile
    <3>. QED BY <3>1, <3>2
  <2>3. main' = m /\ mainD' \in {m, mainD} /\ todo' = todo \ {id}
    BY <1>4 DEF CheckpointWrite, SetMain
  <2>4. Entries(view') = Entries(view) /\ viewHdr' = viewHdr
    BY <1>4 DEF CheckpointWrite
  <2>. HIDE DEF m, id
  <2>. QED BY <1>4, <2>2, <2>3, <2>4 DEF CheckpointWrite
<1>5. ASSUME CheckpointReturns(TRUE) \/ CheckpointReturns(FALSE)
      PROVE  /\ pc' \in {"idle", "unlink", "drop"} /\ todo' = {} /\ cur' = 0
             /\ txn' \in {"none", "open", "ckpt", "close"}
             /\ atBegin' \in [root : Roots, view : Overlay]
  BY <1>0, <1>5 DEF CheckpointReturns, EndTxn
<1>6. CASE CheckpointSync
  <2>1. CASE NothingToDo
    <3>1. CheckpointReturns(TRUE)
      BY <1>6, <2>1 DEF CheckpointSync
    <3>. QED BY <1>5, <1>6, <3>1 DEF CheckpointSync, SyncMain
  <2>2. CASE ~ NothingToDo
    BY <1>6, <2>2 DEF CheckpointSync, SyncMain
  <2>. QED BY <2>1, <2>2
<1>7. CASE RotateSalt
  <2>1. PICK s \in Salts : SetWal([wal EXCEPT !.salt = s])
    BY <1>7 DEF RotateSalt
  <2>2. wal' \in WalFile /\ wal'.salt \in Salts /\ walD' \in WalFile
    BY <2>1 DEF SetWal, WalFile
  <2>. QED BY <1>7, <2>2 DEF RotateSalt
<1>8. CASE SyncSalt
  BY <1>8 DEF SyncSalt, SyncWal
<1>9. CASE TruncateWal
  <2>1. <<>> \in Seq(Frame)
    OBVIOUS
  <2>2. [wal EXCEPT !.frames = <<>>] \in WalFile
    BY <2>1 DEF WalFile
  <2>3. wal' \in WalFile /\ wal'.salt = wal.salt /\ walD' \in WalFile
    BY <1>9, <2>2 DEF TruncateWal, SetWal, WalFile
  <2>. QED BY <1>9, <2>3 DEF TruncateWal
<1>10. CASE SyncTruncate
  <2>1. snaps' \in [Readers -> PinnedSnap \cup {None}]
    BY <1>10 DEF SyncTruncate, PinnedSnap
  <2>. QED BY <1>10, <2>1 DEF SyncTruncate, SyncWal, ResetWal
<1>11. CASE WriteHeader
  <2>1. main' \in MainFile /\ mainD' \in MainFile
    BY <1>11 DEF WriteHeader, SetMain, MainFile
  <2>. QED BY <1>11, <2>1 DEF WriteHeader
<1>12. CASE SyncHeader
  <2>1. CheckpointReturns(TRUE)
    BY <1>12 DEF SyncHeader
  <2>. QED BY <1>5, <1>12, <2>1 DEF SyncHeader, SyncMain
<1>13. CASE CheckpointFails
  <2>1. faults' \in 0 .. MaxFaults
    BY <1>13, LimitsAssumption DEF CheckpointFails, Fault
  <2>2. CheckpointReturns(FALSE) /\ pc \notin Opening
    BY <1>13 DEF CheckpointFails
  <2>3. UNCHANGED <<files, walMem, overlay, snaps, acked, limbo>>
    BY <1>13 DEF CheckpointFails
  <2>. QED BY <1>5, <2>1, <2>2, <2>3
<1>14. CASE Close
  <2>1. CASE Deferred
    BY <1>14, <2>1 DEF Close
  <2>2. CASE ~ Deferred
    BY <1>1, <1>14, <2>2 DEF Close
  <2>. QED BY <2>1, <2>2
<1>15. CASE RemoveWal
  <2>1. wal' \in WalFile /\ walD' \in WalFile
    BY <1>15 DEF RemoveWal, SetWal, WalFile
  <2>. QED BY <1>15, <2>1 DEF RemoveWal
<1>16. CASE DropPager
  BY <1>16, ForgetMemoryType DEF DropPager
<1>. QED BY <1>2, <1>3, <1>4, <1>6, <1>7, <1>8, <1>9, <1>10, <1>11, <1>12, <1>13, <1>14,
            <1>15, <1>16 DEF CheckpointNext

\* Readers, crashes and opens keep the types too.
LEMMA TypeRest == ASSUME TypeInv, ReaderNext \/ Crash \/ OpenNext PROVE TypeInv'
<1>. USE EmptyOverlay DEF TypeInv, TypeOK, CallShape, Opening, PCs, CheckpointCalls,
         files, walMem, overlay, call, session, history
<1>0. NoTxn \in [root : Roots, view : Overlay]
  BY DEF NoTxn
<1>1. ASSUME NEW r \in Readers, BeginRead(r) \/ EndRead(r) PROVE TypeInv'
  <2>1. [pin |-> EndLsn, view |-> view, root |-> cRoot, db |-> acked, resets |-> 0]
           \in PinnedSnap
    BY DEF PinnedSnap, EndLsn
  <2>2. snaps' \in [Readers -> PinnedSnap \cup {None}]
    BY <1>1, <2>1 DEF BeginRead, EndRead
  <2>3. UNCHANGED <<files, walMem, overlay, call, session, history>>
    BY <1>1 DEF BeginRead, EndRead
  <2>4. Staged' = Staged
    BY <2>3 DEF Staged, Entries
  <2>. HIDE DEF PinnedSnap
  <2>. QED BY <2>2, <2>3, <2>4 DEF Entries
<1>2. CASE Crash
  <2>1. main' \in MainFile /\ mainD' \in MainFile /\ wal' \in WalFile /\ walD' \in WalFile
    BY <1>2, CrashOutcomesType DEF Crash
  <2>2. limbo' \subseteq Database
    BY <1>2, TentativeType DEF Crash
  <2>3. ForgetMemory /\ UNCHANGED <<acked, faults>>
    BY <1>2 DEF Crash
  <2>. QED BY <2>1, <2>2, <2>3, ForgetMemoryType
<1>3. main.root \in Roots /\ main.salt \in Salts /\ wal.frames \in Seq(Frame)
  BY DEF MainFile, WalFile
<1>4. Recovered(main, wal) \in Database
  BY RecoveredType
<1>5. CASE OpenFails
  BY <1>5 DEF OpenFails
<1>6. CASE OpenRecover
  <2>. DEFINE n == LastCommit(wal.frames, main.salt)
  <2>1. n \in Nat /\ n \in DOMAIN wal.frames
    BY <1>3, <1>6, LastCommitType DEF OpenRecover, HasCommits
  <2>2. nextLsn' \in Nat \ {0} /\ endOff' \in Nat
    <3>1. wal.frames[n] \in Frame
      BY <1>3, <2>1
    <3>2. wal.frames[n].lsn \in Nat
      BY <3>1 DEF Frame, FrameOf
    <3>3. nextLsn' = wal.frames[n].lsn + 1 /\ endOff' = n
      BY <1>6 DEF OpenRecover
    <3>. QED BY <3>2, <3>3, <2>1
  <2>3. nFrames' \in Nat
    BY <1>3, <1>6, ReplayedType DEF OpenRecover
  <2>4. view' \in Overlay /\ viewHdr' \in Header \cup {None}
    BY <1>3, <1>6, RecoveredViewType, RecoveredHeaderType DEF OpenRecover
  <2>5. root' \in Roots /\ cRoot' \in Roots /\ acked' \in Database /\ limbo' = {}
    BY <1>4, <1>6 DEF OpenRecover, Adopt, Database
  <2>6. salt' \in Salts
    BY <1>3, <1>6 DEF OpenRecover
  <2>. QED BY <1>6, <2>2, <2>3, <2>4, <2>5, <2>6 DEF OpenRecover, Adopt
<1>7. CASE OpenFresh
  BY <1>3, <1>4, <1>7 DEF OpenFresh, Adopt, ResetOverlay
<1>8. CASE FreshTruncate
  <2>1. wal' \in WalFile /\ walD' \in WalFile
    BY <1>8 DEF FreshTruncate, SetWal, WalFile
  <2>. QED BY <1>8, <2>1 DEF FreshTruncate
<1>9. CASE FreshHeader
  <2>1. wal' \in WalFile /\ walD' \in WalFile /\ wal'.salt \in Salts
    BY <1>9 DEF FreshHeader, SetWal, WalFile
  <2>. QED BY <1>9, <2>1 DEF FreshHeader
<1>10. CASE FreshSync
  BY <1>10 DEF FreshSync, SyncWal, ResetWal
<1>11. CASE FreshStamp
  <2>1. main' \in MainFile /\ mainD' \in MainFile
    BY <1>11 DEF FreshStamp, SetMain, MainFile
  <2>. QED BY <1>11, <2>1 DEF FreshStamp
<1>12. CASE FreshStampSync
  BY <1>12 DEF FreshStampSync, SyncMain
<1>. QED BY <1>1, <1>2, <1>5, <1>6, <1>7, <1>8, <1>9, <1>10, <1>11, <1>12
         DEF ReaderNext, OpenNext

\* Types are kept by every step.
LEMMA TypeStep == TypeInv /\ [Next]_vars => TypeInv'
<1>. SUFFICES ASSUME TypeInv, [Next]_vars PROVE TypeInv'
  OBVIOUS
<1>1. CASE UNCHANGED vars
  BY <1>1 DEF vars, files, walMem, overlay, call, session, history, TypeInv, TypeOK,
              CallShape, Staged, Entries
<1>. QED BY <1>1, TypeTxn, TypeCommit, TypeCheckpoint, TypeRest DEF Next, WriterNext

\* Every variable keeps its type in every mode of failure.
THEOREM TypeCorrect == Spec => []TypeOK
<1>1. TypeInv => TypeOK
  BY DEF TypeInv
<1>. QED BY <1>1, TypeInit, TypeStep, PTL DEF Spec

-----------------------------------------------------------------------------
(* Reads.  ReadsAreCommitted speaks of the moments the pager mutex is free *)
(* and is not inductive: it must also say what a rollback will restore and *)
(* what a checkpoint has already folded into the main file.                *)

\* The write transaction can still be given up: a rollback may follow.
Revocable == txn = "ckpt" \/ (txn = "open" /\ pc \in {"idle", "frame", "walsync", "abort"})

\* What a read finds, inside a call as well.
OverlayCommitted == Running => Over(main.page, view) = acked.page /\ cRoot = acked.root

\* The header root is the committed one unless this transaction changed it.
RootCommitted ==
    /\ dirty => txn = "open" /\ pc \in {"idle", "frame", "walsync", "abort"}
    /\ Running /\ ~ dirty => root = acked.root

\* What a rollback would restore is the committed database.
SnapshotCommitted ==
    /\ Revocable => /\ Over(main.page, atBegin.view) = acked.page
                    /\ atBegin.root = acked.root
    /\ txn = "ckpt" /\ pc \in CheckpointCalls => atBegin.view = view

\* The pages a checkpoint has behind it are in the main file.
Folded ==
    /\ pc = "ckpt" => \A p \in Entries(view) \ todo : main.page[p] = view[p]
    /\ pc \in CheckpointCalls \ {"ckpt"} => \A p \in Entries(view) : main.page[p] = view[p]

\* Who may be inside which call.
Callers ==
    /\ pc \in {"frame", "walsync", "abort", "post"} => txn = "open"
    /\ pc \in Opening \cup {"fstamp", "fstamps"} => txn = "none"
    /\ pc \in {"unlink", "drop"} => txn = "close"
    /\ pc \in CheckpointCalls => txn # "none"
    /\ pc = "idle" => txn # "close"

ReadInv == OverlayCommitted /\ RootCommitted /\ SnapshotCommitted /\ Folded /\ Callers

\* A pager just opened on a clean file shows it.
LEMMA ReadInit == Init => ReadInv
<1>. SUFFICES ASSUME Init PROVE ReadInv
  OBVIOUS
<1>1. Over(main.page, Empty) = main.page
  BY OverEmpty DEF Init
<1>. QED BY <1>1 DEF Init, ReadInv, OverlayCommitted, RootCommitted, SnapshotCommitted,
             Revocable, Folded, Callers, CheckpointCalls, Opening, Running

\* Once its pages are in the main file an overlay changes nothing.
LEMMA FoldedOverlay ==
  ASSUME NEW base \in [Pages -> Vals], NEW top \in Overlay,
         \A p \in Entries(top) : base[p] = top[p]
  PROVE  Over(base, top) = base
  BY DEF Over, Overlay, Entries

\* Writing one of an overlay's pages under it changes nothing either.
LEMMA FoldOnePage ==
  ASSUME NEW base \in [Pages -> Vals], NEW top \in Overlay, NEW p \in Entries(top)
  PROVE  Over([base EXCEPT ![p] = top[p]], top) = Over(base, top)
  BY DEF Over, Overlay, Entries

\* Begin, the in-memory writes and a rollback leave what reads find alone.
LEMMA ReadTxn ==
  ASSUME TypeInv, ReadInv,
         \/ BeginWrite \/ Rollback \/ RollbackFails
         \/ \E p \in Pages, v \in Vals : WritePage(p, v)
         \/ \E r \in Roots : SetRootCatalog(r)
  PROVE  ReadInv'
<1>. USE DEF ReadInv, OverlayCommitted, RootCommitted, SnapshotCommitted, Revocable, Folded,
         Callers, CheckpointCalls, Opening, Running,
         files, walMem, overlay, call, session, history
<1>1. CASE BeginWrite
  BY <1>1 DEF BeginWrite
<1>2. ASSUME NEW p \in Pages, NEW v \in Vals, WritePage(p, v) PROVE ReadInv'
  BY <1>2 DEF WritePage
<1>3. ASSUME NEW r \in Roots, SetRootCatalog(r) PROVE ReadInv'
  BY <1>3 DEF SetRootCatalog
<1>4. CASE Rollback \/ RollbackFails
  <2>1. Revocable
    BY <1>4 DEF Rollback, RollbackFails, CanRollBack, TypeInv, TypeOK
  <2>2. main'.page = main.page
    BY <1>4 DEF Rollback, RollbackFails, SetMain, TypeInv, TypeOK, MainFile
  <2>3. /\ view' = atBegin.view /\ root' = atBegin.root /\ dirty' = FALSE
        /\ UNCHANGED <<cRoot, acked>> /\ txn' = "none" /\ pc' = "idle"
    BY <1>4 DEF Rollback, RollbackFails, RestoreSnapshot, EndTxn, Return
  <2>4. Running
    BY <1>4 DEF Rollback, RollbackFails, CanRollBack
  <2>. QED BY <2>1, <2>2, <2>3, <2>4
<1>. QED BY <1>1, <1>2, <1>3, <1>4

\* A commit moves reads to its own database in one step, its sync.
LEMMA ReadCommit ==
  ASSUME TypeInv, ReadInv,
         \/ CommitEmpty \/ CommitTooLarge \/ CommitStart
         \/ WriteFrame \/ WriteFrameFails \/ SyncCommit \/ SyncCommitFails \/ CommitReturns
  PROVE  ReadInv'
<1>. USE DEF ReadInv, OverlayCommitted, RootCommitted, SnapshotCommitted, Revocable, Folded,
         Callers, CheckpointCalls, Opening, Running,
         files, walMem, overlay, call, session, history
<1>1. CASE CommitEmpty
  <2>1. ~ dirty
    BY <1>1 DEF CommitEmpty, Staged
  <2>. QED BY <1>1, <2>1 DEF CommitEmpty
<1>2. CASE CommitTooLarge
  BY <1>2 DEF CommitTooLarge
<1>3. CASE CommitStart
  BY <1>3 DEF CommitStart
<1>4. CASE WriteFrame
  BY <1>4 DEF WriteFrame
<1>5. CASE WriteFrameFails
  BY <1>5 DEF WriteFrameFails
<1>6. CASE SyncCommit
  <2>1. /\ view' = Over(view, pending) /\ dirty' = FALSE /\ root' = root /\ main' = main
        /\ cRoot' = (IF dirty THEN root ELSE cRoot) /\ acked' = Tentative
        /\ pc' = "post" /\ txn' = txn
    BY <1>6 DEF SyncCommit, Publish, SyncWal
  <2>2. Running /\ txn = "open"
    BY <1>6 DEF SyncCommit
  <2>3. Over(main.page, Over(view, pending)) = Over(acked.page, pending)
    BY <2>2, OverOver DEF TypeInv, TypeOK, MainFile
  <2>. QED BY <2>1, <2>2, <2>3 DEF Tentative
<1>7. CASE SyncCommitFails
  BY <1>7 DEF SyncCommitFails
<1>8. CASE CommitReturns
  BY <1>8 DEF CommitReturns, EndTxn, Return
<1>. QED BY <1>1, <1>2, <1>3, <1>4, <1>5, <1>6, <1>7, <1>8

\* A checkpoint moves what reads find from the overlay to the main file.
LEMMA ReadCheckpoint == ASSUME TypeInv, ReadInv, CheckpointNext PROVE ReadInv'
<1>. USE DEF ReadInv, OverlayCommitted, RootCommitted, SnapshotCommitted, Revocable, Folded,
         Callers, CheckpointCalls, Opening, Running,
         files, walMem, overlay, call, session, history
<1>1. ASSUME StartCheckpoint, UNCHANGED <<view, main>>
      PROVE  /\ pc' = "ckpt"
             /\ \A p \in Entries(view') \ todo' : main'.page[p] = view'[p]
  BY <1>1 DEF StartCheckpoint, Entries
<1>2. CASE AutoCheckpoint
  BY <1>1, <1>2 DEF AutoCheckpoint
<1>3. CASE DbCheckpoint
  <2>1. ~ dirty
    BY <1>3 DEF DbCheckpoint
  <2>2. CASE Deferred
    BY <1>3, <2>1, <2>2 DEF DbCheckpoint
  <2>3. CASE ~ Deferred
    BY <1>1, <1>3, <2>1, <2>3 DEF DbCheckpoint
  <2>. QED BY <2>2, <2>3
<1>4. CASE CheckpointWrite
  <2>. DEFINE id == NextId(todo)
  <2>1. id \in todo
    BY <1>4, NextIdIn DEF CheckpointWrite, TypeInv, TypeOK
  <2>2. /\ main.page \in [Pages -> Vals] /\ view \in Overlay
        /\ main = [page |-> main.page, root |-> main.root, salt |-> main.salt]
    BY DEF TypeInv, TypeOK, MainFile
  <2>3. /\ todo' = todo \ {id}
        /\ UNCHANGED <<view, cRoot, acked, root, dirty, txn, atBegin, pc>>
    BY <1>4 DEF CheckpointWrite
  <2>4. CASE id = 0
    <3>1. main'.page = main.page
      BY <1>4, <2>2, <2>4 DEF CheckpointWrite, SetMain
    <3>2. Entries(view') \ todo' = Entries(view) \ todo
      BY <2>3, <2>4 DEF Entries, Pages
    <3>. QED BY <1>4, <2>3, <3>1, <3>2 DEF CheckpointWrite
  <2>5. CASE id # 0
    <3>1. id \in Entries(view)
      BY <1>4, <2>1, <2>5 DEF CheckpointWrite, TypeInv, CallShape
    <3>2. main'.page = [main.page EXCEPT ![id] = view[id]]
      BY <1>4, <2>2, <2>5 DEF CheckpointWrite, SetMain
    <3>3. Over(main'.page, view) = Over(main.page, view)
      BY <2>2, <3>1, <3>2, FoldOnePage
    <3>4. ASSUME NEW p \in Entries(view') \ todo' PROVE main'.page[p] = view'[p]
      <4>1. CASE p = id
        BY <2>2, <2>3, <3>1, <3>2, <4>1 DEF Entries
      <4>2. CASE p # id
        <5>1. p \in Entries(view) \ todo /\ p \in Pages
          BY <2>3, <3>4, <4>2 DEF Entries
        <5>2. main.page[p] = view[p]
          BY <1>4, <5>1 DEF CheckpointWrite
        <5>. QED BY <2>2, <2>3, <3>2, <4>2, <5>1, <5>2
      <4>. QED BY <4>1, <4>2
    <3>. QED BY <1>4, <2>3, <3>3, <3>4 DEF CheckpointWrite
  <2>. QED BY <2>4, <2>5
<1>5. ASSUME CheckpointReturns(TRUE) \/ CheckpointReturns(FALSE), UNCHANGED main,
             UNCHANGED <<root, dirty, cRoot, acked>>, ~ dirty,
             Over(main.page, view') = acked.page,
             txn = "ckpt" => Over(main.page, atBegin.view) = acked.page,
             pc \in CheckpointCalls \cup {"unlink"}
      PROVE  ReadInv'
  <2>1. CASE txn = "open"
    BY <1>5, <2>1 DEF CheckpointReturns, EndTxn
  <2>2. CASE txn # "open"
    BY <1>5, <2>2 DEF CheckpointReturns
  <2>. QED BY <2>1, <2>2
<1>6. CASE CheckpointSync
  <2>1. CASE NothingToDo
    BY <1>5, <1>6, <2>1 DEF CheckpointSync, SyncMain
  <2>2. CASE ~ NothingToDo
    BY <1>6, <2>2 DEF CheckpointSync, SyncMain
  <2>. QED BY <2>1, <2>2
<1>7. CASE RotateSalt
  BY <1>7 DEF RotateSalt
<1>8. CASE SyncSalt
  BY <1>8 DEF SyncSalt, SyncWal
<1>9. CASE TruncateWal
  BY <1>9 DEF TruncateWal
<1>10. CASE SyncTruncate
  BY <1>10 DEF SyncTruncate, SyncWal, ResetWal
<1>11. CASE WriteHeader
  <2>1. main'.page = main.page
    BY <1>11 DEF WriteHeader, SetMain, TypeInv, TypeOK, MainFile
  <2>. QED BY <1>11, <2>1 DEF WriteHeader
<1>12. CASE SyncHeader
  <2>1. main.page \in [Pages -> Vals] /\ view \in Overlay
    BY DEF TypeInv, TypeOK, MainFile
  <2>2. Over(main.page, view) = main.page
    BY <1>12, <2>1, FoldedOverlay DEF SyncHeader
  <2>3. view' = Empty /\ Over(main.page, Empty) = main.page
    BY <1>12, <2>1, OverEmpty DEF SyncHeader
  <2>4. Over(main.page, view') = acked.page
    BY <1>12, <2>2, <2>3 DEF SyncHeader
  <2>. QED BY <1>5, <1>12, <2>4 DEF SyncHeader, SyncMain
<1>13. CASE CheckpointFails
  BY <1>5, <1>13 DEF CheckpointFails
<1>14. CASE Close
  <2>1. ~ dirty
    BY <1>14 DEF Close
  <2>2. CASE Deferred
    BY <1>14, <2>1, <2>2 DEF Close
  <2>3. CASE ~ Deferred
    BY <1>1, <1>14, <2>1, <2>3 DEF Close
  <2>. QED BY <2>2, <2>3
<1>15. CASE RemoveWal
  BY <1>15 DEF RemoveWal
<1>16. CASE DropPager
  BY <1>16, ForgetMemoryType DEF DropPager, ForgetMemory, ResetOverlay
<1>. QED BY <1>2, <1>3, <1>4, <1>6, <1>7, <1>8, <1>9, <1>10, <1>11, <1>12, <1>13, <1>14,
            <1>15, <1>16 DEF CheckpointNext

\* What an open recovers is what it then shows.
LEMMA ReadRest == ASSUME TypeInv, ReadInv, ReaderNext \/ Crash \/ OpenNext PROVE ReadInv'
<1>. USE DEF ReadInv, OverlayCommitted, RootCommitted, SnapshotCommitted, Revocable, Folded,
         Callers, CheckpointCalls, Opening, Running,
         files, walMem, overlay, call, session, history
<1>1. ASSUME NEW r \in Readers, BeginRead(r) \/ EndRead(r) PROVE ReadInv'
  BY <1>1 DEF BeginRead, EndRead
<1>2. CASE Crash
  BY <1>2, ForgetMemoryType DEF Crash, ForgetMemory, ResetOverlay
<1>3. CASE OpenFails
  BY <1>3 DEF OpenFails
<1>4. CASE OpenRecover
  <2>1. acked' = Recovered(main, wal) /\ UNCHANGED <<main, dirty, txn>> /\ pc' = "idle"
    BY <1>4 DEF OpenRecover, Adopt
  <2>2. /\ view' = RecoveredView(wal.frames, main.salt)
        /\ root' = Recovered(main, wal).root /\ cRoot' = Recovered(main, wal).root
    BY <1>4 DEF OpenRecover
  <2>3. Recovered(main, wal).page = Over(main.page, RecoveredView(wal.frames, main.salt))
    BY <1>4 DEF OpenRecover, Recovered
  <2>4. txn = "none"
    BY <1>4 DEF OpenRecover
  <2>. QED BY <2>1, <2>2, <2>3, <2>4
<1>5. CASE OpenFresh
  <2>1. acked' = [page |-> main.page, root |-> main.root]
    BY <1>5 DEF OpenFresh, Adopt, Recovered
  <2>2. Over(main.page, Empty) = main.page
    BY OverEmpty DEF TypeInv, TypeOK, MainFile
  <2>3. /\ UNCHANGED <<main, txn>> /\ pc' = "ftrunc" /\ view' = Empty
        /\ root' = main.root /\ cRoot' = main.root /\ dirty' = FALSE
    BY <1>5 DEF OpenFresh, ResetOverlay
  <2>4. txn = "none"
    BY <1>5 DEF OpenFresh
  <2>. QED BY <2>1, <2>2, <2>3, <2>4
<1>6. CASE FreshTruncate
  BY <1>6 DEF FreshTruncate
<1>7. CASE FreshHeader
  BY <1>7 DEF FreshHeader
<1>8. CASE FreshSync
  BY <1>8 DEF FreshSync, SyncWal
<1>9. CASE FreshStamp
  <2>1. main'.page = main.page
    BY <1>9 DEF FreshStamp, SetMain, TypeInv, TypeOK, MainFile
  <2>. QED BY <1>9, <2>1 DEF FreshStamp
<1>10. CASE FreshStampSync
  BY <1>10 DEF FreshStampSync, SyncMain
<1>. QED BY <1>1, <1>2, <1>3, <1>4, <1>5, <1>6, <1>7, <1>8, <1>9, <1>10
         DEF ReaderNext, OpenNext

\* ReadInv is inductive, given the types.
LEMMA ReadStep == TypeInv /\ ReadInv /\ [Next]_vars => ReadInv'
<1>. SUFFICES ASSUME TypeInv, ReadInv, [Next]_vars PROVE ReadInv'
  OBVIOUS
<1>1. CASE UNCHANGED vars
  BY <1>1 DEF vars, files, overlay, call, session, history, ReadInv, OverlayCommitted,
              RootCommitted, SnapshotCommitted, Revocable, Folded, Callers, Running, Entries
<1>. QED BY <1>1, ReadTxn, ReadCommit, ReadCheckpoint, ReadRest DEF Next, WriterNext

\* Whatever calls fail and whenever the process crashes, a pager between two
\* calls shows the last acknowledged database: no rollback, failed commit,
\* failed or repeated checkpoint or recovery makes reads differ from it.
THEOREM ReadsCommitted == Spec => []ReadsAreCommitted
<1>1. TypeInv /\ ReadInv => ReadsAreCommitted
  BY DEF ReadInv, ReadsAreCommitted, OverlayCommitted, RootCommitted
<1>. QED BY <1>1, TypeInit, TypeStep, ReadInit, ReadStep, PTL DEF Spec

-----------------------------------------------------------------------------
(* What a pinned reader sees.  Until the WAL is first reset its pin says   *)
(* whether anything has been committed since; after that it says nothing,  *)
(* but what the first checkpoint folded was still the reader's database.   *)

Live(r) == snaps[r] # None
\* The reader has seen no reset, or one and no second is on its way.
PinHolds(r) == Live(r) /\ snaps[r].resets = 0
Folding == \/ pc = "ckpt" /\ ~ NothingToDo
           \/ pc \in {"saltw", "salts", "trunc", "truncs"}
Shielded(r) == Live(r) /\ (snaps[r].resets = 0 \/ (snaps[r].resets = 1 /\ ~ Folding))

\* A pin is no later than the last LSN, and at it nothing is newer.
PinInv == \A r \in Readers : PinHolds(r) =>
    /\ snaps[r].pin <= EndLsn
    /\ snaps[r].pin = EndLsn => acked = snaps[r].db
    /\ pc = "walsync" => snaps[r].pin < EndLsn
    /\ pc \in CheckpointCalls => snaps[r].pin >= EndLsn
ShieldInv == \A r \in Readers : Shielded(r) => Stable(r)
NoSnaps == pc \in Opening \cup {"fstamp", "fstamps"} => \A r \in Readers : ~ Live(r)
PostReset == pc \in {"hdrw", "hdrs"} => \A r \in Readers : ~ PinHolds(r)
SnapInv == PinInv /\ ShieldInv /\ NoSnaps /\ PostReset

\* A snapshot is a record of its own type.
LEMMA SnapType ==
  ASSUME TypeOK, NEW r \in Readers, Live(r)
  PROVE  /\ snaps[r] \in PinnedSnap /\ snaps[r].pin \in Nat /\ snaps[r].view \in Overlay
         /\ snaps[r].db \in Database /\ snaps[r].resets \in 0 .. 2
         /\ EndLsn \in Nat
  BY DEF TypeOK, Live, PinnedSnap, EndLsn

\* Steps that move no pages, no LSNs and no snapshots.
LEMMA SnapUnmoved ==
  ASSUME SnapInv, UNCHANGED <<snaps, acked, nextLsn>>, main'.page = main.page,
         pc' = "walsync" => pc = "walsync",
         pc' \in CheckpointCalls => pc \in CheckpointCalls \/ ~ Deferred,
         pc' \in Opening \cup {"fstamp", "fstamps"} => pc \in Opening \cup {"fstamp", "fstamps"},
         pc' \in {"hdrw", "hdrs"} => pc \in {"hdrw", "hdrs"},
         Folding => Folding',
         TypeInv
  PROVE  SnapInv'
<1>1. ASSUME NEW r \in Readers, PinHolds(r)', pc' \in CheckpointCalls
      PROVE  snaps'[r].pin >= EndLsn'
  <2>1. PinHolds(r) /\ EndLsn' = EndLsn /\ snaps[r].pin \in Nat /\ EndLsn \in Nat
    BY <1>1, SnapType DEF PinHolds, Live, EndLsn, TypeInv
  <2>2. CASE pc \in CheckpointCalls
    BY <2>1, <2>2 DEF SnapInv, PinInv
  <2>3. CASE ~ Deferred
    BY <2>1, <2>3 DEF Deferred, PinHolds, Live
  <2>. QED BY <1>1, <2>2, <2>3
<1>2. PinInv'
  BY <1>1 DEF SnapInv, PinInv, PinHolds, Live, EndLsn
<1>3. ShieldInv'
  <2>1. \A r \in Readers : Shielded(r)' => Shielded(r)
    BY DEF Shielded, Live
  <2>2. \A r \in Readers : Stable(r) => Stable(r)'
    BY DEF Stable, SnapRead
  <2>. QED BY <2>1, <2>2 DEF SnapInv, ShieldInv
<1>4. NoSnaps' /\ PostReset'
  BY DEF SnapInv, NoSnaps, PostReset, PinHolds, Live
<1>. QED BY <1>2, <1>3, <1>4 DEF SnapInv

\* A process that has just died or opened has no snapshots.
LEMMA SnapNone == ASSUME \A r \in Readers : ~ Live(r)' PROVE SnapInv'
  BY DEF SnapInv, PinInv, ShieldInv, NoSnaps, PostReset, PinHolds, Shielded

\* The writer puts every pin behind it before it commits.
LEMMA SnapWriter == ASSUME TypeInv, ReadInv, SnapInv, WriterNext PROVE SnapInv'
<1>. USE DEF files, walMem, overlay, call, session, history
<1>1. CASE BeginWrite \/ (\E p \in Pages, v \in Vals : WritePage(p, v))
           \/ (\E r \in Roots : SetRootCatalog(r))
  BY <1>1, SnapUnmoved DEF BeginWrite, WritePage, SetRootCatalog, Folding, CheckpointCalls,
                           Opening
<1>2. CASE Rollback \/ RollbackFails
  <2>1. main'.page = main.page
    BY <1>2 DEF Rollback, RollbackFails, SetMain, TypeInv, TypeOK, MainFile
  <2>2. pc \in {"idle", "abort"} /\ pc' = "idle" /\ UNCHANGED <<snaps, acked, nextLsn>>
    BY <1>2 DEF Rollback, RollbackFails, CanRollBack, Return
  <2>. QED BY <2>1, <2>2, SnapUnmoved DEF Folding, CheckpointCalls, Opening
<1>3. CASE CommitEmpty \/ CommitTooLarge \/ CommitStart \/ CommitReturns \/ SyncCommitFails
  <2>1. /\ pc \in {"idle", "post", "walsync"} /\ pc' \in {"idle", "post", "abort", "frame"}
        /\ UNCHANGED <<main, snaps, acked, nextLsn>>
    BY <1>3 DEF CommitEmpty, CommitTooLarge, CommitStart, CommitReturns, SyncCommitFails, Return
  <2>. QED BY <2>1, SnapUnmoved DEF Folding, CheckpointCalls, Opening
<1>4. CASE WriteFrame \/ WriteFrameFails
  <2>1. /\ pc = "frame" /\ pc' \in {"frame", "walsync", "abort"} /\ nextLsn' = nextLsn + 1
        /\ UNCHANGED <<main, snaps, acked>>
    BY <1>4 DEF WriteFrame, WriteFrameFails
  <2>2. PinInv'
    <3>1. ASSUME NEW r \in Readers, PinHolds(r)'
          PROVE  snaps'[r].pin < EndLsn' /\ snaps'[r].pin <= EndLsn' /\ snaps'[r].pin # EndLsn'
      <4>1. PinHolds(r) /\ snaps[r].pin <= EndLsn /\ snaps[r].pin \in Nat /\ nextLsn \in Nat
        BY <2>1, <3>1, SnapType DEF PinHolds, Live, SnapInv, PinInv, TypeInv, TypeOK
      <4>. QED BY <2>1, <4>1 DEF EndLsn
    <3>. QED BY <2>1, <3>1 DEF PinInv, CheckpointCalls
  <2>3. ShieldInv'
    BY <2>1 DEF SnapInv, ShieldInv, Shielded, Folding, Live, Stable, SnapRead
  <2>. QED BY <2>1, <2>2, <2>3 DEF SnapInv, NoSnaps, PostReset, Opening
<1>5. CASE SyncCommit
  <2>1. /\ pc = "walsync" /\ pc' = "post" /\ UNCHANGED <<main, snaps, nextLsn>>
    BY <1>5 DEF SyncCommit, SyncWal
  <2>2. PinInv'
    <3>1. ASSUME NEW r \in Readers, PinHolds(r)'
          PROVE  snaps'[r].pin <= EndLsn' /\ snaps'[r].pin # EndLsn'
      <4>1. PinHolds(r) /\ snaps[r].pin < EndLsn /\ snaps[r].pin \in Nat /\ EndLsn \in Nat
        BY <2>1, <3>1, SnapType DEF PinHolds, Live, SnapInv, PinInv, TypeInv
      <4>. QED BY <2>1, <4>1 DEF EndLsn
    <3>. QED BY <2>1, <3>1 DEF PinInv, CheckpointCalls
  <2>3. ShieldInv'
    BY <2>1 DEF SnapInv, ShieldInv, Shielded, Folding, Live, Stable, SnapRead
  <2>. QED BY <2>1, <2>2, <2>3 DEF SnapInv, NoSnaps, PostReset, Opening
<1>. QED BY <1>1, <1>2, <1>3, <1>4, <1>5 DEF WriterNext

\* A checkpoint that finds every pin at the last LSN folds the database the
\* readers have; only the next one, for which they have no pin, may not.
LEMMA SnapCheckpoint ==
  ASSUME TypeInv, ReadInv, SnapInv, CheckpointNext, FaultPoints \cap CheckpointCalls = {}
  PROVE  SnapInv'
<1>. USE DEF files, walMem, overlay, call, session, history
<1>1. CASE AutoCheckpoint \/ DbCheckpoint \/ Close
  <2>1. /\ pc \in {"idle", "post"} /\ pc' \in {"idle", "ckpt", "unlink"}
        /\ pc' = "ckpt" => ~ Deferred
        /\ UNCHANGED <<main, snaps, acked, nextLsn>>
    BY <1>1 DEF AutoCheckpoint, DbCheckpoint, Close, StartCheckpoint, AutoCheckpointDue
  <2>. QED BY <2>1, SnapUnmoved DEF Folding, CheckpointCalls, Opening
<1>2. CASE CheckpointWrite
  <2>. DEFINE id == NextId(todo)
  <2>1. /\ pc = "ckpt" /\ pc' = pc /\ todo # {} /\ UNCHANGED <<view, viewHdr, snaps, acked, nextLsn>>
    BY <1>2 DEF CheckpointWrite
  <2>2. id \in todo /\ id \in Entries(view) \cup (IF viewHdr = None THEN {} ELSE {0})
    BY <2>1, NextIdIn DEF TypeInv, TypeOK, CallShape
  <2>3. Folding /\ Folding'
    BY <2>1, <2>2 DEF Folding, NothingToDo, Entries
  <2>4. main \in MainFile /\ main.page \in [Pages -> Vals] /\ acked.page = Over(main.page, view)
    BY <2>1 DEF TypeInv, TypeOK, MainFile, ReadInv, OverlayCommitted, Running
  <2>5. \A p \in Pages : \/ main'.page[p] = main.page[p]
                         \/ main'.page[p] = view[p] /\ view[p] # None
    <3>1. CASE id = 0
      BY <1>2, <2>4, <3>1 DEF CheckpointWrite, SetMain, MainFile
    <3>2. CASE id # 0
      <4>1. id \in Pages /\ view[id] # None
        BY <2>2, <3>2 DEF Entries
      <4>2. main'.page = [main.page EXCEPT ![id] = view[id]]
        BY <1>2, <2>4, <3>2 DEF CheckpointWrite, SetMain, MainFile
      <4>. QED BY <2>4, <4>1, <4>2
    <3>. QED BY <3>1, <3>2
  <2>6. \A p \in Pages : main'.page[p] \in {main.page[p], acked.page[p]}
    BY <2>4, <2>5 DEF Over
  <2>7. ASSUME NEW r \in Readers, Shielded(r)' PROVE Stable(r)'
    <3>1. PinHolds(r) /\ Shielded(r)
      BY <2>1, <2>3, <2>7 DEF Shielded, PinHolds, Live
    <3>2. acked = snaps[r].db
      <4>1. snaps[r].pin <= EndLsn /\ snaps[r].pin >= EndLsn
        BY <2>1, <3>1 DEF SnapInv, PinInv, CheckpointCalls
      <4>2. snaps[r].pin = EndLsn
        BY <3>1, <4>1, SnapType DEF PinHolds, TypeInv
      <4>. QED BY <3>1, <4>2 DEF SnapInv, PinInv
    <3>3. Stable(r)
      BY <3>1 DEF SnapInv, ShieldInv
    <3>. QED BY <2>1, <2>6, <3>2, <3>3 DEF Stable, SnapRead
  <2>8. PinInv' /\ NoSnaps' /\ PostReset'
    BY <2>1 DEF SnapInv, PinInv, NoSnaps, PostReset, PinHolds, Live, EndLsn
  <2>. QED BY <2>7, <2>8 DEF SnapInv, ShieldInv
<1>3. CASE CheckpointSync
  <2>1. /\ pc = "ckpt" /\ pc' \in {"idle", "unlink", "drop", "saltw"}
        /\ pc' # "saltw" => NothingToDo
        /\ UNCHANGED <<main, snaps, acked, nextLsn>>
    BY <1>3 DEF CheckpointSync, SyncMain, CheckpointReturns
  <2>. QED BY <2>1, SnapUnmoved DEF Folding, CheckpointCalls, Opening
<1>4. CASE RotateSalt \/ SyncSalt \/ TruncateWal
  <2>1. /\ pc \in {"saltw", "salts", "trunc"} /\ pc' \in {"salts", "trunc", "truncs"}
        /\ UNCHANGED <<main, snaps, acked, nextLsn>>
    BY <1>4 DEF RotateSalt, SyncSalt, TruncateWal, SyncWal
  <2>. QED BY <2>1, SnapUnmoved DEF Folding, CheckpointCalls, Opening
<1>5. CASE SyncTruncate
  <2>1. /\ pc' = "hdrw" /\ UNCHANGED <<main, acked>>
        /\ snaps' = [r \in Readers |->
                        IF snaps[r] = None THEN None
                        ELSE [snaps[r] EXCEPT !.resets = IF @ = 0 THEN 1 ELSE 2]]
    BY <1>5 DEF SyncTruncate, SyncWal
  <2>2. ASSUME NEW r \in Readers, Live(r)'
        PROVE  /\ Live(r) /\ snaps'[r].resets = (IF snaps[r].resets = 0 THEN 1 ELSE 2)
               /\ snaps'[r].db = snaps[r].db /\ snaps'[r].root = snaps[r].root
               /\ snaps'[r].view = snaps[r].view
    <3>1. Live(r) /\ snaps'[r] = [snaps[r] EXCEPT !.resets = IF @ = 0 THEN 1 ELSE 2]
      BY <2>1, <2>2 DEF Live
    <3>2. snaps[r] \in PinnedSnap
      BY <3>1, SnapType DEF TypeInv
    <3>. QED BY <3>1, <3>2 DEF PinnedSnap
  <2>3. ASSUME NEW r \in Readers, Shielded(r)' PROVE Stable(r)'
    <3>1. Live(r) /\ snaps[r].resets = 0
      BY <2>2, <2>3 DEF Shielded
    <3>2. Stable(r)
      BY <3>1 DEF SnapInv, ShieldInv, Shielded
    <3>. QED BY <2>1, <2>2, <2>3, <3>2 DEF Stable, SnapRead, Shielded
  <2>4. \A r \in Readers : ~ PinHolds(r)'
    BY <2>2 DEF PinHolds
  <2>5. PinInv'
    BY <2>4 DEF PinInv
  <2>6. ShieldInv'
    BY <2>3 DEF ShieldInv
  <2>. QED BY <2>1, <2>4, <2>5, <2>6 DEF SnapInv, NoSnaps, PostReset, Opening
<1>6. CASE WriteHeader
  <2>1. main'.page = main.page
    BY <1>6 DEF WriteHeader, SetMain, TypeInv, TypeOK, MainFile
  <2>. QED BY <1>6, <2>1, SnapUnmoved DEF WriteHeader, Folding, CheckpointCalls, Opening
<1>7. CASE SyncHeader
  <2>1. /\ pc = "hdrs" /\ pc' \in {"idle", "unlink", "drop"}
        /\ UNCHANGED <<main, snaps, acked, nextLsn>>
    BY <1>7 DEF SyncHeader, SyncMain, CheckpointReturns
  <2>. QED BY <2>1, SnapUnmoved DEF Folding, CheckpointCalls, Opening
<1>8. CASE CheckpointFails
  <2>1. /\ pc = "unlink" /\ pc' \in {"idle", "unlink", "drop"}
        /\ UNCHANGED <<main, snaps, acked, nextLsn>>
    BY <1>8 DEF CheckpointFails, Fault, CheckpointReturns
  <2>. QED BY <2>1, SnapUnmoved DEF Folding, CheckpointCalls, Opening
<1>9. CASE RemoveWal
  BY <1>9, SnapUnmoved DEF RemoveWal, Folding, CheckpointCalls, Opening
<1>10. CASE DropPager
  BY <1>10, SnapNone DEF DropPager, ForgetMemory, Live
<1>. QED BY <1>1, <1>2, <1>3, <1>4, <1>5, <1>6, <1>7, <1>8, <1>9, <1>10 DEF CheckpointNext

\* A reader starts with what is committed; a crash ends it.
LEMMA SnapRest == ASSUME TypeInv, ReadInv, SnapInv, ReaderNext \/ Crash \/ OpenNext PROVE SnapInv'
<1>. USE DEF files, walMem, overlay, call, session, history
<1>1. ASSUME NEW r \in Readers, BeginRead(r) PROVE SnapInv'
  <2>1. /\ pc \in {"idle", "abort"} /\ UNCHANGED <<main, pc, view, viewHdr, acked, nextLsn>>
        /\ snaps' = [snaps EXCEPT ![r] = [pin |-> EndLsn, view |-> view, root |-> cRoot,
                                           db |-> acked, resets |-> 0]]
    BY <1>1 DEF BeginRead, MutexFree
  <2>2. snaps'[r] = [pin |-> EndLsn, view |-> view, root |-> cRoot, db |-> acked, resets |-> 0]
        /\ \A q \in Readers \ {r} : snaps'[q] = snaps[q]
    BY <2>1 DEF TypeInv, TypeOK
  <2>3. EndLsn' = EndLsn /\ EndLsn \in Nat
    BY <2>1 DEF EndLsn, TypeInv, TypeOK
  <2>4. Stable(r)'
    <3>1. acked.page = Over(main.page, view) /\ cRoot = acked.root
      BY <2>1 DEF ReadInv, OverlayCommitted, Running
    <3>2. \A p \in Pages : SnapRead(r, p)' = Over(main.page, view)[p]
      BY <2>1, <2>2 DEF SnapRead, Over
    <3>. QED BY <2>2, <3>1, <3>2 DEF Stable
  <2>5. ASSUME NEW q \in Readers, Shielded(q)' PROVE Stable(q)'
    <3>1. CASE q # r
      <4>1. Shielded(q)
        BY <2>1, <2>2, <2>5, <3>1 DEF Shielded, Live, Folding, NothingToDo
      <4>2. Stable(q)
        BY <4>1 DEF SnapInv, ShieldInv
      <4>. QED BY <2>1, <2>2, <3>1, <4>2 DEF Stable, SnapRead
    <3>. QED BY <2>4, <3>1
  <2>6. PinInv'
    <3>1. ASSUME NEW q \in Readers, PinHolds(q)'
          PROVE  /\ snaps'[q].pin <= EndLsn'
                 /\ snaps'[q].pin = EndLsn' => acked' = snaps'[q].db
      <4>1. CASE q = r
        BY <2>1, <2>2, <2>3, <4>1
      <4>2. CASE q # r
        BY <2>1, <2>2, <2>3, <3>1, <4>2 DEF SnapInv, PinInv, PinHolds, Live
      <4>. QED BY <4>1, <4>2
    <3>. QED BY <2>1, <3>1 DEF PinInv, CheckpointCalls
  <2>. QED BY <2>1, <2>5, <2>6 DEF SnapInv, ShieldInv, NoSnaps, PostReset, Opening
<1>2. ASSUME NEW r \in Readers, EndRead(r) PROVE SnapInv'
  <2>1. /\ UNCHANGED <<main, pc, view, viewHdr, acked, nextLsn>>
        /\ snaps'[r] = None /\ \A q \in Readers \ {r} : snaps'[q] = snaps[q]
    BY <1>2 DEF EndRead, TypeInv, TypeOK
  <2>2. \A q \in Readers : Live(q)' => q # r /\ Live(q) /\ snaps'[q] = snaps[q]
    BY <2>1 DEF Live
  <2>3. PinInv'
    BY <2>1, <2>2 DEF SnapInv, PinInv, PinHolds, EndLsn
  <2>4. \A q \in Readers : Shielded(q)' => Shielded(q) /\ snaps'[q] = snaps[q]
    BY <2>1, <2>2 DEF Shielded, Folding, NothingToDo
  <2>5. ShieldInv'
    BY <2>1, <2>4 DEF SnapInv, ShieldInv, Stable, SnapRead
  <2>6. NoSnaps' /\ PostReset'
    BY <2>1, <2>2 DEF SnapInv, NoSnaps, PostReset, PinHolds
  <2>. QED BY <2>3, <2>5, <2>6 DEF SnapInv
<1>3. CASE Crash
  BY <1>3, SnapNone DEF Crash, ForgetMemory, Live
<1>4. CASE OpenNext
  <2>1. pc \in Opening \cup {"fstamp", "fstamps"} /\ snaps' = snaps
    BY <1>4 DEF OpenNext, OpenFails, OpenRecover, OpenFresh, FreshTruncate, FreshHeader,
                FreshSync, FreshStamp, FreshStampSync, Opening
  <2>2. \A r \in Readers : ~ Live(r)'
    BY <2>1 DEF SnapInv, NoSnaps, Live
  <2>. QED BY <2>2, SnapNone
<1>. QED BY <1>1, <1>2, <1>3, <1>4 DEF ReaderNext

\* A reader keeps the database of its begin (Pager::reader_snapshot,
\* ReaderSnapshot::read_page) through every commit, rollback, failed commit
\* and checkpoint, until the WAL is reset a second time: for any number of
\* readers, as long as no checkpoint fails half-way.
THEOREM SnapshotsKept ==
  ASSUME FaultPoints \cap CheckpointCalls = {}
  PROVE  Spec => []SnapshotsStableForOneReset
<1>1. Init => SnapInv
  <2>. SUFFICES ASSUME Init PROVE SnapInv
    OBVIOUS
  <2>1. \A r \in Readers : ~ Live(r)
    BY DEF Init, Live
  <2>. QED BY <2>1 DEF SnapInv, PinInv, ShieldInv, NoSnaps, PostReset, PinHolds, Shielded
<1>2. TypeInv /\ ReadInv /\ SnapInv /\ [Next]_vars => SnapInv'
  <2>. SUFFICES ASSUME TypeInv, ReadInv, SnapInv, [Next]_vars PROVE SnapInv'
    OBVIOUS
  <2>1. CASE UNCHANGED vars
    <3>1. UNCHANGED <<main, pc, view, viewHdr, snaps, acked, nextLsn>>
      BY <2>1 DEF vars, files, walMem, overlay, call, history
    <3>. QED BY <3>1, SnapUnmoved DEF Folding, NothingToDo
  <2>. QED BY <2>1, SnapWriter, SnapCheckpoint, SnapRest DEF Next
<1>3. TypeInv /\ SnapInv => SnapshotsStableForOneReset
  <2>. SUFFICES ASSUME TypeInv, SnapInv, NEW r \in Readers, MutexFree, Live(r),
                       snaps[r].resets < 2
                PROVE  Stable(r)
    BY DEF SnapshotsStableForOneReset, Live
  <2>1. snaps[r].resets \in {0, 1}
    BY SnapType DEF TypeInv
  <2>. QED BY <2>1 DEF SnapInv, ShieldInv, Shielded, Folding, MutexFree
<1>. QED BY <1>1, <1>2, <1>3, TypeInit, TypeStep, ReadInit, ReadStep, PTL DEF Spec

-----------------------------------------------------------------------------
(* The log.                                                                *)

\* The header page and the data pages, and what a database has of them.
Ids == 0 .. NumPages
PageOf(db, p) == IF p = 0 THEN db.root ELSE db.page[p]

\* Frame i ends a commit of generation s.
Marked(F, s, i) == Current(F[i], s) /\ F[i].commit

\* No frame of generation s up to e is torn.
Whole(F, s, e) == e \in 0 .. Len(F) /\ \A i \in 1 .. e : F[i].salt = s => F[i].ok

\* What recovery replays of generation s is the frames up to e.
Log(F, s, e) ==
    /\ Whole(F, s, e)
    /\ e > 0 => Marked(F, s, e)
    /\ \A i \in DOMAIN F : i > e => ~ Marked(F, s, i)

\* The last body the log gives page p.
Written(F, s, e, p) == {i \in 1 .. e : F[i].salt = s /\ F[i].id = p}
At(F, s, e, p) == LET w == Written(F, s, e, p) IN IF w = {} THEN None ELSE F[Max(w)].body

\* Page 0 is not a data page.
LEMMA IdsArePages == Ids = Pages \cup {0} /\ 0 \notin Pages
  BY DEF Ids, Pages

\* The newest frame of a page is one of its frames.
LEMMA WrittenMax ==
  ASSUME NEW F, NEW s, NEW e \in Nat, NEW p, Written(F, s, e, p) # {}
  PROVE  LET i == Max(Written(F, s, e, p))
         IN  /\ i \in 1 .. e /\ F[i].salt = s /\ F[i].id = p
             /\ \A j \in 1 .. e : F[j].salt = s /\ F[j].id = p => i >= j
<1>. DEFINE w == Written(F, s, e, p)
<1>1. w \in SUBSET (0 .. e) /\ w # {}
  BY DEF Written
<1>2. \A j : j \in w <=> j \in 1 .. e /\ F[j].salt = s /\ F[j].id = p
  BY DEF Written
<1>. HIDE DEF w
<1>3. Max(w) \in w /\ \A j \in w : Max(w) >= j
  BY <1>1, MaxIn
<1>4. /\ Max(w) \in 1 .. e /\ F[Max(w)].salt = s /\ F[Max(w)].id = p
      /\ \A j \in 1 .. e : F[j].salt = s /\ F[j].id = p => Max(w) >= j
  BY <1>2, <1>3
<1>. QED BY <1>4 DEF w

\* Two WALs that agree up to e have the same log.
LEMMA AtAgree ==
  ASSUME NEW F, NEW G, NEW s, NEW e \in Nat, NEW p, \A i \in 1 .. e : F[i] = G[i]
  PROVE  At(F, s, e, p) = At(G, s, e, p)
<1>1. Written(F, s, e, p) = Written(G, s, e, p)
  BY DEF Written
<1>2. CASE Written(F, s, e, p) = {}
  BY <1>1, <1>2 DEF At
<1>3. CASE Written(F, s, e, p) # {}
  <2>1. Max(Written(F, s, e, p)) \in 1 .. e
    BY <1>3, WrittenMax
  <2>. QED BY <1>1, <1>3, <2>1 DEF At
<1>. QED BY <1>2, <1>3

\* The log has an entry of a page exactly if it has a frame of it, and the
\* entry is a body of that page.
LEMMA AtType ==
  ASSUME NEW F \in Seq(Frame), NEW s, NEW e \in 0 .. Len(F), NEW p \in Ids,
         Written(F, s, e, p) # {}
  PROVE  At(F, s, e, p) \in (IF p = 0 THEN Roots ELSE Vals) /\ At(F, s, e, p) # None
<1>. DEFINE i == Max(Written(F, s, e, p))
<1>1. i \in 1 .. e /\ F[i].id = p
  <2>1. e \in Nat
    OBVIOUS
  <2>. QED BY <2>1, WrittenMax
<1>2. F[i] \in Frame /\ At(F, s, e, p) = F[i].body
  BY <1>1 DEF At
<1>. HIDE DEF i
<1>3. F[i].body \in (IF p = 0 THEN Roots ELSE Vals)
  BY <1>1, <1>2 DEF Frame, FrameOf, Pages
<1>. QED BY <1>2, <1>3

\* Frame n, the one after frame e, is of generation s.
After(F, s, e, n) == e \in Nat /\ n \in Nat /\ e < n /\ n <= e + 1 /\ F[n].salt = s

\* One more frame of this generation is one more page of the log.
LEMMA AtExtend ==
  ASSUME NEW F, NEW s, NEW e, NEW n, After(F, s, e, n)
  PROVE  \A p : At(F, s, n, p) = IF p = F[n].id THEN F[n].body ELSE At(F, s, e, p)
<1>. SUFFICES ASSUME NEW p
              PROVE  At(F, s, n, p) = IF p = F[n].id THEN F[n].body ELSE At(F, s, e, p)
  OBVIOUS
<1>. USE DEF After
<1>0. n \in 1 .. n /\ \A i \in 1 .. n : i = n \/ i \in 1 .. e
  OBVIOUS
<1>1. CASE p = F[n].id
  <2>1. n \in Written(F, s, n, p)
    BY <1>0, <1>1 DEF Written
  <2>2. Max(Written(F, s, n, p)) \in 1 .. n /\ Max(Written(F, s, n, p)) >= n
    BY <1>0, <1>1, <2>1, WrittenMax
  <2>3. Max(Written(F, s, n, p)) = n
    BY <1>0, <2>2
  <2>. QED BY <1>1, <2>1, <2>3 DEF At
<1>2. CASE p # F[n].id
  <2>0. \A i \in 1 .. e : i \in 1 .. n
    OBVIOUS
  <2>1. Written(F, s, n, p) = Written(F, s, e, p)
    BY <1>0, <1>2, <2>0 DEF Written
  <2>. QED BY <1>2, <2>1 DEF At
<1>. QED BY <1>1, <1>2

\* Pass 1 of recovery finds the end of the log.
LEMMA LogEnd ==
  ASSUME NEW F \in Seq(Frame), NEW s, NEW e, Log(F, s, e)
  PROVE  LastCommit(F, s) = e /\ e \in Nat /\ e \in 0 .. Len(F)
<1>. DEFINE S == {0} \cup {i \in DOMAIN F : Current(F[i], s) /\ F[i].commit}
<1>1. Len(F) \in Nat /\ S \in SUBSET (0 .. Len(F)) /\ S # {}
  OBVIOUS
<1>2. e \in 0 .. Len(F) /\ e \in S
  BY DEF Log, Whole, Marked
<1>3. \A i \in S : e >= i
  BY <1>2 DEF Log, Marked
<1>4. LastCommit(F, s) = Max(S)
  BY DEF LastCommit
<1>. HIDE DEF S
<1>5. Max(S) \in S /\ Max(S) >= e
  BY <1>1, <1>2, MaxIn
<1>6. Max(S) \in 0 .. Len(F) /\ e >= Max(S)
  BY <1>1, <1>3, <1>5
<1>. QED BY <1>1, <1>2, <1>4, <1>5, <1>6

\* Conversely, a WAL that recovery does not refuse is a log.
LEMMA LogFound ==
  ASSUME NEW F \in Seq(Frame), NEW s,
         \A i \in 1 .. LastCommit(F, s) : F[i].salt = s => F[i].ok
  PROVE  Log(F, s, LastCommit(F, s))
<1>. DEFINE S == {0} \cup {i \in DOMAIN F : Current(F[i], s) /\ F[i].commit}
<1>1. Len(F) \in Nat /\ S \in SUBSET (0 .. Len(F)) /\ S # {}
  OBVIOUS
<1>2. Max(S) \in S /\ \A i \in S : Max(S) >= i
  BY <1>1, MaxIn
<1>3. LastCommit(F, s) = Max(S)
  BY DEF LastCommit
<1>4. Max(S) \in 0 .. Len(F)
  BY <1>1, <1>2
<1>5. Max(S) > 0 => Marked(F, s, Max(S))
  BY <1>2 DEF Marked
<1>6. ASSUME NEW i \in DOMAIN F, i > Max(S) PROVE ~ Marked(F, s, i)
  <2>1. i \notin S
    <3>. HIDE DEF S
    <3>. QED BY <1>2, <1>4, <1>6
  <2>. QED BY <2>1 DEF Marked
<1>. QED BY <1>3, <1>4, <1>5, <1>6 DEF Log, Whole

\* Pass 2 replays the log.
LEMMA LogReplayed ==
  ASSUME NEW F \in Seq(Frame), NEW s, NEW e, Log(F, s, e)
  PROVE  \A p : OfPage(F, s, p) = Written(F, s, e, p)
<1>1. LastCommit(F, s) = e
  BY LogEnd
<1>. QED BY <1>1 DEF OfPage, Replayed, Written, Current, Log, Whole

\* A WAL of the main file's generation opens, to its log over the main file.
LEMMA RecoverLog ==
  ASSUME NEW m \in MainFile, NEW w \in WalFile, NEW db \in Database, NEW e,
         w.salt = m.salt, Log(w.frames, m.salt, e),
         \A p \in Ids : \/ At(w.frames, m.salt, e, p) = PageOf(db, p)
                        \/ At(w.frames, m.salt, e, p) = None /\ PageOf(m, p) = PageOf(db, p)
  PROVE  ~ Corrupt(m, w) /\ Recovered(m, w) = db
<1>. DEFINE F == w.frames
            s == m.salt
<1>0. F \in Seq(Frame) /\ e \in 0 .. Len(F)
  BY DEF WalFile, Log, Whole
<1>1. LastCommit(F, s) = e /\ \A p : OfPage(F, s, p) = Written(F, s, e, p)
  BY <1>0, LogEnd, LogReplayed
<1>2. ~ Corrupt(m, w)
  BY <1>1 DEF Corrupt, Log, Whole
<1>3. m.page \in [Pages -> Vals] /\ db.page \in [Pages -> Vals] /\ db.root \in Roots
  BY DEF MainFile, Database
<1>4. db = [page |-> db.page, root |-> db.root]
  BY DEF Database
<1>5. CASE e = 0
  <2>1. \A p : Written(F, s, e, p) = {}
    BY <1>5 DEF Written
  <2>2. \A p \in Ids : At(F, s, e, p) = None
    BY <2>1 DEF At
  <2>3. \A p \in Ids : PageOf(db, p) # None
    BY <1>3, IdsArePages DEF PageOf
  <2>4. \A p \in Ids : PageOf(m, p) = PageOf(db, p)
    BY <2>2, <2>3
  <2>5. m.page = db.page /\ m.root = db.root
    BY <1>3, <2>4, IdsArePages DEF PageOf
  <2>. QED BY <1>1, <1>2, <1>4, <1>5, <2>5 DEF Recovered, HasCommits
<1>6. CASE e # 0
  <2>1. HasCommits(m, w)
    BY <1>0, <1>1, <1>6 DEF HasCommits
  <2>2. \A p \in Pages : RecoveredView(F, s)[p] = At(F, s, e, p)
    BY <1>1 DEF RecoveredView, At
  <2>3. ASSUME NEW p \in Pages
        PROVE  (IF RecoveredView(F, s)[p] = None THEN m.page[p] ELSE RecoveredView(F, s)[p])
                 = db.page[p]
    <3>1. p \in Ids /\ p # 0
      BY IdsArePages
    <3>2. db.page[p] # None
      BY <1>3
    <3>. QED BY <2>2, <3>1, <3>2 DEF PageOf
  <2>4. Over(m.page, RecoveredView(F, s)) = db.page
    BY <1>3, <2>3 DEF Over
  <2>5. CASE Written(F, s, e, 0) = {}
    <3>1. RecoveredHeader(F, s) = None
      BY <1>1, <2>5 DEF RecoveredHeader
    <3>2. m.root = db.root
      <4>1. At(F, s, e, 0) = None
        BY <2>5 DEF At
      <4>. QED BY <1>3, <4>1, IdsArePages DEF PageOf
    <3>. QED BY <1>2, <1>4, <2>1, <2>4, <3>1, <3>2 DEF Recovered
  <2>6. CASE Written(F, s, e, 0) # {}
    <3>1. RecoveredHeader(F, s) = [root |-> At(F, s, e, 0), salt |-> s]
      BY <1>1, <2>6 DEF RecoveredHeader, At
    <3>2. At(F, s, e, 0) # None
      BY <1>0, <2>6, AtType, IdsArePages
    <3>3. At(F, s, e, 0) = db.root
      BY <3>2, IdsArePages DEF PageOf
    <3>5. RecoveredHeader(F, s) # None /\ RecoveredHeader(F, s).root = db.root
      BY <1>3, <3>1, <3>3, NoneAssumption DEF Header, MainFile
    <3>. QED BY <1>2, <1>4, <2>1, <2>4, <3>5 DEF Recovered
  <2>. QED BY <2>5, <2>6
<1>. QED BY <1>5, <1>6

\* A WAL of another generation is not replayed.
LEMMA RecoverMain ==
  ASSUME NEW m \in MainFile, NEW w \in WalFile, NEW db \in Database,
         w.salt # m.salt, \A p \in Ids : PageOf(m, p) = PageOf(db, p)
  PROVE  ~ Corrupt(m, w) /\ Recovered(m, w) = db
<1>1. m.page = db.page /\ m.root = db.root
  BY IdsArePages DEF PageOf, MainFile, Database
<1>2. db = [page |-> db.page, root |-> db.root]
  BY DEF Database
<1>. QED BY <1>1, <1>2 DEF Recovered, HasCommits, Corrupt

-----------------------------------------------------------------------------
(* Files and the databases they carry.                                     *)

\* Files m and w, all of them synced, carry database db: the log of the main
\* file's generation is whole and agrees with db, and what it does not hold,
\* or all if the WAL is of another generation, is in the main file.
Carries(m, w, db) ==
    LET e == LastCommit(w.frames, m.salt)
    IN  /\ Log(w.frames, m.salt, e)
        /\ \A p \in Ids :
              LET a == At(w.frames, m.salt, e, p)
              IN  /\ a \in {None, PageOf(db, p)}
                  /\ a = None \/ w.salt # m.salt => PageOf(m, p) = PageOf(db, p)

\* Both copies of the main file, the synced and the current, have v at p.
InMain(p, v) == PageOf(main, p) = v /\ PageOf(mainD, p) = v
MainIs(db) == \A p \in Ids : InMain(p, PageOf(db, p))
Same(e) == \A i \in 1 .. e : wal.frames[i] = walD.frames[i]
Salted(s) == main.salt = s /\ mainD.salt = s /\ wal.salt = s /\ walD.salt = s

\* The frames up to e over the main file make db.
Holds(s, e, db) ==
    \A p \in Ids :
        LET a == At(wal.frames, s, e, p)
        IN  a \in {None, PageOf(db, p)} /\ (a = None => InMain(p, PageOf(db, p)))

\* The synced and the current WAL have the same log, and it makes db.
Intact(s, e, db) ==
    /\ Salted(s)
    /\ Log(wal.frames, s, e) /\ Log(walD.frames, s, e) /\ Same(e)
    /\ Holds(s, e, db)

\* The main file is db, synced: the log may be found or lost.
Logged == LastCommit(walD.frames, main.salt)
Spent(db) ==
    /\ main.salt = mainD.salt /\ MainIs(db)
    /\ Log(walD.frames, main.salt, Logged)
    /\ \A p \in Ids : At(walD.frames, main.salt, Logged, p) \in {None, PageOf(db, p)}
    /\ wal.frames # <<>> => Log(wal.frames, main.salt, Logged) /\ Same(Logged)

\* The next open finds db.
Settled(db) ==
    \/ Intact(main.salt, Logged, db)
    \/ Spent(db) /\ wal.salt # main.salt

FilesOK == main \in MainFile /\ mainD \in MainFile /\ wal \in WalFile /\ walD \in WalFile

\* What an open finds in files that carry a database is that database.
LEMMA CarriedIsRecovered ==
  ASSUME NEW m \in MainFile, NEW w \in WalFile, NEW db \in Database, Carries(m, w, db)
  PROVE  ~ Corrupt(m, w) /\ Recovered(m, w) = db
<1>1. CASE w.salt = m.salt
  BY <1>1, RecoverLog DEF Carries
<1>2. CASE w.salt # m.salt
  BY <1>2, RecoverMain DEF Carries
<1>. QED BY <1>1, <1>2

\* Files of one generation that an open does not refuse carry what it finds.
LEMMA RecoveredIsCarried ==
  ASSUME NEW m \in MainFile, NEW w \in WalFile, w.salt = m.salt, ~ Corrupt(m, w)
  PROVE  Carries(m, w, Recovered(m, w))
<1>. DEFINE F == w.frames
            s == m.salt
            e == LastCommit(F, s)
            db == Recovered(m, w)
<1>1. F \in Seq(Frame) /\ s \in Salts /\ m.page \in [Pages -> Vals]
  BY DEF WalFile, MainFile
<1>2. Log(F, s, e)
  BY <1>1, LogFound DEF Corrupt
<1>3. \A p : OfPage(F, s, p) = Written(F, s, e, p)
  BY <1>1, <1>2, LogReplayed
<1>4. e \in 0 .. Len(F) /\ Len(F) \in Nat
  BY <1>1, <1>2 DEF Log, Whole
<1>5. CASE e = 0
  <2>1. \A p : At(F, s, e, p) = None
    BY <1>5 DEF At, Written
  <2>2. db = [page |-> m.page, root |-> m.root]
    BY <1>4, <1>5 DEF Recovered, HasCommits
  <2>3. \A p \in Ids : PageOf(m, p) = PageOf(db, p)
    BY <2>2 DEF PageOf
  <2>. QED BY <1>2, <2>1, <2>3 DEF Carries
<1>6. CASE e # 0
  <2>0. HasCommits(m, w)
    BY <1>4, <1>6 DEF HasCommits
  <2>1. db = [page |-> Over(m.page, RecoveredView(F, s)),
              root |-> IF RecoveredHeader(F, s) = None THEN m.root
                                                       ELSE RecoveredHeader(F, s).root]
    BY <2>0 DEF Recovered
  <2>2. ASSUME NEW p \in Ids, At(F, s, e, p) # None PROVE PageOf(db, p) = At(F, s, e, p)
    <3>1. Written(F, s, e, p) # {}
      BY <2>2 DEF At
    <3>2. CASE p = 0
      <4>1. RecoveredHeader(F, s) = [root |-> At(F, s, e, 0), salt |-> s]
        BY <1>3, <3>1, <3>2 DEF RecoveredHeader, At
      <4>2. At(F, s, e, 0) \in Roots
        BY <1>1, <1>4, <3>1, <3>2, AtType
      <4>3. RecoveredHeader(F, s) # None
        BY <1>1, <4>1, <4>2, NoneAssumption DEF Header
      <4>. QED BY <2>1, <3>2, <4>1, <4>3 DEF PageOf
    <3>3. CASE p # 0
      <4>1. p \in Pages /\ RecoveredView(F, s)[p] = At(F, s, e, p)
        BY <1>3, <3>3, IdsArePages DEF RecoveredView, At
      <4>. QED BY <2>1, <2>2, <3>3, <4>1 DEF PageOf, Over
    <3>. QED BY <3>2, <3>3
  <2>3. ASSUME NEW p \in Ids, At(F, s, e, p) = None PROVE PageOf(db, p) = PageOf(m, p)
    <3>1. Written(F, s, e, p) = {}
      BY <1>1, <1>4, <2>3, AtType
    <3>2. CASE p = 0
      <4>1. RecoveredHeader(F, s) = None
        BY <1>3, <3>1, <3>2 DEF RecoveredHeader
      <4>. QED BY <2>1, <3>2, <4>1 DEF PageOf
    <3>3. CASE p # 0
      <4>1. p \in Pages /\ RecoveredView(F, s)[p] = None
        BY <1>3, <3>1, <3>3, IdsArePages DEF RecoveredView
      <4>. QED BY <2>1, <3>3, <4>1 DEF PageOf, Over
    <3>. QED BY <3>2, <3>3
  <2>. HIDE DEF db, e, F, s
  <2>4. \A p \in Ids : /\ At(F, s, e, p) \in {None, PageOf(db, p)}
                       /\ At(F, s, e, p) = None => PageOf(m, p) = PageOf(db, p)
    BY <2>2, <2>3
  <2>. QED BY <1>2, <2>4 DEF Carries, F, s, e, db
<1>. QED BY <1>5, <1>6

\* Settled files carry their database as they stand.
LEMMA SettledCarries ==
  ASSUME FilesOK, NEW db \in Database, Settled(db)
  PROVE  Carries(main, wal, db)
<1>1. wal.frames \in Seq(Frame) /\ walD.frames \in Seq(Frame)
  BY DEF FilesOK, WalFile
<1>2. CASE Intact(main.salt, Logged, db)
  <2>1. LastCommit(wal.frames, main.salt) = Logged
    BY <1>1, <1>2, LogEnd DEF Intact
  <2>. QED BY <1>2, <2>1 DEF Intact, Carries, Holds, InMain, Salted
<1>3. CASE Spent(db) /\ wal.salt # main.salt
  <2>1. CASE wal.frames = <<>>
    <3>1. Log(<<>>, main.salt, 0)
      BY DEF Log, Whole
    <3>2. LastCommit(wal.frames, main.salt) = 0
      BY <1>1, <2>1, <3>1, LogEnd
    <3>3. \A p : At(wal.frames, main.salt, 0, p) = None
      BY DEF At, Written
    <3>. QED BY <1>3, <2>1, <3>1, <3>2, <3>3 DEF Carries, Spent, MainIs, InMain
  <2>2. CASE wal.frames # <<>>
    <3>0. Log(wal.frames, main.salt, Logged)
      BY <1>3, <2>2 DEF Spent
    <3>1. LastCommit(wal.frames, main.salt) = Logged /\ Logged \in Nat
      BY <1>1, <3>0, LogEnd
    <3>2. \A p : At(wal.frames, main.salt, Logged, p) = At(walD.frames, main.salt, Logged, p)
      BY <1>3, <2>2, <3>1, AtAgree DEF Spent, Same
    <3>. QED BY <1>3, <2>2, <3>1, <3>2 DEF Carries, Spent, MainIs, InMain
  <2>. QED BY <2>1, <2>2
<1>. QED BY <1>2, <1>3 DEF Settled

\* After a crash or a sync of everything the files are settled.
LEMMA CarriedIsSettled ==
  ASSUME NEW m, NEW w, NEW db, Carries(m, w, db),
         main' = m, mainD' = m, wal' = w, walD' = w
  PROVE  Settled(db)'
<1>1. CASE w.salt = m.salt
  BY <1>1 DEF Carries, Settled, Intact, Salted, Same, Holds, InMain, Logged
<1>2. CASE w.salt # m.salt
  BY <1>2 DEF Carries, Settled, Spent, MainIs, Same, InMain, Logged
<1>. QED BY <1>1, <1>2

-----------------------------------------------------------------------------
(* What a crash leaves of two files.                                       *)

\* Frame i was not, or not wholly, written by the commit in progress.
Lost(F, i) ==
    \/ i \in DOMAIN wal.frames /\ F[i] = Torn(wal.frames[i])
    \/ i \in DOMAIN walD.frames /\ F[i] = walD.frames[i]
    \/ F[i] = Hole

\* A crash leaves each page of the main file as it is or as last synced.
LEMMA CrashedMain ==
  ASSUME FilesOK, NEW m \in MainOutcomes \cup {main}
  PROVE  /\ m \in MainFile
         /\ m.salt \in {main.salt, mainD.salt}
         /\ \A p \in Ids : PageOf(m, p) \in {PageOf(main, p), PageOf(mainD, p)}
<1>1. m \in MainFile
  BY MainOutcomesType DEF FilesOK
<1>. SUFFICES ASSUME m \in MainOutcomes
              PROVE  /\ m.salt \in {main.salt, mainD.salt}
                     /\ \A p \in Ids : PageOf(m, p) \in {PageOf(main, p), PageOf(mainD, p)}
  BY <1>1
<1>2. PICK kept \in SUBSET {p \in Pages : main.page[p] # mainD.page[p]}, h \in {main, mainD} :
        m = [page |-> [p \in Pages |-> IF p \in kept THEN main.page[p] ELSE mainD.page[p]],
             root |-> h.root, salt |-> h.salt]
  BY DEF MainOutcomes
<1>3. m.root = h.root /\ m.salt = h.salt
  BY <1>2
<1>4. \A p \in Pages : m.page[p] \in {main.page[p], mainD.page[p]}
  BY <1>2
<1>. QED BY <1>1, <1>3, <1>4, IdsArePages DEF PageOf

\* An ordered power loss keeps the frames up to some k and loses the rest.
LEMMA CrashedInOrder ==
  ASSUME FilesOK, NEW k \in 0 .. Len(wal.frames), NEW torn \in BOOLEAN,
         torn => k < Len(wal.frames)
  PROVE  /\ Len(InOrder(k, torn)) \in Nat /\ Len(InOrder(k, torn)) >= k
         /\ Len(InOrder(k, torn)) >= Len(walD.frames)
         /\ \A i \in DOMAIN InOrder(k, torn) :
               IF i <= k THEN InOrder(k, torn)[i] = wal.frames[i]
               ELSE IF torn /\ i = k + 1 THEN InOrder(k, torn)[i] = Torn(wal.frames[i])
               ELSE i \in DOMAIN walD.frames /\ InOrder(k, torn)[i] = walD.frames[i]
<1>. DEFINE n == IF k + 1 > Len(walD.frames) THEN IF torn THEN k + 1 ELSE k
                 ELSE Len(walD.frames)
            frame(i) == IF i <= k THEN wal.frames[i]
                        ELSE IF torn /\ i = k + 1 THEN Torn(wal.frames[i])
                        ELSE walD.frames[i]
<1>1. wal.frames \in Seq(Frame) /\ walD.frames \in Seq(Frame)
  BY DEF FilesOK, WalFile
<1>2. n \in Nat /\ n >= k /\ n >= Len(walD.frames)
  BY <1>1
<1>3. InOrder(k, torn) = [i \in 1 .. n |-> frame(i)]
  BY DEF InOrder
<1>4. \A i \in 1 .. n : i <= k \/ (torn /\ i = k + 1) \/ i \in DOMAIN walD.frames
  BY <1>1
<1>. HIDE DEF n
<1>5. DOMAIN InOrder(k, torn) = 1 .. n /\ Len(InOrder(k, torn)) = n
  BY <1>2, <1>3
<1>6. ASSUME NEW i \in 1 .. n
      PROVE  IF i <= k THEN InOrder(k, torn)[i] = wal.frames[i]
             ELSE IF torn /\ i = k + 1 THEN InOrder(k, torn)[i] = Torn(wal.frames[i])
             ELSE i \in DOMAIN walD.frames /\ InOrder(k, torn)[i] = walD.frames[i]
  BY <1>3, <1>4
<1>. QED BY <1>2, <1>5, <1>6

\* Where the synced and the current WAL agree, so does what a crash leaves;
\* every other frame is current or lost.
LEMMA CrashedWal ==
  ASSUME FilesOK, NEW e \in Nat, e <= Len(wal.frames), e <= Len(walD.frames), Same(e),
         NEW F \in OrderedOutcomes \cup AnyOutcomes
  PROVE  /\ F \in Seq(Frame) /\ e <= Len(F)
         /\ \A i \in 1 .. e : F[i] = walD.frames[i]
         /\ \A i \in DOMAIN F : i > e => \/ i \in DOMAIN wal.frames /\ F[i] = wal.frames[i]
                                         \/ Lost(F, i)
<1>1. wal.frames \in Seq(Frame) /\ walD.frames \in Seq(Frame) /\ F \in Seq(Frame)
  BY OrderedOutcomesType, AnyOutcomesType DEF FilesOK, WalFile
<1>2. CASE F = wal.frames \/ F = walD.frames
  BY <1>1, <1>2 DEF Same, Lost
<1>3. ASSUME NEW k \in 0 .. Len(wal.frames), NEW torn \in BOOLEAN,
             torn => k < Len(wal.frames) /\ Slot(walD.frames, k + 1) # wal.frames[k + 1],
             F = InOrder(k, torn)
      PROVE  /\ e <= Len(F)
             /\ \A i \in 1 .. e : F[i] = walD.frames[i]
             /\ \A i \in DOMAIN F : i > e => \/ i \in DOMAIN wal.frames /\ F[i] = wal.frames[i]
                                             \/ Lost(F, i)
  <2>1. /\ Len(F) \in Nat /\ Len(F) >= k /\ Len(F) >= Len(walD.frames)
        /\ \A i \in DOMAIN F :
              IF i <= k THEN F[i] = wal.frames[i]
              ELSE IF torn /\ i = k + 1 THEN F[i] = Torn(wal.frames[i])
              ELSE i \in DOMAIN walD.frames /\ F[i] = walD.frames[i]
    BY <1>3, CrashedInOrder
  <2>2. torn => k + 1 > e
    <3>1. \A i \in 1 .. e : Slot(walD.frames, i) = wal.frames[i]
      BY <1>1 DEF Slot, Same
    <3>. QED BY <1>1, <1>3, <3>1
  <2>3. \A i \in 1 .. e : F[i] = walD.frames[i]
    BY <1>1, <2>1, <2>2 DEF Same
  <2>4. ASSUME NEW i \in DOMAIN F, i > e
        PROVE  (i \in DOMAIN wal.frames /\ F[i] = wal.frames[i]) \/ Lost(F, i)
    <3>1. CASE i <= k
      BY <1>1, <2>1, <3>1
    <3>2. CASE torn /\ i = k + 1
      <4>1. i \in DOMAIN wal.frames /\ ~ (i <= k)
        BY <1>1, <1>3, <3>2
      <4>2. F[i] = Torn(wal.frames[i])
        BY <2>1, <3>2, <4>1
      <4>. QED BY <4>1, <4>2 DEF Lost
    <3>3. CASE i > k /\ ~ (torn /\ i = k + 1)
      BY <1>1, <2>1, <3>3 DEF Lost
    <3>. QED BY <1>1, <3>1, <3>2, <3>3
  <2>. QED BY <1>1, <2>1, <2>3, <2>4
<1>4. ASSUME NEW fates \in [DOMAIN wal.frames -> {"kept", "torn", "lost"}],
             F = [i \in DOMAIN wal.frames |-> SlotAfter(i, fates[i])]
      PROVE  /\ e <= Len(F)
             /\ \A i \in 1 .. e : F[i] = walD.frames[i]
             /\ \A i \in DOMAIN F : i > e => \/ i \in DOMAIN wal.frames /\ F[i] = wal.frames[i]
                                             \/ Lost(F, i)
  <2>1. DOMAIN F = DOMAIN wal.frames /\ Len(F) = Len(wal.frames)
    BY <1>1, <1>4
  <2>2. \A i \in DOMAIN F : F[i] = SlotAfter(i, fates[i])
    BY <1>4
  <2>3. ASSUME NEW i \in 1 .. e PROVE F[i] = walD.frames[i]
    <3>1. i \in DOMAIN F /\ Slot(walD.frames, i) = wal.frames[i] /\ wal.frames[i] = walD.frames[i]
      BY <1>1, <2>1 DEF Slot, Same
    <3>. QED BY <2>2, <3>1 DEF SlotAfter
  <2>4. ASSUME NEW i \in DOMAIN F
        PROVE  (i \in DOMAIN wal.frames /\ F[i] = wal.frames[i]) \/ Lost(F, i)
    BY <2>1, <2>2 DEF SlotAfter, Slot, Lost
  <2>. QED BY <2>1, <2>3, <2>4
<1>5. CASE F \in OrderedOutcomes
  <2>1. CASE \E k \in 0 .. Len(wal.frames) : F = InOrder(k, FALSE)
    BY <1>1, <1>3, <2>1
  <2>2. CASE \E k \in {j \in 0 .. Len(wal.frames) - 1 :
                          Slot(walD.frames, j + 1) # wal.frames[j + 1]} : F = InOrder(k, TRUE)
    <3>1. PICK k \in {j \in 0 .. Len(wal.frames) - 1 :
                         Slot(walD.frames, j + 1) # wal.frames[j + 1]} : F = InOrder(k, TRUE)
      BY <2>2
    <3>2. k \in 0 .. Len(wal.frames) /\ k < Len(wal.frames)
      BY <1>1, <3>1
    <3>. QED BY <1>1, <1>3, <3>1, <3>2
  <2>. QED BY <1>2, <1>5, <2>1, <2>2 DEF OrderedOutcomes
<1>6. CASE F \in AnyOutcomes
  BY <1>1, <1>2, <1>4, <1>6 DEF AnyOutcomes
<1>. QED BY <1>5, <1>6

\* A lost frame ends no commit the synced WAL does not have.
LEMMA LostUnmarked ==
  ASSUME FilesOK, NEW F, NEW s, NEW i, Lost(F, i),
         i \in DOMAIN walD.frames => ~ Marked(walD.frames, s, i)
  PROVE  ~ Marked(F, s, i)
<1>1. CASE i \in DOMAIN wal.frames /\ F[i] = Torn(wal.frames[i])
  <2>1. wal.frames[i] \in Frame
    BY <1>1 DEF FilesOK, WalFile
  <2>2. ~ Torn(wal.frames[i]).ok
    BY <2>1 DEF Torn, Frame, FrameOf
  <2>. QED BY <1>1, <2>2 DEF Marked, Current
<1>2. CASE i \in DOMAIN walD.frames /\ F[i] = walD.frames[i]
  BY <1>2 DEF Marked
<1>3. CASE F[i] = Hole
  BY <1>3 DEF Marked, Current, Hole
<1>. QED BY <1>1, <1>2, <1>3 DEF Lost

\* A log both copies of the WAL have survives every crash.
LEMMA CrashedLog ==
  ASSUME FilesOK, NEW s, NEW e, Log(wal.frames, s, e), Log(walD.frames, s, e), Same(e),
         NEW F \in OrderedOutcomes \cup AnyOutcomes
  PROVE  /\ F \in Seq(Frame) /\ Log(F, s, e) /\ LastCommit(F, s) = e
         /\ \A p : At(F, s, e, p) = At(walD.frames, s, e, p)
<1>1. wal.frames \in Seq(Frame) /\ walD.frames \in Seq(Frame)
  BY DEF FilesOK, WalFile
<1>2. e \in Nat /\ e <= Len(wal.frames) /\ e <= Len(walD.frames)
  BY <1>1, LogEnd
<1>3. /\ F \in Seq(Frame) /\ e <= Len(F)
      /\ \A i \in 1 .. e : F[i] = walD.frames[i]
      /\ \A i \in DOMAIN F : i > e => \/ i \in DOMAIN wal.frames /\ F[i] = wal.frames[i]
                                      \/ Lost(F, i)
  BY <1>2, CrashedWal
<1>4. Whole(F, s, e) /\ (e > 0 => Marked(F, s, e))
  BY <1>2, <1>3 DEF Log, Whole, Marked, Current
<1>5. ASSUME NEW i \in DOMAIN F, i > e PROVE ~ Marked(F, s, i)
  <2>1. CASE i \in DOMAIN wal.frames /\ F[i] = wal.frames[i]
    BY <1>5, <2>1 DEF Log, Marked
  <2>2. CASE Lost(F, i)
    BY <1>5, <2>2, LostUnmarked DEF Log
  <2>. QED BY <1>3, <1>5, <2>1, <2>2
<1>6. Log(F, s, e)
  BY <1>4, <1>5 DEF Log
<1>. QED BY <1>2, <1>3, <1>6, LogEnd, AtAgree

\* Every outcome of a crash is made of one outcome of each file.
LEMMA CrashedFiles ==
  ASSUME FilesOK, NEW o \in CrashOutcomes
  PROVE  /\ o[1] \in MainOutcomes \cup {main}
         /\ o[2].salt \in {wal.salt, walD.salt}
         /\ o[2].frames \in OrderedOutcomes \cup AnyOutcomes
         /\ CrashModel = "ordered" => o[2].frames \in OrderedOutcomes
         /\ ~ PowerLoss => o = <<main, wal>>
<1>1. CASE PowerLoss
  <2>1. o[1] \in MainOutcomes /\ o[2] \in WalOutcomes
    BY <1>1 DEF CrashOutcomes
  <2>. QED BY <1>1, <2>1 DEF WalOutcomes
<1>2. CASE ~ PowerLoss
  <2>1. o = <<main, wal>> /\ wal.frames \in OrderedOutcomes
    BY <1>2 DEF CrashOutcomes, OrderedOutcomes
  <2>. QED BY <1>2, <2>1
<1>. QED BY <1>1, <1>2

\* If what a crash leaves of the WAL has a log that holds a database over both
\* copies of the main file, that is the database an open finds.
LEMMA HeldCarries ==
  ASSUME FilesOK, NEW s, NEW e, NEW db, NEW o, Salted(s), Holds(s, e, db),
         o[1] \in MainOutcomes \cup {main}, o[2].salt = s,
         Log(o[2].frames, s, e), LastCommit(o[2].frames, s) = e,
         \A p : At(o[2].frames, s, e, p) = At(wal.frames, s, e, p)
  PROVE  Carries(o[1], o[2], db)
<1>. DEFINE m == o[1]
            F == o[2].frames
<1>1. m.salt = s /\ \A p \in Ids : PageOf(m, p) \in {PageOf(main, p), PageOf(mainD, p)}
  BY CrashedMain DEF Salted
<1>2. \A p \in Ids : /\ At(F, s, e, p) \in {None, PageOf(db, p)}
                     /\ At(F, s, e, p) = None => PageOf(m, p) = PageOf(db, p)
  BY <1>1 DEF Holds, InMain
<1>. QED BY <1>1, <1>2 DEF Carries

\* An intact log makes the same database after every crash.
LEMMA CrashIntact ==
  ASSUME FilesOK, NEW s, NEW e, NEW db, Intact(s, e, db), NEW o \in CrashOutcomes
  PROVE  Carries(o[1], o[2], db)
<1>. DEFINE F == o[2].frames
<1>1. Log(F, s, e) /\ LastCommit(F, s) = e /\ \A p : At(F, s, e, p) = At(walD.frames, s, e, p)
  BY CrashedFiles, CrashedLog DEF Intact
<1>2. \A p : At(wal.frames, s, e, p) = At(walD.frames, s, e, p)
  <2>1. e \in Nat
    BY LogEnd DEF Intact, FilesOK, WalFile
  <2>. QED BY <2>1, AtAgree DEF Intact, Same
<1>3. Salted(s) /\ Holds(s, e, db) /\ o[2].salt = s
  BY CrashedFiles DEF Intact, Salted
<1>. HIDE DEF F
<1>4. \A p : At(F, s, e, p) = At(wal.frames, s, e, p)
  BY <1>1, <1>2
<1>. QED BY <1>1, <1>3, <1>4, HeldCarries, CrashedFiles DEF F

\* An empty WAL leaves the database to the main file.
LEMMA EmptyCarries ==
  ASSUME NEW m, NEW w, NEW db, w.frames = <<>>, \A p \in Ids : PageOf(m, p) = PageOf(db, p)
  PROVE  Carries(m, w, db)
<1>1. Log(<<>>, m.salt, 0)
  BY DEF Log, Whole
<1>2. <<>> \in Seq(Frame)
  OBVIOUS
<1>3. LastCommit(<<>>, m.salt) = 0
  BY <1>1, <1>2, LogEnd
<1>4. \A p : At(<<>>, m.salt, 0, p) = None
  BY DEF At, Written
<1>. QED BY <1>1, <1>3, <1>4 DEF Carries

\* An emptied WAL comes back empty or as last synced.
LEMMA CrashedEmpty ==
  ASSUME FilesOK, wal.frames = <<>>, NEW F \in OrderedOutcomes \cup AnyOutcomes
  PROVE  F \in {wal.frames, walD.frames}
<1>1. walD.frames \in Seq(Frame) /\ Len(wal.frames) = 0 /\ DOMAIN wal.frames = {}
  BY DEF FilesOK, WalFile
<1>2. InOrder(0, FALSE) = walD.frames
  BY <1>1 DEF InOrder
<1>3. CASE F \in OrderedOutcomes
  <2>1. ~ (\E k \in {j \in 0 .. Len(wal.frames) - 1 :
                        Slot(walD.frames, j + 1) # wal.frames[j + 1]} : F = InOrder(k, TRUE))
    BY <1>1
  <2>2. \A k \in 0 .. Len(wal.frames) : k = 0
    BY <1>1
  <2>. QED BY <1>2, <1>3, <2>1, <2>2 DEF OrderedOutcomes
<1>4. CASE F \in AnyOutcomes
  <2>1. ASSUME NEW fates \in [DOMAIN wal.frames -> {"kept", "torn", "lost"}]
        PROVE  [i \in DOMAIN wal.frames |-> SlotAfter(i, fates[i])] = wal.frames
    BY <1>1
  <2>. QED BY <1>4, <2>1 DEF AnyOutcomes
<1>. QED BY <1>3, <1>4

\* With the database in the main file it no longer matters what a crash
\* makes of the log.
LEMMA CrashSpent ==
  ASSUME FilesOK, NEW db, Spent(db), NEW o \in CrashOutcomes
  PROVE  Carries(o[1], o[2], db)
<1>. DEFINE m == o[1]
            F == o[2].frames
            s == main.salt
<1>1. m.salt = s /\ F \in OrderedOutcomes \cup AnyOutcomes
  BY CrashedFiles, CrashedMain DEF Spent
<1>2. \A p \in Ids : PageOf(m, p) = PageOf(db, p)
  BY CrashedFiles, CrashedMain DEF Spent, MainIs, InMain
<1>3. CASE F = <<>>
  BY <1>2, <1>3, EmptyCarries
<1>4. CASE F # <<>>
  <2>1. /\ Log(F, s, Logged) /\ LastCommit(F, s) = Logged
        /\ \A p : At(F, s, Logged, p) = At(walD.frames, s, Logged, p)
    <3>1. CASE wal.frames = <<>>
      <4>1. F = walD.frames
        BY <1>1, <1>4, <3>1, CrashedEmpty
      <4>. QED BY <4>1 DEF Spent, Logged
    <3>2. CASE wal.frames # <<>>
      BY <1>1, <3>2, CrashedLog DEF Spent
    <3>. QED BY <3>1, <3>2
  <2>. QED BY <1>1, <1>2, <2>1 DEF Carries, Spent
<1>. QED BY <1>3, <1>4

\* Settled files carry their database through every crash.
LEMMA CrashSettled ==
  ASSUME FilesOK, NEW db, Settled(db), NEW o \in CrashOutcomes
  PROVE  Carries(o[1], o[2], db)
  BY CrashIntact, CrashSpent DEF Settled

-----------------------------------------------------------------------------
(* The invariant.                                                          *)

\* The system calls whose failure the protocol survives: not a sync, nor the
\* writes of a checkpoint after its first sync.
Tolerated == {"frame", "ckpt", "saltw", "rollback", "unlink"}
Trusted == (CrashModel # "any" /\ FaultPoints \subseteq Tolerated) \/ faults = 0

\* Where the log is whole and carries the acknowledged database.
Resting == {"idle", "abort", "frame", "post", "ckpt", "saltw", "unlink"}

\* The header a checkpoint will write is the acknowledged one.
HeaderKnown ==
    /\ viewHdr # None => viewHdr = [root |-> acked.root, salt |-> salt]
    /\ viewHdr = None => main.root = acked.root /\ mainD.root = acked.root

\* The frames of the commit in progress are the pages it has behind it.
Body(id) == IF id = 0 THEN root ELSE pending[id]
Appended ==
    \A p \in Ids : At(wal.frames, salt, cur, p) =
                      IF p \in Staged \ todo THEN Body(p)
                                             ELSE At(wal.frames, salt, endOff, p)

RestInv == pc \in Resting =>
    /\ Intact(salt, endOff, acked)
    /\ HeaderKnown
    /\ pc = "frame" => Whole(wal.frames, salt, cur) /\ Appended
    /\ pc = "ckpt" /\ viewHdr # None /\ 0 \notin todo => main.root = viewHdr.root
    /\ pc \in {"saltw", "unlink"} => MainIs(acked)

\* Between the last frame of a commit and its sync the current WAL has one
\* commit more than the synced one.
SyncInv == pc = "walsync" =>
    /\ Salted(salt) /\ HeaderKnown /\ Holds(salt, endOff, acked)
    /\ todo = {} /\ cur > endOff /\ Appended
    /\ Whole(wal.frames, salt, cur)
    /\ \A i \in DOMAIN wal.frames : i > endOff => (Marked(wal.frames, salt, i) <=> i = cur)
    /\ PowerLoss => Log(walD.frames, salt, endOff) /\ Same(endOff)
    /\ ~ PowerLoss => walD = wal

\* From the salt's rotation to the truncation the log is on its way out.
RotateInv == pc \in {"salts", "trunc", "truncs"} =>
    /\ Spent(acked)
    /\ pc = "truncs" => wal.frames = <<>>

\* A new generation has an empty WAL.
EmptyInv == pc \in {"hdrw", "hdrs", "fstamp", "fstamps"} =>
    /\ wal = walD /\ wal.frames = <<>> /\ wal.salt = salt /\ endOff = 0
    /\ MainIs(acked)
    /\ pc \in {"fstamp", "fstamps"} => viewHdr = None
    /\ pc \in {"hdrs", "fstamps"} => main.salt = salt

DropInv == pc = "drop" => Settled(acked)

\* With the process gone, the files hold a database that may be found.
Found == Recovered(main, wal)
DownInv == pc = "down" =>
    /\ Settled(Found) \/ (CrashModel = "any" /\ Corrupt(main, wal))
    /\ CrashModel # "any" => Found \in {acked} \cup limbo

FreshInv == pc \in {"ftrunc", "fhdr", "fsync"} =>
    /\ Spent(acked) /\ viewHdr = None
    /\ pc # "ftrunc" => wal.frames = <<>>

FileInv == RestInv /\ SyncInv /\ RotateInv /\ EmptyInv /\ DropInv /\ DownInv /\ FreshInv
CrashInv == Trusted => FileInv

\* What the transaction being committed would make of each page.
LEMMA TentativePage ==
  ASSUME TypeOK, NEW p \in Ids
  PROVE  PageOf(Tentative, p) = IF p \in Staged THEN Body(p) ELSE PageOf(acked, p)
  BY IdsArePages DEF PageOf, Tentative, Staged, Body, Entries, Over, TypeOK, Overlay, Database

\* With all its frames written the log carries it.
LEMMA TentativeHeld ==
  ASSUME TypeOK, Holds(salt, endOff, acked), Appended, todo = {}
  PROVE  Holds(salt, cur, Tentative)
<1>. SUFFICES ASSUME NEW p \in Ids
              PROVE  LET a == At(wal.frames, salt, cur, p)
                     IN  /\ a \in {None, PageOf(Tentative, p)}
                         /\ a = None => InMain(p, PageOf(Tentative, p))
  BY DEF Holds
<1>1. CASE p \in Staged
  <2>1. At(wal.frames, salt, cur, p) = Body(p) /\ PageOf(Tentative, p) = Body(p)
    BY <1>1, TentativePage DEF Appended
  <2>2. Body(p) # None
    BY <1>1, IdsArePages DEF Body, Staged, Entries, TypeOK
  <2>. QED BY <2>1, <2>2
<1>2. CASE p \notin Staged
  <2>1. At(wal.frames, salt, cur, p) = At(wal.frames, salt, endOff, p)
    BY <1>2 DEF Appended
  <2>2. PageOf(Tentative, p) = PageOf(acked, p)
    BY <1>2, TentativePage
  <2>. QED BY <2>1, <2>2 DEF Holds
<1>. QED BY <1>1, <1>2

\* An ordered power loss keeps everything up to frame c, or loses frame c.
LEMMA CrashedCommit ==
  ASSUME FilesOK, NEW c \in 1 .. Len(wal.frames), NEW F \in OrderedOutcomes
  PROVE  \/ c <= Len(F) /\ \A i \in 1 .. c : F[i] = wal.frames[i]
         \/ c \in DOMAIN F => Lost(F, c)
<1>1. wal.frames \in Seq(Frame) /\ walD.frames \in Seq(Frame)
  BY DEF FilesOK, WalFile
<1>2. CASE F = wal.frames \/ F = walD.frames
  BY <1>1, <1>2 DEF Lost
<1>3. ASSUME NEW k \in 0 .. Len(wal.frames), NEW torn \in BOOLEAN,
             torn => k < Len(wal.frames), F = InOrder(k, torn)
      PROVE  \/ c <= Len(F) /\ \A i \in 1 .. c : F[i] = wal.frames[i]
             \/ c \in DOMAIN F => Lost(F, c)
  <2>1. /\ Len(F) \in Nat /\ Len(F) >= k
        /\ \A i \in DOMAIN F :
              IF i <= k THEN F[i] = wal.frames[i]
              ELSE IF torn /\ i = k + 1 THEN F[i] = Torn(wal.frames[i])
              ELSE i \in DOMAIN walD.frames /\ F[i] = walD.frames[i]
    BY <1>3, CrashedInOrder
  <2>2. F \in Seq(Frame)
    BY OrderedOutcomesType DEF FilesOK
  <2>3. CASE c <= k
    BY <1>1, <2>1, <2>2, <2>3
  <2>4. CASE c > k
    <3>1. c \in DOMAIN wal.frames /\ ~ (c <= k)
      BY <1>1, <2>4
    <3>2. c \in DOMAIN F => \/ F[c] = Torn(wal.frames[c])
                            \/ c \in DOMAIN walD.frames /\ F[c] = walD.frames[c]
      BY <2>1, <3>1
    <3>. QED BY <3>1, <3>2 DEF Lost
  <2>. QED BY <1>1, <2>3, <2>4
<1>4. CASE \E k \in 0 .. Len(wal.frames) : F = InOrder(k, FALSE)
  BY <1>3, <1>4
<1>5. CASE \E k \in {j \in 0 .. Len(wal.frames) - 1 :
                        Slot(walD.frames, j + 1) # wal.frames[j + 1]} : F = InOrder(k, TRUE)
  <2>1. PICK k \in {j \in 0 .. Len(wal.frames) - 1 :
                       Slot(walD.frames, j + 1) # wal.frames[j + 1]} : F = InOrder(k, TRUE)
    BY <1>5
  <2>2. k \in 0 .. Len(wal.frames) /\ k < Len(wal.frames)
    BY <1>1, <2>1
  <2>. QED BY <1>3, <2>1, <2>2
<1>. QED BY <1>2, <1>4, <1>5 DEF OrderedOutcomes

\* The current WAL has the log of the commit in progress once its last frame
\* is written.
LEMMA SyncLog ==
  ASSUME FilesOK, TypeOK, SyncInv, pc = "walsync"
  PROVE  Log(wal.frames, salt, cur) /\ cur \in 1 .. Len(wal.frames)
<1>1. wal.frames \in Seq(Frame) /\ cur \in Nat /\ endOff \in Nat
  BY DEF FilesOK, WalFile, TypeOK
<1>2. Whole(wal.frames, salt, cur) /\ cur > endOff
  BY DEF SyncInv
<1>3. cur \in 1 .. Len(wal.frames)
  BY <1>1, <1>2 DEF Whole
<1>4. \A i \in DOMAIN wal.frames : i > endOff => (Marked(wal.frames, salt, i) <=> i = cur)
  BY DEF SyncInv
<1>5. Marked(wal.frames, salt, cur)
  BY <1>1, <1>2, <1>3, <1>4
<1>6. \A i \in DOMAIN wal.frames : i > cur => ~ Marked(wal.frames, salt, i)
  BY <1>1, <1>2, <1>4
<1>. QED BY <1>2, <1>3, <1>5, <1>6 DEF Log

\* A crash in the sync of a commit leaves the database before or after it.
LEMMA CrashSync ==
  ASSUME FilesOK, TypeOK, SyncInv, pc = "walsync", CrashModel # "any",
         NEW o \in CrashOutcomes
  PROVE  Carries(o[1], o[2], acked) \/ Carries(o[1], o[2], Tentative)
<1>. DEFINE F == o[2].frames
<1>1. wal.frames \in Seq(Frame) /\ walD.frames \in Seq(Frame) /\ cur \in Nat /\ endOff \in Nat
  BY DEF FilesOK, WalFile, TypeOK
<1>2. /\ Salted(salt) /\ Holds(salt, endOff, acked) /\ cur > endOff
      /\ \A i \in DOMAIN wal.frames : i > endOff => (Marked(wal.frames, salt, i) <=> i = cur)
      /\ PowerLoss => Log(walD.frames, salt, endOff) /\ Same(endOff)
  BY DEF SyncInv
<1>3. Holds(salt, cur, Tentative)
  BY TentativeHeld DEF SyncInv
<1>4. Log(wal.frames, salt, cur) /\ cur \in 1 .. Len(wal.frames)
  BY SyncLog
<1>5. o[1] \in MainOutcomes \cup {main} /\ o[2].salt = salt
  BY <1>2, CrashedFiles DEF Salted
<1>6. CASE ~ PowerLoss
  <2>1. F = wal.frames
    BY <1>6, CrashedFiles
  <2>2. LastCommit(F, salt) = cur
    BY <1>1, <1>4, <2>1, LogEnd
  <2>. QED BY <1>2, <1>3, <1>4, <1>5, <2>1, <2>2, HeldCarries
<1>7. CASE PowerLoss
  <2>1. F \in OrderedOutcomes
    BY <1>7, CrashedFiles DEF PowerLoss
  <2>2. endOff <= Len(wal.frames) /\ endOff <= Len(walD.frames)
    BY <1>1, <1>2, <1>4, <1>7, LogEnd
  <2>3. /\ F \in Seq(Frame) /\ endOff <= Len(F)
        /\ \A i \in 1 .. endOff : F[i] = walD.frames[i]
        /\ \A i \in DOMAIN F : i > endOff => \/ i \in DOMAIN wal.frames /\ F[i] = wal.frames[i]
                                             \/ Lost(F, i)
    BY <1>1, <1>2, <1>7, <2>1, <2>2, CrashedWal
  <2>4. ASSUME NEW i \in DOMAIN F, i > endOff, i # cur PROVE ~ Marked(F, salt, i)
    <3>1. CASE i \in DOMAIN wal.frames /\ F[i] = wal.frames[i]
      BY <1>2, <2>4, <3>1 DEF Marked
    <3>2. CASE Lost(F, i)
      BY <1>2, <1>7, <2>4, <3>2, LostUnmarked DEF Log
    <3>. QED BY <2>3, <2>4, <3>1, <3>2
  <2>5. CASE cur <= Len(F) /\ \A i \in 1 .. cur : F[i] = wal.frames[i]
    <3>1. Whole(F, salt, cur) /\ Marked(F, salt, cur)
      <4>. HIDE DEF F
      <4>1. Whole(F, salt, cur)
        BY <1>1, <1>4, <2>3, <2>5 DEF Log, Whole
      <4>2. cur \in 1 .. cur /\ Marked(wal.frames, salt, cur)
        BY <1>1, <1>4 DEF Log
      <4>. QED BY <2>5, <4>1, <4>2 DEF Marked
    <3>2. Log(F, salt, cur)
      <4>. HIDE DEF F
      <4>1. \A i \in DOMAIN F : i > cur => i > endOff /\ i # cur
        BY <1>1, <1>2, <2>3
      <4>. QED BY <2>4, <3>1, <4>1 DEF Log
    <3>3. LastCommit(F, salt) = cur /\ \A p : At(F, salt, cur, p) = At(wal.frames, salt, cur, p)
      BY <1>1, <2>3, <2>5, <3>2, LogEnd, AtAgree
    <3>. QED BY <1>2, <1>3, <1>5, <3>2, <3>3, HeldCarries
  <2>6. CASE cur \in DOMAIN F => Lost(F, cur)
    <3>1. ASSUME cur \in DOMAIN F PROVE ~ Marked(F, salt, cur)
      <4>1. cur \in DOMAIN walD.frames => ~ Marked(walD.frames, salt, cur)
        BY <1>2, <1>7 DEF Log
      <4>. QED BY <2>6, <3>1, <4>1, LostUnmarked
    <3>2. Whole(F, salt, endOff) /\ (endOff > 0 => Marked(F, salt, endOff))
      <4>1. Log(walD.frames, salt, endOff)
        BY <1>2, <1>7
      <4>. HIDE DEF F
      <4>2. Whole(F, salt, endOff)
        BY <1>1, <2>3, <4>1 DEF Log, Whole
      <4>3. endOff > 0 => endOff \in 1 .. endOff /\ Marked(walD.frames, salt, endOff)
        BY <1>1, <4>1 DEF Log
      <4>. QED BY <2>3, <4>2, <4>3 DEF Marked
    <3>3. Log(F, salt, endOff)
      <4>1. \A i \in DOMAIN F : i > endOff => ~ Marked(F, salt, i)
        BY <2>4, <3>1
      <4>. QED BY <3>2, <4>1 DEF Log
    <3>4. \A i \in 1 .. endOff : F[i] = wal.frames[i]
      BY <1>2, <1>7, <2>3 DEF Same
    <3>5. /\ LastCommit(F, salt) = endOff
          /\ \A p : At(F, salt, endOff, p) = At(wal.frames, salt, endOff, p)
      BY <1>1, <2>3, <3>3, <3>4, LogEnd, AtAgree
    <3>. QED BY <1>2, <1>5, <3>3, <3>5, HeldCarries
  <2>. QED BY <1>4, <2>1, <2>5, <2>6, CrashedCommit
<1>. QED BY <1>6, <1>7

\* Everywhere else, while the process runs, it leaves the acknowledged one.
LEMMA CrashQuiet ==
  ASSUME FilesOK, TypeOK, FileInv, pc \notin {"walsync", "down", "failed"},
         NEW o \in CrashOutcomes
  PROVE  Carries(o[1], o[2], acked)
<1>1. CASE pc \in Resting
  BY <1>1, CrashIntact DEF FileInv, RestInv
<1>2. CASE pc \in {"salts", "trunc", "truncs"} \cup {"ftrunc", "fhdr", "fsync"}
  BY <1>2, CrashSpent DEF FileInv, RotateInv, FreshInv
<1>3. CASE pc \in {"hdrw", "hdrs", "fstamp", "fstamps"}
  <2>1. wal = walD /\ wal.frames = <<>> /\ MainIs(acked)
    BY <1>3 DEF FileInv, EmptyInv
  <2>2. o[2].frames = <<>>
    BY <2>1, CrashedFiles, CrashedEmpty
  <2>3. \A p \in Ids : PageOf(o[1], p) = PageOf(acked, p)
    BY <2>1, CrashedFiles, CrashedMain DEF MainIs, InMain
  <2>. QED BY <2>2, <2>3, EmptyCarries
<1>4. CASE pc = "drop"
  BY <1>4, CrashSettled DEF FileInv, DropInv
<1>. QED BY <1>1, <1>2, <1>3, <1>4 DEF TypeOK, PCs, CheckpointCalls, Resting

\* Unless every unsynced block may be lost on its own, a crash at any moment
\* leaves a surviving database.
LEMMA CrashAnywhere ==
  ASSUME TypeOK, FileInv, CrashModel # "any", pc # "failed", NEW o \in CrashOutcomes
  PROVE  \E db \in Survivors : Carries(o[1], o[2], db)
<1>1. FilesOK
  BY DEF TypeOK, FilesOK
<1>2. CASE pc = "walsync"
  BY <1>1, <1>2, CrashSync DEF FileInv, Survivors
<1>3. CASE pc = "down"
  BY <1>1, <1>3, CrashSettled DEF FileInv, DownInv, Survivors
<1>4. CASE pc \notin {"walsync", "down"}
  BY <1>1, <1>4, CrashQuiet DEF Survivors
<1>. QED BY <1>2, <1>3, <1>4

-----------------------------------------------------------------------------
(* How the parts of the invariant follow from one another and are kept.    *)

\* A state is inside one phase of the protocol.
LEMMA OnePhase ==
  /\ pc' \in Resting /\ RestInv' => FileInv'
  /\ pc' = "walsync" /\ SyncInv' => FileInv'
  /\ pc' \in {"salts", "trunc", "truncs"} /\ RotateInv' => FileInv'
  /\ pc' \in {"hdrw", "hdrs", "fstamp", "fstamps"} /\ EmptyInv' => FileInv'
  /\ pc' = "drop" /\ DropInv' => FileInv'
  /\ pc' = "down" /\ DownInv' => FileInv'
  /\ pc' \in {"ftrunc", "fhdr", "fsync"} /\ FreshInv' => FileInv'
  /\ pc' = "failed" => FileInv'
  BY DEF FileInv, RestInv, SyncInv, RotateInv, EmptyInv, DropInv, DownInv, FreshInv, Resting

\* An intact log is the log recovery finds.
LEMMA IntactSettled ==
  ASSUME FilesOK, NEW s, NEW e, NEW db, Intact(s, e, db)
  PROVE  Settled(db) /\ Logged = e /\ main.salt = s
<1>1. main.salt = s /\ Log(walD.frames, s, e)
  BY DEF Intact, Salted
<1>2. Logged = e
  BY <1>1, LogEnd DEF Logged, FilesOK, WalFile
<1>. QED BY <1>1, <1>2 DEF Settled

\* Once the main file is synced an intact log is spent.
LEMMA IntactSpent ==
  ASSUME FilesOK, NEW s, NEW e, NEW db, Intact(s, e, db), MainIs(db)
  PROVE  Spent(db)
<1>1. Logged = e /\ main.salt = s
  BY IntactSettled
<1>2. e \in Nat
  BY LogEnd DEF Intact, FilesOK, WalFile
<1>3. \A p : At(walD.frames, s, e, p) = At(wal.frames, s, e, p)
  BY <1>2, AtAgree DEF Intact, Same
<1>4. main.salt = mainD.salt /\ Log(wal.frames, s, e) /\ Log(walD.frames, s, e) /\ Same(e)
  BY DEF Intact, Salted
<1>5. \A p \in Ids : At(walD.frames, s, e, p) \in {None, PageOf(db, p)}
  BY <1>3 DEF Intact, Holds
<1>. QED BY <1>1, <1>4, <1>5 DEF Spent

\* Emptying both copies of the WAL leaves a spent log.
LEMMA EmptySpent ==
  ASSUME main'.salt = mainD'.salt, MainIs(acked)', wal'.frames = <<>>, walD'.frames = <<>>
  PROVE  Spent(acked)'
<1>1. Log(<<>>, main'.salt, 0)
  BY DEF Log, Whole
<1>2. <<>> \in Seq(Frame)
  OBVIOUS
<1>3. LastCommit(<<>>, main'.salt) = 0
  BY <1>1, <1>2, LogEnd
<1>4. \A p : At(<<>>, main'.salt, 0, p) = None
  BY DEF At, Written
<1>. QED BY <1>1, <1>3, <1>4 DEF Spent, Logged, MainIs

\* A spent log may be synced or removed.
LEMMA SpentKept ==
  ASSUME FilesOK, Spent(acked), UNCHANGED <<main, mainD, acked>>,
         wal'.frames \in {wal.frames, <<>>},
         walD'.frames \in {walD.frames, wal.frames, wal'.frames}
  PROVE  Spent(acked)'
<1>. DEFINE s == main.salt
            e == Logged
<1>1. MainIs(acked)' /\ main'.salt = mainD'.salt
  BY DEF Spent, MainIs, InMain
<1>2. CASE wal'.frames = <<>> /\ walD'.frames = <<>>
  BY <1>1, <1>2, EmptySpent
<1>3. CASE walD'.frames = walD.frames
  BY <1>1, <1>3 DEF Spent, Logged, Same
<1>4. CASE walD'.frames = wal.frames /\ wal.frames # <<>>
  <2>1. Log(wal.frames, s, e) /\ Same(e)
    BY <1>4 DEF Spent
  <2>2. LastCommit(wal.frames, s) = e /\ e \in Nat
    BY <2>1, LogEnd DEF FilesOK, WalFile
  <2>3. \A p : At(wal.frames, s, e, p) = At(walD.frames, s, e, p)
    BY <2>1, <2>2, AtAgree DEF Same
  <2>4. Logged' = e /\ main'.salt = s
    BY <1>4, <2>2 DEF Logged
  <2>5. \A p \in Ids : At(walD'.frames, s, e, p) \in {None, PageOf(acked, p)}
    BY <1>4, <2>3 DEF Spent
  <2>6. wal'.frames # <<>> => wal'.frames = walD'.frames
    BY <1>4
  <2>7. wal'.frames # <<>> => Same(e)'
    BY <2>6 DEF Same
  <2>. QED BY <1>1, <1>4, <2>1, <2>4, <2>5, <2>6, <2>7 DEF Spent, Same
<1>. QED BY <1>2, <1>3, <1>4

\* Pages of the acknowledged database may be written under an intact log.
LEMMA IntactKept ==
  ASSUME Intact(salt, endOff, acked), UNCHANGED <<wal, walD, salt, endOff, acked>>,
         main'.salt = main.salt, mainD'.salt = mainD.salt,
         \A p \in Ids : InMain(p, PageOf(acked, p)) => InMain(p, PageOf(acked, p))'
  PROVE  Intact(salt, endOff, acked)'
  BY DEF Intact, Salted, Same, Holds

\* What a write of such a page does to the files.
LEMMA MainWritten ==
  ASSUME NEW m, SetMain(m), m.salt = main.salt, main.salt = mainD.salt, UNCHANGED acked,
         \A p \in Ids : PageOf(m, p) \in {PageOf(main, p), PageOf(acked, p)}
  PROVE  /\ main'.salt = main.salt /\ mainD'.salt = mainD.salt
         /\ \A p \in Ids : InMain(p, PageOf(acked, p)) => InMain(p, PageOf(acked, p))'
<1>1. main' = m /\ mainD' \in {m, mainD}
  BY DEF SetMain
<1>. QED BY <1>1 DEF InMain, PageOf

\* G is F with frame f written after frame c, beyond the log.
Beyond(F, s, e, c, f, G) ==
    /\ F \in Seq(Frame) /\ Log(F, s, e) /\ f \in Frame
    /\ c \in Nat /\ e <= c /\ c <= Len(F)
    /\ G = WriteAt(F, c + 1, f)

\* The log is still there, unless f ends a commit of its own.
LEMMA WrittenBeyond ==
  ASSUME NEW F, NEW s, NEW e, NEW c, NEW f, NEW G, Beyond(F, s, e, c, f, G)
  PROVE  /\ G \in Seq(Frame) /\ c + 1 \in DOMAIN G /\ c + 1 \in 1 .. Len(G) /\ G[c + 1] = f
         /\ \A i \in 1 .. c : G[i] = F[i]
         /\ \A p : At(G, s, e, p) = At(F, s, e, p)
         /\ Whole(G, s, e) /\ (e > 0 => Marked(G, s, e))
         /\ \A i \in DOMAIN G : i > e /\ i # c + 1 => ~ Marked(G, s, i)
         /\ ~ (Current(f, s) /\ f.commit) => Log(G, s, e)
<1>. DEFINE n == IF c + 1 <= Len(F) THEN Len(F) ELSE c + 1
<1>. USE DEF Beyond
<1>1. n \in Nat /\ c + 1 \in 1 .. n /\ e \in Nat /\ e <= n /\ e \in 0 .. Len(F)
  BY LogEnd
<1>2. G = [j \in 1 .. n |-> IF j = c + 1 THEN f ELSE Slot(F, j)]
  BY DEF WriteAt
<1>3. \A j \in 1 .. n : j # c + 1 => j \in DOMAIN F
  OBVIOUS
<1>. HIDE DEF n
<1>4. G \in Seq(Frame)
  BY WriteAtFrames
<1>5. DOMAIN G = 1 .. n /\ Len(G) = n
  BY <1>1, <1>2, <1>4
<1>6. G[c + 1] = f
  BY <1>1, <1>2
<1>7. \A i \in DOMAIN G : i # c + 1 => i \in DOMAIN F /\ G[i] = F[i]
  BY <1>2, <1>3, <1>5 DEF Slot
<1>8. \A i \in 1 .. c : G[i] = F[i]
  <2>1. \A i \in 1 .. c : i \in 1 .. n /\ i # c + 1
    BY <1>1
  <2>. QED BY <1>5, <1>7, <2>1
<1>9. \A i \in 1 .. e : G[i] = F[i]
  BY <1>1, <1>8
<1>10. \A p : At(G, s, e, p) = At(F, s, e, p)
  BY <1>1, <1>9, AtAgree
<1>11. Whole(G, s, e) /\ (e > 0 => Marked(G, s, e))
  <2>1. Whole(G, s, e)
    BY <1>1, <1>5, <1>9 DEF Log, Whole
  <2>2. e > 0 => e \in 1 .. e /\ Marked(F, s, e)
    BY <1>1 DEF Log
  <2>. QED BY <1>9, <2>1, <2>2 DEF Marked
<1>12. \A i \in DOMAIN G : i > e /\ i # c + 1 => ~ Marked(G, s, i)
  BY <1>7 DEF Log, Marked
<1>13. ~ (Current(f, s) /\ f.commit) => Log(G, s, e)
  BY <1>6, <1>11, <1>12 DEF Log, Marked
<1>. QED BY <1>1, <1>4, <1>5, <1>6, <1>8, <1>10, <1>11, <1>12, <1>13

\* A failing call is one of those the protocol survives.
LEMMA FaultTolerated ==
  ASSUME TypeInv, Trusted', NEW point, Fault(point)
  PROVE  point \in Tolerated
<1>1. faults \in Nat /\ faults' = faults + 1
  BY LimitsAssumption DEF Fault, TypeInv, TypeOK
<1>2. faults' # 0
  BY <1>1
<1>. QED BY <1>2 DEF Trusted, Fault

\* Steps that write nothing.
LEMMA Unmoved ==
  ASSUME FileInv, UNCHANGED <<files, walMem, overlay, call, acked, limbo>>
  PROVE  FileInv'
<1>. USE DEF files, walMem, overlay, call
<1>1. \A s, e, db : Intact(s, e, db)' <=> Intact(s, e, db)
  BY DEF Intact, Salted, Same, Holds, InMain
<1>2. \A db : Spent(db)' <=> Spent(db)
  BY DEF Spent, Same, Logged, MainIs, InMain
<1>3. Appended' <=> Appended
  BY DEF Appended, Body, Staged, Entries
<1>4. (HeaderKnown' <=> HeaderKnown) /\ (MainIs(acked)' <=> MainIs(acked))
  BY DEF HeaderKnown, MainIs, InMain
<1>5. Settled(acked)' <=> Settled(acked)
  BY <1>1, <1>2 DEF Settled, Logged
<1>6. Settled(Found)' <=> Settled(Found)
  BY <1>1, <1>2 DEF Settled, Logged, Found
<1>7. RestInv'
  BY <1>1, <1>3, <1>4 DEF FileInv, RestInv
<1>8. SyncInv'
  BY <1>3, <1>4 DEF FileInv, SyncInv, Salted, Holds, InMain, Same
<1>9. RotateInv' /\ FreshInv'
  BY <1>2 DEF FileInv, RotateInv, FreshInv
<1>10. EmptyInv'
  BY <1>4 DEF FileInv, EmptyInv
<1>11. DropInv' /\ DownInv'
  BY <1>5, <1>6 DEF FileInv, DropInv, DownInv, Found
<1>. QED BY <1>7, <1>8, <1>9, <1>10, <1>11 DEF FileInv

\* Steps that only move the call on.
LEMMA Unwritten ==
  ASSUME TypeInv, FileInv, pc \in Resting, UNCHANGED <<files, salt, endOff, acked, viewHdr>>,
         pc' \in Resting \ {"saltw", "unlink"},
         pc' = "frame" => cur' = endOff /\ todo' = Staged',
         pc' = "ckpt" /\ viewHdr # None => 0 \in todo'
  PROVE  FileInv'
<1>. USE DEF files
<1>1. Intact(salt, endOff, acked) /\ HeaderKnown
  BY DEF FileInv, RestInv
<1>2. Intact(salt, endOff, acked)'
  BY <1>1 DEF Intact, Salted, Same, Holds, InMain
<1>3. HeaderKnown'
  BY <1>1 DEF HeaderKnown
<1>4. ASSUME pc' = "frame" PROVE Whole(wal.frames, salt, cur)' /\ Appended'
  <2>1. Whole(wal.frames, salt, endOff)
    BY <1>1 DEF Intact, Log
  <2>2. \A p : p \notin (Staged \ todo)'
    BY <1>4
  <2>. QED BY <1>4, <2>1, <2>2 DEF Appended
<1>5. RestInv'
  BY <1>2, <1>3, <1>4 DEF RestInv
<1>. QED BY <1>5, OnePhase

-----------------------------------------------------------------------------
(* The invariant is kept by every step.                                    *)

\* Begin, the in-memory writes and a rollback.
LEMMA CrashTxn ==
  ASSUME TypeInv, ReadInv, FileInv,
         \/ BeginWrite \/ Rollback \/ RollbackFails
         \/ \E p \in Pages, v \in Vals : WritePage(p, v)
         \/ \E r \in Roots : SetRootCatalog(r)
  PROVE  FileInv'
<1>. USE DEF files, walMem, overlay, call, session, history, Resting
<1>1. CASE BeginWrite
  BY <1>1, Unwritten DEF BeginWrite
<1>2. ASSUME NEW p \in Pages, NEW v \in Vals, WritePage(p, v) PROVE FileInv'
  BY <1>2, Unwritten DEF WritePage
<1>3. ASSUME NEW r \in Roots, SetRootCatalog(r) PROVE FileInv'
  BY <1>3, Unwritten DEF SetRootCatalog
<1>4. CASE Rollback
  <2>. DEFINE m == [main EXCEPT !.root = atBegin.root, !.salt = salt]
  <2>1. pc \in Resting /\ pc' = "idle" /\ UNCHANGED <<wal, walD, salt, endOff, viewHdr, acked>>
    BY <1>4 DEF Rollback, CanRollBack, RestoreSnapshot, Return
  <2>2. Intact(salt, endOff, acked) /\ HeaderKnown
    BY <2>1 DEF FileInv, RestInv
  <2>3. main \in MainFile /\ main.salt = salt /\ mainD.salt = salt
    BY <2>2 DEF Intact, Salted, TypeInv, TypeOK
  <2>4. atBegin.root = acked.root
    BY <1>4 DEF Rollback, CanRollBack, ReadInv, SnapshotCommitted, Revocable, Callers,
                TypeInv, TypeOK
  <2>5. m.page = main.page /\ m.root = acked.root /\ m.salt = main.salt
    BY <2>3, <2>4 DEF MainFile
  <2>6. SetMain(m)
    BY <1>4 DEF Rollback
  <2>. HIDE DEF m
  <2>7. \A p \in Ids : PageOf(m, p) \in {PageOf(main, p), PageOf(acked, p)}
    BY <2>5 DEF PageOf
  <2>8. /\ main'.salt = main.salt /\ mainD'.salt = mainD.salt
        /\ \A p \in Ids : InMain(p, PageOf(acked, p)) => InMain(p, PageOf(acked, p))'
    BY <2>1, <2>3, <2>5, <2>6, <2>7, MainWritten
  <2>9. Intact(salt, endOff, acked)'
    BY <2>1, <2>2, <2>8, IntactKept
  <2>10. HeaderKnown'
    BY <2>1, <2>2, <2>5, <2>6 DEF HeaderKnown, SetMain
  <2>. QED BY <2>1, <2>9, <2>10, OnePhase DEF RestInv
<1>5. CASE RollbackFails
  BY <1>5, Unwritten DEF RollbackFails, CanRollBack, RestoreSnapshot, Return
<1>. QED BY <1>1, <1>2, <1>3, <1>4, <1>5

\* A commit, frame by frame and through its sync.
LEMMA CrashCommit ==
  ASSUME TypeInv, ReadInv, FileInv, Trusted',
         \/ CommitEmpty \/ CommitTooLarge \/ CommitStart
         \/ WriteFrame \/ WriteFrameFails \/ SyncCommit \/ SyncCommitFails \/ CommitReturns
  PROVE  FileInv'
<1>. USE DEF files, walMem, overlay, call, session, history, Resting
<1>0. FilesOK /\ wal.frames \in Seq(Frame) /\ endOff \in Nat /\ cur \in Nat
  BY DEF TypeInv, TypeOK, FilesOK, WalFile
<1>1. CASE CommitEmpty
  BY <1>1, Unwritten DEF CommitEmpty
<1>2. CASE CommitTooLarge
  BY <1>2, Unwritten DEF CommitTooLarge
<1>3. CASE CommitStart
  <2>1. Staged' = Staged
    BY <1>3 DEF CommitStart, Staged, Entries
  <2>. QED BY <1>3, <2>1, Unwritten DEF CommitStart
<1>. DEFINE id == NextId(todo)
            f == FrameFor(id)
<1>4. ASSUME pc = "frame"
      PROVE  /\ Intact(salt, endOff, acked) /\ HeaderKnown /\ Appended
             /\ endOff <= cur /\ cur <= Len(wal.frames) /\ Whole(wal.frames, salt, cur)
             /\ Log(wal.frames, salt, endOff) /\ f \in Frame
             /\ id \in todo /\ todo \subseteq Staged
  <2>1. /\ Intact(salt, endOff, acked) /\ HeaderKnown /\ Appended
        /\ Whole(wal.frames, salt, cur)
    BY <1>4 DEF FileInv, RestInv
  <2>2. endOff <= cur /\ cur <= Len(wal.frames)
    BY <1>0, <1>4, <2>1 DEF Whole, TypeInv, CallShape
  <2>3. f \in Frame /\ id \in todo /\ todo \subseteq Staged
    BY <1>4, FrameForType, NextIdIn DEF TypeInv, TypeOK, CallShape
  <2>. QED BY <2>1, <2>2, <2>3 DEF Intact
<1>5. CASE WriteFrame
  <2>. DEFINE G == WriteAt(wal.frames, cur + 1, f)
  <2>1. /\ pc = "frame" /\ todo' = todo \ {id} /\ cur' = cur + 1
        /\ pc' = IF todo = {id} THEN "walsync" ELSE "frame"
        /\ SetWal([wal EXCEPT !.frames = G])
        /\ UNCHANGED <<main, mainD, salt, endOff, overlay, acked>>
    BY <1>5 DEF WriteFrame
  <2>2. /\ f.id = id /\ f.body = Body(id) /\ f.salt = salt /\ f.ok
        /\ f.commit <=> (todo = {id})
    BY DEF FrameFor, Body
  <2>. HIDE DEF f, id
  <2>3. /\ G \in Seq(Frame) /\ cur + 1 \in 1 .. Len(G) /\ cur + 1 \in DOMAIN G
        /\ G[cur + 1] = f
        /\ \A i \in 1 .. cur : G[i] = wal.frames[i]
        /\ \A p : At(G, salt, endOff, p) = At(wal.frames, salt, endOff, p)
        /\ Whole(G, salt, endOff)
        /\ \A i \in DOMAIN G : i > endOff /\ i # cur + 1 => ~ Marked(G, salt, i)
        /\ ~ (Current(f, salt) /\ f.commit) => Log(G, salt, endOff)
    <3>1. Beyond(wal.frames, salt, endOff, cur, f, G)
      BY <1>0, <1>4, <2>1 DEF Beyond
    <3>. QED BY <3>1, WrittenBeyond
  <2>4. wal' = [wal EXCEPT !.frames = G] /\ walD' \in {walD, wal'}
        /\ (PowerLoss => walD' = walD) /\ (~ PowerLoss => walD' = wal')
    BY <2>1 DEF SetWal
  <2>. HIDE DEF G
  <2>5. wal'.frames = G /\ wal'.salt = wal.salt
    BY <1>0, <2>4 DEF FilesOK, WalFile
  <2>6. Whole(G, salt, cur + 1)
    <3>1. \A i \in 1 .. cur + 1 : i \in 1 .. cur \/ i = cur + 1
      BY <1>0
    <3>. QED BY <1>0, <1>4, <2>1, <2>2, <2>3, <3>1, SMTT(60) DEF Whole
  <2>7. Salted(salt)' /\ HeaderKnown'
    BY <1>4, <2>1, <2>4, <2>5 DEF Salted, Intact, HeaderKnown
  <2>8. Holds(salt, endOff, acked)'
    BY <1>4, <2>1, <2>3, <2>5 DEF Holds, Intact, InMain
  <2>9. Appended'
    <3>1. Staged' = Staged /\ (\A p : Body(p)' = Body(p)) /\ id \in Staged \ todo'
      BY <1>4, <2>1 DEF Staged, Entries, Body
    <3>2. ASSUME NEW p \in Ids
          PROVE  At(G, salt, cur + 1, p) = IF p \in Staged \ todo' THEN Body(p)
                                           ELSE At(G, salt, endOff, p)
      <4>1. At(G, salt, cur, p) = At(wal.frames, salt, cur, p)
        BY <1>0, <2>3, AtAgree
      <4>2. At(G, salt, cur + 1, p) = IF p = id THEN Body(id) ELSE At(G, salt, cur, p)
        <5>. DEFINE n == cur + 1
        <5>1. After(G, salt, cur, n) /\ G[n].id = id /\ G[n].body = Body(id)
          BY <1>0, <2>2, <2>3 DEF After
        <5>. HIDE DEF n
        <5>2. At(G, salt, n, p) = IF p = G[n].id THEN G[n].body ELSE At(G, salt, cur, p)
          BY <5>1, AtExtend
        <5>. QED BY <5>1, <5>2 DEF n
      <4>3. CASE p = id
        BY <3>1, <4>2, <4>3
      <4>4. CASE p # id
        <5>1. p \in Staged \ todo <=> p \in Staged \ todo'
          BY <2>1, <4>4
        <5>. QED BY <1>4, <2>1, <2>3, <4>1, <4>2, <4>4, <5>1 DEF Appended
      <4>. QED BY <4>3, <4>4
    <3>. QED BY <2>1, <2>5, <3>1, <3>2 DEF Appended
  <2>10. ASSUME PowerLoss PROVE Log(walD.frames, salt, endOff)' /\ Same(endOff)'
    <3>1. Log(walD.frames, salt, endOff) /\ Same(endOff) /\ walD' = walD
      BY <1>4, <2>1, <2>4, <2>10 DEF Intact
    <3>2. \A i \in 1 .. endOff : i \in 1 .. cur
      BY <1>0, <1>4, <2>1
    <3>. QED BY <2>1, <2>3, <2>5, <3>1, <3>2 DEF Same
  <2>11. CASE todo = {id}
    <3>1. pc' = "walsync" /\ todo' = {} /\ cur' > endOff'
      BY <1>0, <1>4, <2>1, <2>11
    <3>2. Marked(G, salt, cur + 1)
      BY <2>2, <2>3, <2>11 DEF Marked, Current
    <3>3. \A i \in DOMAIN wal'.frames :
             i > endOff' => (Marked(wal'.frames, salt', i) <=> i = cur')
      BY <2>1, <2>3, <2>5, <3>2
    <3>4. Whole(wal'.frames, salt', cur')
      BY <2>1, <2>5, <2>6
    <3>5. SyncInv'
      BY <2>4, <2>7, <2>8, <2>9, <2>10, <3>1, <3>3, <3>4 DEF SyncInv
    <3>. QED BY <3>1, <3>5, OnePhase
  <2>12. CASE todo # {id}
    <3>1. Log(wal'.frames, salt', endOff')
      BY <2>1, <2>2, <2>3, <2>5, <2>12
    <3>2. Log(walD'.frames, salt', endOff') /\ Same(endOff)'
      BY <2>4, <2>10, <3>1 DEF Same
    <3>3. Intact(salt, endOff, acked)'
      BY <2>7, <2>8, <3>1, <3>2 DEF Intact
    <3>4. Whole(wal'.frames, salt', cur') /\ pc' = "frame"
      BY <2>1, <2>5, <2>6, <2>12
    <3>5. RestInv'
      BY <2>7, <2>9, <3>3, <3>4 DEF RestInv
    <3>. QED BY <3>4, <3>5, OnePhase
  <2>. QED BY <2>11, <2>12
<1>10. CASE WriteFrameFails /\ UNCHANGED <<wal, walD>>
  BY <1>10, Unwritten DEF WriteFrameFails
<1>6. CASE WriteFrameFails /\ ~ UNCHANGED <<wal, walD>>
  <2>. DEFINE G == WriteAt(wal.frames, cur + 1, Torn(f))
  <2>1. /\ pc = "frame" /\ pc' = "abort" /\ SetWal([wal EXCEPT !.frames = G])
        /\ UNCHANGED <<main, mainD, salt, endOff, overlay, acked>>
    BY <1>6 DEF WriteFrameFails
  <2>2. Torn(f) \in Frame /\ ~ Torn(f).ok
    BY <1>4, <2>1, TornFrame DEF Torn, Frame, FrameOf
  <2>. HIDE DEF f, id
  <2>3. /\ G \in Seq(Frame)
        /\ \A i \in 1 .. cur : G[i] = wal.frames[i]
        /\ \A p : At(G, salt, endOff, p) = At(wal.frames, salt, endOff, p)
        /\ Log(G, salt, endOff)
    <3>1. Beyond(wal.frames, salt, endOff, cur, Torn(f), G)
      BY <1>0, <1>4, <2>1, <2>2 DEF Beyond
    <3>2. ~ Current(Torn(f), salt)
      BY <2>2 DEF Current
    <3>. QED BY <3>1, <3>2, WrittenBeyond
  <2>4. wal' = [wal EXCEPT !.frames = G] /\ walD' \in {walD, wal'}
    BY <2>1 DEF SetWal
  <2>. HIDE DEF G
  <2>5. wal'.frames = G /\ wal'.salt = wal.salt
    BY <1>0, <2>4 DEF FilesOK, WalFile
  <2>6. Salted(salt)' /\ HeaderKnown' /\ Holds(salt, endOff, acked)'
    BY <1>4, <2>1, <2>3, <2>4, <2>5 DEF Salted, Intact, HeaderKnown, Holds, InMain
  <2>7. Log(wal'.frames, salt', endOff')
    BY <2>1, <2>3, <2>5
  <2>8. Log(walD'.frames, salt', endOff') /\ Same(endOff)'
    <3>1. CASE walD' = wal'
      BY <2>7, <3>1 DEF Same
    <3>2. CASE walD' = walD
      <4>1. \A i \in 1 .. endOff : i \in 1 .. cur
        BY <1>0, <1>4, <2>1
      <4>. QED BY <1>4, <2>1, <2>3, <2>5, <3>2, <4>1 DEF Intact, Same
    <3>. QED BY <2>4, <3>1, <3>2
  <2>9. RestInv'
    BY <2>1, <2>6, <2>7, <2>8 DEF RestInv, Intact
  <2>. QED BY <2>1, <2>9, OnePhase
<1>7. CASE SyncCommit
  <2>1. /\ pc = "walsync" /\ pc' = "post" /\ walD' = wal /\ endOff' = cur /\ acked' = Tentative
        /\ viewHdr' = (IF dirty THEN [root |-> root, salt |-> salt] ELSE viewHdr)
        /\ UNCHANGED <<main, mainD, wal, salt>>
    BY <1>7 DEF SyncCommit, SyncWal, Publish
  <2>2. Salted(salt) /\ HeaderKnown /\ Log(wal.frames, salt, cur)
    BY <1>0, <2>1, SyncLog DEF FileInv, SyncInv, TypeInv
  <2>3. Holds(salt, cur, Tentative)
    BY <2>1, TentativeHeld DEF FileInv, SyncInv, TypeInv
  <2>4. Holds(salt, endOff, acked)'
    BY <2>1, <2>3 DEF Holds, InMain
  <2>5. Intact(salt, endOff, acked)'
    BY <2>1, <2>2, <2>4 DEF Intact, Salted, Same
  <2>6. HeaderKnown'
    <3>1. Tentative.root = IF dirty THEN root ELSE acked.root
      BY DEF Tentative
    <3>2. CASE dirty
      <4>1. [root |-> root, salt |-> salt] # None
        <5>1. root \in Roots /\ salt \in Salts
          BY <2>1 DEF TypeInv, TypeOK, CallShape, Opening
        <5>. QED BY <5>1, NoneAssumption DEF Header
      <4>. QED BY <2>1, <3>1, <3>2, <4>1 DEF HeaderKnown
    <3>3. CASE ~ dirty
      BY <2>1, <2>2, <3>1, <3>3 DEF HeaderKnown
    <3>. QED BY <3>2, <3>3
  <2>7. RestInv'
    BY <2>1, <2>5, <2>6 DEF RestInv
  <2>. QED BY <2>1, <2>7, OnePhase
<1>8. CASE SyncCommitFails
  BY <1>8, FaultTolerated DEF SyncCommitFails, Tolerated
<1>9. CASE CommitReturns
  BY <1>9, Unwritten DEF CommitReturns, Return
<1>. QED BY <1>1, <1>2, <1>3, <1>5, <1>6, <1>7, <1>8, <1>9, <1>10

\* With nothing left to write a checkpoint has the acknowledged database in
\* the main file.
LEMMA CheckpointDone ==
  ASSUME TypeInv, ReadInv, FileInv, pc = "ckpt", todo = {}
  PROVE  main.page = acked.page /\ main.root = acked.root
<1>1. main.page \in [Pages -> Vals] /\ view \in Overlay
  BY DEF TypeInv, TypeOK, MainFile
<1>2. \A p \in Entries(view) : main.page[p] = view[p]
  BY DEF ReadInv, Folded
<1>3. Over(main.page, view) = acked.page
  BY DEF ReadInv, OverlayCommitted, Running
<1>4. main.page = acked.page
  BY <1>1, <1>2, <1>3, FoldedOverlay
<1>5. HeaderKnown /\ (viewHdr # None => main.root = viewHdr.root)
  BY DEF FileInv, RestInv, Resting
<1>. QED BY <1>4, <1>5 DEF HeaderKnown

\* A checkpoint that has nothing more to write, or fails, ends.
LEMMA CheckpointEnds ==
  ASSUME FilesOK, Intact(salt, endOff, acked)', HeaderKnown', MainIs(acked)' \/ txn # "close",
         CheckpointReturns(TRUE)
  PROVE  FileInv'
<1>1. pc' \in {"idle", "unlink"} /\ (pc' = "unlink" => MainIs(acked)')
  BY DEF CheckpointReturns
<1>2. RestInv'
  BY <1>1 DEF RestInv
<1>. QED BY <1>1, <1>2, OnePhase DEF Resting

\* A checkpoint up to the sync of the main file.
LEMMA CrashFold ==
  ASSUME TypeInv, ReadInv, FileInv, Trusted',
         \/ AutoCheckpoint \/ DbCheckpoint \/ CheckpointWrite \/ CheckpointSync
         \/ Close /\ ~ Deferred
  PROVE  FileInv'
<1>. USE DEF files, walMem, overlay, call, session, history, Resting
<1>0. FilesOK
  BY DEF TypeInv, TypeOK, FilesOK
<1>1. CASE AutoCheckpoint
  BY <1>1, Unwritten DEF AutoCheckpoint, StartCheckpoint
<1>2. CASE DbCheckpoint
  <2>1. CASE Deferred
    BY <1>2, <2>1, Unwritten DEF DbCheckpoint
  <2>2. CASE ~ Deferred
    BY <1>2, <2>2, Unwritten DEF DbCheckpoint, StartCheckpoint
  <2>. QED BY <2>1, <2>2
<1>3. CASE Close /\ ~ Deferred
  BY <1>3, Unwritten DEF Close, StartCheckpoint
<1>4. CASE CheckpointWrite
  <2>. DEFINE id == NextId(todo)
              m == IF id = 0 THEN [main EXCEPT !.root = viewHdr.root, !.salt = viewHdr.salt]
                             ELSE [main EXCEPT !.page[id] = view[id]]
  <2>1. /\ pc = "ckpt" /\ pc' = "ckpt" /\ todo # {} /\ todo' = todo \ {id}
        /\ SetMain(m) /\ UNCHANGED <<wal, walD, salt, endOff, view, viewHdr, acked>>
    BY <1>4 DEF CheckpointWrite
  <2>2. id \in todo /\ id \in Entries(view) \cup (IF viewHdr = None THEN {} ELSE {0})
    BY <2>1, NextIdIn DEF TypeInv, TypeOK, CallShape
  <2>3. /\ Intact(salt, endOff, acked) /\ HeaderKnown
        /\ viewHdr # None /\ 0 \notin todo => main.root = viewHdr.root
    BY <2>1 DEF FileInv, RestInv
  <2>4. main \in MainFile /\ main.salt = salt /\ mainD.salt = salt
    BY <2>3 DEF Intact, Salted, TypeInv, TypeOK
  <2>5. acked.page = Over(main.page, view)
    BY <2>1 DEF ReadInv, OverlayCommitted, Running
  <2>. HIDE DEF id
  <2>6. /\ m.salt = main.salt
        /\ m.root = IF id = 0 THEN viewHdr.root ELSE main.root
        /\ m.page = IF id = 0 THEN main.page ELSE [main.page EXCEPT ![id] = view[id]]
    <3>1. CASE id = 0
      <4>1. viewHdr = [root |-> acked.root, salt |-> salt]
        BY <2>2, <2>3, <3>1 DEF HeaderKnown, Entries, Pages
      <4>. QED BY <2>4, <3>1, <4>1 DEF MainFile
    <3>2. CASE id # 0
      BY <2>4, <3>2 DEF MainFile
    <3>. QED BY <3>1, <3>2
  <2>7. id = 0 => viewHdr # None /\ viewHdr.root = acked.root
    BY <2>2, <2>3 DEF HeaderKnown, Entries, Pages
  <2>8. id # 0 => id \in Pages /\ acked.page[id] = view[id]
    BY <2>2, <2>5 DEF Entries, Over
  <2>. HIDE DEF m
  <2>9. \A p \in Ids : PageOf(m, p) \in {PageOf(main, p), PageOf(acked, p)}
    <3>1. main.page \in [Pages -> Vals]
      BY <2>4 DEF MainFile
    <3>. QED BY <2>6, <2>7, <2>8, <3>1, IdsArePages DEF PageOf
  <2>10. /\ main'.salt = main.salt /\ mainD'.salt = mainD.salt
         /\ \A p \in Ids : InMain(p, PageOf(acked, p)) => InMain(p, PageOf(acked, p))'
    BY <2>1, <2>4, <2>6, <2>9, MainWritten
  <2>11. Intact(salt, endOff, acked)'
    BY <2>1, <2>3, <2>10, IntactKept
  <2>12. HeaderKnown'
    <3>1. viewHdr = None => id # 0
      BY <2>7
    <3>2. main' = m /\ mainD' \in {m, mainD}
      BY <2>1 DEF SetMain
    <3>. QED BY <2>1, <2>3, <2>6, <3>1, <3>2 DEF HeaderKnown
  <2>13. viewHdr' # None /\ 0 \notin todo' => main'.root = viewHdr'.root
    BY <2>1, <2>3, <2>6 DEF SetMain
  <2>14. RestInv'
    BY <2>1, <2>11, <2>12, <2>13 DEF RestInv
  <2>. QED BY <2>1, <2>14, OnePhase
<1>5. CASE CheckpointSync
  <2>1. /\ pc = "ckpt" /\ todo = {} /\ mainD' = main
        /\ UNCHANGED <<main, wal, walD, salt, endOff, viewHdr, acked>>
    BY <1>5 DEF CheckpointSync, SyncMain
  <2>2. Intact(salt, endOff, acked) /\ HeaderKnown
    BY <2>1 DEF FileInv, RestInv
  <2>3. MainIs(acked)'
    BY <2>1, CheckpointDone DEF MainIs, InMain, PageOf
  <2>4. mainD'.salt = mainD.salt
    BY <2>1, <2>2 DEF Intact, Salted
  <2>5. Intact(salt, endOff, acked)'
    BY <2>1, <2>2, <2>3, <2>4, IntactKept DEF MainIs
  <2>6. HeaderKnown'
    BY <2>1, <2>2 DEF HeaderKnown
  <2>7. CASE NothingToDo
    BY <1>0, <1>5, <2>3, <2>5, <2>6, <2>7, CheckpointEnds DEF CheckpointSync
  <2>8. CASE ~ NothingToDo
    <3>1. pc' = "saltw"
      BY <1>5, <2>8 DEF CheckpointSync
    <3>2. RestInv'
      BY <2>3, <2>5, <2>6, <3>1 DEF RestInv
    <3>. QED BY <3>1, <3>2, OnePhase
  <2>. QED BY <2>7, <2>8
<1>. QED BY <1>1, <1>2, <1>3, <1>4, <1>5

\* The reset of the WAL, and the removal of the sidecar.
LEMMA CrashReset ==
  ASSUME TypeInv, ReadInv, FileInv, Trusted',
         \/ RotateSalt \/ SyncSalt \/ TruncateWal \/ SyncTruncate
         \/ WriteHeader \/ SyncHeader \/ CheckpointFails \/ RemoveWal \/ DropPager
  PROVE  FileInv'
<1>. USE DEF files, walMem, overlay, call, session, history, Resting
<1>0. FilesOK /\ wal \in WalFile /\ main \in MainFile
  BY DEF TypeInv, TypeOK, FilesOK
<1>1. ASSUME pc \in {"saltw", "unlink"} PROVE Spent(acked)
  <2>1. Intact(salt, endOff, acked) /\ MainIs(acked)
    BY <1>1 DEF FileInv, RestInv
  <2>. QED BY <1>0, <2>1, IntactSpent
<1>2. CASE RotateSalt
  <2>1. PICK s \in Salts \ {salt} : SetWal([wal EXCEPT !.salt = s])
    BY <1>2 DEF RotateSalt
  <2>2. wal'.frames = wal.frames /\ walD'.frames \in {walD.frames, wal.frames}
    BY <1>0, <2>1 DEF SetWal, WalFile
  <2>3. Spent(acked)'
    BY <1>0, <1>1, <1>2, <2>2, SpentKept DEF RotateSalt
  <2>4. pc' = "salts"
    BY <1>2 DEF RotateSalt
  <2>. QED BY <2>3, <2>4, OnePhase DEF RotateInv
<1>3. CASE SyncSalt
  <2>1. Spent(acked) /\ pc' = "trunc" /\ walD' = wal /\ UNCHANGED <<main, mainD, wal, acked>>
    BY <1>3 DEF SyncSalt, SyncWal, FileInv, RotateInv
  <2>2. Spent(acked)'
    BY <1>0, <2>1, SpentKept
  <2>. QED BY <2>1, <2>2, OnePhase DEF RotateInv
<1>4. CASE TruncateWal
  <2>1. /\ Spent(acked) /\ pc' = "truncs" /\ SetWal([wal EXCEPT !.frames = <<>>])
        /\ UNCHANGED <<main, mainD, acked>>
    BY <1>4 DEF TruncateWal, FileInv, RotateInv
  <2>2. wal'.frames = <<>> /\ walD'.frames \in {walD.frames, <<>>}
    BY <1>0, <2>1 DEF SetWal, WalFile
  <2>3. Spent(acked)'
    BY <1>0, <2>1, <2>2, SpentKept
  <2>. QED BY <2>1, <2>2, <2>3, OnePhase DEF RotateInv
<1>5. CASE SyncTruncate
  <2>1. /\ Spent(acked) /\ wal.frames = <<>> /\ pc' = "hdrw" /\ walD' = wal
        /\ salt' = wal.salt /\ endOff' = 0 /\ UNCHANGED <<main, mainD, wal, acked>>
    BY <1>5 DEF SyncTruncate, SyncWal, ResetWal, FileInv, RotateInv
  <2>2. MainIs(acked)'
    BY <2>1 DEF Spent, MainIs, InMain
  <2>. QED BY <2>1, <2>2, OnePhase DEF EmptyInv
<1>6. CASE WriteHeader
  <2>. DEFINE m == [main EXCEPT !.root = root, !.salt = salt]
  <2>1. /\ pc = "hdrw" /\ pc' = "hdrs" /\ SetMain(m)
        /\ UNCHANGED <<wal, walD, salt, endOff, acked>>
    BY <1>6 DEF WriteHeader
  <2>2. /\ wal = walD /\ wal.frames = <<>> /\ wal.salt = salt /\ endOff = 0 /\ MainIs(acked)
    BY <2>1 DEF FileInv, EmptyInv
  <2>3. root = acked.root
    BY <2>1 DEF ReadInv, RootCommitted, Running
  <2>4. m.page = main.page /\ m.root = acked.root /\ m.salt = salt
    BY <1>0, <2>3 DEF MainFile
  <2>. HIDE DEF m
  <2>5. MainIs(acked)'
    BY <2>1, <2>2, <2>4 DEF MainIs, InMain, SetMain, PageOf
  <2>6. main'.salt = salt'
    BY <2>1, <2>4 DEF SetMain
  <2>. QED BY <2>1, <2>2, <2>5, <2>6, OnePhase DEF EmptyInv
<1>7. CASE SyncHeader
  <2>1. /\ pc = "hdrs" /\ mainD' = main /\ UNCHANGED <<main, wal, walD, salt, endOff, acked>>
        /\ viewHdr' = None /\ CheckpointReturns(TRUE)
    BY <1>7 DEF SyncHeader, SyncMain
  <2>2. /\ wal = walD /\ wal.frames = <<>> /\ wal.salt = salt /\ endOff = 0 /\ MainIs(acked)
        /\ main.salt = salt
    BY <2>1 DEF FileInv, EmptyInv
  <2>3. MainIs(acked)'
    BY <2>1, <2>2 DEF MainIs, InMain
  <2>4. Log(<<>>, salt, 0) /\ \A p : At(<<>>, salt, 0, p) = None
    BY DEF Log, Whole, At, Written
  <2>5. Holds(salt, endOff, acked)'
    BY <2>1, <2>2, <2>3, <2>4 DEF Holds, MainIs
  <2>6. Intact(salt, endOff, acked)'
    BY <2>1, <2>2, <2>4, <2>5 DEF Intact, Salted, Same
  <2>7. HeaderKnown'
    BY <2>1, <2>3, IdsArePages DEF HeaderKnown, MainIs, InMain, PageOf
  <2>. QED BY <1>0, <2>1, <2>3, <2>6, <2>7, CheckpointEnds
<1>8. CASE CheckpointFails
  <2>1. pc \in Tolerated /\ pc \in {"ckpt", "saltw", "unlink"}
    BY <1>8, FaultTolerated DEF CheckpointFails, Tolerated, CheckpointCalls
  <2>2. /\ CheckpointReturns(FALSE)
        /\ UNCHANGED <<main, mainD, wal, walD, salt, endOff, viewHdr, acked>>
    BY <1>8 DEF CheckpointFails
  <2>3. Intact(salt, endOff, acked) /\ HeaderKnown
    BY <2>1 DEF FileInv, RestInv
  <2>4. Intact(salt, endOff, acked)' /\ HeaderKnown'
    BY <2>2, <2>3 DEF Intact, Salted, Same, Holds, InMain, HeaderKnown
  <2>5. CASE txn # "close"
    <3>1. pc' = "idle" /\ RestInv'
      BY <2>2, <2>4, <2>5 DEF CheckpointReturns, RestInv
    <3>. QED BY <3>1, OnePhase
  <2>6. CASE txn = "close"
    <3>1. pc' = "drop"
      BY <2>2, <2>6 DEF CheckpointReturns
    <3>2. Settled(acked)
      BY <1>0, <2>3, IntactSettled
    <3>3. Settled(acked)'
      BY <2>2, <3>2 DEF Settled, Intact, Salted, Same, Holds, InMain, Spent, Logged, MainIs
    <3>. QED BY <3>1, <3>3, OnePhase DEF DropInv
  <2>. QED BY <2>5, <2>6
<1>9. CASE RemoveWal
  <2>1. /\ pc = "unlink" /\ pc' = "drop" /\ SetWal([salt |-> NoSalt, frames |-> <<>>])
        /\ UNCHANGED <<main, mainD, acked>>
    BY <1>9 DEF RemoveWal
  <2>2. /\ wal'.frames = <<>> /\ wal'.salt = NoSalt /\ walD'.frames \in {walD.frames, <<>>}
    BY <2>1 DEF SetWal
  <2>3. Spent(acked)'
    BY <1>0, <1>1, <2>1, <2>2, SpentKept
  <2>4. wal'.salt # main'.salt
    BY <1>0, <2>1, <2>2, SaltsAssumption DEF MainFile
  <2>. QED BY <2>1, <2>3, <2>4, OnePhase DEF DropInv, Settled
<1>10. CASE DropPager
  <2>1. pc = "drop" /\ pc' = "down" /\ UNCHANGED <<main, mainD, wal, walD, acked, limbo>>
    BY <1>10 DEF DropPager, ForgetMemory
  <2>2. Settled(acked) /\ acked \in Database
    BY <2>1 DEF FileInv, DropInv, TypeInv, TypeOK
  <2>3. Found = acked
    BY <1>0, <2>2, SettledCarries, CarriedIsRecovered DEF Found
  <2>4. Settled(Found)'
    <3>1. Settled(Found)
      BY <2>2, <2>3
    <3>. QED BY <2>1, <3>1 DEF Settled, Intact, Salted, Same, Holds, InMain, Spent, Logged,
                              MainIs, Found
  <2>5. Found' = acked'
    BY <2>1, <2>3 DEF Found
  <2>. QED BY <2>1, <2>4, <2>5, OnePhase DEF DownInv
<1>. QED BY <1>2, <1>3, <1>4, <1>5, <1>6, <1>7, <1>8, <1>9, <1>10

\* Files that a crash leaves carrying a database it may leave.
LEMMA CrashedDown ==
  ASSUME TypeInv, NEW o \in CrashOutcomes, NEW db \in Database, Carries(o[1], o[2], db),
         main' = o[1], mainD' = o[1], wal' = o[2], walD' = o[2], pc' = "down",
         CrashModel # "any" => db \in {acked'} \cup limbo'
  PROVE  FileInv'
<1>1. o[1] \in MainFile /\ o[2] \in WalFile
  BY CrashOutcomesType DEF TypeInv, TypeOK
<1>2. Found' = db
  BY <1>1, CarriedIsRecovered DEF Found
<1>3. Settled(db)'
  BY CarriedIsSettled
<1>4. Settled(Found)'
  BY <1>2, <1>3 DEF Settled, Intact, Salted, Same, Holds, InMain, Spent, Logged, MainIs
<1>. QED BY <1>2, <1>4, OnePhase DEF DownInv

\* A crash at any moment.
LEMMA CrashCrash ==
  ASSUME TypeInv, FileInv, Trusted', Crash
  PROVE  FileInv'
<1>. USE DEF files, walMem, overlay, call, session, history
<1>0. FilesOK /\ TypeOK
  BY DEF TypeInv, TypeOK, FilesOK
<1>1. pc \notin {"down", "failed"} /\ pc' = "down" /\ acked' = acked /\ faults' = faults
  BY DEF Crash, Running, ForgetMemory
<1>2. PICK o \in CrashOutcomes : main' = o[1] /\ mainD' = o[1] /\ wal' = o[2] /\ walD' = o[2]
  BY DEF Crash
<1>3. o[1] \in MainFile /\ o[2] \in WalFile
  BY <1>0, CrashOutcomesType DEF FilesOK
<1>4. CASE CrashModel # "any"
  <2>1. PICK db \in Survivors : Carries(o[1], o[2], db)
    BY <1>0, <1>1, <1>4, CrashAnywhere
  <2>2. limbo' = limbo \cup (IF pc = "walsync" THEN {Tentative} ELSE {})
    BY DEF Crash
  <2>3. Survivors \subseteq Database /\ Survivors = {acked'} \cup limbo'
    BY <1>0, <1>1, <2>2, TentativeType DEF Survivors, TypeOK
  <2>. QED BY <1>1, <1>2, <2>1, <2>3, CrashedDown
<1>5. CASE CrashModel = "any" /\ pc # "walsync"
  <2>1. Carries(o[1], o[2], acked)
    BY <1>0, <1>1, <1>5, CrashQuiet
  <2>2. PICK db \in Database : db = acked
    BY <1>0 DEF TypeOK
  <2>3. Carries(o[1], o[2], db)
    BY <2>1, <2>2
  <2>. QED BY <1>1, <1>2, <1>5, <2>3, CrashedDown
<1>6. CASE CrashModel = "any" /\ pc = "walsync"
  <2>1. Salted(salt)
    BY <1>6 DEF FileInv, SyncInv
  <2>2. o[1].salt = salt /\ o[2].salt = salt
    BY <1>0, <2>1, CrashedFiles, CrashedMain DEF Salted
  <2>3. CASE Corrupt(o[1], o[2])
    <3>1. Corrupt(main, wal)'
      BY <1>2, <2>3 DEF Corrupt
    <3>. QED BY <1>1, <1>6, <3>1, OnePhase DEF DownInv
  <2>4. CASE ~ Corrupt(o[1], o[2])
    <3>1. PICK db \in Database : db = Recovered(o[1], o[2])
      BY <1>3, RecoveredType
    <3>2. Carries(o[1], o[2], db)
      BY <1>3, <2>2, <2>4, <3>1, RecoveredIsCarried
    <3>. QED BY <1>1, <1>2, <1>6, <3>2, CrashedDown
  <2>. QED BY <2>3, <2>4
<1>. QED BY <1>4, <1>5, <1>6

\* Opening again, and stamping a new generation on a database that has none.
LEMMA CrashOpen ==
  ASSUME TypeInv, FileInv, OpenNext
  PROVE  FileInv'
<1>. USE DEF files, walMem, overlay, call, session, history
<1>0. FilesOK /\ wal \in WalFile /\ main \in MainFile /\ wal.frames \in Seq(Frame)
      /\ walD.frames \in Seq(Frame)
  BY DEF TypeInv, TypeOK, FilesOK, WalFile
<1>1. CASE OpenFails
  BY <1>1, OnePhase DEF OpenFails
<1>2. CASE OpenRecover
  <2>. DEFINE s == main.salt
              e == LastCommit(wal.frames, s)
  <2>1. /\ pc = "down" /\ ~ Corrupt(main, wal) /\ wal.salt = s
        /\ pc' = "idle" /\ salt' = s /\ endOff' = e /\ acked' = Found
        /\ viewHdr' = RecoveredHeader(wal.frames, s)
        /\ UNCHANGED <<main, mainD, wal, walD>>
    BY <1>2 DEF OpenRecover, Adopt, Found, HasCommits
  <2>2. Intact(s, Logged, Found)
    BY <2>1 DEF FileInv, DownInv, Settled
  <2>3. Log(wal.frames, s, e) /\ Logged = e /\ e \in 0 .. Len(wal.frames)
    BY <1>0, <2>2, LogEnd DEF Intact
  <2>4. Intact(salt, endOff, acked)'
    BY <2>1, <2>2, <2>3 DEF Intact, Salted, Same, Holds, InMain
  <2>5. OfPage(wal.frames, s, 0) = Written(wal.frames, s, e, 0) /\ 0 \in Ids /\ s \in Salts
    BY <1>0, <2>3, LogReplayed, IdsArePages DEF MainFile
  <2>. DEFINE a == At(wal.frames, s, e, 0)
  <2>6. a \in {None, Found.root} /\ (a = None => main.root = Found.root /\ mainD.root = Found.root)
    BY <2>2, <2>3, <2>5 DEF Intact, Holds, InMain, PageOf
  <2>. HIDE DEF s, e
  <2>7. CASE Written(wal.frames, s, e, 0) = {}
    <3>1. viewHdr' = None /\ a = None
      BY <2>1, <2>5, <2>7 DEF RecoveredHeader, At
    <3>2. HeaderKnown'
      BY <2>1, <2>6, <3>1 DEF HeaderKnown
    <3>. QED BY <2>1, <2>4, <3>2, OnePhase DEF RestInv, Resting
  <2>8. CASE Written(wal.frames, s, e, 0) # {}
    <3>1. a \in Roots /\ a # None
      BY <1>0, <2>3, <2>5, <2>8, AtType
    <3>2. viewHdr' = [root |-> a, salt |-> s]
      BY <2>1, <2>5, <2>8 DEF RecoveredHeader, At
    <3>3. viewHdr' # None
      BY <2>5, <3>1, <3>2, NoneAssumption DEF Header
    <3>4. HeaderKnown'
      BY <2>1, <2>6, <3>1, <3>2, <3>3 DEF HeaderKnown
    <3>. QED BY <2>1, <2>4, <3>4, OnePhase DEF RestInv, Resting
  <2>. QED BY <2>7, <2>8
<1>3. CASE OpenFresh
  <2>1. /\ pc = "down" /\ ~ HasCommits(main, wal) /\ pc' = "ftrunc" /\ viewHdr' = None
        /\ acked' = Found /\ UNCHANGED <<main, mainD, wal, walD>>
    BY <1>3 DEF OpenFresh, ResetOverlay, Adopt, Found
  <2>2. LastCommit(wal.frames, main.salt) \in 0 .. Len(wal.frames)
    BY <1>0, LastCommitType
  <2>3. ~ Corrupt(main, wal)
    BY <1>0, <2>1, <2>2 DEF Corrupt, HasCommits
  <2>4. Settled(Found)
    BY <2>1, <2>3 DEF FileInv, DownInv
  <2>5. ASSUME Intact(main.salt, Logged, Found) PROVE Spent(Found)
    <3>1. LastCommit(wal.frames, main.salt) = Logged
      BY <1>0, <2>5, LogEnd DEF Intact
    <3>2. Logged = 0
      BY <1>0, <2>1, <2>2, <2>5, <3>1 DEF HasCommits, Intact, Salted
    <3>3. \A p : At(wal.frames, main.salt, Logged, p) = None
      BY <3>2 DEF At, Written
    <3>4. MainIs(Found)
      BY <2>5, <3>3 DEF Intact, Holds, MainIs
    <3>. QED BY <1>0, <2>5, <3>4, IntactSpent
  <2>6. Spent(Found)
    BY <2>4, <2>5 DEF Settled
  <2>7. Spent(acked)'
    BY <2>1, <2>6 DEF Spent, Logged, MainIs, InMain, Same
  <2>. QED BY <2>1, <2>7, OnePhase DEF FreshInv
<1>4. CASE FreshTruncate
  <2>1. /\ pc = "ftrunc" /\ Spent(acked) /\ viewHdr = None /\ pc' = "fhdr"
        /\ SetWal([salt |-> NoSalt, frames |-> <<>>])
        /\ UNCHANGED <<main, mainD, acked, viewHdr>>
    BY <1>4 DEF FreshTruncate, FileInv, FreshInv
  <2>2. wal'.frames = <<>> /\ walD'.frames \in {walD.frames, <<>>}
    BY <2>1 DEF SetWal
  <2>3. Spent(acked)'
    BY <1>0, <2>1, <2>2, SpentKept
  <2>. QED BY <2>1, <2>2, <2>3, OnePhase DEF FreshInv
<1>5. CASE FreshHeader
  <2>1. PICK s \in Salts : SetWal([wal EXCEPT !.salt = s])
    BY <1>5 DEF FreshHeader
  <2>2. /\ pc = "fhdr" /\ Spent(acked) /\ viewHdr = None /\ wal.frames = <<>> /\ pc' = "fsync"
        /\ UNCHANGED <<main, mainD, acked, viewHdr>>
    BY <1>5 DEF FreshHeader, FileInv, FreshInv
  <2>3. wal'.frames = wal.frames /\ walD'.frames \in {walD.frames, wal.frames}
    BY <1>0, <2>1 DEF SetWal, WalFile
  <2>4. Spent(acked)'
    BY <1>0, <2>2, <2>3, SpentKept
  <2>. QED BY <2>2, <2>3, <2>4, OnePhase DEF FreshInv
<1>6. CASE FreshSync
  <2>1. /\ pc = "fsync" /\ Spent(acked) /\ viewHdr = None /\ wal.frames = <<>>
        /\ pc' = "fstamp" /\ walD' = wal /\ salt' = wal.salt /\ endOff' = 0
        /\ UNCHANGED <<main, mainD, wal, acked, viewHdr>>
    BY <1>6 DEF FreshSync, SyncWal, ResetWal, FileInv, FreshInv
  <2>2. MainIs(acked)'
    BY <2>1 DEF Spent, MainIs, InMain
  <2>. QED BY <2>1, <2>2, OnePhase DEF EmptyInv
<1>7. CASE FreshStamp
  <2>. DEFINE m == [main EXCEPT !.salt = salt]
  <2>1. /\ pc = "fstamp" /\ pc' = "fstamps" /\ SetMain(m)
        /\ UNCHANGED <<wal, walD, salt, endOff, acked, viewHdr>>
    BY <1>7 DEF FreshStamp
  <2>2. /\ wal = walD /\ wal.frames = <<>> /\ wal.salt = salt /\ endOff = 0 /\ MainIs(acked)
        /\ viewHdr = None
    BY <2>1 DEF FileInv, EmptyInv
  <2>3. m.page = main.page /\ m.root = main.root /\ m.salt = salt
    BY <1>0 DEF MainFile
  <2>. HIDE DEF m
  <2>4. MainIs(acked)'
    BY <2>1, <2>2, <2>3 DEF MainIs, InMain, SetMain, PageOf
  <2>5. main'.salt = salt'
    BY <2>1, <2>3 DEF SetMain
  <2>. QED BY <2>1, <2>2, <2>4, <2>5, OnePhase DEF EmptyInv
<1>8. CASE FreshStampSync
  <2>1. /\ pc = "fstamps" /\ pc' = "idle" /\ mainD' = main
        /\ UNCHANGED <<main, wal, walD, salt, endOff, acked, viewHdr>>
    BY <1>8 DEF FreshStampSync, SyncMain
  <2>2. /\ wal = walD /\ wal.frames = <<>> /\ wal.salt = salt /\ endOff = 0 /\ MainIs(acked)
        /\ viewHdr = None /\ main.salt = salt
    BY <2>1 DEF FileInv, EmptyInv
  <2>3. MainIs(acked)'
    BY <2>1, <2>2 DEF MainIs, InMain
  <2>4. Log(<<>>, salt, 0) /\ \A p : At(<<>>, salt, 0, p) = None
    BY DEF Log, Whole, At, Written
  <2>5. Holds(salt, endOff, acked)'
    BY <2>1, <2>2, <2>3, <2>4 DEF Holds, MainIs
  <2>6. Intact(salt, endOff, acked)'
    BY <2>1, <2>2, <2>4, <2>5 DEF Intact, Salted, Same
  <2>7. HeaderKnown'
    BY <2>1, <2>2, <2>3, IdsArePages DEF HeaderKnown, MainIs, InMain, PageOf
  <2>. QED BY <2>1, <2>6, <2>7, OnePhase DEF RestInv, Resting
<1>. QED BY <1>1, <1>2, <1>3, <1>4, <1>5, <1>6, <1>7, <1>8 DEF OpenNext

\* A clean database is intact.
LEMMA CrashInit == Init => FileInv
<1>. SUFFICES ASSUME Init PROVE FileInv
  OBVIOUS
<1>1. /\ pc = "idle" /\ mainD = main /\ walD = wal /\ salt = main.salt /\ endOff = 0
      /\ wal.salt = main.salt /\ wal.frames = <<>> /\ viewHdr = None
      /\ acked.page = main.page /\ acked.root = main.root
  BY DEF Init
<1>2. Log(<<>>, salt, 0) /\ \A p : At(<<>>, salt, 0, p) = None
  BY DEF Log, Whole, At, Written
<1>3. Intact(salt, endOff, acked) /\ HeaderKnown
  BY <1>1, <1>2 DEF Intact, Salted, Same, Holds, InMain, PageOf, HeaderKnown
<1>. QED BY <1>1, <1>3 DEF FileInv, RestInv, SyncInv, RotateInv, EmptyInv, DropInv, DownInv,
                           FreshInv, Resting

-----------------------------------------------------------------------------
(* The theorems.                                                           *)

\* No reader is pinned when the database is closed: an application that
\* drops its snapshots first.
CourteousNext == Next /\ (Close => ~ Deferred)
Courteous == Init /\ [][CourteousNext]_vars

\* The count of injected errors only grows.
LEMMA FaultsGrow == ASSUME TypeInv, [Next]_vars PROVE faults' = 0 => faults = 0
<1>. USE DEF history, Fault
<1>0. faults \in Nat
  BY DEF TypeInv, TypeOK
<1>1. CASE UNCHANGED vars
  BY <1>1 DEF vars
<1>2. CASE WriterNext
  BY <1>0, <1>2 DEF WriterNext, BeginWrite, WritePage, SetRootCatalog, Rollback, RollbackFails,
     CommitEmpty, CommitTooLarge, CommitStart, WriteFrame, WriteFrameFails, SyncCommit,
     SyncCommitFails, CommitReturns
<1>3. CASE CheckpointNext
  <2>1. CASE AutoCheckpoint \/ DbCheckpoint \/ Close \/ RemoveWal \/ DropPager
    BY <2>1 DEF AutoCheckpoint, DbCheckpoint, Close, RemoveWal, DropPager
  <2>2. CASE CheckpointWrite
    BY <2>2 DEF CheckpointWrite
  <2>3. CASE CheckpointSync \/ RotateSalt \/ SyncSalt \/ TruncateWal
    BY <2>3 DEF CheckpointSync, RotateSalt, SyncSalt, TruncateWal
  <2>4. CASE SyncTruncate \/ WriteHeader \/ SyncHeader
    BY <2>4 DEF SyncTruncate, WriteHeader, SyncHeader
  <2>5. CASE CheckpointFails
    BY <1>0, <2>5 DEF CheckpointFails
  <2>. QED BY <1>3, <2>1, <2>2, <2>3, <2>4, <2>5 DEF CheckpointNext
<1>4. CASE ReaderNext \/ Crash
  BY <1>4 DEF ReaderNext, BeginRead, EndRead, Crash
<1>5. CASE OpenNext
  BY <1>5 DEF OpenNext, OpenFails, OpenRecover, OpenFresh, Adopt, FreshTruncate, FreshHeader,
     FreshSync, FreshStamp, FreshStampSync
<1>. QED BY <1>1, <1>2, <1>3, <1>4, <1>5 DEF Next

\* CrashInv is inductive, given what reads find.
LEMMA CrashStep ==
  TypeInv /\ ReadInv /\ CrashInv /\ [CourteousNext]_vars => CrashInv'
<1>. SUFFICES ASSUME TypeInv, ReadInv, CrashInv, [CourteousNext]_vars, Trusted' PROVE FileInv'
  BY DEF CrashInv
<1>0. [Next]_vars
  BY DEF CourteousNext
<1>1. Trusted
  <2>1. faults' = 0 => faults = 0
    BY <1>0, FaultsGrow
  <2>. QED BY <2>1 DEF Trusted
<1>2. FileInv
  BY <1>1 DEF CrashInv
<1>3. CASE UNCHANGED vars
  BY <1>2, <1>3, Unmoved DEF vars, history
<1>4. CASE WriterNext
  BY <1>2, <1>4, CrashTxn, CrashCommit DEF WriterNext
<1>5. CASE CheckpointNext /\ (Close => ~ Deferred)
  BY <1>2, <1>5, CrashFold, CrashReset DEF CheckpointNext
<1>6. CASE ReaderNext
  BY <1>2, <1>6, Unmoved DEF ReaderNext, BeginRead, EndRead, history
<1>7. CASE Crash
  BY <1>2, <1>7, CrashCrash
<1>8. CASE OpenNext
  BY <1>2, <1>8, CrashOpen
<1>. QED BY <1>3, <1>4, <1>5, <1>6, <1>7, <1>8 DEF CourteousNext, Next

\* What an invariant state promises of every crash.
LEMMA CrashedSafely ==
  ASSUME TypeInv, FileInv, pc # "failed", NEW o \in CrashOutcomes,
         CrashModel # "any" \/ pc \notin {"walsync", "down"}
  PROVE  ~ Corrupt(o[1], o[2]) /\ Recovered(o[1], o[2]) \in Survivors
<1>0. TypeOK /\ FilesOK
  BY DEF TypeInv, TypeOK, FilesOK
<1>1. o[1] \in MainFile /\ o[2] \in WalFile
  BY <1>0, CrashOutcomesType DEF FilesOK
<1>2. PICK db \in Survivors : Carries(o[1], o[2], db)
  <2>1. CASE CrashModel # "any"
    BY <1>0, <2>1, CrashAnywhere
  <2>2. CASE pc \notin {"walsync", "down"}
    <3>1. Carries(o[1], o[2], acked)
      BY <1>0, <2>2, CrashQuiet
    <3>. QED BY <3>1 DEF Survivors
  <2>. QED BY <2>1, <2>2
<1>3. db \in Database
  BY <1>0, <1>2, TentativeType DEF Survivors, TypeOK
<1>. QED BY <1>1, <1>2, <1>3, CarriedIsRecovered

\* Whoever closes only after its readers are done keeps the invariant.
LEMMA CrashInvariant == Courteous => [](TypeInv /\ ReadInv /\ CrashInv)
<1>1. Init => TypeInv /\ ReadInv /\ CrashInv
  BY TypeInit, ReadInit, CrashInit DEF CrashInv
<1>2. TypeInv /\ ReadInv /\ CrashInv /\ [CourteousNext]_vars
        => (TypeInv /\ ReadInv /\ CrashInv)'
  <2>1. [CourteousNext]_vars => [Next]_vars
    BY DEF CourteousNext
  <2>. QED BY <2>1, TypeStep, ReadStep, CrashStep
<1>. QED BY <1>1, <1>2, PTL DEF Courteous

\* Atomicity and durability of commit, checkpoint and recovery: whatever the
\* machine does to writes no sync has covered, short of reordering those of
\* one file, and whichever tolerated call fails, a crash between any two
\* system calls leaves files that open, to the last acknowledged database or
\* to the commit in progress.
THEOREM CrashesAreSafe ==
  ASSUME CrashModel # "any", FaultPoints \subseteq Tolerated
  PROVE  Courteous => []CrashSafe
<1>1. TypeInv /\ ReadInv /\ CrashInv => CrashSafe
  <2>. SUFFICES ASSUME TypeInv, CrashInv, pc # "failed", NEW o \in CrashOutcomes
                PROVE  ~ Corrupt(o[1], o[2]) /\ Recovered(o[1], o[2]) \in Survivors
    BY DEF CrashSafe
  <2>1. FileInv
    BY DEF CrashInv, Trusted
  <2>. QED BY <2>1, CrashedSafely
<1>. QED BY <1>1, CrashInvariant, PTL

\* Without readers every application closes so.
LEMMA NoReaders == ASSUME Readers = {} PROVE Spec => Courteous
<1>1. [Next]_vars => [CourteousNext]_vars
  BY DEF CourteousNext, Deferred
<1>. QED BY <1>1, PTL DEF Spec, Courteous

\* The same of the whole specification, for a process that only writes.
THEOREM WriterCrashesAreSafe ==
  ASSUME CrashModel # "any", FaultPoints \subseteq Tolerated, Readers = {}
  PROVE  Spec => []CrashSafe
  BY CrashesAreSafe, NoReaders, PTL

\* Durability under the weakest disk: in any crash model and with any calls
\* failing later, as long as none has, every power loss outside the frames
\* and the sync of a commit leaves a database that opens to the acknowledged
\* one.
THEOREM RestIsDurable == Courteous => []DurableAtRest
<1>1. TypeInv /\ ReadInv /\ CrashInv => DurableAtRest
  <2>. SUFFICES ASSUME TypeInv, CrashInv, faults = 0,
                       pc \notin {"frame", "walsync", "down", "failed"}, NEW o \in CrashOutcomes
                PROVE  ~ Corrupt(o[1], o[2]) /\ Recovered(o[1], o[2]) \in Survivors
    BY DEF DurableAtRest
  <2>1. FileInv
    BY DEF CrashInv, Trusted
  <2>. QED BY <2>1, CrashedSafely
<1>. QED BY <1>1, CrashInvariant, PTL

\* And of the whole specification for a process that only writes.
THEOREM WriterRestIsDurable ==
  ASSUME Readers = {}
  PROVE  Spec => []DurableAtRest
  BY RestIsDurable, NoReaders, PTL

-----------------------------------------------------------------------------
(* The refinement of TxnStore: what a transaction can see of every step.   *)

\* A transaction whose writes are not yet decided.
Undecided == txn = "open" /\ pc \in {"idle", "frame", "walsync"}

\* Staged pages belong to an open transaction, and no running process has
\* forgotten a commit whose sync failed.
StagedInv == pending = Empty \/ (txn = "open" /\ pc \in {"idle", "frame", "walsync", "abort"})
LimboInv == Running => limbo = {}

\* The refinement mapping, said with the acknowledged database.
StoreSeen ==
    /\ Running => Committed = acked
    /\ ~ Running => Committed = Found
    /\ Undecided => Working = Tentative
    /\ ~ Undecided => Working = None

\* It is the mapping in every reachable state.
LEMMA StoreMapped == TypeInv /\ ReadInv => StoreSeen
<1>. SUFFICES ASSUME TypeInv, ReadInv PROVE StoreSeen
  OBVIOUS
<1>1. acked \in Database /\ acked = [page |-> acked.page, root |-> acked.root]
  BY DEF TypeInv, TypeOK, Database
<1>2. Running => Committed = acked
  BY <1>1 DEF ReadInv, OverlayCommitted, Committed
<1>3. Undecided => Running
  BY DEF Undecided, Running
<1>4. Undecided => Working = Tentative
  BY <1>3 DEF ReadInv, OverlayCommitted, RootCommitted, Working, Tentative, Undecided
<1>. QED BY <1>2, <1>4 DEF StoreSeen, Committed, Found, Working, Undecided

\* Staged pages are dropped with their transaction.
LEMMA StagedStep == ASSUME TypeInv, ReadInv, StagedInv, [Next]_vars PROVE StagedInv'
<1>. USE DEF StagedInv, overlay, call, session
<1>1. CASE UNCHANGED vars
  BY <1>1 DEF vars
<1>2. CASE WriterNext
  <2>1. CASE BeginWrite \/ (\E p \in Pages, v \in Vals : WritePage(p, v))
             \/ (\E r \in Roots : SetRootCatalog(r))
    BY <2>1 DEF BeginWrite, WritePage, SetRootCatalog
  <2>2. CASE Rollback \/ RollbackFails
    BY <2>2 DEF Rollback, RollbackFails, RestoreSnapshot
  <2>3. CASE CommitEmpty
    <3>1. pending = Empty
      BY <2>3 DEF CommitEmpty, Staged, Entries, Empty, TypeInv, TypeOK, Overlay
    <3>. QED BY <2>3, <3>1 DEF CommitEmpty
  <2>4. CASE CommitTooLarge \/ CommitStart
    BY <2>4 DEF CommitTooLarge, CommitStart
  <2>5. CASE WriteFrame
    BY <2>5 DEF WriteFrame
  <2>6. CASE WriteFrameFails \/ SyncCommitFails
    BY <2>6 DEF WriteFrameFails, SyncCommitFails
  <2>7. CASE SyncCommit
    BY <2>7 DEF SyncCommit, Publish
  <2>8. CASE CommitReturns
    BY <2>8 DEF CommitReturns
  <2>. QED BY <1>2, <2>1, <2>2, <2>3, <2>4, <2>5, <2>6, <2>7, <2>8 DEF WriterNext
<1>3. CASE CheckpointNext
  <2>0. pc \in CheckpointCalls \cup {"post", "unlink", "drop"} \/ (pc = "idle" /\ txn = "none")
        => pending = Empty
    BY DEF CheckpointCalls
  <2>1. CASE AutoCheckpoint \/ DbCheckpoint
    BY <2>0, <2>1 DEF AutoCheckpoint, DbCheckpoint
  <2>2. CASE Close
    BY <2>2 DEF Close
  <2>3. CASE CheckpointWrite
    BY <2>0, <2>3 DEF CheckpointWrite, CheckpointCalls
  <2>4. CASE CheckpointSync \/ RotateSalt \/ SyncSalt \/ TruncateWal
    BY <2>0, <2>4 DEF CheckpointSync, RotateSalt, SyncSalt, TruncateWal, CheckpointCalls
  <2>5. CASE SyncTruncate \/ WriteHeader \/ SyncHeader \/ RemoveWal \/ CheckpointFails
    BY <2>0, <2>5 DEF SyncTruncate, WriteHeader, SyncHeader, RemoveWal, CheckpointFails,
                      CheckpointCalls
  <2>6. CASE DropPager
    BY <2>6 DEF DropPager, ForgetMemory, ResetOverlay
  <2>. QED BY <1>3, <2>1, <2>2, <2>3, <2>4, <2>5, <2>6 DEF CheckpointNext
<1>4. CASE ReaderNext \/ Crash
  BY <1>4 DEF ReaderNext, BeginRead, EndRead, Crash, ForgetMemory, ResetOverlay
<1>5. CASE OpenNext
  <2>0. pc \in Opening \cup {"fstamp", "fstamps"} => pending = Empty
    BY DEF Opening
  <2>. QED BY <1>5, <2>0 DEF OpenNext, OpenFails, OpenRecover, OpenFresh, ResetOverlay,
     FreshTruncate, FreshHeader, FreshSync, FreshStamp, FreshStampSync, Opening
<1>. QED BY <1>1, <1>2, <1>3, <1>4, <1>5 DEF Next

\* And in the next one.
LEMMA StoreMappedNext == TypeInv' /\ ReadInv' => StoreSeen'
  BY StoreMapped, PTL

\* What holds before and after every step.
StoreInv == TypeInv /\ ReadInv /\ StoreSeen

\* Committing is a state of an undecided transaction, whose working copy is a
\* database.
LEMMA StoreWork ==
  ASSUME StoreInv
  PROVE  /\ pc \in {"frame", "walsync"} => Undecided
         /\ Undecided => Working \in Database /\ Working # None /\ Running
  <1>1. Undecided => Working \in Database
    BY TentativeType DEF StoreInv, StoreSeen, TypeInv
  <1>. QED BY <1>1, NoneAssumption DEF StoreInv, ReadInv, Callers, Undecided, Running

\* What the pager does outside a transaction is not seen.
LEMMA StoreStutters ==
  ASSUME StoreInv, StoreInv', Running, Running', acked' = acked, ~ Undecided, ~ Undecided'
  PROVE  UNCHANGED Store!store
<1>1. Committed' = Committed /\ Working' = Working
  BY DEF StoreInv, StoreSeen
<1>2. pc \notin {"frame", "walsync"} /\ pc' \notin {"frame", "walsync"}
  BY DEF StoreInv, ReadInv, Callers, Undecided
<1>. QED BY <1>1, <1>2 DEF Store!store

\* A transaction that ends and leaves the database alone is aborted.
LEMMA StoreAborts ==
  ASSUME StoreInv, StoreInv', Undecided, Running', acked' = acked, ~ Undecided'
  PROVE  Store!Abort
<1>1. Committed' = Committed /\ Working' = None /\ Working # None
  BY StoreWork DEF StoreInv, StoreSeen
<1>2. pc' \notin {"frame", "walsync"}
  BY DEF StoreInv, ReadInv, Callers, Undecided
<1>. QED BY <1>1, <1>2 DEF Store!Abort, Store!Finish

\* The transaction's own operations and its commit.
LEMMA StoreWriter ==
  ASSUME StoreInv, StagedInv, StoreInv', WriterNext
  PROVE  [Store!Next]_(Store!store)
<1>. USE DEF files, walMem, overlay, call, session, history
<1>1. CASE BeginWrite
  <2>1. /\ pc = "idle" /\ txn = "none" /\ txn' = "open" /\ pc' = pc
        /\ UNCHANGED <<pending, root, dirty, acked>>
    BY <1>1 DEF BeginWrite
  <2>2. ~ Undecided /\ Undecided' /\ Running /\ Running' /\ pending = Empty /\ ~ dirty
    BY <2>1 DEF Undecided, Running, StagedInv, StoreInv, ReadInv, RootCommitted
  <2>3. Tentative' = acked
    <3>1. acked = [page |-> acked.page, root |-> acked.root] /\ acked.page \in [Pages -> Vals]
      BY DEF StoreInv, TypeInv, TypeOK, Database
    <3>. QED BY <2>1, <2>2, <3>1, OverEmpty DEF Tentative
  <2>4. Working = None /\ Working' = Committed /\ Committed' = Committed
    BY <2>1, <2>2, <2>3 DEF StoreInv, StoreSeen
  <2>. QED BY <2>1, <2>4 DEF Store!Next, Store!Begin
<1>2. ASSUME \/ \E p \in Pages, v \in Vals : WritePage(p, v)
             \/ \E r \in Roots : SetRootCatalog(r)
      PROVE  [Store!Next]_(Store!store)
  <2>1. pc = "idle" /\ txn = "open" /\ UNCHANGED <<pc, txn, acked>>
    BY <1>2 DEF WritePage, SetRootCatalog
  <2>2. Undecided /\ Undecided' /\ Running /\ Running'
    BY <2>1 DEF Undecided, Running
  <2>3. Working # None /\ Working' \in Database /\ Committed' = Committed
    <3>1. Working # None
      BY <2>2, StoreWork
    <3>2. Tentative' \in Database
      <4>1. TypeOK' => (Tentative \in Database)'
        BY TentativeType, PTL
      <4>. QED BY <4>1 DEF StoreInv, TypeInv
    <3>. QED BY <2>1, <2>2, <3>1, <3>2 DEF StoreInv, StoreSeen
  <2>. QED BY <2>1, <2>3 DEF Store!Next, Store!Write
<1>3. CASE Rollback \/ RollbackFails
  <2>1. CanRollBack /\ txn' = "none" /\ pc' = "idle" /\ acked' = acked
    BY <1>3 DEF Rollback, RollbackFails, EndTxn, Return
  <2>2. Running /\ Running' /\ ~ Undecided'
    BY <2>1 DEF CanRollBack, Running, Undecided
  <2>. QED BY <2>1, <2>2, StoreStutters, StoreAborts DEF Store!Next
<1>4. CASE CommitEmpty \/ CommitTooLarge
  <2>1. Undecided /\ ~ Undecided' /\ Running' /\ acked' = acked
    BY <1>4 DEF CommitEmpty, CommitTooLarge, Undecided, Running
  <2>. QED BY <2>1, StoreAborts DEF Store!Next
<1>5. CASE CommitStart
  <2>1. /\ pc = "idle" /\ pc' = "frame" /\ txn = "open" /\ txn' = txn
        /\ UNCHANGED <<pending, root, dirty, acked>>
    BY <1>5 DEF CommitStart
  <2>2. Undecided /\ Undecided' /\ Running /\ Running' /\ Tentative' = Tentative
    BY <2>1 DEF Undecided, Running, Tentative
  <2>3. Committed' = Committed /\ Working' = Working /\ Working # None
    BY <2>1, <2>2, StoreWork DEF StoreInv, StoreSeen
  <2>. QED BY <2>1, <2>3 DEF Store!Next, Store!StartCommit
<1>6. CASE WriteFrame
  <2>1. /\ pc = "frame" /\ pc' \in {"frame", "walsync"} /\ txn' = txn
        /\ UNCHANGED <<pending, root, dirty, acked>>
    BY <1>6 DEF WriteFrame
  <2>2. Undecided /\ Undecided' /\ Running /\ Running' /\ Tentative' = Tentative
    BY <2>1, StoreWork DEF Undecided, Running, Tentative
  <2>3. Committed' = Committed /\ Working' = Working
    BY <2>1, <2>2 DEF StoreInv, StoreSeen
  <2>. QED BY <2>1, <2>3 DEF Store!store
<1>7. CASE WriteFrameFails \/ SyncCommitFails
  <2>1. pc \in {"frame", "walsync"} /\ pc' = "abort" /\ acked' = acked
    BY <1>7 DEF WriteFrameFails, SyncCommitFails
  <2>2. Undecided /\ ~ Undecided' /\ Running'
    BY <2>1, StoreWork DEF Undecided, Running
  <2>. QED BY <2>1, <2>2, StoreAborts DEF Store!Next
<1>8. CASE SyncCommit
  <2>1. pc = "walsync" /\ pc' = "post" /\ acked' = Tentative
    BY <1>8 DEF SyncCommit
  <2>2. Undecided /\ ~ Undecided' /\ Running'
    BY <2>1, StoreWork DEF Undecided, Running
  <2>3. Committed' = Working /\ Working' = None
    BY <2>1, <2>2 DEF StoreInv, StoreSeen
  <2>. QED BY <2>1, <2>3 DEF Store!Next, Store!Commit, Store!Finish
<1>9. CASE CommitReturns
  <2>1. pc = "post" /\ pc' = "idle" /\ txn' = "none" /\ acked' = acked
    BY <1>9 DEF CommitReturns, EndTxn, Return
  <2>2. ~ Undecided /\ ~ Undecided' /\ Running /\ Running'
    BY <2>1 DEF Undecided, Running
  <2>. QED BY <2>1, <2>2, StoreStutters
<1>. QED BY <1>1, <1>2, <1>3, <1>4, <1>5, <1>6, <1>7, <1>8, <1>9 DEF WriterNext

\* Checkpoints and closing move data between memory and the files.
LEMMA StoreCheckpoint ==
  ASSUME StoreInv, FileInv, StoreInv', CheckpointNext
  PROVE  UNCHANGED Store!store
<1>. USE DEF files, walMem, overlay, call, session, history, CheckpointCalls
<1>1. CASE DropPager
  <2>1. pc = "drop" /\ pc' = "down" /\ UNCHANGED <<main, mainD, wal, walD>>
    BY <1>1 DEF DropPager, ForgetMemory
  <2>2. Settled(acked) /\ acked \in Database /\ FilesOK /\ main \in MainFile /\ wal \in WalFile
    BY <2>1 DEF FileInv, DropInv, StoreInv, TypeInv, TypeOK, FilesOK
  <2>3. Found = acked
    BY <2>2, SettledCarries, CarriedIsRecovered DEF Found
  <2>4. Found' = Found /\ Running /\ ~ Running' /\ ~ Undecided /\ ~ Undecided'
    BY <2>1 DEF Found, Running, Undecided
  <2>5. Committed' = Committed /\ Working' = Working
    BY <2>3, <2>4 DEF StoreInv, StoreSeen
  <2>. QED BY <2>1, <2>5 DEF Store!store
<1>2. ASSUME CheckpointReturns(TRUE) \/ CheckpointReturns(FALSE),
             pc \in CheckpointCalls \cup {"unlink"}
      PROVE  ~ Undecided' /\ Running'
  BY <1>2 DEF CheckpointReturns, EndTxn, Undecided, Running
<1>3. ASSUME CheckpointNext, ~ DropPager
      PROVE  ~ Undecided /\ ~ Undecided' /\ Running /\ Running' /\ acked' = acked
  <2>1. CASE AutoCheckpoint \/ DbCheckpoint \/ Close
    BY <2>1 DEF AutoCheckpoint, DbCheckpoint, Close, StartCheckpoint, Undecided, Running
  <2>2. CASE CheckpointWrite
    BY <2>2 DEF CheckpointWrite, Undecided, Running
  <2>3. CASE CheckpointSync
    BY <1>2, <2>3 DEF CheckpointSync, Undecided, Running
  <2>4. CASE RotateSalt \/ SyncSalt \/ TruncateWal \/ RemoveWal
    BY <2>4 DEF RotateSalt, SyncSalt, TruncateWal, RemoveWal, Undecided, Running
  <2>5. CASE SyncTruncate \/ WriteHeader
    BY <2>5 DEF SyncTruncate, WriteHeader, Undecided, Running
  <2>6. CASE SyncHeader \/ CheckpointFails
    BY <1>2, <2>6 DEF SyncHeader, CheckpointFails, Undecided, Running
  <2>. QED BY <1>3, <2>1, <2>2, <2>3, <2>4, <2>5, <2>6 DEF CheckpointNext
<1>. QED BY <1>1, <1>3, StoreStutters

\* A crash decides a commit in progress one way or the other, and nothing
\* else; an open shows what the crash left.
LEMMA StoreRest ==
  ASSUME StoreInv, FileInv, LimboInv, StoreInv', FileInv', CrashModel # "any",
         ReaderNext \/ Crash \/ OpenNext
  PROVE  [Store!Next]_(Store!store)
<1>. USE DEF files, walMem, overlay, call, session, history
<1>1. CASE ReaderNext
  <2>1. UNCHANGED <<files, walMem, overlay, call, session, history>>
    BY <1>1 DEF ReaderNext, BeginRead, EndRead
  <2>2. Committed' = Committed /\ Working' = Working
    BY <2>1 DEF Committed, Working, Running
  <2>. QED BY <2>1, <2>2 DEF Store!store
<1>2. CASE Crash
  <2>1. /\ Running /\ pc' = "down" /\ txn' = "none" /\ acked' = acked
        /\ limbo' = limbo \cup (IF pc = "walsync" THEN {Tentative} ELSE {})
    BY <1>2 DEF Crash, ForgetMemory, EndTxn
  <2>2. Found' \in {acked} \cup (IF pc = "walsync" THEN {Tentative} ELSE {})
    BY <2>1 DEF FileInv, DownInv, LimboInv
  <2>3. pc = "walsync" => Undecided
    BY StoreWork
  <2>4. Committed' \in {Committed} \cup (IF pc \in {"frame", "walsync"} THEN {Working} ELSE {})
    BY <2>1, <2>2, <2>3 DEF StoreInv, StoreSeen, Running
  <2>5. Working' = None /\ pc' \notin {"frame", "walsync"}
    BY <2>1 DEF Working
  <2>. QED BY <2>4, <2>5 DEF Store!Next, Store!Crash, Store!Finish
<1>3. CASE OpenNext
  <2>1. CASE OpenFails
    <3>1. pc = "down" /\ pc' = "failed" /\ UNCHANGED <<main, wal>>
      BY <2>1 DEF OpenFails
    <3>2. Committed' = Committed /\ Working' = Working
      BY <3>1 DEF Committed, Working, Running
    <3>. QED BY <3>1, <3>2 DEF Store!store
  <2>2. CASE OpenRecover \/ OpenFresh
    <3>1. /\ pc = "down" /\ pc' \in {"idle", "ftrunc"} /\ acked' = Found
          /\ UNCHANGED <<main, wal, txn>>
      BY <2>2 DEF OpenRecover, OpenFresh, Adopt, Found
    <3>2. txn = "none"
      BY <3>1 DEF StoreInv, ReadInv, Callers, Opening
    <3>3. ~ Undecided /\ ~ Undecided' /\ ~ Running /\ Running'
      BY <3>1, <3>2 DEF Undecided, Running
    <3>4. Committed' = Committed /\ Working' = Working
      BY <3>1, <3>3 DEF StoreInv, StoreSeen
    <3>. QED BY <3>1, <3>4 DEF Store!store
  <2>3. CASE FreshTruncate \/ FreshHeader \/ FreshSync \/ FreshStamp \/ FreshStampSync
    <3>1. /\ pc \in {"ftrunc", "fhdr", "fsync", "fstamp", "fstamps"} /\ acked' = acked
          /\ pc' \in {"fhdr", "fsync", "fstamp", "fstamps", "idle"} /\ txn' = txn
      BY <2>3 DEF FreshTruncate, FreshHeader, FreshSync, FreshStamp, FreshStampSync
    <3>2. txn = "none"
      BY <3>1 DEF StoreInv, ReadInv, Callers, Opening
    <3>3. ~ Undecided /\ ~ Undecided' /\ Running /\ Running'
      BY <3>1, <3>2 DEF Undecided, Running
    <3>. QED BY <3>1, <3>3, StoreStutters
  <2>. QED BY <1>3, <2>1, <2>2, <2>3 DEF OpenNext
<1>. QED BY <1>1, <1>2, <1>3

\* Every step of the pager is a step of the store or a stutter.
LEMMA StoreStep ==
  ASSUME TypeInv, ReadInv, CrashInv, StagedInv, LimboInv, [CourteousNext]_vars,
         TypeInv', ReadInv', CrashInv', CrashModel # "any", FaultPoints \subseteq Tolerated
  PROVE  [Store!Next]_(Store!store)
<1>1. StoreInv /\ FileInv
  BY StoreMapped DEF StoreInv, CrashInv, Trusted
<1>2. StoreInv' /\ FileInv'
  BY StoreMappedNext DEF StoreInv, CrashInv, Trusted
<1>3. CASE UNCHANGED vars
  <2>1. Committed' = Committed /\ Working' = Working
    BY <1>3 DEF Committed, Working, Running, vars, files, overlay, call, session
  <2>. QED BY <1>3, <2>1 DEF Store!store, vars, call
<1>4. CASE Next
  BY <1>1, <1>2, <1>4, StoreWriter, StoreCheckpoint, StoreRest DEF Next
<1>. QED BY <1>3, <1>4 DEF CourteousNext

\* With a sync that never fails no commit is left in doubt.
LEMMA LimboStep ==
  ASSUME LimboInv, FileInv, [Next]_vars, FaultPoints \subseteq Tolerated
  PROVE  LimboInv'
<1>. USE DEF LimboInv, Running, call, history
<1>1. CASE UNCHANGED vars
  BY <1>1 DEF vars
<1>2. CASE WriterNext
  <2>1. ~ SyncCommitFails
    BY DEF SyncCommitFails, Fault, Tolerated
  <2>2. CASE BeginWrite \/ (\E p \in Pages, v \in Vals : WritePage(p, v))
             \/ (\E r \in Roots : SetRootCatalog(r)) \/ CommitEmpty \/ CommitTooLarge
             \/ CommitStart
    BY <2>2 DEF BeginWrite, WritePage, SetRootCatalog, CommitEmpty, CommitTooLarge, CommitStart
  <2>3. CASE Rollback \/ RollbackFails
    BY <2>3 DEF Rollback, RollbackFails, CanRollBack
  <2>4. CASE WriteFrame \/ WriteFrameFails \/ SyncCommit \/ CommitReturns
    BY <2>4 DEF WriteFrame, WriteFrameFails, SyncCommit, CommitReturns
  <2>. QED BY <1>2, <2>1, <2>2, <2>3, <2>4 DEF WriterNext
<1>3. CASE CheckpointNext
  <2>1. CASE DropPager
    BY <2>1 DEF DropPager, ForgetMemory
  <2>2. CASE AutoCheckpoint \/ DbCheckpoint \/ Close \/ RemoveWal
    BY <2>2 DEF AutoCheckpoint, DbCheckpoint, Close, RemoveWal
  <2>3. CASE CheckpointWrite
    BY <2>3 DEF CheckpointWrite
  <2>4. CASE CheckpointSync \/ RotateSalt \/ SyncSalt \/ TruncateWal
    BY <2>4 DEF CheckpointSync, RotateSalt, SyncSalt, TruncateWal
  <2>5. CASE SyncTruncate \/ WriteHeader \/ SyncHeader
    BY <2>5 DEF SyncTruncate, WriteHeader, SyncHeader
  <2>6. CASE CheckpointFails
    BY <2>6 DEF CheckpointFails, CheckpointCalls
  <2>. QED BY <1>3, <2>1, <2>2, <2>3, <2>4, <2>5, <2>6 DEF CheckpointNext
<1>4. CASE ReaderNext
  BY <1>4 DEF ReaderNext, BeginRead, EndRead
<1>5. CASE Crash
  BY <1>5 DEF Crash, ForgetMemory
<1>6. CASE OpenNext
  BY <1>6 DEF OpenNext, OpenFails, OpenRecover, OpenFresh, Adopt, FreshTruncate, FreshHeader,
     FreshSync, FreshStamp, FreshStampSync
<1>. QED BY <1>1, <1>2, <1>3, <1>4, <1>5, <1>6 DEF Next

\* Transactions are atomic (WriteTxn::commit, Pager::checkpoint,
\* recover_or_create_wal): every execution of the pager, its system calls,
\* tolerated faults, crashes and recoveries included, is an execution of the
\* store, in which a database changes only by a whole commit.
THEOREM ImplementsTxnStore ==
  ASSUME CrashModel # "any", FaultPoints \subseteq Tolerated
  PROVE  Courteous => ImplementsStore
<1>. DEFINE Inv == StagedInv /\ LimboInv
<1>1. Init => Inv /\ Store!Init
  <2>. SUFFICES ASSUME Init PROVE Inv /\ Store!Init
    OBVIOUS
  <2>1. main.page \in [Pages -> Vals] /\ root = 0 /\ cRoot = 0 /\ view = Empty /\ pc = "idle"
    BY DEF Init
  <2>2. Over(main.page, view) = main.page
    BY <2>1, OverEmpty
  <2>. QED BY <2>1, <2>2 DEF Init, StagedInv, LimboInv, Store!Init, Committed, Working, Running,
                         Database
<1>2. TypeInv /\ ReadInv /\ CrashInv /\ Inv /\ [CourteousNext]_vars => Inv'
  <2>1. CrashInv => FileInv
    BY DEF CrashInv, Trusted
  <2>2. [CourteousNext]_vars => [Next]_vars
    BY DEF CourteousNext
  <2>. QED BY <2>1, <2>2, StagedStep, LimboStep
<1>3. /\ TypeInv /\ ReadInv /\ CrashInv /\ Inv /\ [CourteousNext]_vars
      /\ TypeInv' /\ ReadInv' /\ CrashInv'
      => [Store!Next]_(Store!store)
  BY StoreStep
<1>. QED BY <1>1, <1>2, <1>3, CrashInvariant, PTL DEF Courteous, ImplementsStore, Store!Spec

\* And of the whole specification for a process that only writes.
THEOREM WriterImplementsTxnStore ==
  ASSUME CrashModel # "any", FaultPoints \subseteq Tolerated, Readers = {}
  PROVE  Spec => ImplementsStore
  BY ImplementsTxnStore, NoReaders, PTL
=============================================================================
