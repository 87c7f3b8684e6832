--------------------------- MODULE CHandles_proofs ---------------------------
(***************************************************************************)
(* Proofs about the C interface.  set_error frees no message obj_errmsg    *)
(* may still return, for every length of the ring and any number of        *)
(* callers.  The references the entry points take and drop are counted, so *)
(* that no call records a message after DbInner is gone: they drive the    *)
(* ring as ErrorRing says, and what is proved of it holds in all their     *)
(* histories.  They keep the catalog as Db::transaction does.              *)
(***************************************************************************)
EXTENDS CHandles, DbCatalog_proofs, Integers

-----------------------------------------------------------------------------
(* The ring.                                                               *)

\* Two numbers with the same slot are a length of the ring apart.
LEMMA Apart ==
    ASSUME NEW R \in Nat \ {0}, NEW a \in Nat, NEW b \in Nat, a < b, a % R = b % R
    PROVE  a + R <= b
<1> DEFINE p == a \div R
           q == b \div R
<1>1. /\ p \in Int /\ q \in Int /\ a % R \in Int
      /\ a = R * p + (a % R)
      /\ b = R * q + (b % R)
  BY Z3
<1>2. R * (q - p) = b - a
  BY <1>1, Z3
<1>3. q - p > 0
  <2>1. SUFFICES ASSUME q - p <= 0 PROVE FALSE
    BY <1>1
  <2>2. R * (q - p) <= 0
    BY <1>1, <2>1, Z3
  <2> QED BY <1>2, <2>2
<1>4. R * (q - p) >= R
  BY <1>1, <1>3, Z3
<1> QED BY <1>2, <1>4

-----------------------------------------------------------------------------
RingType ==
    /\ seq \in Nat /\ last \in Nat /\ ring \in [Slots -> Nat]
    /\ stage \in [Callers -> Stages]
    /\ msg \in [Callers -> Nat] /\ out \in [Callers -> Nat]
    /\ freed \subseteq Nat /\ locked \in BOOLEAN /\ gone \in BOOLEAN

Inside(t) == stage[t] \in {"swap", "publish"}

\* One thread at a time is between the claim and the publication, with the
\* newest number; outside, the newest is published.
LockOrder ==
    /\ \A t \in Callers : Inside(t) =>
          /\ locked /\ msg[t] = seq /\ seq = last + 1
          /\ \A u \in Callers : Inside(u) => u = t
    /\ ~ locked => seq = last

\* A slot holds numbers of its own, and when the next is swapped in only older
\* ones.
SlotOrder ==
    /\ \A i \in Slots : ring[i] <= seq /\ (ring[i] # 0 => SlotOf(ring[i]) = i)
    /\ \A t \in Callers : stage[t] = "swap" => \A i \in Slots : ring[i] <= last

\* What a thread has displaced is a ring's length older than what it records.
DisplacedOld ==
    \A t \in Callers : stage[t] \in {"publish", "free"} =>
        /\ out[t] = 0 \/ out[t] + RingLen <= msg[t]
        /\ msg[t] <= seq
        /\ stage[t] = "free" => msg[t] <= last

RingInv == RingType /\ LockOrder /\ SlotOrder /\ DisplacedOld /\ MessagesReadable

LEMMA SlotType == ASSUME NEW m \in Nat \ {0} PROVE SlotOf(m) \in Slots
  BY RingAssumption, Z3 DEF SlotOf, Slots

LEMMA RingInvInit == RingInit => RingInv
<1> SUFFICES ASSUME RingInit PROVE RingInv
  OBVIOUS
<1>1. /\ seq = 0 /\ last = 0 /\ freed = {}
      /\ \A i \in Slots : ring[i] = 0
      /\ \A t \in Callers : stage[t] = "quiet"
  BY DEF RingInit
<1>2. RingType
  BY DEF RingInit, RingType, Stages
<1>3. LockOrder
  BY <1>1 DEF LockOrder, Inside
<1>4. SlotOrder
  BY <1>1 DEF SlotOrder
<1>5. DisplacedOld
  BY <1>1 DEF DisplacedOld
<1>6. MessagesReadable
  BY <1>1 DEF MessagesReadable
<1> QED BY <1>2, <1>3, <1>4, <1>5, <1>6 DEF RingInv

LEMMA RingInvStep == RingInv /\ [RingNext]_ringVars => RingInv'
<1> SUFFICES ASSUME RingInv, [RingNext]_ringVars PROVE RingInv'
  OBVIOUS
<1> USE RingAssumption DEF RingInv, RingType, Stages
<1>1. ASSUME NEW t \in Callers, Record(t) PROVE RingInv'
  BY <1>1 DEF Record, Enter, LockOrder, SlotOrder, DisplacedOld, MessagesReadable, Inside,
     obj_errmsg
<1>2. ASSUME NEW t \in Callers, Claim(t) PROVE RingInv'
  <2>1. RingType'
    BY <1>2 DEF Claim, Enter
  <2>2. LockOrder'
    BY <1>2 DEF Claim, Enter, LockOrder, Inside
  <2>3. SlotOrder'
    BY <1>2 DEF Claim, Enter, LockOrder, SlotOrder, Inside
  <2>4. DisplacedOld'
    BY <1>2 DEF Claim, Enter, DisplacedOld
  <2>5. MessagesReadable'
    BY <1>2 DEF Claim, MessagesReadable, obj_errmsg
  <2> QED BY <2>1, <2>2, <2>3, <2>4, <2>5
<1>3. ASSUME NEW t \in Callers, Swap(t) PROVE RingInv'
  <2> DEFINE i == SlotOf(msg[t])
  <2>1. /\ Inside(t) /\ msg[t] = seq /\ seq = last + 1 /\ i \in Slots
    BY <1>3, SlotType DEF Swap, LockOrder, Inside
  <2>2. RingType'
    BY <1>3, <2>1 DEF Swap, Enter
  <2>3. LockOrder'
    BY <1>3 DEF Swap, Enter, LockOrder, Inside
  <2>4. SlotOrder'
    <3>1. \A j \in Slots : ring'[j] = IF j = i THEN msg[t] ELSE ring[j]
      BY <1>3, <2>1 DEF Swap
    <3>2. \A u \in Callers : stage'[u] # "swap"
      BY <1>3 DEF Swap, Enter, LockOrder, Inside
    <3>3. seq' = seq
      BY <1>3 DEF Swap
    <3> QED BY <3>1, <3>2, <3>3, <2>1 DEF SlotOrder
  <2>5. ring[i] = 0 \/ ring[i] + RingLen <= msg[t]
    <3>1. SUFFICES ASSUME ring[i] # 0 PROVE ring[i] + RingLen <= msg[t]
      OBVIOUS
    <3>2. /\ SlotOf(ring[i]) = i
          /\ ring[i] < msg[t] /\ ring[i] - 1 \in Nat /\ msg[t] - 1 \in Nat
      BY <1>3, <2>1, <3>1 DEF Swap, SlotOrder
    <3>3. (ring[i] - 1) % RingLen = (msg[t] - 1) % RingLen
      BY <3>2 DEF SlotOf
    <3> DEFINE a == ring[i] - 1
               b == msg[t] - 1
    <3>4. a \in Nat /\ b \in Nat /\ a < b /\ a % RingLen = b % RingLen
      BY <3>2, <3>3, <2>1
    <3>5. a + RingLen <= b
      <4> HIDE DEF a, b
      <4> QED BY <3>4, Apart
    <3> QED BY <3>5, <2>1
  <2>6. DisplacedOld'
    <3>1. /\ out' = [out EXCEPT ![t] = ring[i]] /\ stage' = [stage EXCEPT ![t] = "publish"]
          /\ UNCHANGED <<seq, last, msg>>
      BY <1>3 DEF Swap, Enter
    <3> QED BY <2>1, <2>5, <3>1 DEF DisplacedOld
  <2>7. MessagesReadable'
    BY <1>3 DEF Swap, MessagesReadable, obj_errmsg
  <2> QED BY <2>2, <2>3, <2>4, <2>6, <2>7
<1>4. ASSUME NEW t \in Callers, Publish(t) PROVE RingInv'
  <2>1. Inside(t) /\ msg[t] = seq /\ seq = last + 1 /\ last' = seq
    BY <1>4 DEF Publish, LockOrder, Inside
  <2>2. RingType'
    BY <1>4 DEF Publish, Enter
  <2>3. LockOrder'
    BY <1>4, <2>1 DEF Publish, Enter, LockOrder, Inside
  <2>4. SlotOrder'
    BY <1>4, <2>1 DEF Publish, Enter, SlotOrder
  <2>5. DisplacedOld'
    BY <1>4, <2>1 DEF Publish, Enter, DisplacedOld
  <2>6. MessagesReadable'
    BY <1>4, <2>1 DEF Publish, MessagesReadable, obj_errmsg
  <2> QED BY <2>2, <2>3, <2>4, <2>5, <2>6
<1>5. ASSUME NEW t \in Callers, FreeDisplaced(t) PROVE RingInv'
  <2>1. RingType'
    BY <1>5 DEF FreeDisplaced, Enter
  <2>2. LockOrder'
    BY <1>5 DEF FreeDisplaced, Enter, LockOrder, Inside
  <2>3. SlotOrder'
    BY <1>5 DEF FreeDisplaced, Enter, SlotOrder
  <2>4. DisplacedOld'
    BY <1>5 DEF FreeDisplaced, Enter, DisplacedOld
  <2>5. MessagesReadable'
    BY <1>5 DEF FreeDisplaced, DisplacedOld, MessagesReadable, obj_errmsg
  <2> QED BY <2>1, <2>2, <2>3, <2>4, <2>5
<1>6. CASE DropRing
  BY <1>6 DEF DropRing, LockOrder, SlotOrder, DisplacedOld, MessagesReadable, Inside, Messages,
     obj_errmsg
<1>7. CASE UNCHANGED ringVars
  BY <1>7 DEF ringVars, LockOrder, SlotOrder, DisplacedOld, MessagesReadable, Inside, obj_errmsg
<1> QED BY <1>1, <1>2, <1>3, <1>4, <1>5, <1>6, <1>7 DEF RingNext

\* set_error, by any number of threads, frees a message only when RingLen
\* newer ones have been published.
THEOREM RingReadable == RingSpec => []MessagesReadable
<1>1. RingInv => MessagesReadable
  BY DEF RingInv
<1> QED BY <1>1, RingInvInit, RingInvStep, PTL DEF RingSpec

-----------------------------------------------------------------------------
(* Handles.                                                                *)

\* A call with valid arguments tells an error of the engine, and nothing else.
LEMMA OnlyErrorsAreTold ==
    /\ \A e \in Errors :
          /\ obj_txn_begin_write({}, e).told /\ obj_txn_begin_read({}, e).told
          /\ obj_txn_commit({}, e).told
          /\ \A answer \in IterCalls(e) : answer.told
    /\ ~ obj_txn_begin_write({}, "ok").told /\ ~ obj_txn_begin_read({}, "ok").told
    /\ \A answer \in InsertCalls("ok") \cup UpdateCalls("ok") \cup IterCalls("ok") : ~ answer.told
<1>1. \A checks, failed, done : Checked({}, checks, failed, done) = done
  BY DEF Checked
<1>2. \A failed : ~ Engine("ok", failed).told
  BY DEF Engine, Answer
<1>3. ASSUME NEW e \in Errors, NEW failed PROVE Engine(e, failed).told
  <2>1. e \notin {"ok", "panic", "absent"}
    BY DEF Errors, Io, Corruption, Invalid, NotFound, Unsupported
  <2> QED BY <2>1 DEF Engine, Answer
<1>4. ASSUME NEW e \in Errors
      PROVE  /\ obj_txn_begin_write({}, e).told /\ obj_txn_begin_read({}, e).told
             /\ obj_txn_commit({}, e).told
             /\ \A answer \in IterCalls(e) : answer.told
  BY <1>1, <1>3 DEF obj_txn_begin_write, obj_txn_begin_read, obj_txn_commit, IterCalls,
     obj_iter_all, obj_iter_index_range
<1>5. ~ obj_txn_begin_write({}, "ok").told /\ ~ obj_txn_begin_read({}, "ok").told
  BY <1>1, <1>2 DEF obj_txn_begin_write, obj_txn_begin_read
<1>6. \A answer \in InsertCalls("ok") : ~ answer.told
  BY <1>1, <1>2 DEF InsertCalls, obj_doc_insert_raw, obj_doc_insert_indexed, obj_doc_upsert_raw
<1>7. \A answer \in UpdateCalls("ok") : ~ answer.told
  BY <1>1, <1>2 DEF UpdateCalls, obj_doc_update_raw, obj_doc_update_indexed,
     obj_doc_delete_raw, obj_doc_delete_indexed
<1>8. \A answer \in IterCalls("ok") : ~ answer.told
  BY <1>1, <1>2 DEF IterCalls, obj_iter_all, obj_iter_index_range
<1> QED BY <1>4, <1>5, <1>6, <1>7, <1>8

\* How many threads have a value in S, and how one thread's new value changes
\* that.
Count(f, S) == Cardinality({t \in Threads : f[t] \in S})

\* The threads are finitely many.
LEMMA CountIsNat == ASSUME NEW f, NEW S PROVE Count(f, S) \in Nat
<1>1. IsFiniteSet({t \in Threads : f[t] \in S})
  BY CallersAssumption, FS_Subset
<1> QED BY <1>1, FS_CardinalityType DEF Count

\* Nothing changes if nobody enters or leaves.
LEMMA CountSame ==
    ASSUME NEW f, NEW g, NEW S, \A u \in Threads : g[u] \in S <=> f[u] \in S
    PROVE  Count(g, S) = Count(f, S)
<1>1. {t \in Threads : g[t] \in S} = {t \in Threads : f[t] \in S}
  OBVIOUS
<1> QED BY <1>1 DEF Count

\* One enters.
LEMMA CountUp ==
    ASSUME NEW f, NEW g, NEW S, NEW t \in Threads, f[t] \notin S, g[t] \in S,
           \A u \in Threads \ {t} : g[u] \in S <=> f[u] \in S
    PROVE  Count(g, S) = Count(f, S) + 1
<1> DEFINE A == {u \in Threads : f[u] \in S}
<1>1. IsFiniteSet(A)
  BY CallersAssumption, FS_Subset
<1>2. {u \in Threads : g[u] \in S} = A \cup {t}
  OBVIOUS
<1>3. t \notin A
  OBVIOUS
<1>4. Cardinality(A \cup {t}) = Cardinality(A) + 1
  BY <1>1, <1>3, FS_AddElement
<1> QED BY <1>2, <1>4 DEF Count

\* What there is that holds a reference.
Busy == {"body", "flushed"}
Holders == (IF open THEN 1 ELSE 0) + reads + iters + Count(via, {"arc"}) + Count(pc, Busy)

HandleTypes ==
    /\ open \in BOOLEAN /\ strong \in Nat /\ reads \in Nat /\ iters \in Nat /\ gone \in BOOLEAN
    /\ via \in [Threads -> {"none", "arc", "write", "read", "db"}]
    /\ pc \in [Threads -> {"idle"} \cup Busy]

Counted ==
    lang = "C" => HandleTypes /\ strong = Holders /\ (gone <=> strong = 0)

\* The holders are finitely many.
LEMMA HoldersIsNat == HandleTypes => Holders \in Nat
  BY CountIsNat DEF HandleTypes, Holders

\* The calls that borrow a handle of one kind are so many threads.
LEMMA BorrowCount == ASSUME NEW k PROVE Borrow(k) = Count(via, {k}) /\ Borrow(k) \in Nat
<1>1. {t \in Threads : via[t] = k} = {t \in Threads : via[t] \in {k}}
  OBVIOUS
<1> QED BY <1>1, CountIsNat DEF Borrow, Count

\* The count is the property, with its types.
LEMMA CountedKept == Counted => HandlesKept
<1>1. Borrow("arc") = Count(via, {"arc"})
  BY BorrowCount
<1> QED BY <1>1 DEF Counted, HandlesKept, Holders, Count, Busy

\* What a call leaves of the places from which messages are recorded, and of
\* the ring.
LEMMA ReturnsEffect ==
    ASSUME HandleTypes, NEW t \in Threads, via[t] = "none", NEW answer,
           NEW k \in {"none", "arc", "write", "read", "db"}, Returns(t, answer, k)
    PROVE  /\ via' \in [Threads -> {"none", "arc", "write", "read", "db"}]
           /\ gone' = gone
           /\ k # "arc" => Count(via', {"arc"}) = Count(via, {"arc"})
           /\ k = "arc" /\ answer.told => Count(via', {"arc"}) = Count(via, {"arc"}) + 1
<1>1. via' = via \/ via' = [via EXCEPT ![t] = k]
  BY DEF Returns
<1>2. gone' = gone
  BY DEF Returns, ringVars, Record
<1>3. k # "arc" => \A u \in Threads : via'[u] \in {"arc"} <=> via[u] \in {"arc"}
  BY <1>1 DEF HandleTypes
<1>4. ASSUME k = "arc", answer.told PROVE Count(via', {"arc"}) = Count(via, {"arc"}) + 1
  <2>1. via' = [via EXCEPT ![t] = "arc"]
    BY <1>4 DEF Returns
  <2>2. /\ via[t] \notin {"arc"} /\ via'[t] \in {"arc"}
        /\ \A u \in Threads \ {t} : via'[u] \in {"arc"} <=> via[u] \in {"arc"}
    BY <2>1 DEF HandleTypes
  <2> QED BY <2>2, CountUp
<1> QED BY <1>1, <1>2, <1>3, <1>4, CountSame DEF HandleTypes

\* A reference is dropped by something that held it.
LEMMA ReleaseCounted ==
    ASSUME Counted, lang = "C", HandleTypes', Release(1), Holders' + 1 = Holders
    PROVE  strong' = Holders' /\ (gone' <=> strong' = 0)
<1>1. Holders' \in Nat
  <2>1. Holders \in Nat /\ (HandleTypes => Holders \in Nat)'
    BY HoldersIsNat, CountIsNat DEF Counted, Holders, HandleTypes
  <2> QED BY <2>1
<1>2. strong = Holders /\ strong # 0 /\ ~ gone
  BY <1>1 DEF Counted, HandleTypes
<1> QED BY <1>1, <1>2 DEF Release, DropRing, ringVars

\* A new reference is cloned from a handle that is there.
LEMMA CloneStep ==
    ASSUME Counted, lang = "C", NEW t \in Threads,
           \/ BeginWriteC(t) \/ BeginWriteBusy(t)
           \/ BeginReadC(t) \/ BeginReadFails(t) \/ IterC(t)
    PROVE  Counted'
<1>1. HandleTypes /\ strong = Holders /\ (gone <=> strong = 0)
  BY DEF Counted
<1>2. via[t] = "none" /\ Count(via, {"arc"}) \in Nat /\ Count(pc, Busy) \in Nat /\ Borrow("read") \in Nat
  BY BorrowCount, CountIsNat
     DEF BeginWriteC, BeginWriteBusy, BeginReadC, BeginReadFails, IterC, CanCall
<1>3. CASE BeginWriteC(t)
  <2>1. Returns(t, obj_txn_begin_write({}, "ok"), "none")
    BY <1>3 DEF BeginWriteC
  <2>2. via' \in [Threads -> {"none", "arc", "write", "read", "db"}] /\ gone' = gone
        /\ Count(via', {"arc"}) = Count(via, {"arc"})
    BY <1>1, <1>2, <2>1, ReturnsEffect
  <2>3. pc[t] = "idle" /\ pc' = [pc EXCEPT ![t] = "body"] /\ open
        /\ strong' = strong + 1 /\ UNCHANGED <<lang, open, reads, iters>>
    BY <1>3 DEF BeginWriteC, Goto
  <2>4. Count(pc', Busy) = Count(pc, Busy) + 1
    <3>1. /\ pc[t] \notin Busy /\ pc'[t] \in Busy
          /\ \A u \in Threads \ {t} : pc'[u] \in Busy <=> pc[u] \in Busy
      BY <1>1, <2>3 DEF HandleTypes, Busy
    <3> QED BY <3>1, CountUp
  <2>5. HandleTypes'
    BY <1>1, <2>2, <2>3 DEF HandleTypes, Busy
  <2>6. Holders' = Holders + 1 /\ strong # 0
    BY <1>1, <1>2, <2>2, <2>3, <2>4 DEF Holders, HandleTypes
  <2> QED BY <1>1, <2>2, <2>3, <2>5, <2>6 DEF Counted, HandleTypes
<1>4. CASE BeginWriteBusy(t) \/ BeginReadFails(t)
  <2>1. PICK answer : Returns(t, answer, "arc") /\ answer.told
    BY <1>4, OnlyErrorsAreTold DEF BeginWriteBusy, BeginReadFails, Errors, NotFound
  <2>2. via' \in [Threads -> {"none", "arc", "write", "read", "db"}] /\ gone' = gone
        /\ Count(via', {"arc"}) = Count(via, {"arc"}) + 1
    BY <1>1, <1>2, <2>1, ReturnsEffect
  <2>3. /\ UNCHANGED <<pc, lang, open, reads, iters>> /\ strong' = strong + 1
        /\ open \/ reads > Borrow("read")
    BY <1>4 DEF BeginWriteBusy, BeginReadFails, Catalog_, catalogVars, vars
  <2>4. Count(pc', Busy) = Count(pc, Busy)
    BY <2>3
  <2>5. HandleTypes'
    BY <1>1, <2>2, <2>3 DEF HandleTypes
  <2>6. Holders' = Holders + 1 /\ strong # 0
    BY <1>1, <1>2, <2>2, <2>3, <2>4 DEF Holders, HandleTypes
  <2> QED BY <1>1, <2>2, <2>3, <2>5, <2>6 DEF Counted, HandleTypes
<1>5. CASE BeginReadC(t) \/ IterC(t)
  <2>1. PICK answer : Returns(t, answer, "none")
    BY <1>5 DEF BeginReadC, IterC
  <2>2. via' \in [Threads -> {"none", "arc", "write", "read", "db"}] /\ gone' = gone
        /\ Count(via', {"arc"}) = Count(via, {"arc"})
    BY <1>1, <1>2, <2>1, ReturnsEffect
  <2>3. /\ UNCHANGED <<pc, lang, open>> /\ strong' = strong + 1
        /\ open \/ reads > Borrow("read")
        /\ (reads' = reads + 1 /\ iters' = iters) \/ (iters' = iters + 1 /\ reads' = reads)
    BY <1>5 DEF BeginReadC, IterC, catalogVars, vars, Catalog_
  <2>4. Count(pc', Busy) = Count(pc, Busy)
    BY <2>3
  <2>5. HandleTypes'
    BY <1>1, <2>2, <2>3 DEF HandleTypes
  <2>6. Holders' = Holders + 1 /\ strong # 0
    BY <1>1, <1>2, <2>2, <2>3, <2>4 DEF Holders, HandleTypes
  <2> QED BY <1>1, <2>2, <2>3, <2>5, <2>6 DEF Counted, HandleTypes
<1> QED BY <1>3, <1>4, <1>5

\* A call that neither makes nor gives back a handle.
LEMMA PlainStep ==
    ASSUME Counted, lang = "C", NEW t \in Threads,
           \/ \E name \in Names : DocInsert(t, name) \/ DocUpdate(t, name) \/ DocFails(t, name)
           \/ FlushC(t) \/ ReadFails(t) \/ DbCallFails(t) \/ Recording(t) \/ Returned(t)
    PROVE  Counted'
<1>1. HandleTypes /\ strong = Holders /\ (gone <=> strong = 0)
  BY DEF Counted
<1>2. UNCHANGED <<lang, open, strong, reads, iters>>
  BY DEF DocInsert, DocUpdate, DocFails, FlushC, ReadFails, DbCallFails, Recording, Returned,
         Handles, handleVars
<1>3. /\ via' \in [Threads -> {"none", "arc", "write", "read", "db"}] /\ gone' = gone
      /\ Count(via', {"arc"}) = Count(via, {"arc"})
  <2>1. CASE \/ \E name \in Names : DocInsert(t, name) \/ DocUpdate(t, name) \/ DocFails(t, name)
             \/ ReadFails(t) \/ DbCallFails(t)
    <3>1. PICK k \in {"none", "write", "read", "db"} :
             (\E answer : Returns(t, answer, k)) /\ via[t] = "none"
      <4>1. CASE \E name \in Names : DocInsert(t, name)
        BY <4>1 DEF DocInsert, InTxn, CanCall
      <4>2. CASE \E name \in Names : DocUpdate(t, name)
        <5>1. (\E answer : Returns(t, answer, "none") \/ Returns(t, answer, "write")) /\ via[t] = "none"
          BY <4>2 DEF DocUpdate, InTxn, CanCall
        <5> QED BY <5>1
      <4>3. CASE \E name \in Names : DocFails(t, name)
        BY <4>3 DEF DocFails, InTxn, CanCall
      <4>4. CASE ReadFails(t)
        BY <4>4 DEF ReadFails, CanCall
      <4>5. CASE DbCallFails(t)
        BY <4>5 DEF DbCallFails, CanCall
      <4> QED BY <2>1, <4>1, <4>2, <4>3, <4>4, <4>5
    <3> QED BY <1>1, <3>1, ReturnsEffect
  <2>2. CASE FlushC(t) \/ Recording(t)
    BY <1>1, <2>2 DEF FlushC, Recording, ringVars, Claim, Swap, Publish, HandleTypes
  <2>3. CASE Returned(t)
    <3>1. via' = via \/ (via[t] # "arc" /\ via' = [via EXCEPT ![t] = "none"])
      BY <2>3 DEF Returned
    <3>2. \A u \in Threads : via'[u] \in {"arc"} <=> via[u] \in {"arc"}
      BY <1>1, <3>1 DEF HandleTypes
    <3>3. gone' = gone
      BY <2>3 DEF Returned, FreeDisplaced
    <3> QED BY <1>1, <3>1, <3>2, <3>3, CountSame DEF HandleTypes
  <2> QED BY <2>1, <2>2, <2>3
<1>4. pc' \in [Threads -> {"idle"} \cup Busy] /\ Count(pc', Busy) = Count(pc, Busy)
  <2>1. CASE FlushC(t)
    <3>1. pc[t] = "body" /\ pc' = [pc EXCEPT ![t] = "flushed"]
      BY <2>1 DEF FlushC, Flush, Goto
    <3>2. \A u \in Threads : pc'[u] \in Busy <=> pc[u] \in Busy
      BY <1>1, <3>1 DEF HandleTypes, Busy
    <3>3. Count(pc', Busy) = Count(pc, Busy)
      BY <3>2, CountSame
    <3> QED BY <1>1, <3>1, <3>3 DEF HandleTypes, Busy
  <2>2. CASE ~ FlushC(t)
    <3>1. pc' = pc
      BY <2>2 DEF DocInsert, Use, DocUpdate, DocFails, ReadFails, DbCallFails, Recording, Returned,
                  Catalog_, catalogVars, vars
    <3> QED BY <1>1, <3>1 DEF HandleTypes
  <2> QED BY <2>1, <2>2
<1>5. HandleTypes' /\ Holders' = Holders
  BY <1>1, <1>2, <1>3, <1>4 DEF HandleTypes, Holders
<1> QED BY <1>1, <1>2, <1>3, <1>5 DEF Counted

\* A call that gives a handle back, or drops a clone of its own.
LEMMA ReleaseStep ==
    ASSUME Counted, lang = "C", NEW t \in Threads,
           \/ CommitC(t) \/ CommitNothing(t) \/ RollbackC(t)
           \/ EndReadC(t) \/ IterFree(t) \/ CloseC(t) \/ DropClone(t)
    PROVE  Counted'
<1> DEFINE Kinds == {"none", "arc", "write", "read", "db"}
           Arcs == Count(via, {"arc"})
           Txns == Count(pc, Busy)
<1>1. HandleTypes /\ strong = Holders /\ (gone <=> strong = 0)
  BY DEF Counted
<1>2. /\ Arcs \in Nat /\ Txns \in Nat /\ Borrow("read") \in Nat
      /\ Count(via', {"arc"}) \in Nat /\ Count(pc', Busy) \in Nat
  BY BorrowCount, CountIsNat
<1>3. Release(1) /\ lang' = lang
  BY DEF CommitC, CommitNothing, RollbackC, EndReadC, IterFree, CloseC, DropClone
<1>4. strong' = strong - 1 /\ gone' \in BOOLEAN
  BY <1>1, <1>3 DEF Release, DropRing, ringVars, HandleTypes
<1> DEFINE Rest == /\ open' \in BOOLEAN /\ reads' \in Nat /\ iters' \in Nat
                   /\ via' \in [Threads -> Kinds] /\ pc' \in [Threads -> {"idle"} \cup Busy]
           Less == Holders' + 1 = Holders
<1>5. ASSUME CommitC(t) \/ CommitNothing(t) \/ RollbackC(t) PROVE Rest /\ Less
  <2>1. pc[t] \in Busy /\ pc' = [pc EXCEPT ![t] = "idle"] /\ UNCHANGED <<open, reads, iters, via>>
    BY <1>5 DEF CommitC, CommitNothing, RollbackC, InTxn, Commit, Drop, Goto, Busy
  <2>2. Txns = Count(pc', Busy) + 1
    <3>1. /\ pc'[t] \notin Busy
          /\ \A u \in Threads \ {t} : pc[u] \in Busy <=> pc'[u] \in Busy
      BY <1>1, <2>1 DEF HandleTypes, Busy
    <3> QED BY <2>1, <3>1, CountUp
  <2> QED BY <1>1, <1>2, <2>1, <2>2 DEF HandleTypes, Holders
<1>6. ASSUME DropClone(t) PROVE Rest /\ Less
  <2>1. via[t] = "arc" /\ via' = [via EXCEPT ![t] = "none"] /\ UNCHANGED <<open, reads, iters, pc>>
    BY <1>6 DEF DropClone, Catalog_, catalogVars, vars
  <2>2. Arcs = Count(via', {"arc"}) + 1
    <3>1. /\ via[t] \in {"arc"} /\ via'[t] \notin {"arc"}
          /\ \A u \in Threads \ {t} : via[u] \in {"arc"} <=> via'[u] \in {"arc"}
      BY <1>1, <2>1 DEF HandleTypes
    <3> QED BY <3>1, CountUp
  <2> QED BY <1>1, <1>2, <2>1, <2>2 DEF HandleTypes, Holders
<1>7. ASSUME EndReadC(t) \/ IterFree(t) \/ CloseC(t) PROVE Rest /\ Less
  <2>1. /\ UNCHANGED <<via, pc>>
        /\ \/ reads > Borrow("read") /\ reads' = reads - 1 /\ UNCHANGED <<open, iters>>
           \/ iters > 0 /\ iters' = iters - 1 /\ UNCHANGED <<open, reads>>
           \/ open /\ open' = FALSE /\ UNCHANGED <<reads, iters>>
    BY <1>7 DEF EndReadC, IterFree, CloseC, Catalog_, catalogVars, vars
  <2>2. Count(via', {"arc"}) = Arcs /\ Count(pc', Busy) = Txns
    BY <2>1
  <2>3. CASE reads > Borrow("read") /\ reads' = reads - 1 /\ UNCHANGED <<open, iters>>
    <3>1. reads' \in Nat
      BY <1>1, <1>2, <2>3 DEF HandleTypes
    <3> QED BY <1>1, <1>2, <2>1, <2>2, <2>3, <3>1 DEF HandleTypes, Holders
  <2>4. CASE iters > 0 /\ iters' = iters - 1 /\ UNCHANGED <<open, reads>>
    BY <1>1, <1>2, <2>1, <2>2, <2>4 DEF HandleTypes, Holders
  <2>5. CASE open /\ open' = FALSE /\ UNCHANGED <<reads, iters>>
    <3>1. Rest
      BY <1>1, <2>1, <2>5 DEF HandleTypes
    <3>2. (IF open THEN 1 ELSE 0) = 1 /\ (IF open' THEN 1 ELSE 0) = 0
      BY <2>5
    <3>3. reads \in Nat /\ iters \in Nat
      BY <1>1 DEF HandleTypes
    <3>4. Less
      BY <1>2, <2>2, <2>5, <3>2, <3>3 DEF Holders
    <3> QED BY <3>1, <3>4
  <2> QED BY <2>1, <2>3, <2>4, <2>5
<1>8. Rest /\ Less
  BY <1>5, <1>6, <1>7
<1>9. Holders' \in Nat
  BY <1>2, <1>8 DEF Holders
<1>10. HandleTypes'
  <2>1. strong' = Holders'
    <3>1. \A h \in Nat : strong = h + 1 /\ strong' = strong - 1 => strong' = h
      OBVIOUS
    <3>2. strong = Holders' + 1 /\ strong' = strong - 1
      BY <1>1, <1>4, <1>8
    <3> QED BY <1>9, <3>1, <3>2, Zenon
  <2>2. strong' \in Nat
    BY <1>9, <2>1
  <2> QED BY <1>4, <1>8, <2>2, Zenon DEF HandleTypes
<1>11. strong' = Holders' /\ (gone' <=> strong' = 0)
  BY <1>3, <1>8, <1>10, ReleaseCounted
<1> QED BY <1>10, <1>11 DEF Counted

\* A commit that fails gives its handle back and keeps a clone until the
\* message is recorded.
LEMMA CommitFailsStep ==
    ASSUME Counted, lang = "C", NEW t \in Threads, CommitFails(t)
    PROVE  Counted'
<1>1. HandleTypes /\ strong = Holders /\ (gone <=> strong = 0)
  BY DEF Counted
<1>2. Count(via, {"arc"}) \in Nat /\ Count(pc, Busy) \in Nat /\ Count(pc', Busy) \in Nat
  BY CountIsNat
<1>3. UNCHANGED <<lang, open, strong, reads, iters>> /\ via[t] = "none"
  BY DEF CommitFails, Handles, handleVars, CanCall
<1>4. /\ via' \in [Threads -> {"none", "arc", "write", "read", "db"}] /\ gone' = gone
      /\ Count(via', {"arc"}) = Count(via, {"arc"}) + 1
  <2>1. PICK e \in {"Io", "InvalidArgument"} : Returns(t, obj_txn_commit({}, e), "arc")
    BY DEF CommitFails
  <2>2. obj_txn_commit({}, e).told
    BY OnlyErrorsAreTold DEF Errors, Io, Invalid
  <2> QED BY <1>1, <1>3, <2>1, <2>2, ReturnsEffect
<1>5. pc[t] \in Busy /\ pc' = [pc EXCEPT ![t] = "idle"]
  BY DEF CommitFails, Drop, Goto, Busy
<1>6. Count(pc, Busy) = Count(pc', Busy) + 1
  <2>1. /\ pc'[t] \notin Busy
        /\ \A u \in Threads \ {t} : pc[u] \in Busy <=> pc'[u] \in Busy
    BY <1>1, <1>5 DEF HandleTypes, Busy
  <2> QED BY <1>5, <2>1, CountUp
<1>7. HandleTypes' /\ Holders' = Holders
  BY <1>1, <1>2, <1>3, <1>4, <1>5, <1>6 DEF HandleTypes, Holders
<1> QED BY <1>1, <1>3, <1>4, <1>7 DEF Counted

\* A call that is recording holds a reference of its own, or borrows a handle
\* that is not given back meanwhile.
Anchored ==
    /\ stage \in [Threads -> Stages]
    /\ \A t \in Threads :
          /\ stage[t] # "quiet" => via[t] # "none"
          /\ via[t] = "write" => pc[t] \in Busy
          /\ via[t] = "db" => open
    /\ Count(via, {"read"}) <= reads

\* Callers in Rust have no handles, and record nothing.
Unused == ~ gone /\ \A t \in Threads : stage[t] = "quiet" /\ via[t] = "none"

HandleInv == Counted /\ (lang = "C" => Anchored) /\ (lang # "C" => Unused)

\* Nobody is counted by a count of zero.
LEMMA CountZero ==
    ASSUME NEW f, NEW S, Count(f, S) = 0, NEW t \in Threads
    PROVE  f[t] \notin S
<1>1. IsFiniteSet({u \in Threads : f[u] \in S})
  BY CallersAssumption, FS_Subset
<1>2. {u \in Threads : f[u] \in S} = {}
  BY <1>1, FS_EmptySet DEF Count
<1> QED BY <1>2

\* When the last reference is gone there is nothing left to record through.
LEMMA AnchoredAlive == HandleInv => RecordedAlive
<1> SUFFICES ASSUME HandleInv, gone, NEW t \in Threads PROVE stage[t] = "quiet"
  BY DEF RecordedAlive
<1>1. lang = "C" /\ HandleTypes /\ Anchored /\ Holders = 0
  BY DEF HandleInv, Unused, Counted
<1>2. /\ Count(via, {"arc"}) \in Nat /\ Count(via, {"read"}) \in Nat /\ Count(pc, Busy) \in Nat
      /\ reads \in Nat /\ iters \in Nat
  BY <1>1, CountIsNat DEF HandleTypes
<1>3. ~ open /\ reads = 0 /\ Count(via, {"arc"}) = 0 /\ Count(pc, Busy) = 0
  <2>1. (IF open THEN 1 ELSE 0) \in Nat
    OBVIOUS
  <2> QED BY <1>1, <1>2, <2>1 DEF Holders
<1>4. Count(via, {"read"}) = 0
  BY <1>1, <1>2, <1>3 DEF Anchored
<1>5. via[t] \notin {"arc"} /\ via[t] \notin {"read"} /\ pc[t] \notin Busy
  BY <1>3, <1>4, CountZero
<1>6. via[t] = "none"
  BY <1>1, <1>3, <1>5 DEF Anchored, HandleTypes
<1> QED BY <1>1, <1>6 DEF Anchored

\* A call that fails goes on to record, through what it holds.
LEMMA FailingAnchored ==
    ASSUME HandleTypes, Anchored, NEW t \in Threads, NEW k \in {"arc", "write", "read", "db"},
           via[t] = "none", NEW answer, answer.told, Returns(t, answer, k),
           \A u \in Threads \ {t} : pc'[u] = pc[u], UNCHANGED <<open, reads>>,
           k = "write" => pc'[t] \in Busy, k = "db" => open, k = "read" => reads > Borrow("read")
    PROVE  Anchored'
<1>1. stage' = [stage EXCEPT ![t] = "lock"] /\ via' = [via EXCEPT ![t] = k]
  BY DEF Returns, Record, Enter
<1>2. stage' \in [Threads -> Stages]
  BY <1>1 DEF Anchored, Stages
<1>3. \A u \in Threads : /\ stage'[u] # "quiet" => via'[u] # "none"
                         /\ via'[u] = "write" => pc'[u] \in Busy
                         /\ via'[u] = "db" => open'
  BY <1>1 DEF Anchored, HandleTypes
<1>4. Count(via', {"read"}) <= reads'
  <2>1. CASE k = "read"
    <3>1. /\ via[t] \notin {"read"} /\ via'[t] \in {"read"}
          /\ \A u \in Threads \ {t} : via'[u] \in {"read"} <=> via[u] \in {"read"}
      BY <1>1, <2>1 DEF HandleTypes
    <3>2. Count(via', {"read"}) = Count(via, {"read"}) + 1
      BY <3>1, CountUp
    <3> QED BY <2>1, <3>2, BorrowCount DEF HandleTypes
  <2>2. CASE k # "read"
    <3>1. \A u \in Threads : via'[u] \in {"read"} <=> via[u] \in {"read"}
      BY <1>1, <2>2 DEF HandleTypes
    <3>2. Count(via', {"read"}) = Count(via, {"read"})
      BY <3>1, CountSame
    <3> QED BY <3>2 DEF Anchored
  <2> QED BY <2>1, <2>2
<1> QED BY <1>2, <1>3, <1>4 DEF Anchored

\* A call that records nothing leaves those that do what they hold.
LEMMA QuietAnchored ==
    ASSUME Anchored, NEW t \in Threads, UNCHANGED <<stage, via>>,
           \A u \in Threads \ {t} : pc'[u] = pc[u], via[t] = "write" => pc'[t] \in Busy,
           \A u \in Threads : via[u] = "db" => open', Count(via, {"read"}) <= reads'
    PROVE  Anchored'
BY DEF Anchored, Count

\* No step takes from a call that is recording what it records through.
LEMMA AnchoredStep ==
    ASSUME HandleInv, lang = "C", NEW t \in Threads, CStep(t)
    PROVE  Anchored'
<1>1. HandleTypes /\ Anchored
  BY DEF HandleInv, Counted
<1>2. /\ reads \in Nat /\ Count(via, {"read"}) \in Nat /\ Borrow("read") = Count(via, {"read"})
      /\ Count(via, {"read"}) <= reads
  BY <1>1, CountIsNat, BorrowCount DEF HandleTypes, Anchored
<1>3. \A u \in Threads : via[u] = "db" => open
  BY <1>1 DEF Anchored
<1>4. CASE BeginWriteC(t)
  <2>1. via[t] = "none" /\ Returns(t, obj_txn_begin_write({}, "ok"), "none") /\ UNCHANGED <<open, reads>>
    BY <1>4 DEF BeginWriteC, CanCall
  <2>2. UNCHANGED <<stage, via>>
    BY <2>1, OnlyErrorsAreTold DEF Returns, ringVars
  <2>3. \A u \in Threads \ {t} : pc'[u] = pc[u]
    BY <1>1, <1>4 DEF BeginWriteC, Goto, HandleTypes
  <2> QED BY <1>1, <1>2, <1>3, <2>1, <2>2, <2>3, QuietAnchored
<1>5. CASE BeginWriteBusy(t) \/ BeginReadFails(t) \/ CommitFails(t)
  <2>1. PICK answer : Returns(t, answer, "arc") /\ answer.told
    BY <1>5, OnlyErrorsAreTold
       DEF BeginWriteBusy, BeginReadFails, CommitFails, Errors, NotFound, Io, Invalid
  <2>2. via[t] = "none" /\ UNCHANGED <<open, reads>>
    BY <1>5 DEF BeginWriteBusy, BeginReadFails, CommitFails, CanCall, Handles, handleVars
  <2>3. \A u \in Threads \ {t} : pc'[u] = pc[u]
    BY <1>1, <1>5 DEF BeginWriteBusy, BeginReadFails, CommitFails, Drop, Goto, Catalog_,
       catalogVars, vars, HandleTypes
  <2> QED BY <1>1, <2>1, <2>2, <2>3, FailingAnchored
<1>6. ASSUME NEW name \in Names, DocInsert(t, name) \/ DocUpdate(t, name) \/ DocFails(t, name)
      PROVE  Anchored'
  <2>1. via[t] = "none" /\ pc[t] \in Busy /\ UNCHANGED <<open, reads, pc>>
    BY <1>6 DEF DocInsert, DocUpdate, DocFails, Use, InTxn, CanCall, Handles, handleVars,
       Catalog_, catalogVars, vars, Busy
  <2>2. PICK answer : \/ Returns(t, answer, "none") /\ ~ answer.told
                      \/ Returns(t, answer, "write")
    BY <1>6, OnlyErrorsAreTold DEF DocInsert, DocUpdate, DocFails
  <2>3. CASE Returns(t, answer, "write") /\ answer.told
    BY <1>1, <2>1, <2>3, FailingAnchored
  <2>4. CASE ~ answer.told
    <3>1. UNCHANGED <<stage, via>>
      BY <2>2, <2>4 DEF Returns, ringVars
    <3> QED BY <1>1, <1>2, <1>3, <2>1, <3>1, QuietAnchored
  <2> QED BY <2>2, <2>3, <2>4
<1>7. CASE FlushC(t) \/ CommitC(t) \/ CommitNothing(t) \/ RollbackC(t)
  <2>1. /\ via[t] = "none" /\ UNCHANGED <<open, reads, stage, via>>
        /\ \E l \in {"flushed", "idle"} : pc' = [pc EXCEPT ![t] = l]
    BY <1>7 DEF FlushC, Flush, CommitC, Commit, CommitNothing, RollbackC, Drop, InTxn, CanCall,
       Goto, Release, DropRing, ringVars, Handles, handleVars
  <2>2. \A u \in Threads \ {t} : pc'[u] = pc[u]
    BY <1>1, <2>1 DEF HandleTypes
  <2> QED BY <1>1, <1>2, <1>3, <2>1, <2>2, QuietAnchored
<1>8. CASE BeginReadC(t) \/ IterC(t)
  <2>1. PICK answer : Returns(t, answer, "none") /\ ~ answer.told
    BY <1>8, OnlyErrorsAreTold DEF BeginReadC, IterC
  <2>2. UNCHANGED <<stage, via>>
    BY <2>1 DEF Returns, ringVars
  <2>3. via[t] = "none" /\ UNCHANGED <<open, pc>> /\ reads' \in {reads, reads + 1}
    BY <1>8 DEF BeginReadC, IterC, CanCall, Catalog_, catalogVars, vars
  <2> QED BY <1>1, <1>2, <1>3, <2>2, <2>3, QuietAnchored
<1>9. CASE EndReadC(t) \/ IterFree(t) \/ CloseC(t)
  <2>1. via[t] = "none" /\ UNCHANGED <<stage, via, pc>>
    BY <1>9 DEF EndReadC, IterFree, CloseC, CanCall, Release, DropRing, ringVars, Catalog_,
       catalogVars, vars
  <2>2. Count(via, {"read"}) <= reads'
    BY <1>2, <1>9 DEF EndReadC, IterFree, CloseC
  <2>3. \A u \in Threads : via[u] = "db" => open'
    <3>1. CASE EndReadC(t) \/ IterFree(t)
      BY <1>3, <3>1 DEF EndReadC, IterFree
    <3>2. CASE CloseC(t)
      <4>1. Count(via, {"db"}) = 0
        BY <3>2, BorrowCount DEF CloseC
      <4> QED BY <4>1, CountZero
    <3> QED BY <1>9, <3>1, <3>2
  <2> QED BY <1>1, <2>1, <2>2, <2>3, QuietAnchored
<1>10. CASE ReadFails(t)
  <2>1. PICK answer : Returns(t, answer, "read")
    BY <1>10 DEF ReadFails
  <2>2. via[t] = "none" /\ reads > Borrow("read") /\ UNCHANGED <<open, reads, pc>>
    BY <1>10 DEF ReadFails, CanCall, Handles, handleVars, Catalog_, catalogVars, vars
  <2>3. CASE answer.told
    BY <1>1, <2>1, <2>2, <2>3, FailingAnchored
  <2>4. CASE ~ answer.told
    <3>1. UNCHANGED <<stage, via>>
      BY <2>1, <2>4 DEF Returns, ringVars
    <3> QED BY <1>1, <1>2, <1>3, <2>2, <3>1, QuietAnchored
  <2> QED BY <2>3, <2>4
<1>11. CASE DbCallFails(t)
  <2>1. PICK answer : Returns(t, answer, "db")
    BY <1>11 DEF DbCallFails
  <2>2. via[t] = "none" /\ open /\ UNCHANGED <<open, reads, pc>>
    BY <1>11 DEF DbCallFails, CanCall, Handles, handleVars, Catalog_, catalogVars, vars
  <2>3. CASE answer.told
    BY <1>1, <2>1, <2>2, <2>3, FailingAnchored
  <2>4. CASE ~ answer.told
    <3>1. UNCHANGED <<stage, via>>
      BY <2>1, <2>4 DEF Returns, ringVars
    <3> QED BY <1>1, <1>2, <1>3, <2>2, <3>1, QuietAnchored
  <2> QED BY <2>3, <2>4
<1>12. CASE Recording(t)
  <2>1. /\ stage[t] # "quiet" /\ UNCHANGED <<via, open, reads, pc>>
        /\ \E s \in Stages : stage' = [stage EXCEPT ![t] = s]
    BY <1>12 DEF Recording, Claim, Swap, Publish, Enter, Handles, handleVars, Catalog_,
       catalogVars, vars, Stages
  <2>2. via[t] # "none"
    BY <1>1, <2>1 DEF Anchored
  <2> QED BY <1>1, <2>1, <2>2 DEF Anchored, Count
<1>13. CASE Returned(t) \/ DropClone(t)
  <2>1. /\ UNCHANGED <<open, pc>> /\ reads' = reads
        /\ via' = via \/ via' = [via EXCEPT ![t] = "none"]
        /\ stage' = [stage EXCEPT ![t] = "quiet"] \/ (stage' = stage /\ stage[t] = "quiet")
    BY <1>13 DEF Returned, FreeDisplaced, Enter, DropClone, Release, DropRing, ringVars,
       Handles, handleVars, Catalog_, catalogVars, vars
  <2>2. stage' \in [Threads -> Stages] /\ stage'[t] = "quiet"
    BY <1>1, <2>1 DEF Anchored, Stages
  <2>3. \A u \in Threads : /\ stage'[u] # "quiet" => via'[u] # "none"
                           /\ via'[u] = "write" => pc'[u] \in Busy
                           /\ via'[u] = "db" => open'
    BY <1>1, <2>1, <2>2 DEF Anchored, HandleTypes
  <2>4. Count(via', {"read"}) <= Count(via, {"read"})
    <3>1. CASE via'[t] \in {"read"} <=> via[t] \in {"read"}
      <4>1. \A u \in Threads : via'[u] \in {"read"} <=> via[u] \in {"read"}
        BY <1>1, <2>1, <3>1 DEF HandleTypes
      <4>2. Count(via', {"read"}) = Count(via, {"read"})
        BY <4>1, CountSame
      <4> QED BY <1>2, <4>2
    <3>2. CASE ~ (via'[t] \in {"read"} <=> via[t] \in {"read"})
      <4>1. /\ via'[t] \notin {"read"} /\ via[t] \in {"read"}
            /\ \A u \in Threads \ {t} : via[u] \in {"read"} <=> via'[u] \in {"read"}
        BY <1>1, <2>1, <3>2 DEF HandleTypes
      <4>2. Count(via, {"read"}) = Count(via', {"read"}) + 1 /\ Count(via', {"read"}) \in Nat
        BY <4>1, CountUp, CountIsNat
      <4> QED BY <4>2
    <3> QED BY <3>1, <3>2
  <2>5. Count(via', {"read"}) <= reads'
    BY <1>2, <2>1, <2>4, CountIsNat
  <2> QED BY <2>2, <2>3, <2>5 DEF Anchored
<1> QED BY <1>4, <1>5, <1>6, <1>7, <1>8, <1>9, <1>10, <1>11, <1>12, <1>13 DEF CStep

\* Only C callers make these calls.
LEMMA CallersInC == ASSUME HandleInv, NEW t \in Threads, CStep(t) PROVE lang = "C"
<1>1. CanCall(t) \/ stage[t] # "quiet" \/ via[t] = "arc"
  BY DEF CStep, BeginWriteC, BeginWriteBusy, DocInsert, DocUpdate, DocFails,
     FlushC, CommitC, CommitNothing, CommitFails, RollbackC, BeginReadC, BeginReadFails,
     EndReadC, IterC, IterFree, ReadFails, DbCallFails, CloseC, Recording, Returned, DropClone,
     InTxn, Claim, Swap, Publish, FreeDisplaced
<1> QED BY <1>1 DEF CanCall, HandleInv, Unused

\* The invariant holds at the start ...
LEMMA HandleInvInit == CInit => HandleInv
<1> SUFFICES ASSUME CInit PROVE HandleInv
  OBVIOUS
<1>1. \A t \in Threads : via[t] = "none" /\ pc[t] = "idle" /\ stage[t] = "quiet"
  BY CallersAssumption DEF CInit, Init, RingInit
<1>2. ~ gone
  BY DEF CInit, RingInit
<1>3. \A t \in Threads : via[t] \notin {"arc"} /\ via[t] \notin {"read"} /\ pc[t] \notin Busy
  BY <1>1 DEF Busy
<1>4. Count(via, {"arc"}) = 0 /\ Count(via, {"read"}) = 0 /\ Count(pc, Busy) = 0
  <2>1. /\ {t \in Threads : via[t] \in {"arc"}} = {} /\ {t \in Threads : via[t] \in {"read"}} = {}
        /\ {t \in Threads : pc[t] \in Busy} = {}
    BY <1>3
  <2> QED BY <2>1, FS_EmptySet DEF Count
<1>5. CASE lang = "C"
  <2>1. HandleTypes /\ open /\ strong = 1 /\ reads = 0 /\ iters = 0
    BY <1>5 DEF CInit, Init, RingInit, HandleTypes
  <2>2. Counted
    BY <1>2, <1>4, <2>1 DEF Counted, Holders
  <2>3. Anchored
    BY <1>1, <1>4, <2>1, CallersAssumption DEF Anchored, Stages, CInit, RingInit
  <2> QED BY <1>5, <2>2, <2>3 DEF HandleInv
<1>6. CASE lang # "C"
  BY <1>1, <1>2, <1>6 DEF HandleInv, Counted, Unused
<1> QED BY <1>5, <1>6

\* ... and through every step of either kind of caller.
LEMMA HandleInvStep == HandleInv /\ [CNext]_chVars => HandleInv'
<1> SUFFICES ASSUME HandleInv, [CNext]_chVars PROVE HandleInv'
  OBVIOUS
<1>1. CASE UNCHANGED chVars
  <2>1. UNCHANGED <<lang, open, strong, reads, iters, via, pc, gone, stage>>
    BY <1>1 DEF chVars, handleVars, catalogVars, vars, ringVars
  <2> QED BY <2>1 DEF HandleInv, Counted, Anchored, Unused, HandleTypes, Holders, Count
<1>2. ASSUME NEW t \in Threads, Rust(t) PROVE HandleInv'
  <2>1. lang # "C" /\ UNCHANGED <<lang, gone, stage, via>>
    BY <1>2 DEF Rust, ringVars
  <2> QED BY <2>1 DEF HandleInv, Counted, Unused
<1>3. ASSUME NEW t \in Threads, CStep(t) PROVE HandleInv'
  <2>1. lang = "C"
    BY <1>3, CallersInC
  <2>2. lang' = lang
    BY <1>3 DEF CStep, BeginWriteC, BeginWriteBusy, DocInsert, DocUpdate, DocFails,
       FlushC, CommitC, CommitNothing, CommitFails, RollbackC, BeginReadC, BeginReadFails,
       EndReadC, IterC, IterFree, ReadFails, DbCallFails, CloseC, Recording, Returned, DropClone
  <2>3. Anchored'
    BY <1>3, <2>1, AnchoredStep
  <2>4. Counted'
    BY <1>3, <2>1, CloneStep, PlainStep, ReleaseStep, CommitFailsStep DEF CStep, HandleInv
  <2> QED BY <2>1, <2>2, <2>3, <2>4 DEF HandleInv
<1> QED BY <1>1, <1>2, <1>3 DEF CNext

\* It holds in every history of the interface.
LEMMA HandlesInvariant == CSpec => []HandleInv
  BY HandleInvInit, HandleInvStep, PTL DEF CSpec

\* Whatever is opened, begun, failed and given back in whatever order, the
\* count of the Arc<DbInner> is the number of those who can still reach it,
\* and it is dropped with the last of them.
THEOREM HandlesAreKept == CSpec => []HandlesKept
<1>1. HandleInv => HandlesKept
  BY CountedKept DEF HandleInv
<1> QED BY <1>1, HandlesInvariant, PTL

\* A call that fails records its message before DbInner can be dropped,
\* whatever the other threads end, free and close meanwhile and however many
\* they are: no message goes into a ring that has been freed.
THEOREM CallsKeepDbInner == CSpec => []RecordedAlive
  BY AnchoredAlive, HandlesInvariant, PTL

-----------------------------------------------------------------------------
(* The entry points and the ring.                                          *)

\* What a call tells is an error, which it records on a ring that is there.
LEMMA ReturnsRecords ==
    ASSUME HandleInv, HandleInv', lang = "C", NEW t \in Threads, NEW answer, NEW k,
           Returns(t, answer, k)
    PROVE  [RingNext]_ringVars
<1>1. CASE answer.told
  <2>1. Record(t) /\ gone' = gone
    BY <1>1 DEF Returns, Record
  <2>2. stage'[t] = "lock"
    BY <2>1 DEF HandleInv, Anchored, Record, Enter
  <2>3. RecordedAlive'
    BY AnchoredAlive, PTL
  <2>4. ~ gone
    BY <2>1, <2>2, <2>3 DEF RecordedAlive
  <2> QED BY <2>1, <2>4, CallersAssumption DEF RingNext
<1>2. CASE ~ answer.told
  BY <1>2 DEF Returns
<1> QED BY <1>1, <1>2

\* A reference that is given back leaves the messages alone, or is the last,
\* and no call is recording.
LEMMA ReleaseDrops ==
    ASSUME HandleInv, HandleInv', lang = "C", Release(1)
    PROVE  [RingNext]_ringVars
<1>1. CASE strong = 1
  <2>1. DropRing
    BY <1>1 DEF Release
  <2>2. gone' /\ UNCHANGED stage
    BY <2>1 DEF DropRing
  <2>3. RecordedAlive'
    BY AnchoredAlive, PTL
  <2>4. \A t \in Callers : stage[t] = "quiet"
    BY <2>2, <2>3, CallersAssumption DEF RecordedAlive
  <2>5. ~ gone
    BY <1>1 DEF HandleInv, Counted
  <2> QED BY <2>1, <2>4, <2>5 DEF RingNext
<1>2. CASE strong # 1
  BY <1>2 DEF Release
<1> QED BY <1>1, <1>2

\* Every step of the interface is a step of the ring, or leaves it alone.
LEMMA StepsTheRing == HandleInv /\ HandleInv' /\ [CNext]_chVars => [RingNext]_ringVars
<1> SUFFICES ASSUME HandleInv, HandleInv', [CNext]_chVars PROVE [RingNext]_ringVars
  OBVIOUS
<1>1. ASSUME NEW t \in Threads, Rust(t) PROVE [RingNext]_ringVars
  BY <1>1 DEF Rust
<1>2. ASSUME NEW t \in Threads, CStep(t) PROVE [RingNext]_ringVars
  <2>0. lang = "C"
    BY <1>2, CallersInC
  <2>1. CASE BeginWriteC(t) \/ BeginWriteBusy(t) \/ BeginReadC(t) \/ BeginReadFails(t) \/ IterC(t)
    BY <2>0, <2>1, ReturnsRecords DEF BeginWriteC, BeginWriteBusy, BeginReadC, BeginReadFails, IterC
  <2>2. ASSUME NEW name \in Names, DocInsert(t, name) \/ DocFails(t, name)
        PROVE  [RingNext]_ringVars
    BY <2>0, <2>2, ReturnsRecords DEF DocInsert, DocFails
  <2>3. ASSUME NEW name \in Names, DocUpdate(t, name) PROVE [RingNext]_ringVars
    BY <2>0, <2>3, ReturnsRecords DEF DocUpdate
  <2>4. CASE ReadFails(t) \/ DbCallFails(t) \/ CommitFails(t)
    BY <2>0, <2>4, ReturnsRecords DEF ReadFails, DbCallFails, CommitFails
  <2>5. CASE FlushC(t)
    BY <2>5 DEF FlushC
  <2>6. CASE CommitC(t) \/ CommitNothing(t) \/ RollbackC(t)
    BY <2>0, <2>6, ReleaseDrops DEF CommitC, CommitNothing, RollbackC
  <2>7. CASE EndReadC(t) \/ IterFree(t) \/ CloseC(t) \/ DropClone(t)
    BY <2>0, <2>7, ReleaseDrops DEF EndReadC, IterFree, CloseC, DropClone
  <2>8. CASE Recording(t) \/ Returned(t)
    BY <2>8, CallersAssumption DEF Recording, Returned, RingNext
  <2> QED BY <1>2, <2>1, <2>2, <2>3, <2>4, <2>5, <2>6, <2>7, <2>8 DEF CStep
<1>3. CASE UNCHANGED chVars
  BY <1>3 DEF chVars
<1> QED BY <1>1, <1>2, <1>3 DEF CNext

\* The interface implements ErrorRing, and keeps what the ring relies on.
THEOREM ImplementsRing == CSpec => RingSpec
<1>1. CInit => RingInit
  BY DEF CInit
<1> QED BY <1>1, HandlesInvariant, StepsTheRing, PTL DEF CSpec, RingSpec

\* As long as a handle is there, whatever transactions, iterators, failures
\* and closes came before, the message obj_errmsg returns is not freed.
THEOREM ErrmsgReadable == CSpec => []MessagesReadable
  BY ImplementsRing, RingReadable, PTL

-----------------------------------------------------------------------------
(* The catalog.                                                            *)

\* update and delete work on a collection that is there, or tell that it is not.
LEMMA DocUpdateKeeps ==
    ASSUME CatalogInv, NEW t \in Threads, NEW name \in Names, DocUpdate(t, name)
    PROVE  CatalogInv'
<1>1. CASE Get(pager, catalog.root, name) # None
  BY <1>1, FoundStep DEF DocUpdate, InTxn, history
<1>2. CASE Get(pager, catalog.root, name) = None
  <2>1. UNCHANGED vars
    BY <1>2 DEF DocUpdate, vars
  <2> QED BY <2>1, IdleKeeps
<1> QED BY <1>1, <1>2

\* A transaction that is driven call by call does what one of Db::transaction
\* does, without ever reading the catalog again.
LEMMA CStepKeeps == ASSUME CatalogInv, NEW t \in Threads, CStep(t) PROVE CatalogInv'
<1>1. CASE BeginWriteC(t)
  BY <1>1, BeginStep DEF BeginWriteC
<1>2. ASSUME NEW name \in Names, DocInsert(t, name) \/ DocUpdate(t, name) \/ DocFails(t, name)
      PROVE  CatalogInv'
  <2>1. CASE DocInsert(t, name)
    BY <2>1, StepKeeps DEF DocInsert, Step
  <2>2. CASE DocFails(t, name)
    BY <2>2, IdleKeeps DEF DocFails, Catalog_, catalogVars
  <2> QED BY <1>2, <2>1, <2>2, DocUpdateKeeps
<1>3. CASE FlushC(t)
  BY <1>3, StepKeeps DEF FlushC, Step
<1>4. CASE CommitC(t)
  BY <1>4, StepKeeps DEF CommitC, Step
<1>5. CASE CommitNothing(t)
  <2>1. gate = t
    BY <1>5 DEF CommitNothing, InTxn, CatalogInv, Flow
  <2> QED BY <1>5, <2>1, DropStep DEF CommitNothing, InTxn, Idle, history
<1>6. CASE CommitFails(t) \/ RollbackC(t)
  BY <1>6, StepKeeps DEF CommitFails, RollbackC, Step
<1>7. CASE \/ BeginWriteBusy(t) \/ BeginReadC(t) \/ BeginReadFails(t) \/ EndReadC(t) \/ IterC(t) \/ IterFree(t)
           \/ ReadFails(t) \/ DbCallFails(t) \/ CloseC(t)
           \/ Recording(t) \/ Returned(t) \/ DropClone(t)
  <2>1. UNCHANGED vars
    BY <1>7 DEF BeginWriteBusy, BeginReadC, BeginReadFails, EndReadC, IterC, IterFree, ReadFails, DbCallFails,
                CloseC, Recording, Returned, DropClone, Catalog_, catalogVars
  <2> QED BY <2>1, IdleKeeps
<1> QED BY <1>1, <1>2, <1>3, <1>4, <1>5, <1>6, <1>7 DEF CStep

\* The invariant of the catalog holds for callers of both kinds.
LEMMA CatalogOfBoth == CSpec => []CatalogInv
<1>1. CInit => CatalogInv
  BY FirstCatalog DEF CInit
<1>2. CatalogInv /\ [CNext]_chVars => CatalogInv'
  <2> SUFFICES ASSUME CatalogInv, [CNext]_chVars PROVE CatalogInv'
    OBVIOUS
  <2>1. CASE UNCHANGED chVars
    BY <2>1, IdleKeeps DEF chVars, catalogVars
  <2>2. ASSUME NEW t \in Threads, Rust(t) \/ CStep(t) PROVE CatalogInv'
    BY <2>2, StepKeeps, CStepKeeps DEF Rust
  <2> QED BY <2>1, <2>2 DEF CNext
<1> QED BY <1>1, <1>2, PTL DEF CSpec

\* As long as no transaction commits from a stale root, every committed
\* descriptor stays in the catalog, in Rust and in C.
THEOREM RowsAreKept == CSpec => []RowsKeptWhenFresh
  BY CatalogOfBoth, CatalogKept, PTL

\* ... and the file's watermark stays above every collection id, which are
\* all different.
THEOREM WatermarkStaysAhead == CSpec => []WatermarkAhead
  BY CatalogOfBoth, CatalogKept, PTL
=============================================================================
