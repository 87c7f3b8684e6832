--------------------------- MODULE DbCatalog_proofs ---------------------------
(***************************************************************************)
(* Proofs about the catalog: as long as no transaction commits from a      *)
(* stale root, the file holds every committed descriptor, and a watermark  *)
(* above every collection id.                                              *)
(***************************************************************************)
EXTENDS DbCatalog, FiniteSetTheorems, FunctionTheorems, SequenceTheorems, TLAPS

-----------------------------------------------------------------------------
(* Files and trees.                                                        *)

Descriptors == [id : Nat, writes : Nat]
Rows == Descriptors \union {None}
Nodes == [kind : {"leaf"}, rows : [Names -> Rows], mark : Nat]
         \union [kind : {"inner"}, left : Nat, right : Nat]
         \union {Freed}

RoomIn(p) == Len(p.free) + MaxPage - p.count

\* The freelist names each free page once.
FileOK(p) ==
  /\ p \in [pages : [Pages -> Nodes], free : Seq(Pages), count : Nat, root : Nat]
  /\ p.count <= MaxPage
  /\ \A i \in DOMAIN p.free : p.free[i] <= p.count /\ p.pages[p.free[i]].kind = "free"
  /\ \A i, j \in DOMAIN p.free : p.free[i] = p.free[j] => i = j

IsLeaf(p, i) == i \in 1 .. p.count /\ p.pages[i].kind = "leaf"

\* A leaf, or a root over two.
TreeAt(p, r) ==
  \/ IsLeaf(p, r)
  \/ /\ r \in 1 .. p.count /\ p.pages[r].kind = "inner"
     /\ IsLeaf(p, p.pages[r].left) /\ IsLeaf(p, p.pages[r].right)
     /\ p.pages[r].left # p.pages[r].right

\* There is no other root, and no other leaf with a watermark.
Alone(p, r) ==
  \A i \in 1 .. p.count :
     /\ p.pages[i].kind = "inner" => i = r
     /\ p.pages[i].kind = "leaf" /\ i # LeafOf(p, r, None) => p.pages[i].mark = 0

Mark(p) == Get(p, p.root, None)
Keys == Names \union {None}
Fits(key, value) == IF key = None THEN value \in Nat ELSE value \in Rows

-----------------------------------------------------------------------------
(* The invariant.                                                          *)

\* Who has a transaction open.
Flow ==
  /\ gate \in Threads \union {None}
  /\ pc \in [Threads -> {"idle", "recover", "clear", "begin", "body", "flushed", "refresh"}]
  /\ using \in [Threads -> Names \union {None}]
  /\ row = [t \in Threads |-> row[t]]
  /\ \A t \in Threads : pc[t] \in {"body", "flushed"} <=> gate = t
  /\ \A t \in Threads : gate # t => using[t] = None
  /\ \A t \in Threads : pc[t] = "flushed" => using[t] # None

\* The committed tree is what was acknowledged.
OnDisk ==
  /\ FileOK(disk) /\ TreeAt(disk, disk.root) /\ Alone(disk, disk.root)
  /\ acked \in [Names -> Rows]
  /\ \A n \in Names : Get(disk, disk.root, n) = acked[n]
  /\ Mark(disk) > 0
  /\ \A n \in Names : acked[n] # None =>
        /\ acked[n].id < Mark(disk)
        /\ \A m \in Names \ {n} : acked[m] # None => acked[m].id # acked[n].id

\* What the threads share is never behind the file.
InMemory == catalog \in [root : Pages, next : Nat] /\ Mark(disk) <= catalog.next

\* Whatever root a transaction began with, it has changed nothing or installed
\* its tree in both places.
Staged ==
  /\ FileOK(pager) /\ TreeAt(pager, pager.root)
  /\ Mark(pager) = 0 \/ Mark(disk) <= Mark(pager)
  /\ \/ pager = disk
     \/ gate # None /\ using[gate] # None /\ catalog.root = pager.root
  /\ gate # None /\ using[gate] # None => row[gate] \in Descriptors

\* The descriptor that the open transaction has left in the tree.
Pending(t) == IF pc[t] = "flushed" THEN Written(t) ELSE row[t]

\* A transaction that began with the pager's root has changed one row.
Fresh ==
  gate # None /\ ~ stale =>
     /\ catalog.root = pager.root /\ Alone(pager, pager.root)
     /\ Mark(disk) <= Mark(pager) /\ Mark(pager) <= catalog.next
     /\ \A n \in Names :
           Get(pager, pager.root, n) = IF n = using[gate] THEN Pending(gate) ELSE acked[n]
     /\ using[gate] # None =>
           /\ row[gate].id < Mark(pager)
           /\ IF acked[using[gate]] = None THEN Mark(disk) <= row[gate].id
              ELSE row[gate].id = acked[using[gate]].id

CatalogInv == Flow /\ (~ tainted => OnDisk /\ InMemory /\ Staged /\ Fresh)

-----------------------------------------------------------------------------
(* The allocator.                                                          *)

\* A new page is taken from the freelist or put behind the last one: it held
\* no node.
LEMMA PutPage ==
  ASSUME NEW p, FileOK(p), RoomIn(p) >= 1, NEW node \in Nodes, NEW q, q = Put(p, node)
  PROVE  /\ FileOK(q) /\ RoomIn(q) = RoomIn(p) - 1 /\ q.root = p.root
         /\ AllocId(p) \in Pages /\ AllocId(p) <= q.count /\ p.count <= q.count
         /\ \A i \in 1 .. q.count : i <= p.count \/ i = AllocId(p)
         /\ q.pages = [p.pages EXCEPT ![AllocId(p)] = node]
         /\ \A i \in 1 .. p.count : p.pages[i].kind # "free" => i # AllocId(p)
<1> DEFINE id == AllocId(p)
<1>1. /\ p \in [pages : [Pages -> Nodes], free : Seq(Pages), count : Nat, root : Nat]
      /\ p.count <= MaxPage /\ MaxPage \in Nat
  BY BoundsAssumption DEF FileOK
<1>2. /\ p.pages \in [Pages -> Nodes] /\ p.free \in Seq(Pages)
      /\ p.count \in Nat /\ p.root \in Nat /\ Len(p.free) \in Nat
  BY <1>1
<1>3. /\ q.pages = [p.pages EXCEPT ![id] = node] /\ q.root = p.root
      /\ q.count = (IF p.free = <<>> THEN p.count + 1 ELSE p.count)
      /\ q.free = (IF p.free = <<>> THEN p.free ELSE Tail(p.free))
      /\ q = [pages |-> q.pages, free |-> q.free, count |-> q.count, root |-> q.root]
  BY <1>1 DEF Put
<1>4. CASE p.free = <<>>
  <2>1. id = p.count + 1 /\ q.count = p.count + 1 /\ q.free = <<>> /\ Len(p.free) = 0
    BY <1>3, <1>4 DEF AllocId
  <2>2. id \in Pages /\ q.count <= MaxPage /\ q.count \in Nat
    BY <1>1, <1>2, <2>1 DEF RoomIn, Pages
  <2>3. q.pages \in [Pages -> Nodes]
    BY <1>2, <1>3
  <2>4. FileOK(q)
    BY <1>2, <1>3, <2>1, <2>2, <2>3 DEF FileOK
  <2>5. RoomIn(q) = RoomIn(p) - 1
    BY <1>1, <1>2, <2>1 DEF RoomIn
  <2> QED BY <1>2, <1>3, <2>1, <2>2, <2>4, <2>5
<1>5. CASE p.free # <<>>
  <2>1. /\ id = p.free[1] /\ q.count = p.count /\ q.free = Tail(p.free)
        /\ 1 \in DOMAIN p.free /\ Len(q.free) = Len(p.free) - 1 /\ q.free \in Seq(Pages)
        /\ \A i \in DOMAIN q.free : i + 1 \in DOMAIN p.free /\ q.free[i] = p.free[i + 1]
    BY <1>2, <1>3, <1>5 DEF AllocId
  <2>2. id \in Pages /\ id <= p.count /\ p.pages[id].kind = "free"
    BY <1>2, <2>1 DEF FileOK
  <2>3. q.pages \in [Pages -> Nodes]
    BY <1>2, <1>3
  <2>4. \A i \in DOMAIN q.free : q.free[i] # id
    BY <1>2, <2>1 DEF FileOK
  <2>5. \A i \in DOMAIN q.free : q.free[i] <= q.count /\ q.pages[q.free[i]].kind = "free"
    <3> SUFFICES ASSUME NEW i \in DOMAIN q.free
                 PROVE  q.free[i] <= q.count /\ q.pages[q.free[i]].kind = "free"
      OBVIOUS
    <3>1. q.free[i] <= p.count /\ p.pages[q.free[i]].kind = "free" /\ q.free[i] \in Pages
      BY <1>2, <2>1 DEF FileOK
    <3>2. q.pages[q.free[i]] = p.pages[q.free[i]]
      BY <1>2, <1>3, <2>4, <3>1
    <3> QED BY <2>1, <3>1, <3>2
  <2>6. \A i, j \in DOMAIN q.free : q.free[i] = q.free[j] => i = j
    BY <1>2, <2>1 DEF FileOK
  <2>7. FileOK(q)
    BY <1>1, <1>2, <1>3, <2>1, <2>3, <2>5, <2>6 DEF FileOK
  <2>8. RoomIn(q) = RoomIn(p) - 1
    BY <1>1, <1>2, <2>1 DEF RoomIn
  <2> QED BY <1>2, <1>3, <2>1, <2>2, <2>7, <2>8
<1> QED BY <1>4, <1>5

\* A page that held a node goes to the freelist.
LEMMA FreeOne ==
  ASSUME NEW p, FileOK(p), NEW id \in 1 .. p.count, p.pages[id].kind # "free",
         NEW q, q = FreePage(p, id)
  PROVE  /\ FileOK(q) /\ RoomIn(q) = RoomIn(p) + 1 /\ q.root = p.root /\ q.count = p.count
         /\ q.pages = [p.pages EXCEPT ![id] = Freed]
<1>1. /\ p \in [pages : [Pages -> Nodes], free : Seq(Pages), count : Nat, root : Nat]
      /\ p.count <= MaxPage /\ MaxPage \in Nat
  BY BoundsAssumption DEF FileOK
<1>2. /\ p.pages \in [Pages -> Nodes] /\ p.free \in Seq(Pages)
      /\ p.count \in Nat /\ p.root \in Nat /\ Len(p.free) \in Nat /\ id \in Pages
  BY <1>1 DEF Pages
<1>3. /\ q.pages = [p.pages EXCEPT ![id] = Freed] /\ q.root = p.root /\ q.count = p.count
      /\ q.free = <<id>> \o p.free
      /\ q = [pages |-> q.pages, free |-> q.free, count |-> q.count, root |-> q.root]
  BY <1>1 DEF FreePage
<1>4. /\ q.free \in Seq(Pages) /\ Len(q.free) = Len(p.free) + 1
      /\ \A i \in DOMAIN q.free : \/ i = 1 /\ q.free[i] = id
                                  \/ i - 1 \in DOMAIN p.free /\ q.free[i] = p.free[i - 1]
  BY <1>2, <1>3
<1>5. Freed \in Nodes /\ q.pages \in [Pages -> Nodes] /\ Freed.kind = "free"
  BY <1>2, <1>3 DEF Nodes, Freed
<1>6. \A i \in DOMAIN p.free : p.free[i] # id
  BY <1>2 DEF FileOK
<1>7. \A i \in DOMAIN q.free : q.free[i] <= q.count /\ q.pages[q.free[i]].kind = "free"
  <2> SUFFICES ASSUME NEW i \in DOMAIN q.free
               PROVE  q.free[i] <= q.count /\ q.pages[q.free[i]].kind = "free"
    OBVIOUS
  <2>1. CASE q.free[i] = id
    BY <1>2, <1>3, <1>5, <2>1
  <2>2. CASE i - 1 \in DOMAIN p.free /\ q.free[i] = p.free[i - 1]
    <3>1. /\ q.free[i] <= p.count /\ p.pages[q.free[i]].kind = "free"
          /\ q.free[i] \in Pages /\ q.free[i] # id
      BY <1>2, <1>6, <2>2 DEF FileOK
    <3>2. q.pages[q.free[i]] = p.pages[q.free[i]]
      BY <1>2, <1>3, <3>1
    <3> QED BY <1>3, <3>1, <3>2
  <2> QED BY <1>4, <2>1, <2>2
<1>8. \A i, j \in DOMAIN q.free : q.free[i] = q.free[j] => i = j
  <2>1. \A i, j \in DOMAIN p.free : p.free[i] = p.free[j] => i = j
    BY DEF FileOK
  <2>2. \A i \in DOMAIN q.free : i \in Nat
    BY <1>4
  <2> QED BY <1>2, <1>4, <1>6, <2>1, <2>2, SMTT(60)
<1>9. FileOK(q)
  BY <1>1, <1>2, <1>3, <1>4, <1>5, <1>7, <1>8 DEF FileOK
<1>10. RoomIn(q) = RoomIn(p) + 1
  BY <1>1, <1>2, <1>3, <1>4 DEF RoomIn
<1> QED BY <1>3, <1>9, <1>10

\* The pages up to the count are pages of the file.
LEMMA FileTypes ==
  ASSUME NEW p, FileOK(p)
  PROVE  /\ p.pages \in [Pages -> Nodes] /\ p.count \in Nat /\ p.count <= MaxPage
         /\ Len(p.free) \in Nat /\ RoomIn(p) \in Int
         /\ \A i \in 1 .. p.count : i \in Pages /\ i \in Nat /\ p.pages[i] \in Nodes
         /\ \A i \in Pages : i <= p.count => i \in 1 .. p.count
<1>1. /\ p.pages \in [Pages -> Nodes] /\ p.count \in Nat /\ p.count <= MaxPage
      /\ p.free \in Seq(Pages) /\ MaxPage \in Nat
  BY BoundsAssumption DEF FileOK
<1>2. \A i \in 1 .. p.count : i \in Pages /\ i \in Nat
  BY <1>1 DEF Pages
<1>3. Len(p.free) \in Nat /\ RoomIn(p) \in Int
  BY <1>1 DEF RoomIn
<1>4. \A i \in Pages : i <= p.count => i \in 1 .. p.count
  BY <1>1 DEF Pages
<1> QED BY <1>1, <1>2, <1>3, <1>4

-----------------------------------------------------------------------------
(* Trees.                                                                  *)

\* The keys go to the leaves of the tree, the watermark's to the left.
LEMMA LeavesOf ==
  ASSUME NEW p, NEW r, TreeAt(p, r)
  PROVE  /\ \A k \in Keys : IsLeaf(p, LeafOf(p, r, k))
         /\ p.pages[r].kind # "inner" => \A k : LeafOf(p, r, k) = r
         /\ p.pages[r].kind = "inner" =>
               /\ LeafOf(p, r, None) = p.pages[r].left
               /\ \A k : LeafOf(p, r, k) \in {p.pages[r].left, p.pages[r].right}
  BY DEF TreeAt, IsLeaf, LeafOf, GoesLeft

\* Writing a value into a leaf.
LEMMA SetLeaf ==
  ASSUME NEW p, FileOK(p), NEW i, IsLeaf(p, i), NEW key \in Keys, NEW value, Fits(key, value),
         NEW node, node = Set(p.pages[i], key, value)
  PROVE  /\ node \in Nodes /\ node.kind = "leaf"
         /\ node.mark = IF key = None THEN value ELSE p.pages[i].mark
         /\ \A n \in Names : node.rows[n] = IF n = key THEN value ELSE p.pages[i].rows[n]
<1>1. p.pages[i] \in [kind : {"leaf"}, rows : [Names -> Rows], mark : Nat]
  <2>1. p.pages[i] \in Nodes /\ p.pages[i].kind = "leaf"
    BY FileTypes DEF IsLeaf
  <2> QED BY <2>1 DEF Nodes, Freed
<1>2. CASE key = None
  BY <1>1, <1>2, NoneAssumption DEF Set, Fits, Nodes
<1>3. CASE key # None
  <2>1. key \in Names /\ value \in Rows
    BY <1>3 DEF Keys, Fits
  <2>2. node = [p.pages[i] EXCEPT !.rows[key] = value]
    BY <1>3 DEF Set
  <2>3. p.pages[i].rows \in [Names -> Rows]
    BY <1>1
  <2>4. node.rows = [p.pages[i].rows EXCEPT ![key] = value] /\ node.mark = p.pages[i].mark
        /\ node = [kind |-> "leaf", rows |-> node.rows, mark |-> node.mark]
    BY <1>1, <2>2
  <2>5. node.rows \in [Names -> Rows]
    BY <2>1, <2>3, <2>4
  <2> QED BY <1>1, <1>3, <2>1, <2>3, <2>4, <2>5 DEF Nodes
<1> QED BY <1>2, <1>3

\* Cow makes a tree of a tree.
LEMMA CowIsTree ==
  ASSUME NEW t, NEW key, NEW value
  PROVE  \E q, s : Cow(t, key, value) = [pager |-> q, root |-> s]
<1>1. \A b : \A q1, s1, q2, s2 :
         \E q, s : (IF b THEN [pager |-> q1, root |-> s1] ELSE [pager |-> q2, root |-> s2])
                     = [pager |-> q, root |-> s]
  OBVIOUS
<1> QED BY <1>1, Zenon DEF Cow

\* A change of one key leaves a tree that reads the same at the others, and
\* takes no page in the end.
LEMMA CowTree ==
  ASSUME NEW p, FileOK(p), NEW r, TreeAt(p, r), RoomIn(p) >= 2,
         NEW key \in Keys, NEW value, Fits(key, value),
         NEW q, NEW s, Cow([pager |-> p, root |-> r], key, value) = [pager |-> q, root |-> s]
  PROVE  /\ FileOK(q) /\ TreeAt(q, s) /\ RoomIn(q) = RoomIn(p)
         /\ \A k \in Keys : Get(q, s, k) = IF k = key THEN value ELSE Get(p, r, k)
         /\ Alone(p, r) => Alone(q, s)
<1> DEFINE leaf == LeafOf(p, r, key)
           node == Set(p.pages[leaf], key, value)
           a == AllocId(p)
           p1 == Put(p, node)
           top == p.pages[r]
           b == AllocId(p1)
           root == IF leaf = top.left THEN Inner(a, top.right) ELSE Inner(top.left, a)
           p2 == Put(p1, root)
<1>1. IsLeaf(p, leaf)
  BY LeavesOf
<1>2. /\ node \in Nodes /\ node.kind = "leaf"
      /\ node.mark = IF key = None THEN value ELSE p.pages[leaf].mark
      /\ \A n \in Names : node.rows[n] = IF n = key THEN value ELSE p.pages[leaf].rows[n]
  BY <1>1, SetLeaf
<1>3. /\ p.pages \in [Pages -> Nodes] /\ p.count \in Nat /\ MaxPage \in Nat /\ p.count <= MaxPage
      /\ Len(p.free) \in Nat
  BY BoundsAssumption DEF FileOK
<1>4. RoomIn(p) \in Int /\ RoomIn(p) >= 1
  BY <1>3 DEF RoomIn
<1>5. /\ FileOK(p1) /\ RoomIn(p1) = RoomIn(p) - 1 /\ p1.root = p.root
      /\ a \in Pages /\ a <= p1.count /\ p.count <= p1.count
      /\ \A i \in 1 .. p1.count : i <= p.count \/ i = a
      /\ p1.pages = [p.pages EXCEPT ![a] = node]
      /\ \A i \in 1 .. p.count : p.pages[i].kind # "free" => i # a
  <2> HIDE DEF node
  <2> QED BY <1>2, <1>4, PutPage
<1>6. p1.count \in Nat
  BY <1>5 DEF FileOK
<1>7. /\ leaf \in Pages /\ leaf <= p.count /\ leaf # a
      /\ p1.pages[leaf] = p.pages[leaf] /\ p1.pages[a] = node
      /\ leaf \in 1 .. p1.count /\ a \in 1 .. p1.count
  <2>1. leaf \in 1 .. p.count /\ p.pages[leaf].kind = "leaf"
    BY <1>1 DEF IsLeaf
  <2> HIDE DEF leaf, node, a, p1
  <2>2. leaf \in Pages /\ leaf <= p.count /\ leaf # a
    BY <1>3, <1>5, <2>1 DEF Pages
  <2> QED BY <1>3, <1>5, <1>6, <2>1, <2>2 DEF Pages
<1>8. CASE p.pages[r].kind # "inner"
  <2>1. leaf = r /\ q = FreePage(p1, leaf) /\ s = a
    BY <1>8, LeavesOf DEF Cow
  <2>2. leaf \in 1 .. p1.count /\ p1.pages[leaf].kind # "free"
    BY <1>1, <1>7 DEF IsLeaf
  <2>3. /\ FileOK(q) /\ RoomIn(q) = RoomIn(p1) + 1 /\ q.count = p1.count
        /\ q.pages = [p1.pages EXCEPT ![leaf] = Freed]
    <3> HIDE DEF leaf, p1
    <3>1. FileOK(p1) /\ q = FreePage(p1, leaf)
      BY <1>5, <2>1
    <3> QED BY <2>2, <3>1, FreeOne
  <2> HIDE DEF leaf, node, a, p1
  <2>4. q.pages \in [Pages -> Nodes] /\ p1.pages \in [Pages -> Nodes]
    BY <1>5, <2>3 DEF FileOK
  <2>5. /\ q.pages[a] = node
        /\ \A i \in Pages : i # a /\ i # leaf => q.pages[i] = p.pages[i]
        /\ q.pages[leaf] = Freed
    BY <1>3, <1>5, <1>7, <2>3, <2>4
  <2>6. IsLeaf(q, s)
    BY <1>2, <1>7, <2>1, <2>3, <2>5 DEF IsLeaf
  <2>7. TreeAt(q, s) /\ \A k : LeafOf(q, s, k) = s
    BY <2>6 DEF TreeAt, LeafOf, IsLeaf
  <2>8. \A k : LeafOf(p, r, k) = leaf
    BY <1>8, <2>1, LeavesOf
  <2>9. \A k \in Keys : Get(q, s, k) = IF k = key THEN value ELSE Get(p, r, k)
    BY <1>2, <2>1, <2>5, <2>7, <2>8 DEF Get, Keys
  <2>10. ASSUME Alone(p, r) PROVE Alone(q, s)
    <3> SUFFICES ASSUME NEW i \in 1 .. q.count, i # s
                 PROVE  q.pages[i].kind # "inner" /\ (q.pages[i].kind = "leaf" => q.pages[i].mark = 0)
      <4>1. q.pages[s].kind = "leaf" /\ LeafOf(q, s, None) = s
        BY <2>6, <2>7 DEF IsLeaf
      <4> QED BY <4>1 DEF Alone
    <3>1. CASE i = leaf
      BY <2>5, <3>1 DEF Freed
    <3>2. CASE i # leaf
      <4>1. i \in 1 .. p.count /\ i \in Pages
        BY <1>3, <1>5, <1>6, <2>1, <2>3 DEF Pages
      <4>2. q.pages[i] = p.pages[i]
        BY <2>1, <2>5, <3>2, <4>1
      <4> QED BY <2>1, <2>8, <2>10, <3>2, <4>1, <4>2 DEF Alone
    <3> QED BY <3>1, <3>2
  <2>11. RoomIn(q) = RoomIn(p)
    BY <1>4, <1>5, <2>3
  <2> QED BY <2>3, <2>7, <2>9, <2>10, <2>11
<1>9. CASE p.pages[r].kind = "inner"
  <2> DEFINE l == top.left
             o == top.right
  <2>1. /\ r \in 1 .. p.count /\ IsLeaf(p, l) /\ IsLeaf(p, o) /\ l # o
        /\ leaf \in {l, o} /\ leaf # r /\ LeafOf(p, r, None) = l
    <3>1. ~ IsLeaf(p, r)
      BY <1>9 DEF IsLeaf
    <3>2. r \in 1 .. p.count /\ IsLeaf(p, l) /\ IsLeaf(p, o) /\ l # o
      BY <3>1 DEF TreeAt
    <3>3. leaf \in {l, o} /\ LeafOf(p, r, None) = l
      BY <1>9, LeavesOf
    <3> QED BY <1>1, <3>1, <3>2, <3>3
  <2>2. q = FreePage(FreePage(p2, leaf), r) /\ s = b
    BY <2>1 DEF Cow
  <2> DEFINE p3 == FreePage(p2, leaf)
             other == IF leaf = l THEN o ELSE l
  <2>3. root = (IF leaf = l THEN Inner(a, other) ELSE Inner(other, a)) /\ other # leaf /\ IsLeaf(p, other)
    BY <2>1
  <2> HIDE DEF leaf, node, a, top
  <2>4. /\ root \in Nodes /\ root.kind = "inner"
        /\ root.left = (IF leaf = l THEN a ELSE other) /\ root.right = (IF leaf = l THEN other ELSE a)
    <3>1. other \in Nat /\ a \in Nat
      BY <1>5, <2>3 DEF IsLeaf, Pages
    <3> HIDE DEF other
    <3> QED BY <2>3, <3>1 DEF Nodes, Inner
  <2>5. RoomIn(p1) >= 1
    BY <1>4, <1>5
  <2>6. /\ FileOK(p2) /\ RoomIn(p2) = RoomIn(p1) - 1
        /\ b \in Pages /\ b <= p2.count /\ p1.count <= p2.count
        /\ \A i \in 1 .. p2.count : i <= p1.count \/ i = b
        /\ p2.pages = [p1.pages EXCEPT ![b] = root]
        /\ \A i \in 1 .. p1.count : p1.pages[i].kind # "free" => i # b
    <3>1. FileOK(p1) /\ root \in Nodes
      BY <1>5, <2>4
    <3> HIDE DEF b
    <3>2. b = AllocId(p1) /\ p2 = Put(p1, root)
      BY DEF b
    <3> HIDE DEF p1, root, p2
    <3> QED BY <2>5, <3>1, <3>2, PutPage
  <2>7. /\ p2.count \in Nat /\ p1.pages \in [Pages -> Nodes] /\ p2.pages \in [Pages -> Nodes]
        /\ r \in Pages /\ r # a /\ r <= p.count /\ other \in Pages /\ other # a /\ other <= p.count
    <3> HIDE DEF p1, p2, other
    <3>1. r \in 1 .. p.count /\ other \in 1 .. p.count
          /\ p.pages[r].kind # "free" /\ p.pages[other].kind # "free"
      BY <1>9, <2>1, <2>3 DEF IsLeaf
    <3>2. r # a /\ other # a
      BY <1>5, <3>1
    <3>3. r <= p.count /\ other <= p.count /\ r \in Pages /\ other \in Pages
      BY <3>1, FileTypes
    <3>4. FileOK(p1) /\ FileOK(p2)
      BY <1>5, <2>6
    <3> QED BY <3>2, <3>3, <3>4, FileTypes
  <2> HIDE DEF p1, root
  <2>8. p1.pages[r] = p.pages[r] /\ p1.pages[other] = p.pages[other]
    <3> HIDE DEF other
    <3> QED BY <1>3, <1>5, <2>7
  <2>9. b # leaf /\ b # a /\ b # r /\ b # other
    <3>1. /\ p1.pages[leaf].kind # "free" /\ p1.pages[a].kind # "free"
          /\ p1.pages[r].kind # "free" /\ p1.pages[other].kind # "free"
      BY <1>1, <1>2, <1>7, <1>9, <2>3, <2>8 DEF IsLeaf
    <3>2. r \in 1 .. p1.count /\ other \in 1 .. p1.count
      <4> HIDE DEF other
      <4> QED BY <1>3, <1>5, <1>6, <2>7 DEF Pages
    <3> HIDE DEF other, b
    <3> QED BY <1>7, <2>6, <3>1, <3>2
  <2>10. leaf \in 1 .. p2.count /\ p2.pages[leaf].kind # "free"
    <3>1. p2.pages[leaf] = p.pages[leaf]
      <4> HIDE DEF b, p2
      <4> QED BY <1>7, <2>6, <2>7, <2>9
    <3>2. leaf \in 1 .. p2.count
      <4> HIDE DEF b, p2
      <4> QED BY <1>6, <1>7, <2>6, <2>7
    <3> QED BY <1>1, <3>1, <3>2 DEF IsLeaf
  <2>11. /\ FileOK(p3) /\ RoomIn(p3) = RoomIn(p2) + 1 /\ p3.count = p2.count
         /\ p3.pages = [p2.pages EXCEPT ![leaf] = Freed]
    <3> HIDE DEF p2
    <3> QED BY <2>6, <2>10, FreeOne
  <2>12. r \in 1 .. p3.count /\ p3.pages[r].kind # "free"
    <3> HIDE DEF b, p2, p3
    <3>1. p3.pages[r] = p.pages[r]
      BY <2>1, <2>6, <2>7, <2>8, <2>9, <2>11
    <3>2. r \in 1 .. p3.count
      BY <1>3, <1>5, <1>6, <2>6, <2>7, <2>11 DEF Pages
    <3> QED BY <1>9, <3>1, <3>2
  <2>13. /\ FileOK(q) /\ RoomIn(q) = RoomIn(p3) + 1 /\ q.count = p3.count
         /\ q.pages = [p3.pages EXCEPT ![r] = Freed]
    <3>1. FileOK(p3) /\ q = FreePage(p3, r)
      BY <2>2, <2>11
    <3> HIDE DEF p3
    <3> QED BY <2>12, <3>1, FreeOne
  <2>14. RoomIn(q) = RoomIn(p)
    BY <1>4, <1>5, <2>6, <2>11, <2>13
  <2> HIDE DEF b, p2, p3
  <2>15. /\ q.pages[a] = node /\ q.pages[b] = root /\ q.pages[other] = p.pages[other]
         /\ q.pages[leaf] = Freed /\ q.pages[r] = Freed
         /\ \A i \in Pages : i \notin {a, b, leaf, r} => q.pages[i] = p.pages[i]
    <3> HIDE DEF other
    <3>1. p3.pages \in [Pages -> Nodes] /\ q.pages \in [Pages -> Nodes]
      BY <2>11, <2>13 DEF FileOK
    <3>2. other # leaf /\ other # r /\ leaf # r
      BY <1>9, <2>1, <2>3 DEF IsLeaf
    <3> QED BY <1>3, <1>5, <1>7, <2>3, <2>6, <2>7, <2>8, <2>9, <2>11, <2>13, <3>1, <3>2, SMTT(60)
  <2>16. a \in 1 .. q.count /\ b \in 1 .. q.count /\ other \in 1 .. q.count
    <3> HIDE DEF other
    <3> QED BY <1>3, <1>5, <1>6, <2>6, <2>7, <2>11, <2>13 DEF Pages
  <2>17. TreeAt(q, s) /\ q.pages[s] = root
    <3>1. IsLeaf(q, a) /\ IsLeaf(q, other)
      BY <1>2, <2>3, <2>15, <2>16 DEF IsLeaf
    <3> QED BY <2>2, <2>4, <2>7, <2>15, <2>16, <3>1 DEF TreeAt
  <2>18. \A k : LeafOf(q, s, k) = IF LeafOf(p, r, k) = leaf THEN a ELSE other
    <3>1. \A k : LeafOf(q, s, k) = IF GoesLeft(k) THEN root.left ELSE root.right
      BY <2>4, <2>17 DEF LeafOf
    <3>2. \A k : LeafOf(p, r, k) = IF GoesLeft(k) THEN l ELSE o
      BY <1>9 DEF LeafOf, top
    <3> QED BY <2>1, <2>4, <3>1, <3>2
  <2>19. \A k \in Keys : Get(q, s, k) = IF k = key THEN value ELSE Get(p, r, k)
    <3> SUFFICES ASSUME NEW k \in Keys
                 PROVE  Get(q, s, k) = IF k = key THEN value ELSE Get(p, r, k)
      OBVIOUS
    <3>1. LeafOf(p, r, k) \in {leaf, other}
      <4>1. LeafOf(p, r, k) \in {l, o}
        BY <1>9, LeavesOf DEF top
      <4> QED BY <2>1, <4>1
    <3>2. CASE LeafOf(p, r, k) = leaf
      BY <1>2, <2>15, <2>18, <3>2 DEF Get, Keys
    <3>3. CASE LeafOf(p, r, k) # leaf
      <4>1. k # key
        BY <3>3 DEF leaf
      <4> HIDE DEF other
      <4> QED BY <2>15, <2>18, <3>1, <3>3, <4>1 DEF Get
    <3> QED BY <3>2, <3>3
  <2>20. ASSUME Alone(p, r) PROVE Alone(q, s)
    <3> HIDE DEF other
    <3> SUFFICES ASSUME NEW i \in 1 .. q.count
                 PROVE  /\ q.pages[i].kind = "inner" => i = s
                        /\ q.pages[i].kind = "leaf" /\ i # LeafOf(q, s, None) => q.pages[i].mark = 0
      BY DEF Alone
    <3>1. i \in Pages /\ (i \notin {a, b} => i \in 1 .. p.count)
      <4>1. i \in Pages
        BY <2>13, FileTypes
      <4>2. i \in 1 .. p2.count
        BY <2>11, <2>13
      <4>3. i = b \/ i <= p1.count
        BY <2>6, <4>2
      <4>4. i \in 1 .. p1.count => i <= p.count \/ i = a
        BY <1>5
      <4>5. i \in 1 .. p1.count => i \in 1 .. p.count \/ i = a
        BY <4>1, <4>4, FileTypes
      <4> QED BY <1>6, <4>1, <4>2, <4>3, <4>5
    <3>2. CASE i = a
      <4>1. ASSUME i # LeafOf(q, s, None) PROVE node.mark = 0
        <5>1. leaf # LeafOf(p, r, None) /\ key # None
          BY <2>18, <3>2, <4>1 DEF leaf
        <5>2. p.pages[leaf].mark = 0
          BY <1>1, <2>20, <5>1 DEF Alone, IsLeaf
        <5> QED BY <1>2, <5>1, <5>2
      <4> QED BY <1>2, <2>15, <3>2, <4>1
    <3>3. CASE i = b
      BY <2>2, <2>4, <2>15, <3>3
    <3>4. CASE i \in {leaf, r}
      BY <2>15, <3>4 DEF Freed
    <3>5. CASE i = other
      <4>1. /\ p.pages[i].kind = "leaf" /\ i \in 1 .. p.count
            /\ i # LeafOf(p, r, None) => p.pages[i].mark = 0
        BY <2>3, <2>20, <3>5 DEF Alone, IsLeaf
      <4>2. LeafOf(p, r, None) = other => LeafOf(q, s, None) = other
        BY <2>3, <2>18
      <4> QED BY <2>15, <3>5, <4>1, <4>2
    <3>6. CASE i \notin {a, b, leaf, r, other}
      <4>1. q.pages[i] = p.pages[i] /\ i \in 1 .. p.count
        BY <2>15, <3>1, <3>6
      <4>2. LeafOf(p, r, None) \in {leaf, other}
        BY <2>1 DEF other
      <4> QED BY <2>20, <3>6, <4>1, <4>2 DEF Alone
    <3> QED BY <3>2, <3>3, <3>4, <3>5, <3>6
  <2> QED BY <2>13, <2>14, <2>17, <2>19, <2>20
<1> QED BY <1>8, <1>9

\* What a tree holds.
LEMMA GetTypes ==
  ASSUME NEW p, FileOK(p), NEW r, TreeAt(p, r)
  PROVE  /\ r \in Pages /\ r \in Nat
         /\ Get(p, r, None) \in Nat
         /\ \A n \in Names : Get(p, r, n) \in Rows
<1>1. r \in 1 .. p.count
  BY DEF TreeAt, IsLeaf
<1>2. ASSUME NEW k \in Keys
      PROVE  p.pages[LeafOf(p, r, k)] \in [kind : {"leaf"}, rows : [Names -> Rows], mark : Nat]
  <2>1. IsLeaf(p, LeafOf(p, r, k))
    BY LeavesOf
  <2>2. p.pages[LeafOf(p, r, k)] \in Nodes /\ p.pages[LeafOf(p, r, k)].kind = "leaf"
    BY <2>1, FileTypes DEF IsLeaf
  <2> QED BY <2>2 DEF Nodes, Freed
<1>3. Get(p, r, None) \in Nat
  BY <1>2 DEF Get, Keys
<1>4. ASSUME NEW n \in Names PROVE Get(p, r, n) \in Rows
  <2>1. n # None /\ n \in Keys
    BY NoneAssumption DEF Keys
  <2> QED BY <1>2, <2>1 DEF Get
<1> QED BY <1>1, <1>3, <1>4, FileTypes

\* A tree with one key's value changed, in no more pages than before.
Changed(p, r, key, value, q, s) ==
  /\ FileOK(q) /\ TreeAt(q, s) /\ RoomIn(q) = RoomIn(p)
  /\ \A k \in Keys : Get(q, s, k) = IF k = key THEN value ELSE Get(p, r, k)
  /\ Alone(p, r) => Alone(q, s)

\* Deleting and inserting a key changes its value.
LEMMA ReplacedTree ==
  ASSUME NEW p, FileOK(p), NEW r, TreeAt(p, r), RoomIn(p) >= 2,
         NEW key \in Keys, NEW value, Fits(key, value)
  PROVE  \E q, s : /\ Replaced([pager |-> p, root |-> r], key, value) = [pager |-> q, root |-> s]
                   /\ Changed(p, r, key, value, q, s)
<1> DEFINE t == [pager |-> p, root |-> r]
<1>1. \A u, k, v : \E q, s : Cow(u, k, v) = [pager |-> q, root |-> s]
  BY CowIsTree
<1>2. Fits(key, Nothing(key))
  BY DEF Fits, Nothing, Rows
<1>3. PICK p1, r1 : /\ Without(t, key) = [pager |-> p1, root |-> r1]
                    /\ FileOK(p1) /\ TreeAt(p1, r1) /\ RoomIn(p1) = RoomIn(p)
                    /\ \A k \in Keys : k # key => Get(p1, r1, k) = Get(p, r, k)
                    /\ Alone(p, r) => Alone(p1, r1)
  <2>1. CASE Get(p, r, key) = Nothing(key)
    <3>1. Without(t, key) = [pager |-> p, root |-> r]
      BY <2>1 DEF Without
    <3> QED BY <3>1
  <2>2. CASE Get(p, r, key) # Nothing(key)
    <3>1. Without(t, key) = Cow(t, key, Nothing(key))
      BY <2>2 DEF Without
    <3>2. PICK q, s : Cow(t, key, Nothing(key)) = [pager |-> q, root |-> s]
      BY <1>1
    <3>3. /\ FileOK(q) /\ TreeAt(q, s) /\ RoomIn(q) = RoomIn(p)
          /\ \A k \in Keys : Get(q, s, k) = IF k = key THEN Nothing(key) ELSE Get(p, r, k)
          /\ Alone(p, r) => Alone(q, s)
      BY <1>2, <3>2, CowTree
    <3> QED BY <3>1, <3>2, <3>3
  <2> QED BY <2>1, <2>2
<1>4. PICK q, s : Cow([pager |-> p1, root |-> r1], key, value) = [pager |-> q, root |-> s]
  BY <1>1
<1>5. /\ FileOK(q) /\ TreeAt(q, s) /\ RoomIn(q) = RoomIn(p1)
      /\ \A k \in Keys : Get(q, s, k) = IF k = key THEN value ELSE Get(p1, r1, k)
      /\ Alone(p1, r1) => Alone(q, s)
  BY <1>3, <1>4, CowTree
<1>6. Replaced(t, key, value) = [pager |-> q, root |-> s]
  BY <1>3, <1>4 DEF Replaced
<1>7. Changed(p, r, key, value, q, s)
  BY <1>3, <1>5 DEF Changed
<1> QED BY <1>6, <1>7

\* The header's root is no part of the tree.
LEMMA Rooted ==
  ASSUME NEW p, FileOK(p), NEW r, TreeAt(p, r), NEW q, q = [p EXCEPT !.root = r]
  PROVE  /\ FileOK(q) /\ TreeAt(q, q.root) /\ q.root = r
         /\ \A k : Get(q, q.root, k) = Get(p, r, k)
         /\ Alone(p, r) => Alone(q, q.root)
<1>1. r \in Nat
  BY GetTypes
<1>2. /\ q.pages = p.pages /\ q.count = p.count /\ q.free = p.free /\ q.root = r
      /\ q \in [pages : [Pages -> Nodes], free : Seq(Pages), count : Nat, root : Nat]
  BY <1>1 DEF FileOK
<1>3. \A k : LeafOf(q, r, k) = LeafOf(p, r, k)
  BY <1>2 DEF LeafOf
<1>4. FileOK(q)
  BY <1>2 DEF FileOK
<1>5. TreeAt(q, r)
  BY <1>2 DEF TreeAt, IsLeaf
<1>6. \A k : Get(q, r, k) = Get(p, r, k)
  BY <1>2, <1>3 DEF Get
<1>7. Alone(p, r) => Alone(q, r)
  BY <1>2, <1>3 DEF Alone
<1> QED BY <1>2, <1>4, <1>5, <1>6, <1>7

\* Catalog::update changes one row.
LEMMA UpdateTree ==
  ASSUME FileOK(pager), TreeAt(pager, catalog.root), NEW name \in Names, NEW r \in Rows,
         Update(name, r)
  PROVE  /\ FileOK(pager') /\ TreeAt(pager', pager.root')
         /\ catalog' = [root |-> pager.root', next |-> catalog.next]
         /\ Get(pager', pager.root', None) = Get(pager, catalog.root, None)
         /\ \A n \in Names : Get(pager', pager.root', n)
                               = IF n = name THEN r ELSE Get(pager, catalog.root, n)
         /\ Alone(pager, catalog.root) => Alone(pager', pager.root')
<1>1. RoomIn(pager) >= 2
  <2>1. RoomIn(pager) >= 4 /\ RoomIn(pager) \in Int
    BY FileTypes DEF Update, Room, RoomIn
  <2> QED BY <2>1
<1>2. name \in Keys /\ Fits(name, r) /\ None \in Keys /\ None # name /\ \A n \in Names : n \in Keys
  BY NoneAssumption DEF Keys, Fits
<1>3. PICK q, s : /\ Replaced(Tree, name, r) = [pager |-> q, root |-> s]
                  /\ Changed(pager, catalog.root, name, r, q, s)
  BY <1>1, <1>2, ReplacedTree DEF Tree
<1>4. pager' = [q EXCEPT !.root = s] /\ catalog' = [root |-> s, next |-> catalog.next]
  BY <1>3 DEF Update, Install
<1>5. /\ FileOK(q) /\ TreeAt(q, s)
      /\ \A k \in Keys : Get(q, s, k) = IF k = name THEN r ELSE Get(pager, catalog.root, k)
      /\ Alone(pager, catalog.root) => Alone(q, s)
  BY <1>3 DEF Changed
<1>6. /\ FileOK(pager') /\ TreeAt(pager', pager.root') /\ pager.root' = s
      /\ \A k : Get(pager', pager.root', k) = Get(q, s, k)
      /\ Alone(q, s) => Alone(pager', pager.root')
  BY <1>4, <1>5, Rooted
<1> QED BY <1>2, <1>4, <1>5, <1>6

\* Catalog::insert adds a row and advances the watermark, in the file and in
\* memory.
LEMMA InsertTree ==
  ASSUME FileOK(pager), TreeAt(pager, catalog.root), NEW name \in Names,
         catalog.next \in Nat, InsertRow(name)
  PROVE  /\ FileOK(pager') /\ TreeAt(pager', pager.root')
         /\ catalog' = [root |-> pager.root', next |-> catalog.next + 1]
         /\ Get(pager', pager.root', None) = catalog.next + 1
         /\ \A n \in Names : Get(pager', pager.root', n)
                               = IF n = name THEN [id |-> catalog.next, writes |-> 0]
                                 ELSE Get(pager, catalog.root, n)
         /\ Alone(pager, catalog.root) => Alone(pager', pager.root')
<1> DEFINE r == [id |-> catalog.next, writes |-> 0]
<1>1. RoomIn(pager) >= 2
  <2>1. RoomIn(pager) >= 4 /\ RoomIn(pager) \in Int
    BY FileTypes DEF InsertRow, Room, RoomIn
  <2> QED BY <2>1
<1>2. /\ name \in Keys /\ Fits(name, r) /\ None \in Keys /\ None # name
      /\ Fits(None, catalog.next + 1) /\ \A n \in Names : n \in Keys /\ n # None
  BY NoneAssumption DEF Keys, Fits, Rows, Descriptors
<1>3. PICK p1, r1 : Cow([pager |-> pager, root |-> catalog.root], name, r)
                      = [pager |-> p1, root |-> r1]
  <2>1. \A u, k, v : \E q, s : Cow(u, k, v) = [pager |-> q, root |-> s]
    BY CowIsTree
  <2> DEFINE t == [pager |-> pager, root |-> catalog.root]
  <2> HIDE DEF r, t
  <2>2. \E q, s : Cow(t, name, r) = [pager |-> q, root |-> s]
    BY <2>1
  <2> QED BY <2>2 DEF t
<1>4. /\ FileOK(p1) /\ TreeAt(p1, r1) /\ RoomIn(p1) = RoomIn(pager)
      /\ \A k \in Keys : Get(p1, r1, k) = IF k = name THEN r ELSE Get(pager, catalog.root, k)
      /\ Alone(pager, catalog.root) => Alone(p1, r1)
  <2> HIDE DEF r
  <2> QED BY <1>1, <1>2, <1>3, CowTree
<1>5. PICK q, s : /\ Replaced([pager |-> p1, root |-> r1], None, catalog.next + 1)
                       = [pager |-> q, root |-> s]
                  /\ Changed(p1, r1, None, catalog.next + 1, q, s)
  BY <1>1, <1>2, <1>4, ReplacedTree
<1>6. pager' = [q EXCEPT !.root = s] /\ catalog' = [root |-> s, next |-> catalog.next + 1]
  BY <1>3, <1>5 DEF InsertRow, Install, Tree
<1>7. /\ FileOK(q) /\ TreeAt(q, s)
      /\ \A k \in Keys : Get(q, s, k) = IF k = None THEN catalog.next + 1 ELSE Get(p1, r1, k)
      /\ Alone(p1, r1) => Alone(q, s)
  BY <1>5 DEF Changed
<1>8. /\ FileOK(pager') /\ TreeAt(pager', pager.root') /\ pager.root' = s
      /\ \A k : Get(pager', pager.root', k) = Get(q, s, k)
      /\ Alone(q, s) => Alone(pager', pager.root')
  BY <1>6, <1>7, Rooted
<1> QED BY <1>2, <1>4, <1>6, <1>7, <1>8

-----------------------------------------------------------------------------
(* The steps.  What follows is about their effects, which a transaction of *)
(* Db and one of the C interface share.                                    *)

Idle == {"idle", "recover", "clear", "begin", "refresh"}
Seen == <<disk, pager, gate, using, row, acked, stale, tainted>>

\* Between transactions, and from other threads, only what is shared changes.
LEMMA QuietFlow ==
  ASSUME Flow, NEW t \in Threads, gate # t, NEW where \in Idle, Goto(t, where), UNCHANGED Seen
  PROVE  /\ Flow' /\ (gate # None => pc'[gate] = pc[gate])
<1>1. pc' = [pc EXCEPT ![t] = where] /\ gate' = gate /\ using' = using /\ row' = row
  BY DEF Goto, Seen
<1>2. pc' \in [Threads -> {"idle", "recover", "clear", "begin", "body", "flushed", "refresh"}]
  BY <1>1 DEF Flow, Idle
<1>3. \A u \in Threads : pc'[u] = IF u = t THEN where ELSE pc[u]
  BY <1>1 DEF Flow
<1>4. where \notin {"body", "flushed"}
  BY DEF Idle
<1> QED BY <1>1, <1>2, <1>3, <1>4 DEF Flow

\* ... a refresh, or nothing.
LEMMA QuietStep ==
  ASSUME CatalogInv, NEW t \in Threads, gate # t, NEW where \in Idle, Goto(t, where),
         UNCHANGED Seen, Refresh \/ UNCHANGED catalog
  PROVE  CatalogInv'
<1>1. Flow' /\ (gate # None => pc'[gate] = pc[gate])
  BY QuietFlow DEF CatalogInv
<1> SUFFICES ASSUME ~ tainted PROVE (OnDisk /\ InMemory /\ Staged /\ Fresh)'
  BY <1>1 DEF CatalogInv, Seen
<1>2. OnDisk /\ InMemory /\ Staged /\ Fresh
  BY DEF CatalogInv
<1>3. /\ disk' = disk /\ pager' = pager /\ gate' = gate /\ using' = using /\ row' = row
      /\ acked' = acked /\ stale' = stale /\ tainted' = tainted
  BY DEF Seen
<1>4. OnDisk' /\ Mark(disk)' = Mark(disk) /\ Mark(pager)' = Mark(pager)
  BY <1>2, <1>3 DEF OnDisk, Mark
<1>5. gate # None => Pending(gate)' = Pending(gate)
  BY <1>1, <1>3 DEF Pending, Written
<1>6. CASE UNCHANGED catalog
  BY <1>2, <1>3, <1>4, <1>5, <1>6 DEF InMemory, Staged, Fresh
<1>7. CASE Refresh
  <2>1. catalog' = [root |-> pager.root, next |-> Mark(pager)] /\ Mark(pager) # 0
    BY <1>7 DEF Refresh, CanOpen, Opened, Mark
  <2>2. pager.root \in Pages /\ Mark(pager) \in Nat
    BY <1>2, GetTypes DEF Staged, Mark
  <2>3. Mark(disk) <= Mark(pager)
    BY <1>2, <2>1 DEF Staged
  <2>4. InMemory'
    BY <1>4, <2>1, <2>2, <2>3 DEF InMemory
  <2>5. Staged'
    BY <1>2, <1>3, <1>4, <2>1 DEF Staged
  <2>6. Fresh'
    <3> SUFFICES ASSUME gate # None, ~ stale PROVE Fresh'
      BY <1>3 DEF Fresh
    <3>1. Mark(pager) <= catalog'.next
      BY <2>1, <2>2
    <3> QED BY <1>2, <1>3, <1>4, <1>5, <2>1, <3>1 DEF Fresh
  <2> QED BY <1>4, <2>4, <2>5, <2>6
<1> QED BY <1>6, <1>7

\* Beginning.
LEMMA BeginStep ==
  ASSUME CatalogInv, NEW t \in Threads, gate = None, gate' = t, Goto(t, "body"),
         stale' = (catalog.root # pager.root),
         UNCHANGED <<disk, pager, catalog, using, row, acked, tainted>>
  PROVE  CatalogInv'
<1>1. pc' = [pc EXCEPT ![t] = "body"] /\ t # None
  BY NoneAssumption DEF Goto
<1>2. Flow' /\ using[t] = None
  <2>1. /\ \A u \in Threads : pc'[u] = IF u = t THEN "body" ELSE pc[u]
        /\ pc' \in [Threads -> {"idle", "recover", "clear", "begin", "body", "flushed", "refresh"}]
    BY <1>1 DEF CatalogInv, Flow
  <2>2. \A u \in Threads : pc[u] \notin {"body", "flushed"} /\ using[u] = None
    BY NoneAssumption DEF CatalogInv, Flow
  <2> QED BY <2>1, <2>2 DEF CatalogInv, Flow
<1> SUFFICES ASSUME ~ tainted PROVE (OnDisk /\ InMemory /\ Staged /\ Fresh)'
  BY <1>2 DEF CatalogInv
<1>3. OnDisk /\ InMemory /\ Staged
  BY DEF CatalogInv
<1>4. OnDisk' /\ InMemory'
  BY <1>3 DEF OnDisk, InMemory, Mark
<1>5. pager = disk
  BY <1>3 DEF Staged
<1>6. Staged'
  BY <1>2, <1>3, <1>5 DEF Staged, Mark
<1>7. Fresh'
  <2>1. Mark(disk) \in Nat
    BY <1>3, GetTypes DEF OnDisk, Mark
  <2>2. \A n \in Names : n # using[t]
    BY <1>2, NoneAssumption
  <2> SUFFICES ASSUME catalog.root = pager.root PROVE Fresh'
    BY DEF Fresh
  <2>3. /\ Alone(pager, pager.root) /\ Mark(disk) <= Mark(pager) /\ Mark(pager) <= catalog.next
        /\ \A n \in Names : Get(pager, pager.root, n) = acked[n]
    BY <1>3, <1>5, <2>1 DEF OnDisk, InMemory
  <2> QED BY <1>1, <1>2, <2>2, <2>3 DEF Fresh, Mark
<1> QED BY <1>4, <1>6, <1>7

\* Where the root in memory leads to a node, it leads to a tree: to the
\* pager's, or to a leaf of the committed one.
LEMMA Standing ==
  ASSUME OnDisk, InMemory, Staged, NEW key, Reachable(pager, catalog.root, key)
  PROVE  /\ TreeAt(pager, catalog.root)
         /\ \/ Get(pager, catalog.root, None) = 0
            \/ Mark(disk) <= Get(pager, catalog.root, None)
<1>1. CASE catalog.root = pager.root
  BY <1>1 DEF Staged, Mark
<1>2. CASE catalog.root # pager.root
  <2>1. pager = disk /\ FileOK(disk) /\ Alone(disk, disk.root)
    BY <1>2 DEF Staged, OnDisk
  <2>2. catalog.root \in 1 .. disk.count /\ disk.pages[catalog.root].kind # "free"
    BY <2>1, FileTypes DEF Reachable, Decodes, InMemory
  <2>3. disk.pages[catalog.root].kind = "leaf"
    <3>1. disk.pages[catalog.root] \in Nodes /\ disk.pages[catalog.root].kind # "inner"
      BY <1>2, <2>1, <2>2, FileTypes DEF Alone
    <3> QED BY <2>2, <3>1 DEF Nodes, Freed
  <2>4. IsLeaf(disk, catalog.root)
    BY <2>2, <2>3 DEF IsLeaf
  <2>5. Get(disk, catalog.root, None) = disk.pages[catalog.root].mark
    BY <2>3 DEF Get, LeafOf
  <2>6. CASE catalog.root = LeafOf(disk, disk.root, None)
    <3>1. Get(disk, catalog.root, None) = Mark(disk) /\ Mark(disk) \in Nat
      BY <2>5, <2>6, GetTypes DEF Get, Mark, OnDisk
    <3> QED BY <2>1, <2>4, <3>1 DEF TreeAt
  <2>7. CASE catalog.root # LeafOf(disk, disk.root, None)
    BY <2>1, <2>2, <2>3, <2>4, <2>5, <2>7 DEF Alone, TreeAt
  <2> QED BY <2>6, <2>7
<1> QED BY <1>1, <1>2

\* A transaction finds its collection.
LEMMA FoundStep ==
  ASSUME CatalogInv, NEW t \in Threads, pc[t] = "body", using[t] = None, NEW name \in Names,
         Reachable(pager, catalog.root, name),
         Get(pager, catalog.root, name) # None,
         using' = [using EXCEPT ![t] = name],
         row' = [row EXCEPT ![t] = Get(pager, catalog.root, name)],
         UNCHANGED <<disk, pager, catalog, gate, pc, acked, stale, tainted>>
  PROVE  CatalogInv'
<1>1. /\ gate = t /\ t # None /\ name # None
      /\ using'[t] = name /\ row'[t] = Get(pager, catalog.root, name)
  BY NoneAssumption DEF CatalogInv, Flow
<1>2. Flow'
  BY <1>1 DEF CatalogInv, Flow
<1> SUFFICES ASSUME ~ tainted PROVE (OnDisk /\ InMemory /\ Staged /\ Fresh)'
  BY <1>2 DEF CatalogInv
<1>3. OnDisk /\ InMemory /\ Staged /\ Fresh
  BY DEF CatalogInv
<1>4. OnDisk' /\ InMemory'
  BY <1>3 DEF OnDisk, InMemory, Mark
<1>5. pager = disk
  BY <1>1, <1>3 DEF Staged
<1>6. row'[t] \in Descriptors
  <2>1. TreeAt(pager, catalog.root)
    BY <1>3, Standing
  <2>2. row'[t] \in Rows /\ row'[t] # None
    BY <1>1, <1>3, <2>1, GetTypes DEF Staged
  <2> QED BY <2>2 DEF Rows
<1>7. Staged'
  BY <1>1, <1>3, <1>5, <1>6 DEF Staged, Mark
<1>8. Fresh'
  <2> SUFFICES ASSUME ~ stale PROVE Fresh'
    BY DEF Fresh
  <2>1. /\ catalog.root = pager.root /\ Alone(pager, pager.root)
        /\ Mark(disk) <= Mark(pager) /\ Mark(pager) <= catalog.next
        /\ \A n \in Names : Get(pager, pager.root, n) = acked[n]
    BY <1>1, <1>3, NoneAssumption DEF Fresh
  <2>2. row'[t] = acked[name] /\ acked[name] # None
    BY <1>1, <2>1
  <2>3. row'[t].id < Mark(disk) /\ Mark(disk) = Mark(pager)
    BY <1>3, <1>5, <2>2 DEF OnDisk
  <2>4. \A n \in Names :
           Get(pager, pager.root, n) = IF n = name THEN row'[t] ELSE acked[n]
    BY <2>1, <2>2
  <2>5. Pending(t)' = row'[t]
    BY DEF Pending
  <2> QED BY <1>1, <2>1, <2>2, <2>3, <2>4, <2>5 DEF Fresh, Mark
<1> QED BY <1>4, <1>7, <1>8

\* A transaction registers its collection.
LEMMA InsertStep ==
  ASSUME CatalogInv, NEW t \in Threads, pc[t] = "body", using[t] = None, NEW name \in Names,
         Reachable(pager, catalog.root, name),
         Get(pager, catalog.root, name) = None,
         InsertRow(name),
         using' = [using EXCEPT ![t] = name],
         row' = [row EXCEPT ![t] = [id |-> catalog.next, writes |-> 0]],
         UNCHANGED <<disk, gate, pc, acked, stale, tainted>>
  PROVE  CatalogInv'
<1> DEFINE r == [id |-> catalog.next, writes |-> 0]
<1>1. /\ gate = t /\ t # None /\ name # None
      /\ using'[t] = name /\ row'[t] = r
  BY NoneAssumption DEF CatalogInv, Flow
<1>2. Flow'
  BY <1>1 DEF CatalogInv, Flow
<1> SUFFICES ASSUME ~ tainted PROVE (OnDisk /\ InMemory /\ Staged /\ Fresh)'
  BY <1>2 DEF CatalogInv
<1>3. OnDisk /\ InMemory /\ Staged /\ Fresh
  BY DEF CatalogInv
<1>4. catalog.next \in Nat /\ Mark(disk) \in Nat /\ Mark(disk) <= catalog.next
  BY <1>3, GetTypes DEF InMemory, OnDisk, Mark
<1>5. /\ FileOK(pager') /\ TreeAt(pager', pager.root')
      /\ catalog' = [root |-> pager.root', next |-> catalog.next + 1]
      /\ Mark(pager)' = catalog.next + 1
      /\ \A n \in Names : Get(pager', pager.root', n)
                            = IF n = name THEN r ELSE Get(pager, catalog.root, n)
      /\ Alone(pager, catalog.root) => Alone(pager', pager.root')
  <2>1. FileOK(pager) /\ TreeAt(pager, catalog.root)
    BY <1>3, Standing DEF Staged
  <2> QED BY <1>4, <2>1, InsertTree DEF Mark
<1>6. OnDisk' /\ Mark(disk)' = Mark(disk)
  BY <1>3 DEF OnDisk, Mark
<1>7. InMemory'
  <2>1. pager.root' \in Pages
    BY <1>5, GetTypes
  <2> QED BY <1>4, <1>5, <1>6, <2>1 DEF InMemory
<1>8. Staged'
  BY <1>1, <1>4, <1>5, <1>6 DEF Staged, Descriptors
<1>9. Fresh'
  <2> SUFFICES ASSUME ~ stale PROVE Fresh'
    BY DEF Fresh
  <2>1. /\ catalog.root = pager.root /\ Alone(pager, pager.root)
        /\ \A n \in Names : Get(pager, pager.root, n) = acked[n]
    BY <1>1, <1>3, NoneAssumption DEF Fresh
  <2>2. acked[name] = None
    BY <2>1
  <2>3. \A n \in Names : Get(pager', pager.root', n) = IF n = name THEN row'[t] ELSE acked[n]
    BY <1>1, <1>5, <2>1
  <2>4. Pending(t)' = row'[t]
    BY DEF Pending
  <2>5. row'[t].id = catalog.next /\ catalog'.next = catalog.next + 1
    BY <1>1, <1>5
  <2>6. catalog'.root = pager'.root /\ Alone(pager', pager'.root)
    BY <1>5, <2>1
  <2> HIDE DEF r
  <2>7. /\ Mark(disk)' <= Mark(pager)' /\ Mark(pager)' <= catalog'.next
        /\ row'[t].id < Mark(pager)' /\ Mark(disk)' <= row'[t].id
    BY <1>4, <1>5, <1>6, <2>5
  <2> QED BY <1>1, <2>2, <2>3, <2>4, <2>6, <2>7 DEF Fresh
<1> QED BY <1>6, <1>7, <1>8, <1>9

\* A transaction writes its descriptor back, as it is or as it was written to.
LEMMA WriteStep ==
  ASSUME CatalogInv, NEW t \in Threads, pc[t] = "body", using[t] # None,
         Reachable(pager, catalog.root, using[t]),
         NEW r, Update(using[t], r),
         \/ r = row[t] /\ pc' = pc
         \/ r = Written(t) /\ Goto(t, "flushed"),
         UNCHANGED <<disk, gate, using, row, acked, stale, tainted>>
  PROVE  CatalogInv'
<1> DEFINE name == using[t]
<1>1. gate = t /\ t # None /\ name \in Names
  BY NoneAssumption DEF CatalogInv, Flow
<1>2. Flow' /\ Pending(t)' = r
  <2>1. /\ \A u \in Threads \ {t} : pc'[u] = pc[u]
        /\ pc' \in [Threads -> {"idle", "recover", "clear", "begin", "body", "flushed", "refresh"}]
        /\ \/ r = row[t] /\ pc'[t] = "body"
           \/ r = Written(t) /\ pc'[t] = "flushed"
    BY DEF CatalogInv, Flow, Goto
  <2> QED BY <1>1, <2>1 DEF CatalogInv, Flow, Pending, Written
<1> SUFFICES ASSUME ~ tainted PROVE (OnDisk /\ InMemory /\ Staged /\ Fresh)'
  BY <1>2 DEF CatalogInv
<1>3. OnDisk /\ InMemory /\ Staged /\ Fresh
  BY DEF CatalogInv
<1>4. row[t] \in Descriptors /\ r \in Descriptors /\ r.id = row[t].id
  <2>1. row[t] \in Descriptors
    BY <1>1, <1>3 DEF Staged
  <2>2. Written(t) \in Descriptors /\ Written(t).id = row[t].id
    BY <2>1 DEF Written, Descriptors
  <2> QED BY <2>1, <2>2
<1>5. /\ TreeAt(pager, catalog.root)
      /\ Get(pager, catalog.root, None) = 0 \/ Mark(disk) <= Get(pager, catalog.root, None)
  BY <1>3, Standing
<1>6. /\ FileOK(pager') /\ TreeAt(pager', pager.root')
      /\ catalog' = [root |-> pager.root', next |-> catalog.next]
      /\ Mark(pager)' = Get(pager, catalog.root, None)
      /\ \A n \in Names : Get(pager', pager.root', n)
                            = IF n = name THEN r ELSE Get(pager, catalog.root, n)
      /\ Alone(pager, catalog.root) => Alone(pager', pager.root')
  <2>1. FileOK(pager) /\ r \in Rows
    BY <1>3, <1>4 DEF Staged, Rows
  <2> QED BY <1>1, <1>5, <2>1, UpdateTree DEF Mark
<1>7. OnDisk' /\ Mark(disk)' = Mark(disk)
  BY <1>3 DEF OnDisk, Mark
<1>8. InMemory'
  <2>1. pager.root' \in Pages
    BY <1>6, GetTypes
  <2> QED BY <1>3, <1>6, <1>7, <2>1 DEF InMemory
<1>9. Staged'
  BY <1>1, <1>4, <1>5, <1>6, <1>7 DEF Staged
<1>10. Fresh'
  <2> SUFFICES ASSUME ~ stale PROVE Fresh'
    BY DEF Fresh
  <2>1. /\ catalog.root = pager.root /\ Alone(pager, pager.root)
        /\ Mark(disk) <= Mark(pager) /\ Mark(pager) <= catalog.next
        /\ \A n \in Names : n # name => Get(pager, pager.root, n) = acked[n]
        /\ row[t].id < Mark(pager)
        /\ IF acked[name] = None THEN Mark(disk) <= row[t].id ELSE row[t].id = acked[name].id
    BY <1>1, <1>3 DEF Fresh
  <2>2. /\ catalog'.root = pager'.root /\ catalog'.next = catalog.next
        /\ Alone(pager', pager'.root) /\ Mark(pager)' = Mark(pager)
    BY <1>6, <2>1 DEF Mark
  <2>3. \A n \in Names : Get(pager', pager.root', n) = IF n = name THEN r ELSE acked[n]
    BY <1>6, <2>1
  <2> QED BY <1>1, <1>2, <1>7, <2>1, <2>2, <2>3 DEF Fresh
<1> QED BY <1>7, <1>8, <1>9, <1>10

\* How a transaction leaves.
LEMMA LeaveFlow ==
  ASSUME Flow, NEW t \in Threads, gate = t, NEW where \in Idle, Goto(t, where), gate' = None,
         using' = [using EXCEPT ![t] = None] \/ (using' = using /\ using[t] = None),
         row' = [row EXCEPT ![t] = None] \/ row' = row
  PROVE  Flow'
<1>1. /\ \A u \in Threads : pc'[u] = IF u = t THEN where ELSE pc[u]
      /\ pc' \in [Threads -> {"idle", "recover", "clear", "begin", "body", "flushed", "refresh"}]
  BY DEF Flow, Goto, Idle
<1>2. using' \in [Threads -> Names \union {None}] /\ \A u \in Threads : using'[u] = None
  BY DEF Flow
<1>3. row' = [u \in Threads |-> row'[u]]
  BY DEF Flow
<1>4. where \notin {"body", "flushed"} /\ \A u \in Threads : u # None
  BY NoneAssumption DEF Idle
<1>5. \A u \in Threads : pc'[u] \notin {"body", "flushed"}
  BY <1>1, <1>4 DEF Flow
<1> QED BY <1>1, <1>2, <1>3, <1>4, <1>5 DEF Flow

\* What was staged is dropped, or nothing was.
LEMMA DropStep ==
  ASSUME CatalogInv, NEW t \in Threads, gate = t, NEW where \in Idle, Goto(t, where),
         gate' = None,
         \/ /\ pager' = disk
            /\ using' = [using EXCEPT ![t] = None] /\ row' = [row EXCEPT ![t] = None]
         \/ using[t] = None /\ UNCHANGED <<pager, using, row>>,
         UNCHANGED <<disk, catalog, acked, stale, tainted>>
  PROVE  CatalogInv'
<1>1. Flow'
  BY LeaveFlow DEF CatalogInv
<1> SUFFICES ASSUME ~ tainted PROVE (OnDisk /\ InMemory /\ Staged /\ Fresh)'
  BY <1>1 DEF CatalogInv
<1>2. OnDisk /\ InMemory /\ Staged
  BY DEF CatalogInv
<1>3. pager' = disk
  BY <1>2 DEF Staged
<1>4. OnDisk' /\ InMemory' /\ Mark(disk)' = Mark(disk)
  BY <1>2 DEF OnDisk, InMemory, Mark
<1>5. Mark(disk) \in Nat
  BY <1>2, GetTypes DEF OnDisk, Mark
<1>6. Staged' /\ Fresh'
  BY <1>2, <1>3, <1>5 DEF Staged, Fresh, OnDisk, Mark
<1> QED BY <1>4, <1>6

\* A commit.
LEMMA CommitStep ==
  ASSUME CatalogInv, NEW t \in Threads, Commit(t)
  PROVE  CatalogInv'
<1> DEFINE name == using[t]
<1>1. /\ pc[t] = "flushed" /\ gate' = None /\ Goto(t, "idle")
      /\ using' = [using EXCEPT ![t] = None] /\ row' = [row EXCEPT ![t] = None]
      /\ disk' = pager /\ acked' = [acked EXCEPT ![name] = Written(t)]
      /\ tainted' = (tainted \/ stale) /\ UNCHANGED <<pager, catalog>>
  BY DEF Commit, Leave
<1>2. gate = t /\ t # None /\ name \in Names
  BY <1>1, NoneAssumption DEF CatalogInv, Flow
<1>3. Flow'
  BY <1>1, <1>2, LeaveFlow DEF CatalogInv, Idle
<1> SUFFICES ASSUME ~ tainted, ~ stale PROVE (OnDisk /\ InMemory /\ Staged /\ Fresh)'
  BY <1>1, <1>3 DEF CatalogInv
<1>4. OnDisk /\ InMemory /\ Staged /\ Fresh
  BY DEF CatalogInv
<1>5. /\ catalog.root = pager.root /\ Alone(pager, pager.root)
      /\ Mark(disk) <= Mark(pager) /\ Mark(pager) <= catalog.next
      /\ \A n \in Names : Get(pager, pager.root, n) = IF n = name THEN Written(t) ELSE acked[n]
      /\ row[t].id < Mark(pager)
      /\ IF acked[name] = None THEN Mark(disk) <= row[t].id ELSE row[t].id = acked[name].id
  BY <1>1, <1>2, <1>4, NoneAssumption DEF Fresh, Pending
<1>6. Written(t) \in Descriptors /\ Written(t).id = row[t].id /\ row[t].id \in Nat
  <2>1. row[t] \in Descriptors
    BY <1>2, <1>4, NoneAssumption DEF Staged
  <2> QED BY <2>1 DEF Written, Descriptors
<1>7. /\ acked' \in [Names -> Rows]
      /\ \A n \in Names : acked'[n] = IF n = name THEN Written(t) ELSE acked[n]
  BY <1>1, <1>2, <1>4, <1>6 DEF OnDisk, Rows
<1>8. Mark(disk) \in Nat /\ Mark(pager) \in Nat /\ Mark(disk) > 0
  BY <1>4, GetTypes DEF OnDisk, Staged, Mark
<1>9. \A n \in Names : acked[n] # None => acked[n].id \in Nat
  BY <1>4 DEF OnDisk, Rows, Descriptors
<1>10. \A n \in Names : acked'[n] # None =>
          /\ acked'[n].id < Mark(pager)
          /\ \A m \in Names \ {n} : acked'[m] # None => acked'[m].id # acked'[n].id
  <2>1. \A n \in Names : acked[n] # None =>
          /\ acked[n].id < Mark(disk)
          /\ \A m \in Names \ {n} : acked[m] # None => acked[m].id # acked[n].id
    BY <1>4 DEF OnDisk
  <2>2. \A n \in Names : n # name /\ acked[n] # None =>
           acked[n].id < Mark(pager) /\ acked[n].id # row[t].id
    <3> HIDE DEF name
    <3> QED BY <1>2, <1>5, <1>6, <1>8, <1>9, <2>1
  <2> HIDE DEF name
  <2> QED BY <1>2, <1>5, <1>6, <1>7, <2>1, <2>2
<1>11. OnDisk'
  <2>1. Mark(disk)' = Mark(pager) /\ Mark(pager) > 0
    BY <1>1, <1>5, <1>8 DEF Mark
  <2>2. FileOK(pager) /\ TreeAt(pager, pager.root)
    BY <1>4 DEF Staged
  <2> QED BY <1>1, <1>5, <1>7, <1>10, <2>1, <2>2 DEF OnDisk
<1>12. InMemory'
  BY <1>1, <1>4, <1>5 DEF InMemory, Mark
<1>13. Staged' /\ Fresh'
  <2>1. Mark(disk)' = Mark(pager) /\ Mark(pager)' = Mark(pager)
    BY <1>1 DEF Mark
  <2> QED BY <1>1, <1>4, <1>8, <2>1 DEF Staged, Fresh
<1> QED BY <1>11, <1>12, <1>13

-----------------------------------------------------------------------------
(* The first file, and the theorems.                                       *)

\* The collections there are at first have ids of their own, below the
\* watermark.
LEMMA FirstIds ==
  \E id \in [Existing -> 1 .. Cardinality(Existing)] :
     /\ \A m, n \in Existing : id[m] = id[n] => m = n
     /\ \A ns : FirstRows(ns) = [n \in Names |->
                                   IF n \in ns THEN [id |-> id[n], writes |-> 0] ELSE None]
<1> DEFINE P(f) == \A m, n \in Existing : f[m] = f[n] => m = n
           card == Cardinality(Existing)
           id == CHOOSE f \in [Existing -> 1 .. card] : P(f)
<1>1. ExistsBijection(1 .. card, Existing)
  BY NamesAssumption, FS_CardinalityType
<1>2. ExistsBijection(Existing, 1 .. card)
  BY <1>1, Fun_ExistsBijSymmetric
<1>3. PICK f : f \in Bijection(Existing, 1 .. card)
  BY <1>2, Fun_ExistsBij
<1>4. f \in [Existing -> 1 .. card] /\ P(f)
  BY <1>3, Fun_BijectionProperties
<1>5. id \in [Existing -> 1 .. card] /\ P(id)
  BY <1>4
<1>6. \A ns : FirstRows(ns) = [n \in Names |->
                                 IF n \in ns THEN [id |-> id[n], writes |-> 0] ELSE None]
  BY DEF FirstRows
<1> HIDE DEF id
<1> QED BY <1>5, <1>6

\* The file that Db::open has made or found.
LEMMA FirstOnDisk ==
  ASSUME Init
  PROVE  OnDisk /\ disk.root = 1 /\ Mark(disk) = Cardinality(Existing) + 1
<1> DEFINE next == Cardinality(Existing) + 1
<1>1. PICK id \in [Existing -> 1 .. Cardinality(Existing)] :
        /\ \A m, n \in Existing : id[m] = id[n] => m = n
        /\ \A ns : FirstRows(ns) = [n \in Names |->
                                      IF n \in ns THEN [id |-> id[n], writes |-> 0] ELSE None]
  BY FirstIds
<1>2. next \in Nat /\ next > 0 /\ \A n \in Existing : id[n] \in Nat /\ id[n] < next
  BY NamesAssumption, FS_CardinalityType, <1>1
<1>3. disk = FirstFile /\ acked = FirstRows(Existing)
  BY DEF Init
<1>4. \A ns \in SUBSET Existing : FirstRows(ns) \in [Names -> Rows]
  BY <1>1, <1>2 DEF Rows, Descriptors
<1>5. \A n \in Names : acked[n] # None =>
         n \in Existing /\ acked[n].id = id[n]
  <2>1. \A n \in Names : acked[n] = IF n \in Existing THEN [id |-> id[n], writes |-> 0] ELSE None
    BY <1>1, <1>3
  <2> SUFFICES ASSUME NEW n \in Names, acked[n] # None
               PROVE  n \in Existing /\ acked[n].id = id[n]
    OBVIOUS
  <2>2. n \in Existing
    BY <2>1
  <2>3. acked[n] = [id |-> id[n], writes |-> 0]
    BY <2>1, <2>2
  <2> QED BY <2>2, <2>3
<1>6. \A n \in Names : acked[n] # None =>
         /\ acked[n].id < next
         /\ \A m \in Names \ {n} : acked[m] # None => acked[m].id # acked[n].id
  <2> HIDE DEF next
  <2>1. \A m, n \in Existing : id[m] = id[n] => m = n
    BY <1>1
  <2> QED BY <1>2, <1>5, <2>1
<1> DEFINE left == Leaf(FirstRows(Existing \intersect LeftNames), next)
           right == Leaf(FirstRows(Existing \ LeftNames), 0)
           whole == Leaf(FirstRows(Existing), next)
<1>7. left \in Nodes /\ right \in Nodes /\ whole \in Nodes /\ Inner(2, 3) \in Nodes /\ Freed \in Nodes
  <2>1. /\ FirstRows(Existing \intersect LeftNames) \in [Names -> Rows]
        /\ FirstRows(Existing \ LeftNames) \in [Names -> Rows]
        /\ FirstRows(Existing) \in [Names -> Rows]
    BY <1>4
  <2> QED BY <1>2, <2>1 DEF Nodes, Leaf, Inner
<1>8. 1 \in Pages /\ 2 \in Pages /\ 3 \in Pages
  BY BoundsAssumption DEF Pages
<1> HIDE DEF next
<1>9. /\ disk.root = 1 /\ disk.free = <<>> /\ disk.count = IF Deep THEN 3 ELSE 1
      /\ disk.pages = [i \in Pages |-> IF ~ Deep THEN IF i = 1 THEN whole ELSE Freed
                                       ELSE CASE i = 1 -> Inner(2, 3)
                                              [] i = 2 -> left
                                              [] i = 3 -> right
                                              [] OTHER -> Freed]
      /\ disk = [pages |-> disk.pages, free |-> disk.free, count |-> disk.count, root |-> disk.root]
  BY <1>3 DEF FirstFile, next
<1>10. disk.pages \in [Pages -> Nodes]
  <2> HIDE DEF left, right, whole
  <2> QED BY <1>7, <1>9
<1>11. FileOK(disk)
  <2>1. disk.count \in Nat /\ disk.count <= MaxPage /\ disk.free \in Seq(Pages) /\ disk.root \in Nat
        /\ DOMAIN disk.free = {}
    BY <1>9, BoundsAssumption
  <2>2. disk \in [pages : [Pages -> Nodes], free : Seq(Pages), count : Nat, root : Nat]
    BY <1>9, <1>10, <2>1
  <2> QED BY <2>1, <2>2 DEF FileOK
<1>12. /\ whole.kind = "leaf" /\ left.kind = "leaf" /\ right.kind = "leaf"
       /\ whole.mark = next /\ left.mark = next /\ right.mark = 0
       /\ whole.rows = FirstRows(Existing)
       /\ left.rows = FirstRows(Existing \intersect LeftNames)
       /\ right.rows = FirstRows(Existing \ LeftNames)
  BY DEF Leaf
<1> HIDE DEF left, right, whole
<1>13. CASE ~ Deep
  <2>1. disk.count = 1 /\ disk.pages[1] = whole
    BY <1>8, <1>9, <1>13
  <2>2. TreeAt(disk, 1) /\ \A k : LeafOf(disk, 1, k) = 1
    BY <1>12, <2>1 DEF TreeAt, IsLeaf, LeafOf
  <2>3. Alone(disk, 1)
    BY <1>12, <2>1, <2>2 DEF Alone
  <2>4. Get(disk, 1, None) = next /\ \A n \in Names : Get(disk, 1, n) = acked[n]
    BY <1>3, <1>12, <2>1, <2>2, NoneAssumption DEF Get
  <2> QED BY <1>2, <1>3, <1>4, <1>6, <1>9, <1>11, <2>2, <2>3, <2>4 DEF OnDisk, Mark, next
<1>14. CASE Deep
  <2>1. /\ disk.count = 3 /\ disk.pages[1] = Inner(2, 3)
        /\ disk.pages[2] = left /\ disk.pages[3] = right
    BY <1>8, <1>9, <1>14
  <2>2. /\ disk.pages[1].kind = "inner" /\ disk.pages[1].left = 2 /\ disk.pages[1].right = 3
    BY <2>1 DEF Inner
  <2>3. TreeAt(disk, 1) /\ \A k : LeafOf(disk, 1, k) = IF GoesLeft(k) THEN 2 ELSE 3
    BY <1>12, <2>1, <2>2 DEF TreeAt, IsLeaf, LeafOf
  <2>4. Alone(disk, 1)
    <3>1. LeafOf(disk, 1, None) = 2
      BY <2>3 DEF GoesLeft
    <3>2. \A i \in 1 .. disk.count : i = 1 \/ i = 2 \/ i = 3
      BY <2>1
    <3> QED BY <1>12, <2>1, <2>2, <3>1, <3>2 DEF Alone
  <2>5. Get(disk, 1, None) = next
    BY <1>12, <2>1, <2>3 DEF Get, GoesLeft
  <2>6. ASSUME NEW n \in Names PROVE Get(disk, 1, n) = acked[n]
    <3>1. n # None /\ (GoesLeft(n) <=> n \in LeftNames)
      BY NoneAssumption DEF GoesLeft
    <3>2. Get(disk, 1, n) = IF n \in LeftNames THEN left.rows[n] ELSE right.rows[n]
      BY <2>1, <2>3, <3>1 DEF Get
    <3>3. /\ n \in LeftNames => left.rows[n] = FirstRows(Existing)[n]
          /\ n \notin LeftNames => right.rows[n] = FirstRows(Existing)[n]
      BY <1>1, <1>12
    <3> QED BY <1>3, <3>2, <3>3
  <2> QED BY <1>2, <1>3, <1>4, <1>6, <1>9, <1>11, <2>3, <2>4, <2>5, <2>6 DEF OnDisk, Mark, next
<1> QED BY <1>13, <1>14, DeepAssumption

\* Db::open leaves nobody in a transaction.
LEMMA FirstCatalog == Init => CatalogInv
<1> SUFFICES ASSUME Init PROVE CatalogInv
  OBVIOUS
<1>1. OnDisk /\ disk.root = 1 /\ Mark(disk) = Cardinality(Existing) + 1
  BY FirstOnDisk
<1>2. Flow
  BY NoneAssumption DEF Init, Flow
<1>3. pager = disk /\ gate = None /\ catalog = [root |-> 1, next |-> Cardinality(Existing) + 1]
  BY DEF Init
<1>4. Mark(disk) \in Nat
  BY <1>1, GetTypes DEF OnDisk, Mark
<1>5. InMemory
  BY <1>1, <1>3, <1>4, BoundsAssumption DEF InMemory, Pages
<1>6. Staged /\ Fresh
  BY <1>1, <1>3, <1>4 DEF Staged, Fresh, OnDisk
<1> QED BY <1>1, <1>2, <1>5, <1>6 DEF CatalogInv

\* Every step of Db::transaction keeps the invariant.
LEMMA StepKeeps == ASSUME CatalogInv, NEW t \in Threads, Step(t) PROVE CatalogInv'
<1>1. CASE Call(t) \/ Recover(t) \/ Clear(t) \/ AfterRollback(t)
  <2>1. gate # t
    BY <1>1 DEF CatalogInv, Flow, Call, Recover, Clear, AfterRollback
  <2>2. \E where \in Idle : Goto(t, where)
    BY <1>1 DEF Call, Recover, Clear, AfterRollback, Idle
  <2>3. UNCHANGED Seen /\ (Refresh \/ UNCHANGED catalog)
    BY <1>1 DEF Call, Recover, Clear, AfterRollback, RefreshFails, Seen, history
  <2> QED BY <2>1, <2>2, <2>3, QuietStep
<1>2. CASE Begin(t)
  BY <1>2, BeginStep DEF Begin
<1>3. ASSUME NEW name \in Names, Use(t, name) PROVE CatalogInv'
  <2>1. CASE Get(pager, catalog.root, name) = None
    BY <1>3, <2>1, InsertStep DEF Use, history
  <2>2. CASE Get(pager, catalog.root, name) # None
    BY <1>3, <2>2, FoundStep DEF Use, history
  <2> QED BY <2>1, <2>2
<1>4. CASE Reconcile(t)
  BY <1>4, WriteStep DEF Reconcile, history
<1>5. CASE Flush(t)
  BY <1>5, WriteStep DEF Flush, history
<1>6. CASE Commit(t)
  BY <1>6, CommitStep
<1>7. CASE Drop(t) \/ Rollback(t)
  <2>1. gate = t
    BY <1>7 DEF CatalogInv, Flow, Drop, Rollback
  <2> QED BY <1>7, <2>1, DropStep DEF Drop, Rollback, Leave, Idle, history
<1> QED BY <1>1, <1>2, <1>3, <1>4, <1>5, <1>6, <1>7 DEF Step

\* The invariant is what the properties say, and more.
LEMMA CatalogKept == CatalogInv => RowsKeptWhenFresh /\ WatermarkAhead
<1> SUFFICES ASSUME CatalogInv, ~ tainted PROVE RowsKept /\ WatermarkAhead
  BY DEF RowsKeptWhenFresh, WatermarkAhead
<1>1. OnDisk
  BY DEF CatalogInv
<1>2. ASSUME NEW k \in Keys PROVE Reachable(disk, disk.root, k)
  <2>1. IsLeaf(disk, LeafOf(disk, disk.root, k))
    BY <1>1, LeavesOf DEF OnDisk
  <2>2. disk.root \in 1 .. disk.count /\ disk.pages[disk.root].kind # "free"
    BY <1>1 DEF OnDisk, TreeAt, IsLeaf
  <2>3. disk.count \in Nat
    BY <1>1, FileTypes DEF OnDisk
  <2> QED BY <2>1, <2>2, <2>3 DEF Reachable, Decodes, IsLeaf
<1> QED BY <1>1, <1>2 DEF OnDisk, RowsKept, WatermarkAhead, Mark, Keys

\* It is about the catalog only.
LEMMA IdleKeeps == CatalogInv /\ UNCHANGED vars => CatalogInv'
<1> SUFFICES ASSUME CatalogInv, UNCHANGED vars PROVE CatalogInv'
  OBVIOUS
<1>1. UNCHANGED <<disk, pager, catalog, gate, pc, using, row, acked, stale, tainted>>
  BY DEF vars, history
<1> QED BY <1>1 DEF CatalogInv, Flow, OnDisk, InMemory, Staged, Fresh, Pending, Written, Mark

\* Without a commit from a stale root, no committed registration and no
\* committed descriptor is lost, and no collection id given twice, whatever
\* transactions fail and however the threads' refreshes fall between.
THEOREM CatalogSafe == Spec => [](RowsKeptWhenFresh /\ WatermarkAhead)
<1>1. CatalogInv /\ [Next]_vars => CatalogInv'
  BY IdleKeeps, StepKeeps DEF Next
<1> QED BY <1>1, FirstCatalog, CatalogKept, PTL DEF Spec
=============================================================================
