------------------------------ MODULE DbCatalog ------------------------------
(***************************************************************************)
(* Db::transaction over the catalog: a B-tree whose root is kept twice, in *)
(* the pager's header (rolled back with the transaction) and in the        *)
(* Catalog that the threads of a Db share (which nothing rolls back:       *)
(* Db::refresh_catalog reads it again, after the transaction has ended).   *)
(*                                                                         *)
(* The tree is copy-on-write over a freelist: a page of the committed tree *)
(* that a transaction frees may hold another node of the same tree before  *)
(* the transaction ends.  It has one leaf, or a root over two; a row fits  *)
(* where it is put and no leaf underflows.                                 *)
(***************************************************************************)
EXTENDS Naturals, Sequences, FiniteSets

CONSTANTS
  Threads,
  Names,      \* names of collections
  LeftNames,  \* those below the root's pivot; the watermark's key is below all
  Existing,   \* those there are at first
  Deep,       \* is the tree a root over two leaves?
  MaxPage,    \* pages of the file
  MaxTxns,    \* transactions
  None

ASSUME NamesAssumption ==
  LeftNames \subseteq Names /\ Existing \subseteq Names /\ IsFiniteSet(Existing)
ASSUME BoundsAssumption == MaxPage \in Nat /\ MaxPage >= 3 /\ MaxTxns \in Nat
ASSUME NoneAssumption == None \notin Threads \union Names
ASSUME DeepAssumption == Deep \in BOOLEAN

Pages == 1 .. MaxPage

(* A row is a collection's id and how often it was written, or None.  A    *)
(* leaf holds rows and, in the leftmost, the next collection id.           *)
Leaf(rows, mark) == [kind |-> "leaf", rows |-> rows, mark |-> mark]
Inner(left, right) == [kind |-> "inner", left |-> left, right |-> right]
Freed == [kind |-> "free"]

VARIABLES
  disk,      \* the pages, freelist, page count and catalog root last committed
  pager,     \* the same with what the open transaction has staged
  catalog,   \* Db.catalog: tree.root and next_collection_id
  poisoned,  \* Db.catalog_poisoned
  gate,      \* the thread whose transaction is open, or None
  pc,        \* where each thread is
  using,     \* the collection its transaction works on, or None
  row,       \* the descriptor it has cached of that collection
  txns,      \* transactions so far
  acked,     \* history: the rows as committed transactions left them
  stale,     \* history: the open transaction began with another root in memory
  tainted    \* history: such a transaction has committed

history == <<acked, stale, tainted>>
vars == <<disk, pager, catalog, poisoned, gate, pc, using, row, txns, history>>

-----------------------------------------------------------------------------
(* The pager's allocator.  Both lists it keeps are the header's.           *)

AllocId(p) == IF p.free = <<>> THEN p.count + 1 ELSE Head(p.free)

(* write_new_node: alloc_page and write_page.                              *)
Put(p, node) ==
  [p EXCEPT !.pages[AllocId(p)] = node,
            !.count = IF p.free = <<>> THEN @ + 1 ELSE @,
            !.free = IF @ = <<>> THEN @ ELSE Tail(@)]

FreePage(p, id) == [p EXCEPT !.pages[id] = Freed, !.free = <<id>> \o @]

(* Is there a node to decode at id?                                        *)
Decodes(p, id) == id <= p.count /\ p.pages[id].kind # "free"

-----------------------------------------------------------------------------
(* The B-tree.  A key is a name, or None for the watermark's.              *)

GoesLeft(key) == key = None \/ key \in LeftNames

LeafOf(p, root, key) ==
  IF p.pages[root].kind = "leaf" THEN root
  ELSE IF GoesLeft(key) THEN p.pages[root].left ELSE p.pages[root].right

Reachable(p, root, key) == Decodes(p, root) /\ Decodes(p, LeafOf(p, root, key))

Get(p, root, key) ==
  LET leaf == p.pages[LeafOf(p, root, key)]
  IN IF key = None THEN leaf.mark ELSE leaf.rows[key]

Set(leaf, key, value) ==
  IF key = None THEN [leaf EXCEPT !.mark = value] ELSE [leaf EXCEPT !.rows[key] = value]

(* BTree::insert or delete of one key: a new leaf, a new root, and only    *)
(* then the old ones are freed, leaf first.  t is a tree: [pager, root].   *)
Cow(t, key, value) ==
  LET p    == t.pager
      leaf == LeafOf(p, t.root, key)
      p1   == Put(p, Set(p.pages[leaf], key, value))
      top  == p.pages[t.root]
      p2   == Put(p1, IF leaf = top.left THEN Inner(AllocId(p), top.right)
                                         ELSE Inner(top.left, AllocId(p)))
  IN IF leaf = t.root
     THEN [pager |-> FreePage(p1, leaf), root |-> AllocId(p)]
     ELSE [pager |-> FreePage(FreePage(p2, leaf), t.root), root |-> AllocId(p1)]

(* tree.delete(key), which does nothing to a tree without the key, and     *)
(* tree.insert(key, value).                                                *)
Nothing(key) == IF key = None THEN 0 ELSE None
Without(t, key) ==
  IF Get(t.pager, t.root, key) = Nothing(key) THEN t ELSE Cow(t, key, Nothing(key))
Replaced(t, key, value) == Cow(Without(t, key), key, value)

-----------------------------------------------------------------------------
(* The catalog.                                                            *)

Tree == [pager |-> pager, root |-> catalog.root]

(* set_root_catalog after a change of the tree.                            *)
Install(t, next) ==
  /\ pager' = [t.pager EXCEPT !.root = t.root]
  /\ catalog' = [root |-> t.root, next |-> next]

(* Room for the pages a change of the tree allocates, a bound.             *)
Room == Len(pager.free) + MaxPage - pager.count >= 4

Update(name, r) == Room /\ Install(Replaced(Tree, name, r), catalog.next)

(* Mutant: the watermark advances in memory only.                          *)
InsertRowUnmarked(name) ==
  Room /\ Install(Cow(Tree, name, [id |-> catalog.next, writes |-> 0]), catalog.next + 1)

(* Catalog::insert assigns the next collection id and persists the one     *)
(* after it.                                                               *)
InsertRow(name) ==
  /\ Room
  /\ Install(Replaced(Cow(Tree, name, [id |-> catalog.next, writes |-> 0]),
                      None, catalog.next + 1),
             catalog.next + 1)

(* Catalog::open_or_init of the header's root: is it there, and what it is.*)
CanOpen == Reachable(pager, pager.root, None) /\ Get(pager, pager.root, None) # 0
OpenedCommitted == [root |-> disk.root, next |-> Get(disk, disk.root, None)] \* mutant
Opened == [root |-> pager.root, next |-> Get(pager, pager.root, None)]

-----------------------------------------------------------------------------
FirstRows(ns) ==
  LET id == CHOOSE f \in [Existing -> 1 .. Cardinality(Existing)] :
              \A m, n \in Existing : f[m] = f[n] => m = n
  IN [n \in Names |-> IF n \in ns THEN [id |-> id[n], writes |-> 0] ELSE None]

FirstFile ==
  LET next == Cardinality(Existing) + 1
  IN [pages |-> [i \in Pages |->
                   IF ~Deep THEN IF i = 1 THEN Leaf(FirstRows(Existing), next) ELSE Freed
                   ELSE CASE i = 1 -> Inner(2, 3)
                          [] i = 2 -> Leaf(FirstRows(Existing \intersect LeftNames), next)
                          [] i = 3 -> Leaf(FirstRows(Existing \ LeftNames), 0)
                          [] OTHER -> Freed],
      free |-> <<>>, count |-> IF Deep THEN 3 ELSE 1, root |-> 1]

(* Db::from_parts: open_or_init, committed.                                *)
Init ==
  /\ disk = FirstFile /\ pager = FirstFile
  /\ catalog = [root |-> 1, next |-> Cardinality(Existing) + 1]
  /\ poisoned = FALSE /\ gate = None
  /\ pc = [t \in Threads |-> "idle"]
  /\ using = [t \in Threads |-> None] /\ row = [t \in Threads |-> None]
  /\ txns = 0
  /\ acked = FirstRows(Existing) /\ stale = FALSE /\ tainted = FALSE

Goto(t, where) == pc' = [pc EXCEPT ![t] = where]

(* Db::transaction looks at catalog_poisoned before it takes the gate.     *)
Call(t) ==
  /\ pc[t] = "idle" /\ txns < MaxTxns
  /\ Goto(t, IF poisoned THEN "recover" ELSE "begin")
  /\ txns' = txns + 1
  /\ UNCHANGED <<disk, pager, catalog, poisoned, gate, using, row, history>>

(* refresh_catalog holds the pager while it reads and installs; it fails   *)
(* when a page cannot be read.                                             *)
Refresh == CanOpen /\ catalog' = Opened
RefreshFails == UNCHANGED catalog

(* recover_poisoned_catalog refreshes, then clears the flag.               *)
Recover(t) ==
  /\ pc[t] = "recover"
  /\ \/ Refresh /\ Goto(t, "clear")
     \/ RefreshFails /\ Goto(t, "idle")
  /\ UNCHANGED <<disk, pager, poisoned, gate, using, row, txns, history>>

Clear(t) ==
  /\ pc[t] = "clear"
  /\ poisoned' = FALSE
  /\ Goto(t, "begin")
  /\ UNCHANGED <<disk, pager, catalog, gate, using, row, txns, history>>

Begin(t) ==
  /\ pc[t] = "begin" /\ gate = None
  /\ gate' = t
  /\ Goto(t, "body")
  /\ stale' = (catalog.root # pager.root)
  /\ UNCHANGED <<disk, pager, catalog, poisoned, using, row, txns, acked, tainted>>

(* WriteTxn::collection and the first write: ensure_collection registers a *)
(* name the catalog does not know, and the descriptor is cached.           *)
Use(t, name) ==
  /\ pc[t] = "body" /\ using[t] = None
  /\ Reachable(pager, catalog.root, name)
  /\ using' = [using EXCEPT ![t] = name]
  /\ LET found == Get(pager, catalog.root, name)
     IN IF found = None
        THEN /\ InsertRow(name)
             /\ row' = [row EXCEPT ![t] = [id |-> catalog.next, writes |-> 0]]
        ELSE /\ UNCHANGED <<pager, catalog>>
             /\ row' = [row EXCEPT ![t] = found]
  /\ UNCHANGED <<disk, poisoned, gate, pc, txns, history>>

(* Reconciliation that declares or drops an index: Catalog::update.        *)
Reconcile(t) ==
  /\ pc[t] = "body" /\ using[t] # None
  /\ Reachable(pager, catalog.root, using[t])
  /\ Get(pager, catalog.root, using[t]) # None
  /\ Update(using[t], row[t])
  /\ UNCHANGED <<disk, poisoned, gate, pc, using, row, txns, history>>

Written(t) == [row[t] EXCEPT !.writes = @ + 1]

(* flush_descriptors: Catalog::update of the cached descriptor, which      *)
(* checks that the row there has its id.                                   *)
Flush(t) ==
  /\ pc[t] = "body" /\ using[t] # None
  /\ Reachable(pager, catalog.root, using[t])
  /\ LET found == Get(pager, catalog.root, using[t])
     IN found # None /\ found.id = row[t].id
  /\ Update(using[t], Written(t))
  /\ Goto(t, "flushed")
  /\ UNCHANGED <<disk, poisoned, gate, using, row, txns, history>>

Leave(t) == gate' = None /\ using' = [using EXCEPT ![t] = None]
            /\ row' = [row EXCEPT ![t] = None]

Commit(t) ==
  /\ pc[t] = "flushed"
  /\ disk' = pager
  /\ acked' = [acked EXCEPT ![using[t]] = Written(t)]
  /\ tainted' = (tainted \/ stale)
  /\ Leave(t) /\ Goto(t, "idle")
  /\ UNCHANGED <<pager, catalog, poisoned, txns, stale>>

(* The WAL refuses the commit, the flush fails, or the closure panics: the *)
(* transaction is dropped, which rolls the pager back and nothing else.    *)
Drop(t) ==
  /\ pc[t] \in {"body", "flushed"}
  /\ pager' = disk
  /\ Leave(t) /\ Goto(t, "idle")
  /\ UNCHANGED <<disk, catalog, poisoned, txns, history>>

(* The closure returns an error, its own or one it was given: rollback,    *)
(* which lets go of the gate.                                              *)
Rollback(t) ==
  /\ pc[t] = "body"
  /\ pager' = disk
  /\ Leave(t) /\ Goto(t, "refresh")
  /\ UNCHANGED <<disk, catalog, poisoned, txns, history>>

AfterRollback(t) ==
  /\ pc[t] = "refresh"
  /\ \/ Refresh /\ UNCHANGED poisoned
     \/ RefreshFails /\ poisoned' = TRUE
  /\ Goto(t, "idle")
  /\ UNCHANGED <<disk, pager, gate, using, row, txns, history>>

Step(t) ==
  \/ Call(t) \/ Recover(t) \/ Clear(t) \/ Begin(t)
  \/ \E name \in Names : Use(t, name)
  \/ Reconcile(t) \/ Flush(t) \/ Commit(t)
  \/ Drop(t) \/ Rollback(t) \/ AfterRollback(t)

Next == \E t \in Threads : Step(t)

Spec == Init /\ [][Next]_vars

-----------------------------------------------------------------------------
(* Properties.                                                             *)

(* A collection that a committed transaction registered, and its last      *)
(* committed descriptor, are in the catalog whatever transactions fail     *)
(* before the next one commits: no write starts from a stale root.         *)
RowsKept ==
  \A n \in Names : /\ Reachable(disk, disk.root, n)
                   /\ Get(disk, disk.root, n) = acked[n]

(* They are as long as no transaction commits that began with a root in    *)
(* memory that is not the pager's: whatever is rolled back or dropped, and *)
(* whenever the refreshes of other threads run, also in the middle of it.  *)
RowsKeptWhenFresh == ~tainted => RowsKept

(* The next open of the file finds the catalog's reserved row, and it is   *)
(* above every collection id that is in use: none is given twice.          *)
WatermarkAhead ==
  ~tainted =>
    /\ Reachable(disk, disk.root, None)
    /\ \A n \in Names : acked[n] # None =>
          /\ acked[n].id < Get(disk, disk.root, None)
          /\ \A m \in Names \ {n} : acked[m] # None => acked[m].id # acked[n].id
=============================================================================
