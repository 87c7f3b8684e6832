-------------------------------- MODULE BTree --------------------------------
(***************************************************************************)
(* The B+-tree of obj-core: insert with splits by bytes, delete with       *)
(* merge and borrow, look-up and range scan, copy-on-write over the pages  *)
(* the pager's freelist hands out.                                         *)
(*                                                                         *)
(* Each operation holds the pager, so it is one action; that a transaction *)
(* restores pages, freelist and root together is PagerWal's and DbCatalog's*)
(* subject.  Entries have sizes, because splits, merges and borrows are    *)
(* decided by bytes; a value is no more than a part of its entry's size.   *)
(* next_sibling, which no reader follows, is left out.                     *)
(***************************************************************************)
EXTENDS Naturals, Sequences, FiniteSets, SequencesExt, FiniteSetsExt

CONSTANTS
  Keys,       \* in key order
  LeafSize,   \* LeafSize[k]: bytes of the leaf entry of k
  PivotSize,  \* PivotSize[k]: bytes of k as a pivot
  LeftmostSize, \* INTERNAL_LEFTMOST_CHILD_BYTES
  Capacity,   \* PAYLOAD_BYTES
  Loads,      \* the trees there are at first: keys, in the order of insertion
  MaxOps      \* a bound on operations

(* check_key_value_size: an entry fits a page, and a key is at most a      *)
(* quarter of one, so that three pivots fit; a node that is one child only *)
(* underflows.                                                             *)
ASSUME SizesAssumption ==
  /\ Keys \subseteq Nat \ {0} /\ IsFiniteSet(Keys)
  /\ LeafSize \in [Keys -> Nat \ {0}] /\ PivotSize \in [Keys -> Nat \ {0}]
  /\ LeftmostSize \in Nat /\ Capacity \in Nat
  /\ \A k \in Keys : /\ LeafSize[k] <= Capacity
                     /\ LeftmostSize + 3 * PivotSize[k] <= Capacity
  /\ LeftmostSize < Capacity \div 2
ASSUME BoundsAssumption ==
  /\ MaxOps \in Nat
  /\ \A load \in Loads : load \in Seq(Keys) /\ IsInjective(load)

(***************************************************************************)
(* A tree t is a record: t.pages is the node on each page, or Freed;       *)
(* t.free the pager's freelist, head first; t.root is BTree.root.          *)
(***************************************************************************)
VARIABLES tree, ops

vars == <<tree, ops>>

(* DecodedNode; a node is a leaf when its level is 0.                      *)
Leaf(keys) == [level |-> 0, keys |-> keys, kids |-> <<>>]
Inner(level, keys, kids) == [level |-> level, keys |-> keys, kids |-> kids]
Freed == [level |-> 0, keys |-> <<0>>, kids |-> <<>>]

IsLeaf(node) == node.level = 0

Total(sizes, keys) ==
  LET sum[i \in 0 .. Len(keys)] == IF i = 0 THEN 0 ELSE sum[i - 1] + sizes[keys[i]]
  IN sum[Len(keys)]

Occupied(node) == IF IsLeaf(node) THEN Total(LeafSize, node.keys)
                  ELSE LeftmostSize + Total(PivotSize, node.keys)

Underflows(node) == Occupied(node) < Capacity \div 2

(* The child whose subtree contains key: left of the first pivot above it. *)
ChildIndex(node, key) ==
  CHOOSE i \in 1 .. Len(node.kids) :
    /\ i = Len(node.kids) \/ node.keys[i] > key
    /\ \A j \in 1 .. i - 1 : node.keys[j] <= key

(* The descent from page top to key's leaf: the page on each level.        *)
Path(t, top, key) ==
  LET h == t.pages[top].level
      at[l \in 0 .. h] ==
        IF l = h THEN top
        ELSE LET node == t.pages[at[l + 1]] IN node.kids[ChildIndex(node, key)]
  IN at

LeafOf(t, top, key) == Path(t, top, key)[0]

-----------------------------------------------------------------------------
(* Work in progress: pages and freelist; ids and keys are the pages that   *)
(* replace a node and the pivots between them (ReplaceOutcome); freed is   *)
(* what is freed once the new root stands.                                 *)
Work(t) == [pages |-> t.pages, free |-> t.free, ids |-> <<>>, keys |-> <<>>, freed |-> <<>>]

(* write_new_node: alloc_page, from the freelist or the end of the file.   *)
Put(w, node) ==
  IF w.free = <<>>
  THEN [w EXCEPT !.pages = Append(@, node), !.ids = Append(@, Len(w.pages) + 1)]
  ELSE [w EXCEPT !.pages[Head(w.free)] = node, !.free = Tail(@),
                 !.ids = Append(@, Head(w.free))]

PutAll(w, nodes) ==
  LET put[i \in 0 .. Len(nodes)] == IF i = 0 THEN [w EXCEPT !.ids = <<>>, !.keys = <<>>]
                                    ELSE Put(put[i - 1], nodes[i])
  IN put[Len(nodes)]

Displace(w, ids) == [w EXCEPT !.freed = @ \o ids]

FreePage(w, id) == [w EXCEPT !.pages[id] = Freed, !.free = <<id>> \o @]

(* The end of an operation: the new root stands, the old pages are freed.  *)
Finished(w) ==
  LET done[i \in 0 .. Len(w.freed)] == IF i = 0 THEN w ELSE FreePage(done[i - 1], w.freed[i])
      end == done[Len(w.freed)]
  IN [pages |-> end.pages, free |-> end.free, root |-> w.ids[1]]

-----------------------------------------------------------------------------
(* Insert.                                                                 *)

(* Mutant: halves by count.                                                *)
LeafHalves(keys) ==
  LET m == (Len(keys) + 1) \div 2
  IN <<SubSeq(keys, 1, m), SubSeq(keys, m + 1, Len(keys))>>

(* Greedily, left to right: the n-th group ends before cut[n], the first   *)
(* key that does not fit, or after the last.  The next group starts there, *)
(* or one after it when that key is promoted.                              *)
Cuts(sizes, room, keys, promoted) ==
  LET cut[n \in 0 .. Len(keys) + 1] ==
        IF n = 0 THEN 1 - promoted
        ELSE LET first == cut[n - 1] + promoted
             IN Min({i \in first .. Len(keys) : Total(sizes, SubSeq(keys, first, i)) > room}
                    \union {Len(keys) + 1})
  IN cut

Groups(cut, keys) == 1 .. Min({n \in DOMAIN cut : cut[n] = Len(keys) + 1})

(* pack_leaf_groups                                                        *)
LeafGroups(keys) ==
  LET cut == Cuts(LeafSize, Capacity, keys, 0)
  IN [n \in Groups(cut, keys) |-> SubSeq(keys, cut[n - 1], cut[n] - 1)]

(* The groups are written right to left; each but the first promotes its   *)
(* first key.                                                              *)
SplitLeaf(w, node) ==
  LET gs == LeafGroups(node.keys)
      p  == PutAll(w, Reverse([i \in DOMAIN gs |-> Leaf(gs[i])]))
  IN [p EXCEPT !.ids = Reverse(@), !.keys = [i \in 1 .. Len(gs) - 1 |-> Head(gs[i + 1])]]

(* pack_internal_groups: the pivot that does not fit is promoted, and its  *)
(* right child opens the next group.                                       *)
InternalGroups(node) ==
  LET cut == Cuts(PivotSize, Capacity - LeftmostSize, node.keys, 1)
  IN [n \in Groups(cut, node.keys) |->
        [keys |-> SubSeq(node.keys, cut[n - 1] + 1, cut[n] - 1),
         kids |-> SubSeq(node.kids, cut[n - 1] + 1, cut[n]),
         last |-> cut[n]]]

SplitInternal(w, node) ==
  LET gs == InternalGroups(node)
      p  == PutAll(w, [i \in DOMAIN gs |-> Inner(node.level, gs[i].keys, gs[i].kids)])
  IN [p EXCEPT !.keys = [i \in 1 .. Len(gs) - 1 |-> node.keys[gs[i].last]]]

(* The node on one page if it fits, or split.                              *)
Replaced(w, node) ==
  IF Occupied(node) <= Capacity THEN PutAll(w, <<node>>)
  ELSE IF IsLeaf(node) THEN SplitLeaf(w, node) ELSE SplitInternal(w, node)

(* replace_internal: the i-th child becomes w.ids, with w.keys between.    *)
Absorbed(w, node, i) ==
  Replaced(w, [node EXCEPT
    !.keys = SubSeq(@, 1, i - 1) \o w.keys \o SubSeq(@, i, Len(@)),
    !.kids = SubSeq(@, 1, i - 1) \o w.ids \o SubSeq(@, i + 1, Len(@))])

(* build_new_root.  A split makes at most three nodes of one, and their    *)
(* pivots fit a page, so that its loop ends after one round.               *)
Rooted(w) ==
  IF Len(w.ids) = 1 THEN w
  ELSE PutAll(w, <<Inner(w.pages[w.ids[1]].level + 1, w.keys, w.ids)>>)

(* The key in its place, before the first that is above it.                *)
WithKey(keys, key) ==
  LET n == Max({0} \union {i \in DOMAIN keys : keys[i] < key})
  IN SubSeq(keys, 1, n) \o <<key>> \o SubSeq(keys, n + 1, Len(keys))

Inserted(t, key) ==
  LET at   == Path(t, t.root, key)
      up   == [l \in 1 .. t.pages[t.root].level |-> t.pages[at[l]]]
      leaf == Replaced(Work(t), Leaf(WithKey(t.pages[at[0]].keys, key)))
      work[l \in 0 .. Len(up)] ==
        IF l = 0 THEN leaf ELSE Absorbed(work[l - 1], up[l], ChildIndex(up[l], key))
  IN Finished(Displace(Rooted(work[Len(up)]), [l \in 1 .. Len(up) + 1 |-> at[l - 1]]))

-----------------------------------------------------------------------------
(* Delete.  The i-th and (i+1)-th child of node, on either side of its     *)
(* i-th pivot, are a pair.                                                 *)

(* try_merge: the pair in one page, with the pivot when they are internal. *)
Merged(w, node, i) ==
  LET left  == w.pages[node.kids[i]]
      right == w.pages[node.kids[i + 1]]
  IN IF IsLeaf(left) THEN Leaf(left.keys \o right.keys)
     ELSE Inner(left.level, left.keys \o <<node.keys[i]>> \o right.keys, left.kids \o right.kids)

MergesPair(w, node, i) == Occupied(Merged(w, node, i)) <= Capacity

(* Mutants: the right sibling's page is not freed; the pivot stays.        *)
MergeKeepingRight(w, node, i) ==
  LET p == Put(Displace(w, <<node.kids[i]>>), Merged(w, node, i))
  IN [w |-> p, node |-> [node EXCEPT !.keys = RemoveAt(@, i),
                                     !.kids = RemoveAt([@ EXCEPT ![i] = Last(p.ids)], i + 1)]]
MergeKeepingPivot(w, node, i) ==
  LET p == Put(Displace(w, <<node.kids[i], node.kids[i + 1]>>), Merged(w, node, i))
  IN [w |-> p, node |-> [node EXCEPT !.kids = RemoveAt([@ EXCEPT ![i] = Last(p.ids)], i + 1)]]

Merge(w, node, i) ==
  LET p == Put(Displace(w, <<node.kids[i], node.kids[i + 1]>>), Merged(w, node, i))
  IN [w |-> p, node |-> [node EXCEPT !.keys = RemoveAt(@, i),
                                     !.kids = RemoveAt([@ EXCEPT ![i] = Last(p.ids)], i + 1)]]

(* sibling_has_spare: without a slot of the first one's size it is half    *)
(* full.                                                                   *)
HasSpare(node) ==
  LET first == IF node.keys = <<>> THEN 0
               ELSE IF IsLeaf(node) THEN LeafSize[Head(node.keys)]
               ELSE PivotSize[Head(node.keys)]
  IN Occupied(node) >= Capacity \div 2 + first

(* A pair after a slot has moved over: left, right, the new pivot.         *)
MovedLeft(left, right, pivot) ==
  IF IsLeaf(left)
  THEN [left  |-> Leaf(Append(left.keys, Head(right.keys))),
        right |-> Leaf(Tail(right.keys)),
        pivot |-> right.keys[2]]
  ELSE [left  |-> Inner(left.level, Append(left.keys, pivot), Append(left.kids, Head(right.kids))),
        right |-> Inner(right.level, Tail(right.keys), Tail(right.kids)),
        pivot |-> Head(right.keys)]

(* Mutant: the pivot of two leaves is not moved.                           *)
MovedRightUnder(left, right, pivot) ==
  IF IsLeaf(left)
  THEN [left  |-> Leaf(Front(left.keys)),
        right |-> Leaf(<<Last(left.keys)>> \o right.keys),
        pivot |-> pivot]
  ELSE [left  |-> Inner(left.level, Front(left.keys), Front(left.kids)),
        right |-> Inner(right.level, <<pivot>> \o right.keys, <<Last(left.kids)>> \o right.kids),
        pivot |-> Last(left.keys)]

MovedRight(left, right, pivot) ==
  IF IsLeaf(left)
  THEN [left  |-> Leaf(Front(left.keys)),
        right |-> Leaf(<<Last(left.keys)>> \o right.keys),
        pivot |-> Last(left.keys)]
  ELSE [left  |-> Inner(left.level, Front(left.keys), Front(left.kids)),
        right |-> Inner(right.level, <<pivot>> \o right.keys, <<Last(left.kids)>> \o right.kids),
        pivot |-> Last(left.keys)]

(* parent_fits_after_pivot_swap and child_fits_after_borrow.               *)
BorrowFits(node, i, moved, receiver) ==
  /\ Occupied([node EXCEPT !.keys[i] = moved.pivot]) <= Capacity
  /\ Occupied(receiver) <= Capacity

(* The pair after a borrow, in order the pages are written: the child and  *)
(* its right sibling, or the left sibling and the child.                   *)
Borrow(w, node, i, moved, freed) ==
  LET p == PutAll(Displace(w, freed), <<moved.left, moved.right>>)
  IN [w |-> p, node |-> [node EXCEPT !.keys[i] = moved.pivot,
                                     !.kids[i] = p.ids[1], !.kids[i + 1] = p.ids[2]]]

(* rebalance_under_parent of the i-th child: merge right, merge left,      *)
(* borrow right, borrow left, or leave it.                                 *)
Rebalanced(w, node, i) ==
  LET hasRight == i < Len(node.kids)
      hasLeft  == i > 1
      child == w.pages[node.kids[i]]
      right == w.pages[node.kids[i + 1]]
      left  == w.pages[node.kids[i - 1]]
      fromRight == MovedLeft(child, right, node.keys[i])
      fromLeft  == MovedRight(left, child, node.keys[i - 1])
  IN IF hasRight /\ MergesPair(w, node, i) THEN Merge(w, node, i)
     ELSE IF hasLeft /\ MergesPair(w, node, i - 1) THEN Merge(w, node, i - 1)
     ELSE IF hasRight /\ HasSpare(right) /\ BorrowFits(node, i, fromRight, fromRight.left)
     THEN Borrow(w, node, i, fromRight, <<node.kids[i], node.kids[i + 1]>>)
     ELSE IF hasLeft /\ HasSpare(left) /\ BorrowFits(node, i - 1, fromLeft, fromLeft.right)
     THEN Borrow(w, node, i - 1, fromLeft, <<node.kids[i], node.kids[i - 1]>>)
     ELSE [w |-> w, node |-> node]

(* process_parent: w.ids is the page of the rewritten i-th child.          *)
Processed(w, id, i) ==
  LET node == [w.pages[id] EXCEPT !.kids[i] = w.ids[1]]
      r == IF Underflows(w.pages[w.ids[1]]) THEN Rebalanced(w, node, i)
           ELSE [w |-> w, node |-> node]
  IN PutAll(Displace(r.w, <<id>>), <<r.node>>)

(* collapse_root: an internal root without pivots gives way to its child.  *)
(* No key is 0: the descent for it takes the first child.                  *)
Collapsed(w) ==
  LET h == w.pages[w.ids[1]].level
      at == Path(w, w.ids[1], 0)
      top == Min({l \in 0 .. h : \A m \in l + 1 .. h : w.pages[at[m]].keys = <<>>})
  IN [Displace(w, [j \in 1 .. h - top |-> at[h + 1 - j]]) EXCEPT !.ids = <<at[top]>>]

Without(keys, key) == RemoveAt(keys, CHOOSE i \in DOMAIN keys : keys[i] = key)

Deleted(t, key) ==
  LET at  == Path(t, t.root, key)
      h   == t.pages[t.root].level
      cut == PutAll(Displace(Work(t), <<at[0]>>), <<Leaf(Without(t.pages[at[0]].keys, key))>>)
      work[l \in 0 .. h] ==
        IF l = 0 THEN cut
        ELSE Processed(work[l - 1], at[l], ChildIndex(work[l - 1].pages[at[l]], key))
  IN Finished(Collapsed(work[h]))

-----------------------------------------------------------------------------
(* BTree::get finds key.                                                   *)
Found(key) == key \in ToSet(tree.pages[LeafOf(tree, tree.root, key)].keys)

Insert(key) == ~Found(key) /\ tree' = Inserted(tree, key)  \* or BTreeKeyExists
Delete(key) == Found(key) /\ tree' = Deleted(tree, key)    \* or false

(* BTree::empty.                                                           *)
EmptyTree == [pages |-> <<Leaf(<<>>)>>, free |-> <<>>, root |-> 1]

Loaded(load) ==
  LET grown[i \in 0 .. Len(load)] == IF i = 0 THEN EmptyTree ELSE Inserted(grown[i - 1], load[i])
  IN grown[Len(load)]

Init ==
  /\ \E load \in Loads : tree = Loaded(load)
  /\ ops = 0

Next ==
  /\ ops < MaxOps /\ ops' = ops + 1
  /\ \E key \in Keys : Insert(key) \/ Delete(key)

Spec == Init /\ [][Next]_vars

-----------------------------------------------------------------------------
(* Range scans.                                                            *)

(* Mutant: only the parent is asked for a next child.                      *)
LeafAfterInParent(key) ==
  LET at == Path(tree, tree.root, key)
      parent == tree.pages[at[1]]
  IN IF tree.pages[tree.root].level = 0 \/ ChildIndex(parent, key) = Len(parent.kids) THEN 0
     ELSE parent.kids[ChildIndex(parent, key) + 1]

(* descend_to_leaf_after: the leaf of key if it has a larger key, or else  *)
(* the first leaf of the next child of the lowest node that has one; 0 if  *)
(* there is none.                                                          *)
LeafAfter(key) ==
  LET at == Path(tree, tree.root, key)
      h  == tree.pages[tree.root].level
      next == {l \in 1 .. h : ChildIndex(tree.pages[at[l]], key) < Len(tree.pages[at[l]].kids)}
      node == tree.pages[at[Min(next)]]
  IN IF \E k \in ToSet(tree.pages[at[0]].keys) : k > key THEN at[0]
     ELSE IF next = {} THEN 0
     ELSE LeafOf(tree, node.kids[ChildIndex(node, key) + 1], 0)

(* The leaves RangeIter visits from a start bound: the first is start's,   *)
(* the next the one after the last key of the one before.  Both loops end  *)
(* at a leaf without keys.                                                 *)
Advanced(id) ==
  LET keys == tree.pages[id].keys
      next == IF keys = <<>> THEN 0 ELSE LeafAfter(Last(keys))
  IN IF next = 0 THEN <<>> ELSE <<next>>

Visited(start) ==
  LET ids[n \in 0 .. Len(tree.pages)] ==
        IF n = 0 THEN <<LeafOf(tree, tree.root, start)>>
        ELSE LET seen == ids[n - 1] IN seen \o Advanced(Last(seen))
  IN ids[Len(tree.pages)]

(* What a scan from start, inclusive, emits; from 0 it is unbounded.       *)
Scanned(start) ==
  {k \in UNION {ToSet(tree.pages[id].keys) : id \in ToSet(Visited(start))} : k >= start}

-----------------------------------------------------------------------------
(* Properties.                                                             *)

(* The pages of each level, from the root down.                            *)
TreePages ==
  LET h == tree.pages[tree.root].level
      level[l \in 0 .. h] == IF l = h THEN {tree.root}
                             ELSE UNION {ToSet(tree.pages[id].kids) : id \in level[l + 1]}
  IN UNION {level[l] : l \in 0 .. h}

Nodes == {tree.pages[id] : id \in TreePages}
Leaves == {id \in TreePages : IsLeaf(tree.pages[id])}

TypeOK ==
  /\ tree.root \in DOMAIN tree.pages /\ ToSet(tree.free) \subseteq DOMAIN tree.pages
  /\ \A node \in Nodes :
       /\ ToSet(node.keys) \subseteq Keys
       /\ ToSet(node.kids) \subseteq DOMAIN tree.pages
       /\ Len(node.kids) = IF IsLeaf(node) THEN 0 ELSE Len(node.keys) + 1

(* Every node a split, a merge or a borrow writes fits its page, whatever  *)
(* the sizes of entries and pivots: encode_node never finds slots and heap *)
(* colliding, which would turn a legal write into an error.                *)
NodesFit == \A node \in Nodes : Occupied(node) <= Capacity

(* The pages of the tree, each under one parent and one level below it,    *)
(* and the freelist are all the pages, without overlap: the operations     *)
(* lose none and free none twice, though they free pages they have         *)
(* allocated themselves.                                                   *)
PagesAccounted ==
  /\ ToSet(tree.free) = {id \in DOMAIN tree.pages : tree.pages[id] = Freed}
  /\ Cardinality(ToSet(tree.free)) = Len(tree.free)
  /\ TreePages = DOMAIN tree.pages \ ToSet(tree.free)
  /\ \A id \in TreePages : \A kid \in ToSet(tree.pages[id].kids) :
       tree.pages[kid].level + 1 = tree.pages[id].level
  /\ \A a, b \in TreePages :
       \A i \in DOMAIN tree.pages[a].kids, j \in DOMAIN tree.pages[b].kids :
         tree.pages[a].kids[i] = tree.pages[b].kids[j] => a = b /\ i = j

(* Look-ups find what was inserted and not deleted since.                  *)
Map == INSTANCE KeyMap WITH held <- {k \in Keys : Found(k)},
                            Initially <- {ToSet(load) : load \in Loads}
ImplementsMap == Map!Spec

(* "`get` / range-scan / subsequent `insert` and `delete` all remain       *)
(* correct": a scan from any bound emits every key that get finds.         *)
ScansFindAll ==
  LET held == {k \in Keys : Found(k)}
  IN \A start \in Keys \union {0} : Scanned(start) = {k \in held : k >= start}

(* They do while no leaf but the root is empty: leaving a leaf, a scan     *)
(* climbs as far as it must and misses none, also across nodes of a single *)
(* child.                                                                  *)
ScansFindAllInFullLeaves ==
  (\A id \in Leaves \ {tree.root} : tree.pages[id].keys # <<>>) => ScansFindAll
=============================================================================
