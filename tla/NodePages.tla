------------------------------ MODULE NodePages ------------------------------
(***************************************************************************)
(* The trees of BTree as the pages of a file: how a node is laid out on    *)
(* its page, how a page is checksummed, compressed and encrypted, the      *)
(* three decoders that read it back, the readers of a snapshot beside      *)
(* those of the live pager, and the integrity check's walk; on sound files *)
(* and on files somebody or some disk has damaged.                         *)
(*                                                                         *)
(* The file is at rest: every page is in the main file, the caches are     *)
(* cold.  A page's body is Capacity units, numbered from 1, in place of    *)
(* PAYLOAD_OFFSET .. PAYLOAD_END bytes: a leaf's slot is a unit, an        *)
(* internal node's slot two (offset and right child), its leftmost child   *)
(* one.  A byte has Cont values without and Cont with the continuation     *)
(* bit; a unit read as a byte is its low byte.                             *)
(*                                                                         *)
(* A CRC or an AEAD tag is the very thing it was computed over: collisions *)
(* are left out.  What may fail is a set of at most one element, empty for *)
(* an error.                                                               *)
(***************************************************************************)
EXTENDS BTree

CONSTANTS
  KeyBytes,     \* KeyBytes[k]: k as a sequence of bytes
  ValueLen,     \* ValueLen[k]: the length of its value
  MaxKeyLen,    \* max_key_len
  Cont,         \* 0x80
  MaxVarint,    \* bytes of the longest varint read
  MaxDepth,     \* MAX_BTREE_DEPTH
  FormatOf,     \* FormatOf[load]: format_minor of the file: 0, 1 (compressed) or 2 (encrypted)
  DamageVals    \* a bound: what a damaged unit holds

VARIABLES
  file,   \* file[id]: the physical block of page id; page 0 is not modelled
  format, \* format_minor
  damage  \* "none", "raw", or "sealed" under a checksum made for it

pageVars == <<tree, ops, file, format, damage>>

Byte(unit) == unit % (2 * Cont)

(* varint_len, write_varint. *)
RECURSIVE Varint(_)
Varint(v) == IF v < Cont THEN <<v>> ELSE <<Cont + (v % Cont)>> \o Varint(v \div Cont)

Value(k) == [i \in 1 .. ValueLen[k] |-> k]

LeafCell(k) == Varint(Len(KeyBytes[k])) \o KeyBytes[k] \o Varint(ValueLen[k]) \o Value(k)
PivotCell(k) == Varint(Len(KeyBytes[k])) \o KeyBytes[k]

(* LEAF_SLOT_BYTES is a unit, INTERNAL_SLOT_BYTES two. *)
ASSUME LayoutAssumption ==
  /\ Cont \in Nat \ {0, 1} /\ MaxVarint \in Nat \ {0} /\ LeftmostSize = 1
  /\ \A k \in Keys :
       /\ Len(KeyBytes[k]) \in 1 .. MaxKeyLen /\ ToSet(KeyBytes[k]) \subseteq 0 .. 2 * Cont - 1
       /\ LeafSize[k] = 1 + Len(LeafCell(k)) /\ PivotSize[k] = 2 + Len(PivotCell(k))
       /\ k \in 0 .. 2 * Cont - 1

LeafSlotCap == Capacity
InternalSlotCap == (Capacity - LeftmostSize) \div 2

-----------------------------------------------------------------------------
(* Encoding.  An image is a page as the pager hands it out: its header and *)
(* its body; next is a freelist page's link.                               *)
Zeroed == [type |-> "none", level |-> 0, count |-> 0, next |-> 0,
           body |-> [i \in 1 .. Capacity |-> 0]]

Concat(seqs) == FoldLeft(LAMBDA all, s : all \o s, <<>>, seqs)

(* encode_leaf_body, encode_internal_body: cells fill the heap from the    *)
(* end of the page down, slots the front.                                  *)
Body(front, cells, Slot(_, _)) ==
  LET offset[i \in 0 .. Len(cells)] ==
        IF i = 0 THEN Capacity + 1 ELSE offset[i - 1] - Len(cells[i])
      slots == front \o Concat([i \in DOMAIN cells |-> Slot(i, offset[i])])
      heap  == Concat(Reverse(cells))
  IN slots \o [i \in 1 .. Capacity - Len(slots) - Len(heap) |-> 0] \o heap

(* encode_node, which refuses an internal node whose children do not match *)
(* its pivots; freelist::encode.                                           *)
Image(node, next) ==
  IF node = Freed THEN [Zeroed EXCEPT !.type = "free", !.next = next]
  ELSE IF ~IsLeaf(node) /\ Len(node.kids) # Len(node.keys) + 1 THEN Zeroed
  ELSE [type  |-> IF IsLeaf(node) THEN "leaf" ELSE "internal",
        level |-> node.level, count |-> Len(node.keys), next |-> 0,
        body  |-> IF IsLeaf(node)
                  THEN Body(<<>>, [i \in DOMAIN node.keys |-> LeafCell(node.keys[i])],
                            LAMBDA i, off : <<off>>)
                  ELSE Body(<<node.kids[1]>>, [i \in DOMAIN node.keys |-> PivotCell(node.keys[i])],
                            LAMBDA i, off : <<off, node.kids[i + 1]>>)]

(* The page after id on the freelist, 0 at its end.                        *)
NextFree(t, id) ==
  LET after == {i \in 1 .. Len(t.free) - 1 : t.free[i] = id}
  IN IF after = {} THEN 0 ELSE t.free[Min(after) + 1]

(* LZ4 pays off on a page with a run of zeros.                             *)
Compresses(image) == image.body[Capacity \div 2] = 0

(* encode_page_v1 and write_page_trailer: the body, squeezed if that       *)
(* helps, and a checksum that does not cover the flag.                     *)
Stamped(image, minor) ==
  LET squeezed == minor >= 1 /\ Compresses(image)
      body == IF squeezed THEN [lz4 |-> image] ELSE image
  IN [body |-> body, flag |-> squeezed, crc |-> body]

(* write_back_page: the tag is over the page and, as associated data, its  *)
(* id.                                                                     *)
Block(image, minor, id) ==
  LET page == Stamped(image, minor)
  IN [page |-> page, tag |-> IF minor = 2 THEN <<id, page>> ELSE <<>>]

Blocks(t, minor) ==
  [id \in DOMAIN t.pages |-> Block(Image(t.pages[id], NextFree(t, id)), minor, id)]

-----------------------------------------------------------------------------
(* Decoding. *)

(* read_varint: <<value, offset after it>>. *)
VarintAt(body, off) ==
  LET ends == {j \in off .. off + MaxVarint - 1 : j <= Capacity /\ Byte(body[j]) < Cont}
      end  == Min(ends)
  IN IF ends = {} THEN {}
     ELSE {[value |-> MapThenSumSet(LAMBDA j : (Byte(body[j]) % Cont) * Cont ^ (j - off), off .. end),
            after |-> end + 1]}

(* read_length_prefixed. *)
Prefixed(body, off) ==
  LET fits == {v \in VarintAt(body, off) : off <= Capacity /\ v.after + v.value <= Capacity + 1}
  IN {[bytes |-> SubSeq(body, v.after, v.after + v.value - 1), after |-> v.after + v.value] : v \in fits}

(* read_leaf_slot: <<key, value>>. *)
LeafSlot(body, i) ==
  IF i > Capacity \/ body[i] \notin 1 .. Capacity THEN {}
  ELSE {c \in UNION {{<<key.bytes, value.bytes>> : value \in Prefixed(body, key.after)} :
                     key \in Prefixed(body, body[i])} : Len(c[1]) <= MaxKeyLen}

(* decode_internal_slot: <<pivot, right child>>. *)
InternalSlot(body, i) ==
  LET at == LeftmostSize + 2 * i - 1
  IN IF at + 1 > Capacity \/ body[at + 1] = 0 \/ body[at] \notin 1 .. Capacity THEN {}
     ELSE {<<key.bytes, body[at + 1]>> : key \in {p \in Prefixed(body, body[at]) : Len(p.bytes) <= MaxKeyLen}}

(* Byte strings in order. *)
Before(a, b) ==
  \E n \in 0 .. Len(a) :
    /\ n < Len(b) /\ \A j \in 1 .. n : a[j] = b[j]
    /\ n = Len(a) \/ a[n + 1] < b[n + 1]

Ascending(slots) == \A i \in 2 .. Len(slots) : Before(slots[i - 1][1], slots[i][1])

(* The slots of a body, if every one of them can be read. *)
All(count, Slot(_)) ==
  FoldLeftDomain(LAMBDA read, i : UNION {{Append(s, c) : c \in Slot(i)} : s \in read},
                 {<<>>}, [i \in 1 .. count |-> i])

(* decode_leaf_body and decode_internal_body: kids is empty for a leaf.    *)
DecodedLeaf(image) ==
  IF image.count > LeafSlotCap THEN {}
  ELSE {[level |-> image.level, cells |-> slots, kids |-> <<>>] :
        slots \in {s \in All(image.count, LAMBDA i : LeafSlot(image.body, i)) : Ascending(s)}}

DecodedInternal(image) ==
  IF image.count > InternalSlotCap \/ image.body[1] = 0 THEN {}
  ELSE {[level |-> image.level, cells |-> slots,
         kids  |-> <<image.body[1]>> \o [i \in DOMAIN slots |-> slots[i][2]]] :
        slots \in {s \in All(image.count, LAMBDA i : InternalSlot(image.body, i)) : Ascending(s)}}

(* decode_node, with what validate_node_structural adds.                   *)
DecodeNode(image) ==
  CASE image.type = "leaf"     -> {n \in DecodedLeaf(image) : n.level = 0}
    [] image.type = "internal" -> {n \in DecodedInternal(image) : n.level # 0}
    [] OTHER                   -> {}

(* Mutant: the slots are validated one by one, their order is not.         *)
BorrowedUnordered(image) ==
  IF image.type # "leaf" \/ image.level # 0 \/ image.count > LeafSlotCap THEN {}
  ELSE All(image.count, LAMBDA i : LeafSlot(image.body, i))

(* BorrowedLeaf::new. *)
BorrowedLeaf(image) ==
  IF image.type # "leaf" \/ image.level # 0 \/ image.count > LeafSlotCap THEN {}
  ELSE {s \in All(image.count, LAMBDA i : LeafSlot(image.body, i)) : Ascending(s)}

(* decode_node_find: the slots are read up to the first that holds target  *)
(* or is wrong.  What is found is a set, of the value or empty.            *)
FindInPage(image, target) ==
  LET slot(i) == LeafSlot(image.body, i)
      good(i) == /\ slot(i) # {}
                 /\ i = 1 \/ \A c \in slot(i), d \in slot(i - 1) : Before(d[1], c[1])
      stop == {i \in 1 .. image.count : ~good(i) \/ \E c \in slot(i) : c[1] = target}
  IN IF image.type # "leaf" \/ image.level # 0 \/ image.count > LeafSlotCap THEN {}
     ELSE IF stop = {} THEN {{}}
     ELSE IF good(Min(stop)) THEN {{c[2] : c \in slot(Min(stop))}}
     ELSE {}

-----------------------------------------------------------------------------
(* Reading pages. *)

(* decode_page_v1 and read_through: checksum before contents.              *)
(* Mutant: the trailer is not verified.                                    *)
UnverifiedPage(block, id) ==
  IF format = 2 /\ block.tag # <<id, block.page>> THEN {}
  ELSE IF block.page.flag THEN {block.page.body.lz4} ELSE {block.page.body}

PageOf(block, id) ==
  IF format = 2 /\ block.tag # <<id, block.page>> THEN {}
  ELSE IF block.page.crc # block.page.body THEN {}
  ELSE IF block.page.flag THEN {block.page.body.lz4} ELSE {block.page.body}

(* What its readers make of a page.  The live pager's decode a leaf whole, *)
(* a snapshot's look at its type and borrow it.                            *)
LivePage(images) ==
  LET node == UNION {DecodeNode(p) : p \in images}
      leaf == {n.cells : n \in {m \in node : m.kids = <<>>}}
  IN [images |-> images, node |-> node, leaf |-> leaf, isLeaf |-> leaf # {}]
SnapPage(images) ==
  [images |-> images, node |-> UNION {DecodeNode(p) : p \in images},
   leaf   |-> UNION {BorrowedLeaf(p) : p \in images},
   isLeaf |-> \E p \in images : p.type = "leaf"]

(* Pager::read_page of the pages up to page_count, and read_page of a      *)
(* snapshot: past the end of the file one fails, the other reads zeros.    *)
LiveView ==
  FoldLeftDomain(LAMBDA pages, id : Append(pages, LivePage(IF id \in DOMAIN file THEN PageOf(file[id], id) ELSE {})),
                 <<>>, tree.pages)
SnapView ==
  FoldLeftDomain(LAMBDA pages, id : Append(pages, SnapPage(IF id \in DOMAIN file THEN PageOf(file[id], id) ELSE {Zeroed})),
                 <<>>, tree.pages)

(* choose_child, pivot_index_for_start. *)
KidIndex(node, key) ==
  Min({i \in DOMAIN node.kids : i = Len(node.kids) \/ Before(key, node.cells[i][1])})

(* descend_to_leaf, descend_to_start_leaf and get_via_snapshot's descent.  *)
RECURSIVE Descend(_, _, _, _)
Descend(view, id, key, depth) ==
  IF depth > MaxDepth \/ id \notin DOMAIN view THEN {}
  ELSE IF view[id].isLeaf THEN {id}
  ELSE UNION {Descend(view, n.kids[KidIndex(n, key)], key, depth + 1) : n \in view[id].node}

(* BTree::get and BTree::get_via_snapshot. *)
Get(view, key) ==
  UNION {UNION {FindInPage(p, key) : p \in view[id].images} : id \in Descend(view, tree.root, key, 1)}

(* descend_leftmost_leaf. *)
RECURSIVE Leftmost(_, _, _)
Leftmost(view, id, depth) ==
  IF depth > MaxDepth \/ id \notin DOMAIN view THEN {}
  ELSE UNION {IF n.kids = <<>> THEN {id} ELSE Leftmost(view, n.kids[1], depth + 1) : n \in view[id].node}

(* A leaf of the view, if it has a larger key; 0 if not. *)
SelfIfLarger(view, id, key) ==
  {IF \E i \in DOMAIN cells : Before(key, cells[i][1]) THEN id ELSE 0 : cells \in view[id].leaf}

(* Mutant: only the lowest frame is asked for a next child. *)
RECURSIVE AfterInParent(_, _, _, _)
AfterInParent(view, id, key, depth) ==
  IF depth > MaxDepth \/ id \notin DOMAIN view THEN {}
  ELSE IF view[id].isLeaf THEN SelfIfLarger(view, id, key)
  ELSE UNION {LET i == KidIndex(n, key)
                  below == AfterInParent(view, n.kids[i], key, depth + 1)
              IN IF below # {0} \/ n.level > 1 \/ i = Len(n.kids) THEN below
                 ELSE Leftmost(view, n.kids[i + 1], 1) : n \in view[id].node}

(* descend_to_leaf_after: key's leaf, or the first leaf under the next     *)
(* child of the lowest frame that has one; 0 when no key is larger.        *)
RECURSIVE After(_, _, _, _)
After(view, id, key, depth) ==
  IF depth > MaxDepth \/ id \notin DOMAIN view THEN {}
  ELSE IF view[id].isLeaf THEN SelfIfLarger(view, id, key)
  ELSE UNION {LET i == KidIndex(n, key)
                  below == After(view, n.kids[i], key, depth + 1)
              IN IF below # {0} \/ i = Len(n.kids) THEN below
                 ELSE Leftmost(view, n.kids[i + 1], 1) : n \in view[id].node}

(* advance_to_next_leaf: what is left to emit in the next leaf; an empty   *)
(* sequence at the end.                                                    *)
Advance(view, last) ==
  UNION {IF id = 0 THEN {<<>>}
         ELSE {SelectSeq(cells, LAMBDA c : Before(last, c[1])) : cells \in view[id].leaf} :
         id \in After(view, tree.root, last, 1)}

(* The iterator's loop from the cells left in its leaf: what it emits, and *)
(* whether it ends without an error.                                       *)
RECURSIVE Emitted(_, _)
Emitted(view, cells) ==
  LET rests == IF cells = <<>> THEN {<<>>} ELSE Advance(view, Last(cells)[1])
      rest  == CHOOSE r \in rests : TRUE
      more  == Emitted(view, rest)
  IN IF rests = {} THEN [cells |-> cells, ok |-> FALSE]
     ELSE IF rest = <<>> THEN [cells |-> cells, ok |-> TRUE]
     ELSE [more EXCEPT !.cells = cells \o @]

(* locate_first_in_range_leaf: from the leaf read first, on to a leaf with *)
(* a key in the range, or one without keys or without a leaf after it.     *)
RECURSIVE Located(_, _, _, _)
Located(view, start, cells, fuel) ==
  LET inRange == SelectSeq(cells, LAMBDA c : ~Before(c[1], start))
      nexts == IF inRange # <<>> \/ cells = <<>> THEN {0}
               ELSE After(view, tree.root, Last(cells)[1], 1)
  IN IF nexts = {0} THEN {inRange} ELSE IF fuel = 0 THEN {}
     ELSE UNION {UNION {Located(view, start, c, fuel - 1) : c \in view[id].leaf} : id \in nexts}

(* RangeIter and SnapshotRangeIter from start, inclusive. *)
Scan(view, start) ==
  LET from == UNION {UNION {Located(view, start, c, Len(view)) : c \in view[id].leaf} :
                     id \in Descend(view, tree.root, start, 1)}
  IN IF from = {} THEN [cells |-> <<>>, ok |-> FALSE]
     ELSE Emitted(view, CHOOSE cells \in from : TRUE)

-----------------------------------------------------------------------------
(* The integrity check over the live pager: what it has reached and what   *)
(* it found wrong; it aborts on a read error other than Corruption.        *)
Walk == [reached |-> {}, failed |-> {}, aborted |-> FALSE]

PageCount == Len(tree.pages) + 1

(* read_page, as the walks see it: a page id past page_count is an         *)
(* InvalidArgument, one past the end of the file an Io error, a page that  *)
(* does not decrypt an EncryptionKeyInvalid; these abort.                  *)
ReadAborts(view, id) ==
  \/ id >= PageCount \/ id \notin DOMAIN file
  \/ format = 2 /\ view[id].images = {}

(* walk_btree, record_btree_visit, read_and_validate_node: the stack of    *)
(* <<page, depth>> is worked off from its end.                             *)
RECURSIVE WalkTree(_, _, _, _)
WalkTree(view, w, stack, seen) ==
  LET id == Last(stack)[1]  depth == Last(stack)[2]
      rest == Front(stack)
      node == CHOOSE n \in view[id].node : TRUE
      here == [w EXCEPT !.reached = @ \union {id}]
  IN IF stack = <<>> \/ w.aborted THEN w
     ELSE IF depth > MaxDepth THEN [w EXCEPT !.failed = @ \union {<<"depth", id>>}]
     ELSE IF id \in seen THEN WalkTree(view, [w EXCEPT !.failed = @ \union {<<"cycle", id>>}], rest, seen)
     ELSE IF ReadAborts(view, id) THEN [here EXCEPT !.aborted = TRUE]
     ELSE IF view[id].node = {}
     THEN WalkTree(view, [here EXCEPT !.failed = @ \union {<<"checksum", id>>}], rest, seen \union {id})
     ELSE WalkTree(view, here, rest \o [i \in DOMAIN node.kids |-> <<node.kids[i], depth + 1>>], seen \union {id})

(* walk_freelist: a broken link ends the walk, not the check.              *)
RECURSIVE WalkFreelist(_, _, _, _)
WalkFreelist(view, w, id, seen) ==
  LET broken == [w EXCEPT !.failed = @ \union {<<"freelist", id>>}]
      here == [w EXCEPT !.reached = @ \union {id}]
      image == CHOOSE p \in view[id].images : TRUE
  IN IF id = 0 \/ w.aborted THEN w
     ELSE IF id >= PageCount \/ id \in seen THEN broken
     ELSE IF ReadAborts(view, id) THEN [here EXCEPT !.aborted = TRUE]
     ELSE IF view[id].images = {} THEN [here EXCEPT !.failed = @ \union {<<"checksum", id>>}]
     ELSE IF image.type # "free" THEN [here EXCEPT !.failed = @ \union {<<"freelist", id>>}]
     ELSE WalkFreelist(view, here, image.next, seen \union {id})

(* detect_orphan_pages. *)
Orphans(w) ==
  IF w.aborted THEN w
  ELSE [w EXCEPT !.failed = @ \union {<<"orphan", id>> : id \in (1 .. PageCount - 1) \ w.reached}]

(* Db::integrity_check of a file of this one tree. *)
IntegrityCheck(view) ==
  LET root == WalkTree(view, Walk, <<<<tree.root, 0>>>>, {})
      head == IF tree.free = <<>> THEN 0 ELSE Head(tree.free)
  IN Orphans(WalkFreelist(view, root, head, {}))

-----------------------------------------------------------------------------
(* A load, its tree, and the file of it; then operations, each of which    *)
(* writes the pages it changes.                                            *)
InitPages ==
  /\ ops = 0 /\ damage = "none"
  /\ \E load \in Loads : /\ tree = Loaded(load)
                         /\ format = FormatOf[load]
  /\ file = Blocks(tree, format)

Operate ==
  /\ damage = "none" /\ Next
  /\ file' = Blocks(tree', format)
  /\ UNCHANGED <<format, damage>>

(* Faults, on the loads alone: one field or unit of an image changes, ...  *)
Changes(image) ==
  LET retyped == [image EXCEPT !.type = CHOOSE t \in {"leaf", "internal"} : t # image.type]
  IN {retyped} \union UNION {{[image EXCEPT !.level = val], [image EXCEPT !.count = val],
                              [image EXCEPT !.next = val]} : val \in DamageVals}
     \union {[image EXCEPT !.body[unit] = val] : unit \in 1 .. Capacity, val \in DamageVals}

ChangedBodies(page) ==
  IF page.flag THEN {[lz4 |-> image] : image \in Changes(page.body.lz4)} ELSE Changes(page.body)

(* ... with the checksum it had, or with one made for it: only a file that *)
(* is not encrypted can be edited like this, ...                           *)
Damage(id, body) ==
  /\ body # file[id].page.body
  /\ \/ damage' = "raw" /\ file' = [file EXCEPT ![id].page.body = body]
     \/ /\ format = 0 /\ damage' = "sealed"
        /\ file' = [file EXCEPT ![id].page = [@ EXCEPT !.body = body, !.crc = body]]

(* ... a page's block is written in the place of another, which only       *)
(* encryption notices, ...                                                 *)
Misplace(id, other) ==
  /\ format = 2 /\ id # other
  /\ file' = [file EXCEPT ![id] = file[other]]
  /\ damage' = "raw"

(* ... or the end of the file is lost.                                     *)
Truncate(n) ==
  /\ file' = SubSeq(file, 1, n)
  /\ damage' = "raw"

Fault ==
  /\ damage = "none" /\ ops = 0
  /\ \/ \E id \in DOMAIN file : \E body \in ChangedBodies(file[id].page) : Damage(id, body)
     \/ \E id, other \in DOMAIN file : Misplace(id, other)
     \/ \E n \in 1 .. Len(file) - 1 : Truncate(n)
  /\ UNCHANGED <<tree, ops, format>>

NextPages == Operate \/ Fault

SpecPages == InitPages /\ [][NextPages]_pageVars

-----------------------------------------------------------------------------
(* Properties. *)

Held == {k \in Keys : Found(k)}

(* The true answers: the value of a key, and the cells of a scan. *)
Answer(k) == IF k \in Held THEN {Value(k)} ELSE {}
Cells(start) ==
  LET scanned == Scanned(start)
      keys == SelectSeq([k \in 1 .. Max(Keys) |-> k], LAMBDA k : k \in scanned)
  IN [i \in DOMAIN keys |-> <<KeyBytes[keys[i]], Value(keys[i])>>]

Starts == Keys \union {0}
StartBytes(k) == IF k = 0 THEN <<>> ELSE KeyBytes[k]

(* On a sound file the two read paths of this code, which share no line,   *)
(* answer alike and as the tree of BTree does: point reads by way of       *)
(* descend_to_leaf or of a peek at each page's type, scans that decode     *)
(* each leaf or borrow it; whatever the file's format, the keys' lengths   *)
(* and the splits and merges before.  The integrity check finds nothing.   *)
ReadersAgree ==
  damage = "none" => \E live \in {LiveView}, snap \in {SnapView} :
    /\ \A k \in Keys : Get(live, KeyBytes[k]) = {Answer(k)} /\ Get(snap, KeyBytes[k]) = {Answer(k)}
    /\ \A s \in Starts : \E all \in {[cells |-> Cells(s), ok |-> TRUE]} :
         Scan(live, StartBytes(s)) = all /\ Scan(snap, StartBytes(s)) = all
    /\ \E w \in {IntegrityCheck(live)} : ~w.aborted /\ w.failed = {}

(* "A tampered page therefore yields `Error::Corruption` identically to    *)
(* the full decode": on whatever bytes, decode_node and BorrowedLeaf       *)
(* accept the same leaves, with the same cells, and decode_node_find       *)
(* agrees with them; on a leaf they reject it never says that a key is     *)
(* absent, though it stops at the first match.                             *)
DecodersAgree ==
  damage = "sealed" => \A id \in DOMAIN file : \A image \in PageOf(file[id], id) :
    image.type = "leaf" =>
      \E decoded \in {DecodeNode(image)} :
        /\ BorrowedLeaf(image) = {n.cells : n \in decoded}
        /\ \A k \in Keys : \E found \in {FindInPage(image, KeyBytes[k])} :
             IF decoded = {} THEN {} \notin found
             ELSE found = {{c[2] : c \in {d \in ToSet(n.cells) : d[1] = KeyBytes[k]}} : n \in decoded}

(* Damage nobody sealed is never read as data: on either path a look-up    *)
(* answers the truth or fails, a scan emits a prefix of the truth and ends *)
(* without an error only if that is all of it; and the integrity check     *)
(* reports it, or fails.                                                   *)
DamageDetected ==
  damage = "raw" =>
    /\ \A view \in {LiveView, SnapView} :
         /\ \A k \in Keys : Get(view, KeyBytes[k]) \subseteq {Answer(k)}
         /\ \A s \in Starts : \E scan \in {Scan(view, StartBytes(s))}, cells \in {Cells(s)} :
              /\ IsPrefix(scan.cells, cells)
              /\ scan.ok => scan.cells = cells
    /\ \E w \in {IntegrityCheck(LiveView)} : w.aborted \/ w.failed # {}
====
