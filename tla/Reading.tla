------------------------------- MODULE Reading -------------------------------
(***************************************************************************)
(* What is read from the collection of module Documents: typed and raw     *)
(* point reads, index lookups, ranges (collected, and iterated in          *)
(* batches), counts, queries with filters, order and limit, the type-      *)
(* erased dump, and the integrity check of the indexes.                    *)
(*                                                                         *)
(* A read is an operator of the database b it runs on, the reader's        *)
(* snapshot or the writing transaction's own state, and of the version v   *)
(* of the type it decodes to.  An index key is a number; a stored key of a *)
(* Unique index is <<k, 0>>, one of another index carries its id as a      *)
(* suffix, <<k, id>>.  MaxId is the suffix of eight 0xFF bytes.            *)
(***************************************************************************)
EXTENDS Documents

CONSTANTS
  Batch,        \* ITER_INDEX_RANGE_BATCH, ITER_ALL_BATCH, DUMP_BATCH
  MaxDistinct,  \* MAX_DISTINCT_IDS
  Rank,         \* the sort key of each document, for the queries checked
  Error         \* what a read that fails returns

ASSUME KeysAssumption ==
  KeyVals \subseteq Nat \ {0} /\ \A n \in Names, d \in Docs : IsFiniteSet(Keys[n][d])
ASSUME ReadingAssumption ==
  Batch \in Nat \ {0} /\ MaxDistinct \in Nat /\ Rank \in [Docs -> Nat]
(* An error is no document, no count and no list of documents.             *)
ASSUME ErrorAssumption == Error \notin Docs \union Nat \union Seq(Docs)

-----------------------------------------------------------------------------
(* Bounds and the order of stored keys.                                    *)

Least(m, n) == IF m < n THEN m ELSE n

Position(n, e) == IF n \in Unique THEN <<e[1], 0>> ELSE e

Precedes(p, q) == p[1] < q[1] \/ (p[1] = q[1] /\ p[2] < q[2])

Unbounded == [kind |-> "unbounded", at |-> <<0, 0>>]
Included(p) == [kind |-> "included", at |-> p]
Excluded(p) == [kind |-> "excluded", at |-> p]

(* What encode_dynamic_bound can give.                                     *)
Bounds == {Unbounded} \union {Included(<<k, 0>>) : k \in KeyVals}
                      \union {Excluded(<<k, 0>>) : k \in KeyVals}

After(p, lower) ==
  CASE lower.kind = "unbounded" -> TRUE
    [] lower.kind = "included"  -> ~Precedes(p, lower.at)
    [] lower.kind = "excluded"  -> Precedes(lower.at, p)

Until(p, upper) ==
  CASE upper.kind = "unbounded" -> TRUE
    [] upper.kind = "included"  -> ~Precedes(upper.at, p)
    [] upper.kind = "excluded"  -> Precedes(p, upper.at)

(* widen_bounds_for_kind: a bound that has all entries of its key on the   *)
(* wrong side gets the largest suffix.                                     *)
WidenLower(n, bound) ==
  IF bound.kind = "excluded" /\ n \notin Unique
  THEN Excluded(<<bound.at[1], MaxId>>) ELSE bound

(* Mutant: the widening forgotten.                                         *)
WidenUpperNever(n, bound) == bound

WidenUpper(n, bound) ==
  IF bound.kind = "included" /\ n \notin Unique
  THEN Included(<<bound.at[1], MaxId>>) ELSE bound

(* The elements of a set of stored keys in order.                          *)
InOrder(S) ==
  [i \in 1 .. Cardinality(S) |->
     CHOOSE p \in S : Cardinality({q \in S : Precedes(q, p)}) = i - 1]

(* BTree::range over the tree of index n (module BTree): its entries.      *)
Walk(b, n, lower, upper) ==
  InOrder({e \in b.entries[n] : After(Position(n, e), lower) /\ Until(Position(n, e), upper)})

(* collect_range, of bounds as the caller gives them.  The reads below     *)
(* work on the entries es that it returns.                                 *)
Collect(b, n, lower, upper) == Walk(b, n, WidenLower(n, lower), WidenUpper(n, upper))

-----------------------------------------------------------------------------
(* Point reads.                                                            *)

(* Collection::get: the document, NoDoc, or a decoding error.              *)
Get(b, v, id) ==
  IF b.docs[id] = NoDoc THEN NoDoc
  ELSE IF CanDecode(b, v, b.docs[id]) THEN Decoded(v, b.docs[id]) ELSE Error

(* get_with_version: payload and version, undecoded.                       *)
GetRaw(b, id) == b.docs[id]

(* An index entry without its record is Corruption.                        *)
Resolved(b, v, id) == IF b.docs[id] = NoDoc THEN Error ELSE Get(b, v, id)

Holders(b, n, k) == {e[2] : e \in {x \in b.entries[n] : x[1] = k}}

(* active_index, index_descriptor: the index is there and not dropped.     *)
Usable(b, n) == n \in Active(b.row)

(* find_unique: the id found is read with get.                             *)
FindUnique(b, v, n, k) ==
  IF ~Usable(b, n) \/ n \notin Unique THEN Error
  ELSE IF Holders(b, n, k) = {} THEN NoDoc
  ELSE Get(b, v, CHOOSE id \in Holders(b, n, k) : TRUE)

FindUniqueRaw(b, n, k) ==
  IF ~Usable(b, n) \/ n \notin Unique THEN Error
  ELSE IF Holders(b, n, k) = {} THEN NoDoc
  ELSE LET id == CHOOSE i \in Holders(b, n, k) : TRUE
       IN IF GetRaw(b, id) = NoDoc THEN Error ELSE GetRaw(b, id)

-----------------------------------------------------------------------------
(* Ranges.                                                                 *)

(* The entries whose id has not been emitted yet: only an Each index has   *)
(* more than one entry of a document, and only for it a set is kept.       *)
Fresh(n, es, emitted) ==
  LET keep == {i \in DOMAIN es : /\ es[i][2] \notin emitted
                                 /\ \A j \in 1 .. i - 1 : es[j][2] # es[i][2]}
      Nth(i) == CHOOSE j \in keep : Cardinality({k \in keep : k < j}) = i - 1
  IN IF n \in Each THEN [i \in 1 .. Cardinality(keep) |-> es[Nth(i)]] ELSE es

Rows(b, v, es) == [i \in DOMAIN es |-> [key |-> es[i][1], doc |-> Resolved(b, v, es[i][2])]]

(* Collection::index_range: every step may carry an error of its own.      *)
IndexRange(b, v, n, es) == Rows(b, v, Fresh(n, es, {}))

(* materialize_id_version_payload_rows: one error fails the whole call.    *)
RawRows(b, ids) ==
  IF \E i \in DOMAIN ids : GetRaw(b, ids[i]) = NoDoc THEN Error
  ELSE [i \in DOMAIN ids |-> GetRaw(b, ids[i])]

(* index_range_raw, and count_index_range_raw, which counts entries.       *)
IndexRangeRaw(b, n, es) ==
  LET fresh == Fresh(n, es, {})
  IN IF ~Usable(b, n) THEN Error ELSE RawRows(b, [i \in DOMAIN fresh |-> fresh[i][2]])

CountIndexRangeRaw(b, n, es) == IF ~Usable(b, n) THEN Error ELSE Len(es)

(* IterIndexRange: batches, each resumed behind the last stored key of the *)
(* one before; a short batch is the last one.                              *)
Resuming(start) == [from |-> start, emitted |-> {}, rows |-> <<>>, finished |-> FALSE]

Refilled(b, v, n, end, it) ==
  LET all   == Walk(b, n, it.from, end)
      taken == Least(Batch, Len(all))
      batch == SubSeq(all, 1, taken)
  IN [from     |-> IF taken = 0 THEN it.from ELSE Excluded(Position(n, batch[taken])),
      emitted  |-> it.emitted \union {batch[i][2] : i \in DOMAIN batch},
      rows     |-> it.rows \o Rows(b, v, Fresh(n, batch, it.emitted)),
      finished |-> taken < Batch]

(* next, until it gives no more: one refill more than there are entries is *)
(* enough.                                                                 *)
Refills(b, v, n, start, end) ==
  LET it[m \in 0 .. Cardinality(b.entries[n]) + 1] ==
        IF m = 0 THEN Resuming(start)
        ELSE IF it[m - 1].finished THEN it[m - 1]
        ELSE Refilled(b, v, n, end, it[m - 1])
  IN it[Cardinality(b.entries[n]) + 1].rows

IterRange(b, v, n, lower, upper) ==
  Refills(b, v, n, WidenLower(n, lower), WidenUpper(n, upper))

(* lookup: the ids under one key, each once, all of which must resolve.    *)
Lookup(b, v, n, k) ==
  LET es == IF n \in Unique THEN InOrder({e \in b.entries[n] : e[1] = k})
            ELSE Walk(b, n, Included(<<k, 0>>), Included(<<k, MaxId>>))
      found == [i \in DOMAIN es |-> Resolved(b, v, es[i][2])]
  IN IF \E i \in DOMAIN found : found[i] = Error THEN Error ELSE found

CountIndexRange(es) == Len(es)

CountDistinct(es) ==
  LET ids == {es[i][2] : i \in DOMAIN es}
  IN IF Cardinality(ids) > MaxDistinct THEN Error ELSE Cardinality(ids)

-----------------------------------------------------------------------------
(* Scans of the primary tree, in the order of ids.                         *)

Present(b) == {id \in Ids : b.docs[id] # NoDoc}

NthId(S, i) == CHOOSE id \in S : Cardinality({j \in S : j < id}) = i - 1
IdsInOrder(S) == [i \in 1 .. Cardinality(S) |-> NthId(S, i)]

CountAll(b) == Cardinality(Present(b))

(* Collection::all: one undecodable record fails it.                       *)
All(b, v) ==
  LET ids == IdsInOrder(Present(b))
  IN IF \E i \in DOMAIN ids : Get(b, v, ids[i]) = Error THEN Error
     ELSE [i \in DOMAIN ids |-> Get(b, v, ids[i])]

AllRaw(b) == [i \in 1 .. CountAll(b) |-> b.docs[NthId(Present(b), i)]]

(* Db::iter_all and dump_raw walk in batches, resumed behind the last id.  *)
Dump(b, it) ==
  LET rest  == {id \in Present(b) : id > it.last}
      taken == Least(Batch, Cardinality(rest))
      batch == SubSeq(IdsInOrder(rest), 1, taken)
  IN [last     |-> IF taken = 0 THEN it.last ELSE batch[taken],
      rows     |-> it.rows \o [i \in DOMAIN batch |-> b.docs[batch[i]]],
      finished |-> taken < Batch]

Dumped(b) ==
  LET it[m \in 0 .. MaxId + 1] ==
        IF m = 0 THEN [last |-> 0, rows |-> <<>>, finished |-> FALSE]
        ELSE IF it[m - 1].finished THEN it[m - 1]
        ELSE Dump(b, it[m - 1])
  IN it[MaxId + 1].rows

DumpRaw(b, limit) ==
  LET rows == Dumped(b)
  IN IF limit = 0 THEN rows ELSE SubSeq(rows, 1, Least(limit, Len(rows)))

IterAll(b, v) ==
  LET rows == Dumped(b)
  IN [i \in DOMAIN rows |-> IF CanDecode(b, v, rows[i]) THEN Decoded(v, rows[i]) ELSE Error]

-----------------------------------------------------------------------------
(* Queries: a source, which is everything or a range of an index, a set of *)
(* documents that pass the filters, perhaps a limit and a sort key.        *)

(* for_each_candidate: what the query looks at, in order.  The operators   *)
(* below work on these candidates cs.                                      *)
Candidates(b, v, q) ==
  IF q.index = NoRow THEN All(b, v)
  ELSE LET rows == IndexRange(b, v, q.index, Collect(b, q.index, q.lower, q.upper))
       IN [i \in DOMAIN rows |-> rows[i].doc]

Passing(cs, pass) ==
  LET at == IdsInOrder({i \in DOMAIN cs : cs[i] = Error \/ cs[i] \in pass})
  IN [i \in DOMAIN at |-> cs[at[i]]]

(* fetch_unsorted: the first limit documents that pass, unless an error    *)
(* comes before them.                                                      *)
FetchUnsorted(cs, pass, limit) ==
  IF limit = 0 THEN <<>>
  ELSE IF cs = Error THEN Error
  ELSE LET ds == Passing(cs, pass)
           taken == SubSeq(ds, 1, Least(limit, Len(ds)))
       IN IF \E i \in DOMAIN taken : taken[i] = Error THEN Error ELSE taken

(* fetch_sorted: everything that passes is buffered, SortBufferExceeded at *)
(* one more than cap, stably sorted by Rank, then cut.                     *)
FetchSorted(cs, pass, limit, cap) ==
  IF cs = Error THEN Error
  ELSE LET ds == Passing(cs, pass)
           Earlier(i, j) == \/ Rank[ds[i]] < Rank[ds[j]]
                            \/ Rank[ds[i]] = Rank[ds[j]] /\ i < j
           At(k) == CHOOSE i \in DOMAIN ds :
                      Cardinality({j \in DOMAIN ds : Earlier(j, i)}) = k - 1
       IN IF (\E i \in DOMAIN ds : ds[i] = Error) \/ Len(ds) > cap THEN Error
          ELSE [k \in 1 .. Least(limit, Len(ds)) |-> ds[At(k)]]

(* Mutant: entries counted for every kind.                                 *)
CountFastEntries(b, q) ==
  IF q.index = NoRow THEN CountAll(b)
  ELSE CountIndexRange(Collect(b, q.index, q.lower, q.upper))

(* count: without filters no record is decoded, and an Each index counts   *)
(* ids instead of entries.                                                 *)
CountFast(b, q) ==
  IF q.index = NoRow THEN CountAll(b)
  ELSE LET es == Collect(b, q.index, q.lower, q.upper)
       IN IF q.index \in Each THEN CountDistinct(es) ELSE CountIndexRange(es)

CountSlow(cs, pass) ==
  IF cs = Error \/ \E i \in DOMAIN cs : cs[i] = Error THEN Error ELSE Len(Passing(cs, pass))

Count(b, q, cs, pass, limit) ==
  LET total == IF pass = Docs THEN CountFast(b, q) ELSE CountSlow(cs, pass)
  IN IF total = Error THEN Error ELSE Least(total, limit)

-----------------------------------------------------------------------------
(* Db::integrity_check, of one collection.                                 *)

Scanned(b, n) == {e[2] : e \in b.entries[n]}

(* cross_reference_index, then check_primary_to_index.                     *)
OrphanIndexEntries(b) ==
  {f \in Active(b.row) \X Ids : f[2] \in Scanned(b, f[1]) \ Present(b)}

MissingIndexEntries(b) ==
  {f \in (Active(b.row) \ Each) \X Ids : f[2] \in Present(b) \ Scanned(b, f[1])}

-----------------------------------------------------------------------------
(* Properties.                                                             *)

(* What is read: a snapshot between transactions, or the transaction's own *)
(* state by the handle in use.  As long as that has written nothing it     *)
(* reads what the snapshot gave.  The raw reads and the batched scans of   *)
(* all records exist only for snapshots.                                   *)
View == IF phase = "idle" THEN saved ELSE db
CanRead ==
  /\ View.row # NoRow /\ ~View.neglected
  /\ phase = "idle" \/ (phase = "open" /\ handle # NoVersion /\ ~behind /\ db # saved)

(* The indexes that have every document: declared on the empty collection, *)
(* and by no older version than one used before if migration moves keys.   *)
Complete == {n \in Active(View.row) \intersect View.full : n \in Steady \/ ~wentBack}

(* The types that can read all there is.                                   *)
Readers ==
  {v \in IF phase = "idle" THEN Versions ELSE {handle} :
     \A id \in Present(View) : CanDecode(View, v, View.docs[id])}

(* What a bound means, whatever the stored keys look like.                 *)
Within(k, lower, upper) ==
  /\ lower.kind = "included" => k >= lower.at[1]
  /\ lower.kind = "excluded" => k > lower.at[1]
  /\ upper.kind = "included" => k <= upper.at[1]
  /\ upper.kind = "excluded" => k < upper.at[1]

Matching(n, lower, upper) ==
  {id \in Present(View) : \E k \in Keys[n][View.docs[id].doc] : Within(k, lower, upper)}

RangeFindsAll(vs, n, lower, upper) ==
  LET es == Collect(View, n, lower, upper)
      fresh == Fresh(n, es, {})
      ids == {fresh[i][2] : i \in DOMAIN fresh}
  IN /\ ids = Matching(n, lower, upper) /\ Len(fresh) = Cardinality(ids)
     /\ \A i, j \in DOMAIN fresh : i < j => fresh[i][1] <= fresh[j][1]
     /\ phase = "idle" =>
          /\ IndexRangeRaw(View, n, es) = [i \in DOMAIN fresh |-> View.docs[fresh[i][2]]]
          /\ CountIndexRangeRaw(View, n, es) = CountIndexRange(es)
     /\ CountDistinct(es) = IF Len(fresh) > MaxDistinct THEN Error ELSE Len(fresh)
     /\ \A v \in vs :
          /\ \A i \in DOMAIN fresh : Get(View, v, fresh[i][2]) \in Docs
          /\ IterRange(View, v, n, lower, upper) = IndexRange(View, v, n, es)

LookupFindsAll(n, k, v) ==
  LET range == IndexRange(View, v, n, Collect(View, n, Included(<<k, 0>>), Included(<<k, 0>>)))
  IN /\ Lookup(View, v, n, k) = [i \in DOMAIN range |-> range[i].doc]
     /\ n \in Unique =>
          /\ FindUnique(View, v, n, k) = IF range = <<>> THEN NoDoc ELSE range[1].doc
          /\ phase = "idle" => (FindUniqueRaw(View, n, k) = NoDoc <=> range = <<>>)

ScansFindAll(vs) ==
  /\ \A v \in vs : Len(All(View, v)) = CountAll(View)
  /\ phase = "idle" =>
       /\ DumpRaw(View, 0) = AllRaw(View)
       /\ DumpRaw(View, 1) = SubSeq(AllRaw(View), 1, Least(1, CountAll(View)))
       /\ \A v \in vs : IterAll(View, v) = All(View, v)

(* A range of an index has each document with a key in it once, in key     *)
(* order and without an error, whatever wrote the documents; the batched   *)
(* iterator gives the same, also when a batch ends between two entries of  *)
(* one document; the raw range, the counts, lookup and find_unique agree,  *)
(* and the batched scans give every record once in the order of ids.       *)
ReadsFindAll ==
  CanRead => \E vs \in {Readers} :
    /\ \A n \in Complete, lower, upper \in Bounds : RangeFindsAll(vs, n, lower, upper)
    /\ \A n \in Complete, k \in KeyVals, v \in vs : LookupFindsAll(n, k, v)
    /\ ScansFindAll(vs)

-----------------------------------------------------------------------------
(* Queries over every source, a few filters and limits.  A query runs in a *)
(* read transaction of its own.                                            *)

Sources ==
  {[index |-> NoRow, lower |-> Unbounded, upper |-> Unbounded]} \union
  [index : Complete, lower : Bounds, upper : {Unbounded}]

Filters == {Docs} \union {Docs \ {d} : d \in Docs}

Copies(ds, d) == Cardinality({i \in DOMAIN ds : ds[i] = d})

(* A query's count is the length of what it fetches, although without a    *)
(* filter it is counted from the index entries alone and with one from the *)
(* documents; sorting loses, doubles and reorders nothing, the sorted      *)
(* result is cut after sorting, and an error comes only from a full buffer.*)
QueriesAgree ==
  phase = "idle" /\ CanRead =>
    \A v \in Readers, q \in Sources :
      LET cs == Candidates(View, v, q)
      IN \A pass \in Filters :
           LET all == FetchUnsorted(cs, pass, MaxId)
           IN \A limit \in 0 .. MaxId :
                LET count  == Count(View, q, cs, pass, limit)
                    sorted == FetchSorted(cs, pass, limit, MaxId)
                IN /\ count \in {Error, Len(FetchUnsorted(cs, pass, limit))}
                   /\ count = Error => q.index \in Each /\ Len(all) > MaxDistinct
                   /\ Len(sorted) = Least(limit, Len(all))
                   /\ \A i, j \in DOMAIN sorted : i < j => Rank[sorted[i]] <= Rank[sorted[j]]
                   /\ \A d \in Docs :
                        /\ Copies(sorted, d) <= Copies(all, d)
                        /\ \A i \in DOMAIN sorted :
                             Rank[d] < Rank[sorted[i]] => Copies(sorted, d) = Copies(all, d)
                   /\ FetchSorted(cs, pass, limit, 1) = Error <=> Len(all) > 1

(* "clean db must pass": whatever was written, updated, deleted, rolled    *)
(* back or cut off by a crash, the check of the committed state reports no *)
(* index entry without its document, and none missing from an index that   *)
(* was there before the documents.                                         *)
CheckPasses ==
  phase = "idle" /\ CanRead =>
    /\ \A f \in OrphanIndexEntries(saved) : f[1] \notin Steady /\ wentBack
    /\ \A f \in MissingIndexEntries(saved) : f[1] \notin Complete
=============================================================================
