----------------------------- MODULE RecordLife -----------------------------
(***************************************************************************)
(* The life of one record, from the program that writes it to the newer    *)
(* one that reads it: encoded under its version and schema (encode and     *)
(* StoredSchema in codec/), read back by decode_with, walked, migrated,    *)
(* and indexed again under the new type's specifications.                  *)
(*                                                                         *)
(* A case is a record [wrote, value, schema, bytes, to, backfill,          *)
(* onFields, onStruct, collection, version, registered, peers]: what was   *)
(* written as which type, the schema stored for its version, the type the  *)
(* reader wants, with its attributes, and other values of that type.       *)
(***************************************************************************)
EXTENDS Declarations, StoredSchemas

CONSTANTS Collection, Current, MaxInlineDoc

VARIABLES
    stage,      \* "new", "stored", "walking", "read", "indexed" or "refused"
    row,        \* the record as stored
    schemas,    \* the stored schema of the record's version, or Nothing
    doc,        \* the typed value read
    keys        \* per specification, what the extraction returned

life == <<input, rest, next, stack, nodes, folding, outcome, stage, row, schemas, doc, keys>>

LifeInit ==
    /\ Init
    /\ stage = "new" /\ row = Nothing /\ schemas = Nothing /\ doc = Nothing /\ keys = <<>>

Refuse(e) == stage' = "refused" /\ outcome' = e
             /\ UNCHANGED <<input, rest, next, stack, nodes, folding, row, schemas, doc, keys>>

(* A typed insert stores the schema with the record; raw bytes may come    *)
(* without one.                                                            *)
Write ==
    /\ stage = "new"
    /\ LET stored == FromLive(input.schema)
       IN  \/ input.registered /\ ~stored.ok /\ Refuse(stored.err)
           \/ Len(input.bytes) > MaxInlineDoc /\ Refuse("DocumentTooLarge")
           \/ /\ input.registered => stored.ok
              /\ Len(input.bytes) <= MaxInlineDoc
              /\ row' = [collection |-> input.collection, version |-> input.version,
                         length |-> Len(input.bytes), checksum |-> input.bytes,
                         payload |-> input.bytes]
              /\ schemas' = IF input.registered THEN stored.val ELSE Nothing
              /\ stage' = "stored" /\ UNCHANGED <<walk, doc, keys>>

(* decode_with: a record of the current version is postcard's to decode;   *)
(* an older one is walked under the schema of its version.                 *)
DecodeWith ==
    /\ stage = "stored"
    /\ LET admitted == Admission(row, Collection, Current)
           schema == Respecialize(schemas)
       IN  \/ admitted \notin {"current", "older"} /\ Refuse(admitted)
           \/ /\ admitted = "current"
              /\ doc' = input.value /\ stage' = "read" /\ UNCHANGED <<walk, row, schemas, keys>>
           \/ admitted = "older" /\ schemas = Nothing /\ Refuse("SchemaNotRegistered")
           \/ admitted = "older" /\ schemas # Nothing /\ ~schema.ok /\ Refuse(schema.err)
           \/ /\ admitted = "older" /\ schemas # Nothing /\ schema.ok
              /\ next' = schema.val /\ rest' = row.payload /\ stage' = "walking"
              /\ UNCHANGED <<input, stack, nodes, folding, outcome, row, schemas, doc, keys>>

Walk == stage = "walking" /\ Next /\ UNCHANGED <<stage, row, schemas, doc, keys>>

(* The type's migration, or the walk's error. *)
MigrateDoc ==
    /\ stage = "walking" /\ outcome # "walking"
    /\ LET r == AutoMigrate(input.to, folding, input.backfill)
       IN  \/ outcome # "done" /\ Refuse(outcome)
           \/ outcome = "done" /\ ~r.ok /\ Refuse(r.err)
           \/ /\ outcome = "done" /\ r.ok
              /\ doc' = r.val /\ stage' = "read" /\ UNCHANGED <<walk, row, schemas, keys>>

(* extract_index_keys, once per specification the type derives. *)
Indexes == DerivedIndexes(input.to, input.onFields, input.onStruct)
ExtractKeys ==
    /\ stage = "read"
    /\ Indexes.ok
    /\ keys' = [i \in DOMAIN Indexes.val |-> Extract(Indexes.val[i], input.to, doc)]
    /\ stage' = "indexed" /\ UNCHANGED <<walk, row, schemas, doc>>

LifeNext == Write \/ DecodeWith \/ Walk \/ MigrateDoc \/ ExtractKeys
LifeSpec == LifeInit /\ [][LifeNext]_life /\ WF_life(Walk)

----------------------------------------------------------------------------
(* What a schema means, by recursion: the value, the rest and the nodes    *)
(* so far, or an error.                                                    *)
RECURSIVE Meaning(_, _, _, _), Meanings(_, _, _, _)
Meaning(S, b, depth, n) ==
    LET len == TakeVarint(b)
        many(list, r) == Meanings(list, r, depth + 1, n + 1)
        elems == many([i \in 1..len.val |-> S.elem], len.rest)
        vals == many([i \in DOMAIN S.fields |-> S.fields[i][2]], b)
        known == {v \in Range(S.variants) : v.disc = len.val}
        variant == CHOOSE v \in known : TRUE
        payload == many(<<variant.payload>>, len.rest)
    IN  IF depth >= MaxDepth THEN Failed("SchemaDepthExceeded")
        ELSE IF n >= MaxNodes THEN Failed(Mismatch)
        ELSE IF S.kind \in Scalars
             THEN LET r == Scalar(S.kind, b) IN Counted(r, n + 1)
        ELSE IF S.kind # "Map" /\ ~len.ok THEN len
        ELSE IF S.kind = "Seq" /\ len.val >= MaxNodes THEN Failed(Mismatch)
        ELSE IF S.kind = "Enum" /\ (len.val >= DiscRange \/ known = {}) THEN Failed(Mismatch)
        ELSE CASE S.kind = "Seq" ->
                     IF elems.ok THEN Counted(Got(Items(elems.val), elems.rest), elems.nodes)
                     ELSE elems
               [] S.kind = "Map" ->
                     IF vals.ok
                     THEN Counted(Got(Fields([m \in {f[1] : f \in Range(S.fields)} |->
                              vals.val[CHOOSE i \in DOMAIN S.fields : S.fields[i][1] = m]]),
                              vals.rest), vals.nodes)
                     ELSE vals
               [] S.kind = "Enum" ->
                     IF payload.ok
                     THEN Counted(Got(Chosen(variant.name, payload.val[1]), payload.rest),
                                  payload.nodes)
                     ELSE payload
Meanings(list, b, depth, n) ==
    IF list = <<>> THEN Counted(Got(<<>>, b), n)
    ELSE LET first == Meaning(Head(list), b, depth, n)
             others == Meanings(Tail(list), first.rest, depth, first.nodes)
         IN  IF ~first.ok THEN first
             ELSE IF ~others.ok THEN others
             ELSE Counted(Got(<<first.val>> \o others.val, others.rest), others.nodes)

Ended == stage = "walking" /\ outcome # "walking"

(* The stack machine computes what the schema means by recursion, its      *)
(* errors and the order they are met in included.                          *)
WalkDecodes ==
    Ended => LET r == Meaning(Respecialize(schemas).val, row.payload, 0, 0)
             IN  IF ~r.ok THEN outcome = r.err
                 ELSE IF r.rest # <<>> THEN outcome = Mismatch
                 ELSE outcome = "done" /\ folding = r.val /\ nodes = r.nodes

(* schema.rs:58-64: every value the walker produces is one the tagged      *)
(* decoder accepts, and reads back as itself.                              *)
TaggedAccepts ==
    Ended /\ outcome = "done" =>
        LET b == ToTagged(folding, 0)
        IN  b.ok /\ FromTagged(b.val).ok /\ FromTagged(b.val).val = folding

(* A stored schema gives back the schema it was made from: the hints are   *)
(* collected and spent in one order.  The guard over its bytes refuses     *)
(* what from_live would have refused, and no row that is merely cut short. *)
StoredSchemasRestore ==
    /\ schemas # Nothing => /\ Respecialize(schemas).ok
                            /\ Respecialize(schemas).val = input.schema
    /\ stage = "new" =>
           LET bytes == RowBytes([schema |-> Normalized(input.schema), signed |-> <<>>])
           IN  /\ (Guard(bytes) = "ok") = FromLive(input.schema).ok
               /\ FromLive(input.schema).ok =>
                      \A n \in DOMAIN bytes : Guard(SubSeq(bytes, 1, n)) = "ok"

(* A record written as a type, under that type's own schema, is read back  *)
(* as what was written: each field the new type still has keeps its value, *)
(* each new one its backfill.                                              *)
Narrow(T) == T.kind \in {"u8", "i8", "f32"}
RECURSIVE HasNarrow(_)
HasNarrow(T) ==
    \/ Narrow(T)
    \/ T.kind \in {"Vec", "Option"} /\ HasNarrow(T.elem)
    \/ T.kind = "struct" /\ \E f \in Range(T.fields) : HasNarrow(f[2])
    \/ T.kind = "enum" /\ \E v \in Range(T.variants) : \E f \in Range(Named(v)) :
           HasNarrow(IF v.shape = "newtype" THEN f ELSE f[2])
Own == input.wrote.kind = "struct" /\ input.schema = SchemaOf(input.wrote)
Kept(T) == {f[1] : f \in Range(input.wrote.fields) \cap Range(T.fields)}
OldRecordsReadBack ==
    stage = "read" /\ Own =>
        /\ \A n \in Kept(input.to) : doc.map[n] = input.value.map[n]
        /\ \A n \in DOMAIN doc.map \ DOMAIN input.value.map : doc.map[n] = input.backfill[n]

(* For a type none of whose scalars is written narrower than its schema    *)
(* says this holds, and such a record is refused only at a limit.          *)
AtLimit == outcome \in {"SchemaDepthExceeded", "DocumentTooLarge", "SchemaNotRegistered",
                        "CollectionIdMismatch", "SchemaVersionFromFuture"}
           \/ (outcome = Mismatch /\ nodes = MaxNodes)
WideRecordsReadBack ==
    ~HasNarrow(input.wrote) =>
        /\ OldRecordsReadBack
        /\ stage = "refused" /\ Own /\ Kept(input.to) = DOMAIN input.value.map => AtLimit

(* Keys sort as the values they were made from: of two documents the one   *)
(* whose indexed fields come first has the entry that comes first, so a    *)
(* range of keys is a range of values (index/key.rs:1-8).                  *)
Number(f) == LET b == Bits(f) IN IF b < FloatRange \div 2 THEN b ELSE FloatRange \div 2 - 1 - b
Sooner(x, y) ==
    IF x.kind # y.kind THEN TagOf(x.kind) < TagOf(y.kind)
    ELSE CASE x.kind = "Bool" -> ~x.b /\ y.b
           [] x.kind \in {"U64", "I64"} -> x.n < y.n
           [] x.kind = "F64" -> Number(x.f) < Number(y.f)
           [] x.kind = "String" -> Below(x.s, y.s)
           [] OTHER -> FALSE
FieldsSooner(xs, ys) == \E i \in DOMAIN xs : /\ Sooner(xs[i], ys[i])
                                             /\ \A j \in 1..i - 1 : xs[j] = ys[j]
KeysSortAsValues ==
    stage = "indexed" => \A i \in DOMAIN keys : \A peer \in input.peers :
        LET spec == Indexes.val[i]
            other == Extract(spec, input.to, peer)
        IN  spec.kind # "Each" /\ keys[i].ok /\ other.ok =>
                (Below(keys[i].val[1], other.val[1])
                    <=> FieldsSooner(Projected(spec, input.to, doc).val,
                                     Projected(spec, input.to, peer).val))

(* Whatever bytes and schema meet, the walk ends: every round charges a    *)
(* node or shortens a frame.                                               *)
WalkEnds == stage = "walking" ~> Ended
=============================================================================
