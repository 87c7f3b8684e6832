------------------------------ MODULE Dynamics ------------------------------
(***************************************************************************)
(* What is done with a walked Dynamic: the typed value that serde rebuilds *)
(* from it (codec/dynamic_de.rs), the migration obj-derive writes with it, *)
(* its tagged bytes (codec/dynamic.rs), and the checks a record passes     *)
(* before any of this (validate_record in codec/mod.rs).                   *)
(***************************************************************************)
EXTENDS Records

Wrong == Failed("Corruption")
Value(v) == Got(v, <<>>)

----------------------------------------------------------------------------
(* dynamic_de.rs: what a type accepts.  depth counts the descents.         *)

AsU64(d) == CASE d.kind = "U64" -> Value(d.n)
              [] d.kind = "I64" -> IF d.n >= 0 THEN Value(d.n) ELSE Wrong
              [] OTHER -> Wrong
AsI64(d) == CASE d.kind = "I64" -> Value(d.n)
              [] d.kind = "U64" -> IF d.n < IntRange \div 2 THEN Value(d.n) ELSE Wrong
              [] OTHER -> Wrong

Integer(r, low, high, Make(_)) == IF r.ok /\ r.val \in low..high THEN Value(Make(r.val)) ELSE Wrong

(* deserialize_seq also takes bytes, element by element. *)
Elements(d) == CASE d.kind = "Seq" -> Value(d.items)
                 [] d.kind = "Bytes" -> Value([i \in DOMAIN d.raw |-> U64(d.raw[i])])
                 [] OTHER -> Wrong

(* A tuple variant's map is read in the numeric order of its keys; a       *)
(* sequence is one descent deeper.                                         *)
TupleItems(d, n) == CASE d.kind = "Map" -> IF DOMAIN d.map = {Digits[i] : i \in 1..n}
                                           THEN Value([i \in 1..n |-> d.map[Digits[i]]]) ELSE Wrong
                      [] OTHER -> Elements(d)

RECURSIVE FromDynamic(_, _, _), ListFrom(_, _, _), RecordFrom(_, _, _),
          OptionFrom(_, _, _), EnumFrom(_, _, _), VariantFrom(_, _, _)

(* SeqDe and BytesSeqDe: as many items as the visitor asks for. *)
ListFrom(types, vals, depth) ==
    LET rs == [i \in DOMAIN vals |-> FromDynamic(types[i], vals[i], depth)]
    IN  IF Len(types) = Len(vals) /\ depth <= MaxDepth /\ \A i \in DOMAIN rs : rs[i].ok
        THEN Value([i \in DOMAIN rs |-> rs[i].val]) ELSE Wrong

(* MapDe: a missing field is an error, but None for an Option. *)
RecordFrom(fields, d, depth) ==
    LET From(f) == IF f[1] \in DOMAIN d.map THEN FromDynamic(f[2], d.map[f[1]], depth + 1)
                   ELSE IF f[2].kind = "Option" THEN Value(None) ELSE Wrong
        rs == [i \in DOMAIN fields |-> From(fields[i])]
        Pos(n) == CHOOSE i \in DOMAIN fields : fields[i][1] = n
    IN  IF d.kind = "Map" /\ depth < MaxDepth /\ \A i \in DOMAIN rs : rs[i].ok
        THEN Value(Fields([n \in {f[1] : f \in Range(fields)} |-> rs[Pos(n)].val]))
        ELSE Wrong

OptionFrom(elem, d, depth) ==
    LET inner == IF d.kind = "Enum" THEN FromDynamic(elem, d.payload, depth + 1)
                 ELSE FromDynamic(elem, d, depth)
    IN  IF d.kind = "Null" \/ d = None THEN Value(None)
        ELSE IF d.kind = "Enum" /\ (d.variant # "Some" \/ depth >= MaxDepth) THEN Wrong
        ELSE IF inner.ok THEN Value(Some(inner.val)) ELSE Wrong

(* EnumDe, then VariantDe by the variant's shape; a tuple of a sequence is *)
(* one descent deeper than a tuple of a map.                               *)
EnumFrom(T, d, depth) ==
    LET known == {v \in Range(T.variants) : v.name = d.variant}
        r == VariantFrom(CHOOSE v \in known : TRUE, d.payload, depth + 1)
    IN  IF d.kind = "Enum" /\ known # {} /\ depth < MaxDepth /\ r.ok
        THEN Value(Chosen(d.variant, r.val)) ELSE Wrong
VariantFrom(variant, payload, depth) ==
    LET arity == Len(variant.fields)
        items == TupleItems(payload, arity)
        list == ListFrom(variant.fields, items.val, IF payload.kind = "Map" THEN depth ELSE depth + 1)
    IN  CASE variant.shape = "unit" -> IF payload.kind = "Null" THEN Value(Null) ELSE Wrong
          [] variant.shape = "newtype" -> FromDynamic(variant.fields[1], payload, depth)
          [] variant.shape = "struct" -> RecordFrom(variant.fields, payload, depth)
          [] OTHER -> IF items.ok /\ list.ok
                      THEN Value(Fields([n \in {Digits[i] : i \in 1..arity} |->
                                  list.val[CHOOSE i \in 1..arity : Digits[i] = n]]))
                      ELSE Wrong

FromDynamic(T, d, depth) ==
    LET items == Elements(d)
        list == ListFrom([i \in DOMAIN items.val |-> T.elem], items.val, depth + 1)
    IN  CASE T.kind = "bool" -> IF d.kind = "Bool" THEN Value(d) ELSE Wrong
          [] T.kind = "u8" -> Integer(AsU64(d), 0, ByteRange - 1, U64)
          [] T.kind \in {"uint", "u128"} -> Integer(AsU64(d), 0, IntRange - 1, U64)
          [] T.kind = "i8" -> Integer(AsI64(d), -Cont, Cont - 1, I64)
          [] T.kind = "int" -> Integer(AsI64(d), -IntRange, IntRange, I64)
          [] T.kind \in {"f32", "float"} -> IF d.kind = "F64" THEN Value(d) ELSE Wrong
          [] T.kind = "String" -> IF d.kind = "String" THEN Value(d) ELSE Wrong
          [] T.kind = "Vec" -> IF items.ok /\ list.ok THEN Value(Items(list.val)) ELSE Wrong
          [] T.kind = "Option" -> OptionFrom(T.elem, d, depth)
          [] T.kind = "struct" -> RecordFrom(T.fields, d, depth)
          [] T.kind = "enum" -> EnumFrom(T, d, depth)

(* The migration of #[obj(auto_migrate)]: a field of the old map is        *)
(* rebuilt in its new type, a field it lacks takes its backfill.  A        *)
(* Dynamic that is no map has no fields.                                   *)
AutoMigrate(T, d, backfill) ==
    LET old == IF d.kind = "Map" THEN d.map ELSE <<>>
        Rebuilt(f) == IF f[1] \in DOMAIN old THEN FromDynamic(f[2], old[f[1]], 0)
                    ELSE Value(backfill[f[1]])
        rs == [i \in DOMAIN T.fields |-> Rebuilt(T.fields[i])]
        Pos(n) == CHOOSE i \in DOMAIN T.fields : T.fields[i][1] = n
    IN  IF \A i \in DOMAIN rs : rs[i].ok
        THEN Value(Fields([n \in {T.fields[i][1] : i \in DOMAIN rs} |-> rs[Pos(n)].val]))
        ELSE Wrong

----------------------------------------------------------------------------
(* The tagged form: a tag, then the value; a nested value one level down.  *)

Kinds == <<"Null", "Bool", "U64", "I64", "F64", "String", "Bytes", "Seq", "Map", "Enum">>
TagOf(kind) == (CHOOSE i \in DOMAIN Kinds : Kinds[i] = kind) - 1
Prefixed(b) == WriteVarint(Len(b)) \o b
NamesIn(map) == SelectSeq([i \in DOMAIN NameBytes |-> NameBytes[i][1]], LAMBDA n : n \in DOMAIN map)
BytesOf(name) == (CHOOSE p \in Range(NameBytes) : p[1] = name)[2]

RECURSIVE ToTagged(_, _)
ToTagged(d, depth) ==
    LET Sub(v) == ToTagged(v, depth + 1)
        Joined(n, parts) == IF \E i \in DOMAIN parts : ~parts[i].ok THEN Wrong
                            ELSE Value(n \o FlattenSeq([i \in DOMAIN parts |-> parts[i].val]))
        Entry(name, v) == IF Sub(v).ok THEN Value(Prefixed(BytesOf(name)) \o Sub(v).val) ELSE Wrong
        names == NamesIn(d.map)
        body == CASE d.kind = "Null" -> Value(<<>>)
                  [] d.kind = "Bool" -> Value(<<IF d.b THEN 1 ELSE 0>>)
                  [] d.kind = "U64" -> Value(WriteVarint(d.n))
                  [] d.kind = "I64" -> Value(WriteVarint(ZigZag(d.n)))
                  [] d.kind = "F64" -> Value(d.f)
                  [] d.kind = "String" -> Value(Prefixed(d.s))
                  [] d.kind = "Bytes" -> Value(Prefixed(d.raw))
                  [] d.kind = "Seq" -> Joined(WriteVarint(Len(d.items)),
                                              [i \in DOMAIN d.items |-> Sub(d.items[i])])
                  [] d.kind = "Map" -> Joined(WriteVarint(Len(names)),
                                              [i \in DOMAIN names |-> Entry(names[i], d.map[names[i]])])
                  [] d.kind = "Enum" -> Entry(d.variant, d.payload)
    IN  IF depth >= MaxDepth \/ ~body.ok THEN Wrong ELSE Value(<<TagOf(d.kind)>> \o body.val)

(* decode_value: the count of nodes goes along in the result. *)
Counted(r, n) == IF r.ok THEN [ok |-> TRUE, val |-> r.val, rest |-> r.rest, nodes |-> n] ELSE r

\* A value from its parts: the elements, the entries, or the one entry of an
\* enum; a key that comes twice is refused.
Assembled(kind, parts) ==
    LET names == {parts[i][1] : i \in DOMAIN parts}
        At(m) == parts[CHOOSE i \in DOMAIN parts : parts[i][1] = m][2]
    IN  CASE kind = "Seq" -> Value(Items([i \in DOMAIN parts |-> parts[i][2]]))
          [] kind = "Map" -> IF Cardinality(names) < Len(parts) THEN Wrong
                             ELSE Value(Fields([m \in names |-> At(m)]))
          [] kind = "Enum" -> Value(Chosen(parts[1][1], parts[1][2]))
Whole(kind, parts) ==
    IF ~parts.ok \/ ~Assembled(kind, parts.val).ok THEN Wrong
    ELSE Counted(Got(Assembled(kind, parts.val).val, parts.rest), parts.nodes)
Leaf(r, n) == IF r.ok THEN Counted(r, n + 1) ELSE Wrong
Prepended(part, others) ==
    IF ~others.ok THEN Wrong ELSE Counted(Got(<<part>> \o others.val, others.rest), others.nodes)

RECURSIVE Untagged(_, _, _), UntaggedAs(_, _, _, _), UntaggedMany(_, _, _, _, _),
          UntaggedAfter(_, _, _, _, _)
Untagged(b, depth, n) ==
    IF depth >= MaxDepth \/ n >= MaxNodes \/ b = <<>> \/ Head(b) >= Len(Kinds) THEN Wrong
    ELSE UntaggedAs(Kinds[Head(b) + 1], Tail(b), depth, n)
UntaggedAs(kind, b, depth, n) ==
    LET len == TakeVarint(b)
    IN  IF kind \in Scalars THEN Leaf(Scalar(kind, b), n)
        ELSE IF kind = "Enum" THEN Whole(kind, UntaggedMany(b, 1, TRUE, depth + 1, n + 1))
        ELSE IF ~len.ok \/ len.val >= MaxNodes THEN Wrong
        ELSE Whole(kind, UntaggedMany(len.rest, len.val, kind = "Map", depth + 1, n + 1))
UntaggedMany(b, k, named, depth, n) ==
    LET name == IF named THEN TakePrefixed(b, "Corruption") ELSE Got(<<>>, b)
        known == {p \in Range(NameBytes) : p[2] = name.val}
    IN  IF k = 0 THEN Counted(Got(<<>>, b), n)
        ELSE IF ~name.ok \/ (named /\ known = {}) THEN Wrong
        ELSE UntaggedAfter(IF named THEN (CHOOSE p \in known : TRUE)[1] ELSE "",
                           Untagged(name.rest, depth, n), k - 1, named, depth)
UntaggedAfter(label, first, k, named, depth) ==
    IF ~first.ok THEN Wrong
    ELSE Prepended(<<label, first.val>>, UntaggedMany(first.rest, k, named, depth, first.nodes))

FromTagged(b) == Untagged(b, 0, 0)

----------------------------------------------------------------------------
(* validate_record, with the checksum of a payload standing for itself.    *)
Admission(record, collection, current) ==
    IF record.collection # collection THEN "CollectionIdMismatch"
    ELSE IF record.length # Len(record.payload) \/ record.checksum # record.payload THEN "Corruption"
    ELSE IF record.version > current THEN "SchemaVersionFromFuture"
    ELSE IF record.version = current THEN "current" ELSE "older"
=============================================================================
