------------------------------ MODULE Records ------------------------------
(***************************************************************************)
(* What a record passes through besides the walk: the schema its type      *)
(* derives (obj-derive), the form the schema is stored in                  *)
(* (codec/stored_schema.rs, respecialize in codec/mod.rs), the typed value *)
(* rebuilt from a Dynamic (codec/dynamic_de.rs) by the derived migration,  *)
(* and the tagged form of a Dynamic (codec/dynamic.rs).                    *)
(*                                                                         *)
(* A type is its name: a scalar's, or a record for Vec, Option, struct and *)
(* enum.  A typed value is written as the Dynamic that shows all of it:    *)
(* None and Some are variants, an f32 is widened.                          *)
(***************************************************************************)
EXTENDS SchemaWalk

CONSTANTS
    NarrowFloatBytes,   \* 4: an f32
    NameBytes           \* the bytes of each name, in name order

Of(kind, elem) == [kind |-> kind, elem |-> elem]
Simple(kind) == [kind |-> kind]
Struct(fields) == [kind |-> "struct", fields |-> fields]
EnumType(variants) == [kind |-> "enum", variants |-> variants]
Variant(name, shape, fields) == [name |-> name, shape |-> shape, fields |-> fields]

U64(n) == [kind |-> "U64", n |-> n]
I64(n) == [kind |-> "I64", n |-> n]
Bool(b) == [kind |-> "Bool", b |-> b]
Str(s) == [kind |-> "String", s |-> s]
Items(s) == [kind |-> "Seq", items |-> s]
Fields(f) == [kind |-> "Map", map |-> f]
Chosen(variant, payload) == [kind |-> "Enum", variant |-> variant, payload |-> payload]
None == Chosen("None", Null)
Some(v) == Chosen("Some", v)

ByteRange == 2 * Cont
Digits == <<"0", "1", "2">>
Positional(types) == [i \in DOMAIN types |-> <<Digits[i], types[i]>>]
Named(variant) == IF variant.shape = "tuple" THEN Positional(variant.fields)
                  ELSE variant.fields

----------------------------------------------------------------------------
(* serde's postcard of a typed value: a byte-wide integer and a float are  *)
(* written raw, wider integers as varints, structs without names.          *)
RECURSIVE Wire(_, _)
Wire(T, v) ==
    LET All(types, vals) == FlattenSeq([i \in DOMAIN types |-> Wire(types[i], vals[i])])
        FieldBytes(fields, m) ==
            All([i \in DOMAIN fields |-> fields[i][2]], [i \in DOMAIN fields |-> m[fields[i][1]]])
    IN  CASE T.kind = "bool" -> <<IF v.b THEN 1 ELSE 0>>
          [] T.kind = "u8" -> <<v.n>>
          [] T.kind = "i8" -> <<v.n % ByteRange>>
          [] T.kind \in {"uint", "u128"} -> WriteVarint(v.n)
          [] T.kind = "int" -> WriteVarint(ZigZag(v.n))
          [] T.kind = "f32" -> SubSeq(v.f, FloatBytes - NarrowFloatBytes + 1, FloatBytes)
          [] T.kind = "float" -> v.f
          [] T.kind = "String" -> WriteVarint(Len(v.s)) \o v.s
          [] T.kind = "Vec" -> WriteVarint(Len(v.items))
                               \o All([i \in DOMAIN v.items |-> T.elem], v.items)
          [] T.kind = "Option" -> IF v = None THEN <<0>> ELSE <<1>> \o Wire(T.elem, v.payload)
          [] T.kind = "struct" -> FieldBytes(T.fields, v.map)
          [] T.kind = "enum" ->
                LET i == CHOOSE k \in DOMAIN T.variants : T.variants[k].name = v.variant
                    shape == T.variants[i].shape
                IN  WriteVarint(i - 1)
                    \o (CASE shape = "unit" -> <<>>
                          [] shape = "newtype" -> Wire(T.variants[i].fields[1], v.payload)
                          [] OTHER -> FieldBytes(Named(T.variants[i]), v.payload.map))

(* obj-derive: the schema of a type, by the name of each field's type;     *)
(* a u128 has one only through an implementation by hand.                  *)
ScalarSchema == [bool |-> "Bool", u8 |-> "U64", uint |-> "U64", u128 |-> "U64", i8 |-> "I64", int |-> "I64",
                 f32 |-> "F64", float |-> "F64", String |-> "String"]

RECURSIVE SchemaOf(_), FieldSchemas(_), PayloadSchema(_)
FieldSchemas(fields) ==
    [kind |-> "Map", fields |-> [i \in DOMAIN fields |-> <<fields[i][1], SchemaOf(fields[i][2])>>]]
PayloadSchema(variant) ==
    CASE variant.shape = "unit" -> Null
      [] variant.shape = "newtype" -> SchemaOf(variant.fields[1])
      [] OTHER -> FieldSchemas(Named(variant))
VariantSchemas(names, payloads) ==
    [kind |-> "Enum", variants |-> [i \in DOMAIN names |->
        [disc |-> i - 1, name |-> names[i], payload |-> payloads[i]]]]
SchemaOf(T) ==
    CASE T.kind \in DOMAIN ScalarSchema -> [kind |-> ScalarSchema[T.kind]]
      [] T.kind = "Vec" -> [kind |-> "Seq", elem |-> SchemaOf(T.elem)]
      [] T.kind = "Option" -> VariantSchemas(<<"None", "Some">>, <<Null, SchemaOf(T.elem)>>)
      [] T.kind = "struct" -> FieldSchemas(T.fields)
      [] T.kind = "enum" -> VariantSchemas([i \in DOMAIN T.variants |-> T.variants[i].name],
                                           [i \in DOMAIN T.variants |-> PayloadSchema(T.variants[i])])

----------------------------------------------------------------------------
(* The stored schema: integers collapse to one tag, their signedness is a  *)
(* list of hints in pre-order.                                             *)

Children(S) == CASE S.kind = "Seq" -> <<S.elem>>
                 [] S.kind = "Map" -> [i \in DOMAIN S.fields |-> S.fields[i][2]]
                 [] S.kind = "Enum" -> [i \in DOMAIN S.variants |-> S.variants[i].payload]
                 [] OTHER -> <<>>

WithChildren(S, kids) ==
    CASE S.kind = "Seq" -> [S EXCEPT !.elem = kids[1]]
      [] S.kind = "Map" -> [S EXCEPT !.fields = [i \in DOMAIN @ |-> <<@[i][1], kids[i]>>]]
      [] S.kind = "Enum" ->
            [S EXCEPT !.variants = [i \in DOMAIN @ |-> [@[i] EXCEPT !.payload = kids[i]]]]
      [] OTHER -> S

RECURSIVE Normalized(_)
Normalized(S) == IF S.kind \in {"U64", "I64"} THEN [kind |-> "U64"]
                 ELSE WithChildren(S, [i \in DOMAIN Children(S) |-> Normalized(Children(S)[i])])

(* collect_int_signedness, and the guard over a row's bytes: a stack of    *)
(* nodes with their depths, children pushed last first.                    *)
RECURSIVE CollectHints(_, _)
CollectHints(work, hints) ==
    IF work = <<>> THEN Got(hints, <<>>)
    ELSE LET top == Last(work)
             kids == Children(top[1])
         IN  IF top[2] > MaxDepth THEN Failed("SchemaDepthExceeded")
             ELSE CollectHints(Front(work) \o Reverse([i \in DOMAIN kids |-> <<kids[i], top[2] + 1>>]),
                               IF top[1].kind \in {"U64", "I64"}
                               THEN Append(hints, top[1].kind = "I64") ELSE hints)

\* Faulty: the signedness is read off the normalized schema.
FromLiveNormalizedFirst(S) ==
    LET hints == CollectHints(<<<<Normalized(S), 0>>>>, <<>>)
    IN  IF hints.ok THEN Got([schema |-> Normalized(S), signed |-> hints.val], <<>>) ELSE hints

FromLive(S) == LET hints == CollectHints(<<<<S, 0>>>>, <<>>)
               IN  IF hints.ok THEN Got([schema |-> Normalized(S), signed |-> hints.val], <<>>)
                   ELSE hints

(* respecialize_at: each integer slot takes the next hint; what is carried *)
(* along is the schema built and the hints left.                           *)
RECURSIVE RespecializeAt(_, _), RespecializeAll(_, _)
RespecializeAt(S, hints) ==
    IF S.kind \in {"U64", "I64"}
    THEN IF hints = <<>> THEN Failed("Codec")
         ELSE Got([kind |-> IF Head(hints) THEN "I64" ELSE "U64"], Tail(hints))
    ELSE LET kids == RespecializeAll(Children(S), hints)
         IN  IF kids.ok THEN Got(WithChildren(S, kids.val), kids.rest) ELSE kids
RespecializeAll(kids, hints) ==
    IF kids = <<>> THEN Got(<<>>, hints)
    ELSE LET first == RespecializeAt(Head(kids), hints)
             others == RespecializeAll(Tail(kids), first.rest)
         IN  IF ~first.ok THEN first
             ELSE IF ~others.ok THEN others
             ELSE Got(<<first.val>> \o others.val, others.rest)

Respecialize(stored) == LET r == RespecializeAt(stored.schema, stored.signed)
                        IN  IF r.ok /\ r.rest # <<>> THEN Failed("Codec") ELSE r
=============================================================================
