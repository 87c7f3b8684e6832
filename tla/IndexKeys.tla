----------------------------- MODULE IndexKeys -----------------------------
(***************************************************************************)
(* From a document to the keys of its index entries: the fields an index   *)
(* names, reflected through serde (index/extract.rs), the specifications   *)
(* a type may declare (index/spec.rs, obj-derive), and the encoding whose  *)
(* byte order is the order of the values (index/key.rs).                   *)
(***************************************************************************)
EXTENDS Dynamics

CONSTANTS
    KeyBytes,       \* 8: a number in a key
    MaxEach         \* MAX_EACH_ENTRIES

ASSUME KeysFit == /\ KeyBytes \in Nat /\ IntRange <= ByteRange ^ KeyBytes
                  /\ FloatBytes <= KeyBytes /\ MaxEach \in Nat

(* IndexSpec::validate. *)
SpecOf(name, kind, paths) == [name |-> name, kind |-> kind, paths |-> paths]
ValidSpec(spec) ==
    /\ spec.name # "" /\ "" \notin Range(spec.paths)
    /\ IF spec.kind = "Composite" THEN Len(spec.paths) >= 2 ELSE Len(spec.paths) = 1

----------------------------------------------------------------------------
(* DynamicSerializer: an option is its value or Null, an enum its name or  *)
(* a map, a 128-bit integer its low half: not what the walker makes of the *)
(* same value.                                                             *)
TooDeepToReflect == Failed("InvalidArgument")

RECURSIVE Reflect(_, _, _), ReflectAll(_, _, _), ReflectFields(_, _, _), ReflectVariant(_, _, _)
Reflect(T, v, depth) ==
    CASE T.kind = "u128" -> Value(U64(v.n % IntRange))
      [] T.kind \in DOMAIN ScalarSchema -> Value(v)
      [] T.kind = "Option" -> IF v = None THEN Value(Null) ELSE Reflect(T.elem, v.payload, depth)
      [] T.kind = "Vec" -> ReflectAll([i \in DOMAIN v.items |-> T.elem], v.items, depth)
      [] T.kind = "struct" -> ReflectFields(T.fields, v.map, depth)
      [] T.kind = "enum" ->
            ReflectVariant(CHOOSE x \in Range(T.variants) : x.name = v.variant, v, depth)

(* SeqBuilder: no more elements than an Each index may have. *)
ReflectAll(types, vals, depth) ==
    LET rs == [i \in DOMAIN vals |-> Reflect(types[i], vals[i], depth + 1)]
    IN  IF Len(vals) > MaxEach \/ (vals # <<>> /\ depth + 1 >= MaxDepth)
           \/ \E i \in DOMAIN rs : ~rs[i].ok
        THEN TooDeepToReflect ELSE Value(Items([i \in DOMAIN rs |-> rs[i].val]))

ReflectFields(fields, m, depth) ==
    LET TypeOf(n) == (CHOOSE f \in Range(fields) : f[1] = n)[2]
        rs == [n \in DOMAIN m |-> Reflect(TypeOf(n), m[n], depth + 1)]
    IN  IF (DOMAIN m # {} /\ depth + 1 >= MaxDepth) \/ \E n \in DOMAIN m : ~rs[n].ok
        THEN TooDeepToReflect ELSE Value(Fields([n \in DOMAIN m |-> rs[n].val]))

ReflectVariant(variant, v, depth) ==
    LET one == Reflect(variant.fields[1], v.payload, depth + 1)
    IN  CASE variant.shape = "unit" -> Value(Str(BytesOf(variant.name)))
          [] variant.shape = "newtype" ->
                IF depth + 1 < MaxDepth /\ one.ok
                THEN Value(Fields(With(<<>>, variant.name, one.val))) ELSE TooDeepToReflect
          [] variant.shape = "struct" -> ReflectFields(variant.fields, v.payload.map, depth)
          [] OTHER -> ReflectAll(variant.fields,
                                 [i \in DOMAIN variant.fields |-> v.payload.map[Digits[i]]], depth)

(* NullSerializer: a field no index names is visited to no effect; a       *)
(* 128-bit integer in it is an error, for there is no method that takes    *)
(* one.                                                                    *)
RECURSIVE Discards(_, _)
Discards(T, v) ==
    CASE T.kind = "u128" -> FALSE
      [] T.kind = "Option" -> v = None \/ Discards(T.elem, v.payload)
      [] T.kind = "Vec" -> \A i \in DOMAIN v.items : Discards(T.elem, v.items[i])
      [] T.kind = "struct" -> \A f \in Range(T.fields) : Discards(f[2], v.map[f[1]])
      [] OTHER -> TRUE

(* FieldProjector over the document's fields: what the index names is      *)
(* reflected, at depth one, the rest discarded.                            *)
Collected(wanted, T, v) ==
    LET taken == {f \in Range(T.fields) : f[1] \in wanted}
        TypeOf(n) == (CHOOSE f \in taken : f[1] = n)[2]
        rs == [n \in {f[1] : f \in taken} |-> Reflect(TypeOf(n), v.map[n], 1)]
    IN  IF \E f \in Range(T.fields) \ taken : ~Discards(f[2], v.map[f[1]])
        THEN Failed("InvalidArgument")
        ELSE IF \E n \in DOMAIN rs : ~rs[n].ok THEN Failed("InvalidArgument")
        ELSE Value([n \in DOMAIN rs |-> rs[n].val])

(* project_fields: each value is taken out of what was collected once. *)
Projected(spec, T, v) ==
    LET found == Collected(Range(spec.paths), T, v)
        again(i) == \E j \in 1..i - 1 : spec.paths[j] = spec.paths[i]
    IN  IF ~found.ok THEN found
        ELSE IF \E i \in DOMAIN spec.paths : spec.paths[i] \notin DOMAIN found.val \/ again(i)
             THEN Failed("IndexFieldMissing")
        ELSE Value([i \in DOMAIN spec.paths |-> found.val[spec.paths[i]]])

----------------------------------------------------------------------------
(* The encoding: a tag, then bytes that compare as the values do.          *)

BigEndian(n) == [i \in 1..KeyBytes |-> (n \div ByteRange ^ (KeyBytes - i)) % ByteRange]
Shift(n) == n + IntRange \div 2

(* A float's bits, most significant byte last; the sign is the top bit.    *)
Bits(f) == LET sum[n \in 0..FloatBytes] ==
                   IF n = 0 THEN 0 ELSE sum[n - 1] + (f[n] * ByteRange ^ (n - 1))
           IN  sum[FloatBytes]
FloatRange == ByteRange ^ FloatBytes

\* Faulty: a negative float keeps the order of its magnitude.
SignFlipped(b) == (b + FloatRange \div 2) % FloatRange

TotalOrderBits(b) == IF b < FloatRange \div 2 THEN b + FloatRange \div 2 ELSE FloatRange - 1 - b

EncodeField(d) ==
    CASE d.kind = "Null" -> Value(<<0>>)
      [] d.kind = "Bool" -> Value(<<IF d.b THEN 2 ELSE 1>>)
      [] d.kind = "I64" -> IF d.n = 0 THEN Value(<<17>>)
                           ELSE Value(<<IF d.n < 0 THEN 16 ELSE 18>> \o BigEndian(Shift(d.n)))
      [] d.kind = "U64" -> Value(<<32>> \o BigEndian(d.n))
      [] d.kind = "F64" -> Value(<<48>> \o BigEndian(TotalOrderBits(Bits(d.f))))
      [] d.kind = "String" -> IF 0 \in Range(d.s) THEN Failed("InvalidArgument")
                              ELSE Value(<<64>> \o d.s \o <<0>>)
      [] d.kind = "Bytes" -> Value(<<65>> \o BigEndian(Len(d.raw)) \o d.raw)
      [] OTHER -> Failed("InvalidArgument")

Encoded(ds) == IF \E i \in DOMAIN ds : ~EncodeField(ds[i]).ok THEN Failed("InvalidArgument")
               ELSE Value([i \in DOMAIN ds |-> EncodeField(ds[i]).val])

(* extract_index_keys *)
Extract(spec, T, v) ==
    LET fields == Projected(spec, T, v)
        keys == Encoded(fields.val)
        elems == Encoded(fields.val[1].items)
        one == <<128>> \o FlattenSeq(keys.val)
    IN  IF ~fields.ok THEN fields
        ELSE IF spec.kind = "Each"
             THEN IF fields.val[1].kind # "Seq" THEN Failed("IndexFieldTypeMismatch")
                  ELSE IF Len(fields.val[1].items) > MaxEach THEN Failed("EachIndexTooLarge")
                  ELSE elems
        ELSE IF ~keys.ok THEN keys
        ELSE IF spec.kind = "Composite" THEN Value(<<one>>) ELSE keys

(* Bytes compare as a B-tree compares them. *)
Below(a, b) ==
    \E n \in 0..Len(a) : /\ n < Len(b) /\ \A i \in 1..n : a[i] = b[i]
                         /\ n < Len(a) => a[n + 1] < b[n + 1]
=============================================================================
