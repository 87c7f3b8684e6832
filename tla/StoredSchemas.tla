--------------------------- MODULE StoredSchemas ---------------------------
(***************************************************************************)
(* The bytes a stored schema is kept as, and the guard that walks them     *)
(* before they are decoded, so that no row can nest the decoder too deep   *)
(* (ensure_schema_depth_bounded in codec/stored_schema.rs).                *)
(***************************************************************************)
EXTENDS Dynamics

(* postcard of a StoredSchema: the format, the schema by the numbers of    *)
(* its variants, the hints.                                                *)
RECURSIVE SchemaBytes(_)
SchemaBytes(S) ==
    LET FieldOf(f) == Prefixed(BytesOf(f[1])) \o SchemaBytes(f[2])
        VariantOf(v) == WriteVarint(v.disc) \o Prefixed(BytesOf(v.name)) \o SchemaBytes(v.payload)
    IN  WriteVarint(TagOf(S.kind))
        \o CASE S.kind = "Seq" -> SchemaBytes(S.elem)
             [] S.kind = "Map" -> WriteVarint(Len(S.fields))
                                  \o FlattenSeq([i \in DOMAIN S.fields |-> FieldOf(S.fields[i])])
             [] S.kind = "Enum" -> WriteVarint(Len(S.variants))
                                   \o FlattenSeq([i \in DOMAIN S.variants |-> VariantOf(S.variants[i])])
             [] OTHER -> <<>>
Format == 1
RowBytes(stored) ==
    <<Format>> \o SchemaBytes(stored.schema) \o WriteVarint(Len(stored.signed))
    \o [i \in DOMAIN stored.signed |-> IF stored.signed[i] THEN 1 ELSE 0]

(* The work: a node to parse, or the entries of a collection still to come,*)
(* each at the depth of its nodes.                                         *)
Node(depth) == [kind |-> "Node", depth |-> depth]
Entries(kind, n, depth) == IF n = 0 THEN <<>> ELSE <<[kind |-> kind, left |-> n, depth |-> depth]>>

(* parse_node: what it queues; an unreadable node ends the guard, for      *)
(* postcard to report.                                                     *)
ParseNode(b, depth) ==
    LET disc == TakeVarint(b)
        kind == Kinds[disc.val + 1]
        count == TakeVarint(disc.rest)
    IN  IF depth > MaxDepth THEN Failed("SchemaDepthExceeded")
        ELSE IF ~disc.ok \/ disc.val >= Len(Kinds) THEN Failed("unreadable")
        ELSE IF kind = "Seq" THEN Got(<<Node(depth + 1)>>, disc.rest)
        ELSE IF kind \in {"Map", "Enum"}
             THEN IF count.ok THEN Got(Entries(kind, count.val, depth + 1), count.rest)
                  ELSE Failed("unreadable")
        ELSE Got(<<>>, disc.rest)

(* A field's name, or a variant's number and name, then its node. *)
ParseEntry(b, item) ==
    LET disc == TakeVarint(b)
        name == TakePrefixed(IF item.kind = "Enum" THEN disc.rest ELSE b, "unreadable")
    IN  IF (item.kind = "Enum" /\ ~disc.ok) \/ ~name.ok THEN Failed("unreadable")
        ELSE Got(Append(Entries(item.kind, item.left - 1, item.depth), Node(item.depth)), name.rest)

RECURSIVE Guarded(_, _, _)
Guarded(b, work, rounds) ==
    LET item == Last(work)
        step == IF item.kind = "Node" THEN ParseNode(b, item.depth) ELSE ParseEntry(b, item)
    IN  IF work = <<>> \/ rounds = 0 THEN "ok"
        ELSE IF ~step.ok THEN IF step.err = "unreadable" THEN "ok" ELSE step.err
        ELSE Guarded(step.rest, Front(work) \o step.val, rounds - 1)

(* At most as many rounds as there are bytes, and one. *)
Guard(row) == IF row = <<>> THEN "ok" ELSE Guarded(Tail(row), <<Node(0)>>, Len(row) + 1)
=============================================================================
