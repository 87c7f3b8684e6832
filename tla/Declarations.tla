---------------------------- MODULE Declarations ----------------------------
(***************************************************************************)
(* What #[derive(Document)] makes of a type's #[obj(...)] attributes       *)
(* (obj-derive): its index specifications, or an error at compile time.    *)
(*                                                                         *)
(* One #[obj(...)] is a sequence of metas [key, kind, paths, text], of     *)
(* which each key uses what it needs; a field's attribute is              *)
(* <<field, metas>>.                                                       *)
(***************************************************************************)
EXTENDS IndexKeys

CONSTANTS
    MaxPaths,       \* 64: MAX_FIELDS of a composite
    JoinedName      \* the name of a composite that gives none: its fields, joined

CompileError == Failed("compile error")
NoMeta == [key |-> "", kind |-> "", paths |-> <<>>, text |-> ""]

(* The meta of a key, if it is there, and the parser's "declared twice".   *)
MetaOf(metas, key) == LET found == SelectSeq(metas, LAMBDA m : m.key = key)
                      IN  IF found = <<>> THEN NoMeta ELSE Head(found)
Has(metas, key) == \E i \in DOMAIN metas : metas[i].key = key
OnceEach(metas, keys) ==
    \A i, j \in DOMAIN metas : metas[i].key \in keys /\ metas[i].key = metas[j].key => i = j
Known(metas, keys) == \A i \in DOMAIN metas : metas[i].key \in keys

(* parse_composite_paren_paths: the list itself. *)
PathList(paths) == paths # <<>> /\ Len(paths) <= MaxPaths /\ "" \notin Range(paths)

(* parse_index_kind: absent, unique, each, or a tuple of paths. *)
IndexKind(meta) == /\ meta.kind \in {"Standard", "Unique", "Each", "Composite"}
                   /\ meta.kind = "Composite" => PathList(meta.paths)

----------------------------------------------------------------------------
(* parse_one_field_attr *)
FieldParses(metas) ==
    /\ Known(metas, {"index", "name", "default", "default_with"})
    /\ OnceEach(metas, {"index", "name"})
    /\ Has(metas, "index") => /\ IndexKind(MetaOf(metas, "index"))
                              /\ MetaOf(metas, "index").kind # "Composite"
    /\ Has(metas, "name") => MetaOf(metas, "name").text # ""

NameOr(metas, default) == IF Has(metas, "name") THEN MetaOf(metas, "name").text ELSE default

(* finalize_field_index: an index over the elements needs a Vec. *)
FieldIndex(T, field, metas) ==
    LET kind == MetaOf(metas, "index").kind
        type == (CHOOSE f \in Range(T.fields) : f[1] = field)[2]
    IN  IF ~FieldParses(metas) THEN CompileError
        ELSE IF ~Has(metas, "index") THEN IF Has(metas, "name") THEN CompileError ELSE Value(<<>>)
        ELSE IF kind = "Each" /\ type.kind # "Vec" THEN CompileError
        ELSE Value(<<SpecOf(NameOr(metas, field), kind, <<field>>)>>)

----------------------------------------------------------------------------
(* parse_one_struct_attr: version and its like once over all attributes,   *)
(* an index and its name once in each; history is refused by name.         *)
Accumulated == {"version", "collection", "schema", "auto_migrate"}
StructParses(attrs) ==
    /\ OnceEach(FlattenSeq(attrs), Accumulated)
    /\ MetaOf(FlattenSeq(attrs), "collection") # [NoMeta EXCEPT !.key = "collection"]
    /\ \A i \in DOMAIN attrs :
           /\ Known(attrs[i], Accumulated \cup {"index", "index_composite", "name"})
           /\ OnceEach(attrs[i], {"index", "name"})
           /\ Has(attrs[i], "index") => /\ IndexKind(MetaOf(attrs[i], "index"))
                                        /\ MetaOf(attrs[i], "index").kind = "Composite"
           /\ Has(attrs[i], "name") => /\ Has(attrs[i], "index")
                                       /\ MetaOf(attrs[i], "name").text # ""
           /\ \A j \in DOMAIN attrs[i] :
                  attrs[i][j].key = "index_composite" => PathList(attrs[i][j].paths)

(* The composites of one attribute: the long forms, then the short one.    *)
Composites(metas) ==
    LET long == SelectSeq(metas, LAMBDA m : m.key = "index_composite")
        short == MetaOf(metas, "index")
        pair(m, name) == [paths |-> m.paths, name |-> IF name = "" THEN JoinedName ELSE name]
    IN  [i \in DOMAIN long |-> pair(long[i], long[i].text)]
        \o IF Has(metas, "index") THEN <<pair(short, MetaOf(metas, "name").text)>> ELSE <<>>

(* validate_and_lift_composites *)
CompositeIndex(T, c) ==
    IF Len(c.paths) >= 2 /\ Range(c.paths) \subseteq {f[1] : f \in Range(T.fields)}
    THEN Value(<<SpecOf(c.name, "Composite", c.paths)>>) ELSE CompileError

----------------------------------------------------------------------------
(* indexes() keeps the specifications that IndexSpec's constructors accept *)
(* and drops the others without a word.                                    *)
Emitted(specs) == SelectSeq(specs, ValidSpec)

(* emit_struct_impl: the fields' indexes, then the composites. *)
DerivedIndexes(T, onFields, onStruct) ==
    LET composites == FlattenSeq([i \in DOMAIN onStruct |-> Composites(onStruct[i])])
        parts == [i \in DOMAIN onFields |-> FieldIndex(T, onFields[i][1], onFields[i][2])]
                 \o [i \in DOMAIN composites |-> CompositeIndex(T, composites[i])]
    IN  IF ~StructParses(onStruct) \/ \E i \in DOMAIN parts : ~parts[i].ok THEN CompileError
        ELSE Value(Emitted(FlattenSeq([i \in DOMAIN parts |-> parts[i].val])))
=============================================================================
