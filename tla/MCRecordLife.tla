---- MODULE MCRecordLife ----
EXTENDS RecordLife, TLC

MCNames == <<<<"0", <<1>>>>, <<"1", <<1, 1>>>>, <<"2", <<1, 2>>>>, <<"A", <<2>>>>, <<"B", <<3>>>>,
             <<"None", <<4>>>>, <<"Some", <<4, 1>>>>, <<"a", <<5>>>>, <<"b", <<6>>>>, <<"c", <<7>>>>>>

\* The values a scalar takes at its edges.
Edges == [bool |-> {Bool(TRUE), Bool(FALSE)},
          u8 |-> {U64(0), U64(7), U64(8), U64(15)},
          uint |-> {U64(0), U64(7), U64(8), U64(64), U64(127)},
          i8 |-> {I64(-8), I64(-1), I64(0), I64(7)},
          int |-> {I64(-64), I64(-1), I64(0), I64(1), I64(63)},
          u128 |-> {U64(0), U64(128), U64(255)},
          f32 |-> {[kind |-> "F64", f |-> <<0, 3>>]},
          float |-> {[kind |-> "F64", f |-> <<x, y>>] : x \in {0, 15}, y \in {0, 7, 8}},
          String |-> {Str(<<>>), Str(<<1>>), Str(<<1, 2>>), Str(<<2>>), Str(<<0>>)}]

S(kind) == Simple(kind)
AB(T, U) == Struct(<<<<"a", T>>, <<"b", U>>>>)
One(T) == Struct(<<<<"a", T>>>>)
Shape == EnumType(<<Variant("A", "unit", <<>>), Variant("B", "newtype", <<S("uint")>>)>>)
Wide == EnumType(<<Variant("A", "tuple", <<S("uint"), S("bool")>>),
                   Variant("B", "struct", <<<<"c", S("int")>>>>)>>)

\* The values of a type that the cases use.
RECURSIVE Some2(_)
Some2(T) ==
    CASE T.kind \in DOMAIN Edges -> Edges[T.kind]
      [] T.kind = "Vec" -> {Items(<<>>)} \cup {Items(<<x, y>>) : x, y \in Some2(T.elem)}
      [] T.kind = "Option" -> {None} \cup {Some(x) : x \in Some2(T.elem)}
      [] T.kind = "struct" -> {Fields(f) : f \in {g \in
             [{p[1] : p \in Range(T.fields)} -> UNION {Some2(p[2]) : p \in Range(T.fields)}] :
             \A p \in Range(T.fields) : g[p[1]] \in Some2(p[2])}}
      [] T = Shape -> {Chosen("A", Null)} \cup {Chosen("B", x) : x \in {U64(0), U64(9)}}
      [] T = Wide -> {Chosen("A", Fields([n \in {"0", "1"} |-> IF n = "0" THEN U64(8) ELSE Bool(TRUE)])),
                      Chosen("B", Fields([n \in {"c"} |-> I64(-3)]))}

Plain(T) == [wrote |-> T, schema |-> SchemaOf(T), to |-> T, backfill |-> <<>>, onFields |-> <<>>, onStruct |-> <<>>,
             collection |-> 1, version |-> 1, registered |-> TRUE, peers |-> {}]
WithIndex(T, fs, cs) == [Plain(T) EXCEPT !.onFields = fs, !.onStruct = cs, !.peers = Some2(T)]
M(key, kind, paths, text) == [key |-> key, kind |-> kind, paths |-> paths, text |-> text]
Fi(field, kind) == <<field, <<M("index", kind, <<>>, "")>>>>
Nm(text) == M("name", "", <<>>, text)
Co(paths) == <<M("index_composite", "", paths, "")>>
Sh(paths) == M("index", "Composite", paths, "")

\* One case per type; the last are records under a schema that is not
\* their type's, or not a record of this collection or version.
Shapes == {
    WithIndex(AB(S("uint"), S("bool")), <<Fi("a", "Standard")>>, <<Co(<<"b", "a">>)>>),
    WithIndex(AB(S("int"), S("String")), <<>>, <<<<Sh(<<"a", "b">>), Nm("c")>>, Co(<<"b", "a">>)>>),
    WithIndex(One(S("float")), <<Fi("a", "Standard")>>, <<>>),
    WithIndex(One(Of("Option", S("int"))), <<<<"a", <<M("index", "Unique", <<>>, ""), Nm("c")>>>>>>, <<>>),
    WithIndex(One(Of("Vec", S("int"))), <<Fi("a", "Each"), Fi("a", "Standard")>>, <<>>),
    WithIndex(AB(Shape, Of("Vec", S("bool"))), <<Fi("a", "Standard"), Fi("b", "Each")>>, <<>>),
    WithIndex(AB(S("bool"), One(S("int"))), <<Fi("a", "Standard")>>, <<Co(<<"a", "a">>)>>),
    [Plain(AB(S("bool"), S("u128"))) EXCEPT !.version = 2, !.onFields = <<Fi("a", "Unique")>>],
    [Plain(AB(S("bool"), S("u128"))) EXCEPT !.version = 2, !.onFields = <<Fi("b", "Unique")>>],
    [Plain(One(S("bool"))) EXCEPT !.onFields = <<Fi("a", "Each")>>],
    [Plain(One(S("bool"))) EXCEPT !.onFields = <<<<"a", <<Nm("c")>>>>>>],
    [Plain(One(S("bool"))) EXCEPT !.onFields = <<<<"a", <<Sh(<<"a">>)>>>>>>],
    [Plain(One(S("bool"))) EXCEPT !.onStruct = <<<<M("version", "", <<>>, "1")>>, <<M("version", "", <<>>, "2")>>>>],
    [Plain(One(S("bool"))) EXCEPT !.onStruct = <<Co(<<"a", "b">>)>>],
    Plain(AB(Wide, S("bool"))),
    Plain(One(Of("Vec", Of("Vec", S("bool"))))),
    Plain(AB(Shape, Of("Vec", Shape))),
    Plain(One(Of("Option", Of("Option", Of("Option", S("bool")))))),
    Plain(One(Of("Option", Of("Option", Of("Option", Of("Option", S("bool"))))))),
    Plain(One(Of("Option", Of("Option", S("bool"))))),
    Plain(Struct(<<>>)),
    Plain(AB(S("u8"), S("i8"))), Plain(AB(S("i8"), S("f32"))), 
    Plain(Struct(<<<<"a", Of("Vec", S("u8"))>>, <<"b", Of("Vec", S("u8"))>>, <<"c", S("bool")>>>>)),
    [Plain(AB(S("uint"), S("bool"))) EXCEPT
        !.to = Struct(<<<<"c", Of("Option", S("bool"))>>, <<"a", S("uint")>>>>),
        !.backfill = [n \in {"c"} |-> None], !.onFields = <<Fi("c", "Standard")>>],
    [Plain(AB(S("uint"), S("bool"))) EXCEPT !.to = AB(S("int"), S("uint"))],
    [Plain(AB(S("uint"), S("bool"))) EXCEPT !.schema = SchemaOf(AB(S("bool"), S("uint")))],
    [Plain(AB(S("int"), S("bool"))) EXCEPT !.schema = SchemaOf(AB(S("uint"), S("bool")))],
    [Plain(AB(S("uint"), S("uint"))) EXCEPT !.schema = SchemaOf(One(Of("Vec", S("bool"))))],
    [Plain(AB(S("uint"), S("uint"))) EXCEPT !.schema = SchemaOf(AB(Shape, S("float")))],
    [Plain(AB(S("String"), S("uint"))) EXCEPT !.schema = [kind |-> "Map", fields |->
        <<<<"a", [kind |-> "Bytes"]>>, <<"b", [kind |-> "Enum", variants |-> <<>>]>>>>]],
    [Plain(One(Of("Vec", S("uint")))) EXCEPT !.schema = SchemaOf(One(S("String")))],
    [Plain(One(S("bool"))) EXCEPT !.collection = 2],
    [Plain(One(S("bool"))) EXCEPT !.version = 3],
    [Plain(One(S("bool"))) EXCEPT !.registered = FALSE],
    [Plain(AB(S("int"), S("bool"))) EXCEPT !.version = 2, !.onFields = <<Fi("a", "Standard")>>] }

Full(shape, v) ==
    [f \in DOMAIN shape \cup {"value", "bytes"} |->
        IF f = "value" THEN v ELSE IF f = "bytes" THEN Wire(shape.wrote, v) ELSE shape[f]]
MCInputs == UNION {{Full(shape, v) : v \in Some2(shape.wrote)} : shape \in Shapes}
====
