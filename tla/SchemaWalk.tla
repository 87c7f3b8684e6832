----------------------------- MODULE SchemaWalk -----------------------------
(***************************************************************************)
(* The walker that turns the postcard bytes of an old record into a        *)
(* Dynamic under the schema stored for its version (walk_schema in         *)
(* codec/dynamic.rs): an explicit stack of frames, one slot decoded per    *)
(* round, finished values folded into the frame on top.                    *)
(*                                                                         *)
(* A byte is a number below 2 * Cont, Cont being the continuation bit of a *)
(* varint; every width of the code is a constant, so that a small instance *)
(* reaches each limit.  The dotted path of an error message is left out.   *)
(***************************************************************************)
EXTENDS Integers, Sequences, SequencesExt

CONSTANTS
    MaxDepth,           \* MAX_SCHEMA_DEPTH = MAX_DYNAMIC_DEPTH
    MaxNodes,           \* MAX_DYNAMIC_NODES
    Cont,               \* 2^7: the continuation bit
    MaxVarintBytes,     \* MAX_VARINT_BYTES
    IntRange,           \* 2^64
    DiscRange,          \* 2^32: discriminants are u32
    FloatBytes,         \* 8
    Inputs              \* the [schema, bytes, ...] the walker is given

ASSUME WidthsFit ==
    /\ {MaxDepth, MaxNodes, Cont, MaxVarintBytes, FloatBytes} \subseteq Nat \ {0}
    /\ Cont ^ (MaxVarintBytes - 1) < IntRange /\ IntRange <= Cont ^ MaxVarintBytes

VARIABLES
    input,      \* the arguments of from_postcard_bytes
    rest,       \* the bytes not read yet
    next,       \* the schema of the slot to decode
    stack,      \* the open frames, outermost first
    nodes,      \* Dynamic nodes made so far
    folding,    \* a finished value on its way into the top frame, or Nothing
    outcome     \* "walking", then "done" or the error returned

walk == <<input, rest, next, stack, nodes, folding, outcome>>

Nothing == [kind |-> "Nothing"]
Null == [kind |-> "Null"]

----------------------------------------------------------------------------
(* Reading the bytes: a result carries what was read and the rest. *)

Got(v, r) == [ok |-> TRUE, val |-> v, rest |-> r]
Failed(e) == [ok |-> FALSE, err |-> e]

TakeN(b, n) == IF Len(b) < n THEN Failed("Corruption")
               ELSE Got(SubSeq(b, 1, n), SubSeq(b, n + 1, Len(b)))

(* The loop reads at most MaxVarintBytes; bits shifted past the width are  *)
(* lost without an error.                                                  *)
TakeVarint(b) ==
    LET ends == {i \in 1..Len(b) : i <= MaxVarintBytes /\ b[i] < Cont}
        value[n \in 0..MaxVarintBytes] ==
            IF n = 0 THEN 0 ELSE value[n - 1] + ((b[n] % Cont) * Cont ^ (n - 1))
    IN  IF ends = {} THEN Failed("Corruption")
        ELSE LET n == CHOOSE i \in ends : \A j \in ends : i <= j
             IN  Got(value[n] % IntRange, SubSeq(b, n + 1, Len(b)))

WriteVarint(v) ==
    LET n == CHOOSE k \in 1..MaxVarintBytes :
                 v < Cont ^ k /\ (k = 1 \/ Cont ^ (k - 1) <= v)
    IN  [i \in 1..n |-> ((v \div Cont ^ (i - 1)) % Cont) + (IF i < n THEN Cont ELSE 0)]

ZigZag(n) == IF n >= 0 THEN 2 * n ELSE -2 * n - 1

\* Faulty: the odd codes are one short.
UnZigZagShort(z) == IF z % 2 = 0 THEN z \div 2 ELSE -(z \div 2)

UnZigZag(z) == IF z % 2 = 0 THEN z \div 2 ELSE -((z + 1) \div 2)

Utf8(b) == \A i \in DOMAIN b : b[i] < Cont

(* A length and that many bytes; the schema walker reports the short read  *)
(* as a mismatch, the tagged one as corruption.                            *)
TakePrefixed(b, short) ==
    LET len == TakeVarint(b)
        data == TakeN(len.rest, len.val)
    IN  IF ~len.ok THEN len ELSE IF data.ok THEN data ELSE Failed(short)

Mismatch == "SchemaTypeMismatch"

----------------------------------------------------------------------------
(* decode_slot: the arms that finish a value at once. *)

Scalars == {"Null", "Bool", "U64", "I64", "F64", "String", "Bytes"}

Scalar(kind, b) ==
    LET Mapped(r, F(_)) == IF r.ok THEN Got(F(r.val), r.rest) ELSE r
        U64(n) == [kind |-> "U64", n |-> n]
        I64(z) == [kind |-> "I64", n |-> UnZigZag(z)]
        F64(f) == [kind |-> "F64", f |-> f]
        Str(s) == [kind |-> "String", s |-> s]
        Raw(s) == [kind |-> "Bytes", raw |-> s]
        text == TakePrefixed(b, Mismatch)
    IN  CASE kind = "Null" -> Got(Null, b)
          [] kind = "Bool" -> IF b = <<>> \/ b[1] > 1 THEN Failed(Mismatch)
                              ELSE Got([kind |-> "Bool", b |-> b[1] = 1], Tail(b))
          [] kind = "U64" -> Mapped(TakeVarint(b), U64)
          [] kind = "I64" -> Mapped(TakeVarint(b), I64)
          [] kind = "F64" -> IF Len(b) < FloatBytes THEN Failed(Mismatch)
                             ELSE Mapped(TakeN(b, FloatBytes), F64)
          [] kind = "String" -> IF text.ok /\ ~Utf8(text.val) THEN Failed(Mismatch)
                                ELSE Mapped(text, Str)
          [] kind = "Bytes" -> Mapped(text, Raw)

(* The frames.  A Map frame keeps the fields still to come and the name of *)
(* the one being decoded; what is decoded goes to acc.                     *)
SeqFrame(elem, n) == [kind |-> "Seq", elem |-> elem, remaining |-> n, acc |-> <<>>]
MapFrame(fields) == [kind |-> "Map", pending |-> Tail(fields), name |-> Head(fields)[1],
                     acc |-> <<>>]
EnumFrame(variant) == [kind |-> "Enum", variant |-> variant]

(* A BTreeMap as a function from names; <<>> is the empty one. *)
With(map, name, v) ==
    [n \in DOMAIN map \cup {name} |-> IF n = name THEN v ELSE map[n]]

Init ==
    /\ input \in Inputs
    /\ rest = input.bytes /\ next = input.schema
    /\ stack = <<>> /\ nodes = 0 /\ folding = Nothing /\ outcome = "walking"

----------------------------------------------------------------------------
(* One round of the loop: the bounds, the node's charge, the slot. *)

Fail(e) == outcome' = e /\ UNCHANGED <<input, rest, next, stack, nodes, folding>>
Slot == outcome = "walking" /\ folding = Nothing

\* Faulty: nodes are not charged.
InBoundsAnyNodes == Slot /\ Len(stack) < MaxDepth

InBounds == Slot /\ Len(stack) < MaxDepth /\ nodes < MaxNodes

TooDeep == Slot /\ Len(stack) >= MaxDepth /\ Fail("SchemaDepthExceeded")

\* Faulty: one node past the cap.
TooManyNodesPast == Slot /\ Len(stack) < MaxDepth /\ nodes > MaxNodes /\ Fail(Mismatch)

TooManyNodes == Slot /\ Len(stack) < MaxDepth /\ nodes >= MaxNodes /\ Fail(Mismatch)

Finish(value, r) ==
    /\ folding' = value /\ rest' = r /\ nodes' = nodes + 1
    /\ UNCHANGED <<input, next, stack, outcome>>
Push(frame, child, r) ==
    /\ stack' = Append(stack, frame) /\ next' = child /\ rest' = r /\ nodes' = nodes + 1
    /\ UNCHANGED <<input, folding, outcome>>

DecodeScalar ==
    /\ InBounds /\ next.kind \in Scalars
    /\ LET r == Scalar(next.kind, rest)
       IN  IF r.ok THEN Finish(r.val, r.rest) ELSE Fail(r.err)

DecodeSeq ==
    /\ InBounds /\ next.kind = "Seq"
    /\ LET len == TakeVarint(rest)
       IN  \/ ~len.ok /\ Fail(len.err)
           \/ len.ok /\ len.val = 0 /\ Finish([kind |-> "Seq", items |-> <<>>], len.rest)
           \/ len.ok /\ len.val >= MaxNodes /\ Fail(Mismatch)
           \/ len.ok /\ len.val \in 1..MaxNodes - 1
                     /\ Push(SeqFrame(next.elem, len.val), next.elem, len.rest)

DecodeMap ==
    /\ InBounds /\ next.kind = "Map"
    /\ IF next.fields = <<>> THEN Finish([kind |-> "Map", map |-> <<>>], rest)
       ELSE Push(MapFrame(next.fields), Head(next.fields)[2], rest)

(* Variants are sorted by discriminant, so the binary search finds it. *)
DecodeEnum ==
    /\ InBounds /\ next.kind = "Enum"
    /\ LET disc == TakeVarint(rest)
           Known == {v \in Range(next.variants) : v.disc = disc.val}
       IN  \/ ~disc.ok /\ Fail(disc.err)
           \/ disc.ok /\ (disc.val >= DiscRange \/ Known = {}) /\ Fail(Mismatch)
           \/ /\ disc.ok /\ disc.val < DiscRange
              /\ \E v \in Known : Push(EnumFrame(v.name), v.payload, disc.rest)

----------------------------------------------------------------------------
(* fold_value: into the top frame, and on up while that completes it. *)

Folded == stack' = Front(stack) /\ UNCHANGED <<input, rest, next, nodes, outcome>>
NextChild(frame, child) ==
    /\ stack' = [stack EXCEPT ![Len(stack)] = frame] /\ next' = child /\ folding' = Nothing
    /\ UNCHANGED <<input, rest, nodes, outcome>>

\* Faulty: the elements still to come are not counted down.
CloseSeqUncounted ==
    /\ outcome = "walking" /\ folding # Nothing /\ stack # <<>> /\ Last(stack).kind = "Seq"
    /\ LET top == Last(stack)
           acc == Append(top.acc, folding)
       IN  IF top.remaining = 1 THEN folding' = [kind |-> "Seq", items |-> acc] /\ Folded
           ELSE NextChild([top EXCEPT !.acc = acc], top.elem)

CloseSeq ==
    /\ outcome = "walking" /\ folding # Nothing /\ stack # <<>> /\ Last(stack).kind = "Seq"
    /\ LET top == Last(stack)
           acc == Append(top.acc, folding)
       IN  IF top.remaining = 1 THEN folding' = [kind |-> "Seq", items |-> acc] /\ Folded
           ELSE NextChild([top EXCEPT !.acc = acc, !.remaining = @ - 1], top.elem)

CloseMap ==
    /\ outcome = "walking" /\ folding # Nothing /\ stack # <<>> /\ Last(stack).kind = "Map"
    /\ LET top == Last(stack)
           acc == With(top.acc, top.name, folding)
       IN  IF top.pending = <<>> THEN folding' = [kind |-> "Map", map |-> acc] /\ Folded
           ELSE NextChild([top EXCEPT !.acc = acc, !.pending = Tail(@),
                                      !.name = Head(top.pending)[1]],
                          Head(top.pending)[2])

CloseEnum ==
    /\ outcome = "walking" /\ folding # Nothing /\ stack # <<>> /\ Last(stack).kind = "Enum"
    /\ folding' = [kind |-> "Enum", variant |-> Last(stack).variant, payload |-> folding]
    /\ Folded

\* Faulty: bytes left over are ignored.
RootAnyRest ==
    /\ outcome = "walking" /\ folding # Nothing /\ stack = <<>>
    /\ outcome' = "done" /\ UNCHANGED <<input, rest, next, stack, nodes, folding>>

(* The root: from_postcard_bytes takes no byte left over. *)
Root ==
    /\ outcome = "walking" /\ folding # Nothing /\ stack = <<>>
    /\ outcome' = IF rest = <<>> THEN "done" ELSE Mismatch
    /\ UNCHANGED <<input, rest, next, stack, nodes, folding>>

Next == TooDeep \/ TooManyNodes \/ DecodeScalar \/ DecodeSeq \/ DecodeMap \/ DecodeEnum
        \/ CloseSeq \/ CloseMap \/ CloseEnum \/ Root

Spec == Init /\ [][Next]_walk /\ WF_walk(Next)
=============================================================================
