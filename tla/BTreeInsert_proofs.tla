------------------------ MODULE BTreeInsert_proofs ------------------------
(***************************************************************************)
(* Nodes, and the trees they make; insert keeps a tree a tree.             *)
(*                                                                         *)
(* In the middle of an operation the pages are several trees: the children *)
(* beside the way to the key, and what has been written in place of the    *)
(* way so far.  Forest says what the pages of L are: trees whose roots are *)
(* R, each page with bounds lo and hi that its keys, and its children's    *)
(* bounds, lie between.  Sound adds that every other page is on the        *)
(* freelist, once, or among D, those displaced and not yet freed.  A page  *)
(* is written, replaced, absorbed by its parent or freed, one step of the  *)
(* code after the other, and Sound holds after each.                       *)
(***************************************************************************)
EXTENDS BTree, NatSetLemmas, SequenceTheorems

-----------------------------------------------------------------------------
(* Bytes of a sequence of keys.                                            *)

Summed(sizes, keys, f) ==
  /\ f[0] = 0
  /\ \A i \in 1 .. Len(keys) : f[i] = f[i - 1] + sizes[keys[i]]

\* The recursive function in Total exists.
LEMMA TotalSummed ==
  ASSUME NEW sizes \in [Keys -> Nat], NEW keys \in Seq(Keys)
  PROVE  \E f : Summed(sizes, keys, f) /\ Total(sizes, keys) = f[Len(keys)]
<1> DEFINE Rec(g, n) == g = [i \in 0 .. n |-> IF i = 0 THEN 0 ELSE g[i - 1] + sizes[keys[i]]]
<1>1. \A n \in Nat : \E g : Rec(g, n)
  <2> DEFINE Bad == {n \in Nat : ~ \E g : Rec(g, n)}
  <2> SUFFICES ASSUME Bad # {} PROVE FALSE
    OBVIOUS
  <2>0. Bad \subseteq Nat
    OBVIOUS
  <2>1. PICK m \in Nat : m \in Bad /\ \A n \in Bad : m <= n
    BY <2>0, LeastNatural
  <2>2. m # 0
    <3> DEFINE g == [i \in 0 .. 0 |-> 0]
    <3>1. Rec(g, 0)
      OBVIOUS
    <3> QED BY <2>1, <3>1
  <2>3. m - 1 \in Nat /\ m - 1 \notin Bad
    <3> HIDE DEF Bad
    <3> QED BY <2>1, <2>2
  <2>4. PICK g : Rec(g, m - 1)
    BY <2>3
  <2> DEFINE h == [i \in 0 .. m |-> IF i < m THEN g[i] ELSE g[m - 1] + sizes[keys[m]]]
  <2>5. Rec(h, m)
    <3>1. ASSUME NEW i \in 0 .. m
          PROVE  h[i] = IF i = 0 THEN 0 ELSE h[i - 1] + sizes[keys[i]]
      BY <2>3, <2>4
    <3> QED BY <3>1, Zenon
  <2> QED BY <2>5, <2>1
<1> HIDE DEF Rec
<1>2. Len(keys) \in Nat
  OBVIOUS
<1> DEFINE f == CHOOSE g : Rec(g, Len(keys))
<1>3. Rec(f, Len(keys))
  BY <1>1, <1>2, Zenon
<1>4. Total(sizes, keys) = f[Len(keys)]
  BY Zenon DEF Total, Rec
<1> HIDE DEF f
<1>5. Summed(sizes, keys, f)
  BY <1>3, SMTT(60) DEF Rec, Summed
<1> QED BY <1>4, <1>5

Starts(u, s) == Len(s) <= Len(u) /\ \A i \in 1 .. Len(s) : u[i] = s[i]
Joined(u, s, t) ==
  /\ Len(u) = Len(s) + Len(t)
  /\ \A i \in 1 .. Len(s) : u[i] = s[i]
  /\ \A i \in 1 .. Len(t) : u[Len(s) + i] = t[i]

\* A prefix has the same sum.
LEMMA SumsAgree ==
  ASSUME NEW sizes \in [Keys -> Nat], NEW s \in Seq(Keys), NEW t \in Seq(Keys),
         Starts(t, s), NEW f, Summed(sizes, s, f), NEW g, Summed(sizes, t, g)
  PROVE  g[Len(s)] = f[Len(s)]
<1> DEFINE Bad == {i \in 0 .. Len(s) : g[i] # f[i]}
<1>a. Len(s) \in 0 .. Len(s)
  OBVIOUS
<1> SUFFICES ASSUME Bad # {} PROVE FALSE
  BY <1>a
<1>0. Bad \subseteq Nat
  OBVIOUS
<1>1. PICK m \in 0 .. Len(s) : m \in Bad /\ \A i \in Bad : m <= i
  BY <1>0, LeastNatural
<1>2. m # 0
  BY <1>1 DEF Summed
<1>3. m - 1 \in 0 .. Len(s) /\ m - 1 \notin Bad /\ m \in 1 .. Len(s) /\ m \in 1 .. Len(t)
  BY <1>1, <1>2 DEF Starts
<1>4. f[m] = f[m - 1] + sizes[s[m]] /\ g[m] = g[m - 1] + sizes[t[m]] /\ t[m] = s[m]
  BY <1>3 DEF Summed, Starts
<1> QED BY <1>1, <1>3, <1>4

\* Every partial sum is a natural.
LEMMA SummedNat ==
  ASSUME NEW sizes \in [Keys -> Nat], NEW s \in Seq(Keys), NEW f, Summed(sizes, s, f),
         NEW n \in 0 .. Len(s)
  PROVE  f[n] \in Nat
<1> DEFINE Bad == {i \in 0 .. n : f[i] \notin Nat}
<1>a. n \in Nat /\ n <= Len(s) /\ n \in 0 .. n
  OBVIOUS
<1> SUFFICES ASSUME Bad # {} PROVE FALSE
  BY <1>a
<1>0. Bad \subseteq Nat
  OBVIOUS
<1>1. PICK m \in 0 .. n : m \in Bad /\ \A i \in Bad : m <= i
  BY <1>0, LeastNatural
<1>2. m # 0
  BY <1>1 DEF Summed
<1>3. m - 1 \in 0 .. n /\ m - 1 \notin Bad /\ m \in 1 .. Len(s)
  BY <1>1, <1>2
<1>4. f[m] = f[m - 1] + sizes[s[m]] /\ sizes[s[m]] \in Nat
  BY <1>3 DEF Summed
<1> QED BY <1>1, <1>3, <1>4

\* Bytes are a natural.
LEMMA TotalNat ==
  ASSUME NEW sizes \in [Keys -> Nat], NEW keys \in Seq(Keys)
  PROVE  Total(sizes, keys) \in Nat
BY TotalSummed, SummedNat

\* No keys take no bytes.
LEMMA TotalEmpty ==
  ASSUME NEW sizes \in [Keys -> Nat]
  PROVE  Total(sizes, <<>>) = 0
<1>1. <<>> \in Seq(Keys) /\ Len(<<>>) = 0
  OBVIOUS
<1> QED BY <1>1, TotalSummed DEF Summed

\* Bytes add up: u is s followed by t.
LEMMA TotalOfParts ==
  ASSUME NEW sizes \in [Keys -> Nat], NEW s \in Seq(Keys), NEW t \in Seq(Keys),
         NEW u \in Seq(Keys), Joined(u, s, t)
  PROVE  Total(sizes, u) = Total(sizes, s) + Total(sizes, t)
<1>1. PICK n \in Nat : n = Len(s)
  OBVIOUS
<1>2. PICK f : Summed(sizes, s, f) /\ Total(sizes, s) = f[n]
  BY <1>1, TotalSummed
<1>3. PICK g : Summed(sizes, t, g) /\ Total(sizes, t) = g[Len(t)]
  BY TotalSummed
<1>4. PICK h : Summed(sizes, u, h) /\ Total(sizes, u) = h[Len(u)]
  BY TotalSummed
<1>5. h[n] = f[n]
  <2>1. Starts(u, s)
    BY DEF Joined, Starts
  <2>2. Summed(sizes, s, f) /\ Summed(sizes, u, h)
    BY <1>2, <1>4
  <2>3. h[Len(s)] = f[Len(s)]
    BY <2>1, <2>2, SumsAgree
  <2> QED BY <2>3, <1>1
<1>6. f[n] \in Nat
  <2>1. n \in 0 .. Len(s) /\ Summed(sizes, s, f)
    BY <1>1, <1>2
  <2> QED BY <2>1, SummedNat
<1> DEFINE Bad == {i \in 0 .. Len(t) : h[n + i] # f[n] + g[i]}
<1>7. Bad = {}
  <2> SUFFICES ASSUME Bad # {} PROVE FALSE
    OBVIOUS
  <2>a. Bad \subseteq Nat
    OBVIOUS
  <2>1. PICK m \in 0 .. Len(t) : m \in Bad /\ \A i \in Bad : m <= i
    BY <2>a, LeastNatural
  <2>2. m # 0
    BY <1>6, <2>1, <1>3, <1>5 DEF Summed
  <2>3. m - 1 \in 0 .. Len(t) /\ m - 1 \notin Bad /\ m \in 1 .. Len(t) /\ n + m \in 1 .. Len(u)
    <3>1. Len(t) \in Nat /\ Len(u) = n + Len(t)
      BY <1>1 DEF Joined
    <3> HIDE DEF Bad
    <3>2. m \in Nat /\ 1 <= m /\ m <= Len(t)
      BY <2>1, <2>2, <3>1
    <3>3. m - 1 \in 0 .. Len(t) /\ m \in 1 .. Len(t) /\ n + m \in 1 .. Len(u) /\ ~ (m <= m - 1)
      BY <3>1, <3>2
    <3> QED BY <3>3, <2>1, Zenon
  <2>4. h[n + m] = h[n + (m - 1)] + sizes[t[m]]
    <3>1. \A i \in 1 .. Len(u) : h[i] = h[i - 1] + sizes[u[i]]
      BY <1>4, Zenon DEF Summed
    <3>2. n + m - 1 = n + (m - 1)
      BY <2>3
    <3>3. u[n + m] = t[m]
      BY <2>3, <1>1, Zenon DEF Joined
    <3>4. h[n + m] = h[n + m - 1] + sizes[u[n + m]]
      BY <2>3, <3>1
    <3> QED BY <3>2, <3>3, <3>4, Zenon
  <2>5. g[m] = g[m - 1] + sizes[t[m]]
    BY <2>3, <1>3 DEF Summed
  <2>6. g[m - 1] \in Nat /\ sizes[t[m]] \in Nat
    <3>1. t[m] \in Keys
      BY <2>3
    <3>2. g[m - 1] \in Nat
      BY <2>3, <1>3, SummedNat
    <3> QED BY <3>1, <3>2
  <2>7. h[n + (m - 1)] = f[n] + g[m - 1]
    BY <2>3
  <2>8. h[n + m] # f[n] + g[m]
    BY <2>1
  <2> HIDE DEF Bad
  <2>9. PICK z \in Nat : z = sizes[t[m]]
    BY <2>6
  <2>10. h[n + m] = (f[n] + g[m - 1]) + z /\ g[m] = g[m - 1] + z
    BY <2>4, <2>5, <2>7, <2>9
  <2>11. f[n] \in Nat /\ g[m-1] \in Nat
    BY <1>6, <2>6
  <2> QED BY <2>11, <2>8, <2>10, SMTT(20)
<1>8. h[n + Len(t)] = f[n] + g[Len(t)]
  <2>1. Len(t) \in 0 .. Len(t) /\ Len(t) \notin Bad
    <3> HIDE DEF Bad
    <3> QED BY <1>7
  <2> QED BY <2>1
<1>9. Len(u) = n + Len(t)
  BY <1>1 DEF Joined
<1> QED BY <1>2, <1>3, <1>4, <1>8, <1>9

\* The bytes of two runs of keys add up.
LEMMA TotalConcat ==
  ASSUME NEW sizes \in [Keys -> Nat], NEW s \in Seq(Keys), NEW t \in Seq(Keys)
  PROVE  Total(sizes, s \o t) = Total(sizes, s) + Total(sizes, t)
<1>1. s \o t \in Seq(Keys) /\ Joined(s \o t, s, t)
  BY ConcatProperties DEF Joined
<1> QED BY <1>1, TotalOfParts

\* One key's bytes.
LEMMA TotalOne ==
  ASSUME NEW sizes \in [Keys -> Nat], NEW k \in Keys
  PROVE  Total(sizes, <<k>>) = sizes[k]
<1>1. <<k>> \in Seq(Keys) /\ Len(<<k>>) = 1 /\ <<k>>[1] = k
  OBVIOUS
<1>2. PICK f : Summed(sizes, <<k>>, f) /\ Total(sizes, <<k>>) = f[1]
  BY <1>1, TotalSummed
<1> QED BY <1>1, <1>2 DEF Summed

-----------------------------------------------------------------------------
Node == [level : Nat, keys : Seq(Nat), kids : Seq(Nat)]
Increasing(s) == \A i, j \in DOMAIN s : i < j => s[i] < s[j]

Shaped(n) ==
  /\ n \in Node /\ n.keys \in Seq(Keys) /\ Increasing(n.keys)
  /\ Len(n.kids) = IF IsLeaf(n) THEN 0 ELSE Len(n.keys) + 1

(* The keys below n are between a and b, b excluded; its i-th child's are  *)
(* between KidLow and KidHigh.                                             *)
Spans(n, a, b) ==
  /\ a < b
  /\ \A i \in DOMAIN n.keys : /\ a <= n.keys[i] /\ n.keys[i] < b
                              /\ ~ IsLeaf(n) => a < n.keys[i]
KidLow(n, i, a) == IF i = 1 THEN a ELSE n.keys[i - 1]
KidHigh(n, i, b) == IF i = Len(n.kids) THEN b ELSE n.keys[i]

Bears(P, R, lo, hi, n, a, b) ==
  \A i \in DOMAIN n.kids :
    /\ n.kids[i] \in R /\ P[n.kids[i]].level + 1 = n.level
    /\ lo[n.kids[i]] = KidLow(n, i, a) /\ hi[n.kids[i]] = KidHigh(n, i, b)

Ready(P, R, lo, hi, n, a, b) ==
  Shaped(n) /\ Spans(n, a, b) /\ Bears(P, R, lo, hi, n, a, b)

OneParent(P, L) ==
  \A x, y \in L : \A i \in DOMAIN P[x].kids, j \in DOMAIN P[y].kids :
    P[x].kids[i] = P[y].kids[j] => x = y /\ i = j

(* Trees whose roots are R and whose pages are L.                          *)
Forest(P, L, R, lo, hi) ==
  /\ L \subseteq DOMAIN P /\ R \subseteq L /\ lo \in [Nat -> Nat] /\ hi \in [Nat -> Nat]
  /\ \A id \in L : /\ Ready(P, L \ R, lo, hi, P[id], lo[id], hi[id])
                   /\ Occupied(P[id]) <= Capacity
  /\ OneParent(P, L)
  /\ \A id \in L \ R : \E p \in L : id \in ToSet(P[p].kids)

WorkType == [pages : Seq(Node), free : Seq(Nat), ids : Seq(Nat), keys : Seq(Nat), freed : Seq(Nat)]

(* The pages are those of the forest, the freelist's, and D: those taken   *)
(* out of the tree and not yet freed.                                      *)
Accounted(P, free, L, D) ==
  /\ IsInjective(free)
  /\ L \cap ToSet(free) = {} /\ D \cap ToSet(free) = {} /\ L \cap D = {}
  /\ DOMAIN P = L \union D \union ToSet(free)
  /\ \A id \in ToSet(free) : P[id] = Freed

Sound(w, L, R, lo, hi, D) ==
  w \in WorkType /\ Forest(w.pages, L, R, lo, hi) /\ Accounted(w.pages, w.free, L, D)

Held(P, L) == {k \in Keys : \E id \in L : IsLeaf(P[id]) /\ k \in ToSet(P[id].keys)}

-----------------------------------------------------------------------------

\* The fields of a well-shaped node.
LEMMA NodeFacts ==
  ASSUME NEW n, Shaped(n)
  PROVE  /\ n \in Node /\ n.level \in Nat /\ n.keys \in Seq(Keys) /\ n.kids \in Seq(Nat)
         /\ n.keys \in Seq(Nat)
         /\ DOMAIN n.keys = 1 .. Len(n.keys) /\ DOMAIN n.kids = 1 .. Len(n.kids)
         /\ Len(n.keys) \in Nat /\ Len(n.kids) \in Nat
         /\ \A i \in DOMAIN n.keys : n.keys[i] \in Keys /\ n.keys[i] \in Nat /\ n.keys[i] > 0
         /\ \A i \in DOMAIN n.kids : n.kids[i] \in Nat
<1>1. n \in Node /\ n.keys \in Seq(Keys) /\ n.level \in Nat /\ n.kids \in Seq(Nat) /\ n.keys \in Seq(Nat)
  BY DEF Shaped, Node
<1>2. Keys \subseteq Nat /\ \A k \in Keys : k > 0
  BY SizesAssumption
<1>3. \A i \in DOMAIN n.keys : n.keys[i] \in Keys
  BY <1>1
<1>4. \A i \in DOMAIN n.kids : n.kids[i] \in Nat
  BY <1>1
<1>5. DOMAIN n.keys = 1 .. Len(n.keys) /\ DOMAIN n.kids = 1 .. Len(n.kids)
      /\ Len(n.keys) \in Nat /\ Len(n.kids) \in Nat
  BY <1>1
<1> QED BY <1>1, <1>2, <1>3, <1>4, <1>5

\* A root that is taken out leaves its children as roots.
LEMMA Uproot ==
  ASSUME NEW P, NEW L, NEW R, NEW lo, NEW hi, Forest(P, L, R, lo, hi), NEW r \in R
  PROVE  Forest(P, L \ {r}, (R \ {r}) \union ToSet(P[r].kids), lo, hi)
<1> DEFINE L2 == L \ {r}
           R2 == (R \ {r}) \union ToSet(P[r].kids)
<1>0. r \in L /\ L \subseteq DOMAIN P /\ R \subseteq L /\ lo \in [Nat -> Nat] /\ hi \in [Nat -> Nat]
      /\ OneParent(P, L)
  BY DEF Forest
<1>1. \A id \in L : \A i \in DOMAIN P[id].kids : P[id].kids[i] \in L \ R
  BY DEF Forest, Ready, Bears
<1>2. ToSet(P[r].kids) \subseteq L \ R
  BY <1>0, <1>1 DEF ToSet
<1>3. ASSUME NEW id \in L2, NEW i \in DOMAIN P[id].kids
      PROVE  P[id].kids[i] \in L2 \ R2
  <2>1. P[id].kids[i] \in L \ R /\ id # r /\ id \in L
    BY <1>1
  <2>2. P[id].kids[i] \notin ToSet(P[r].kids)
    BY <2>1, <1>0 DEF OneParent, ToSet
  <2> QED BY <2>1, <2>2, <1>0
<1>4. ASSUME NEW id \in L2
      PROVE  Ready(P, L2 \ R2, lo, hi, P[id], lo[id], hi[id]) /\ Occupied(P[id]) <= Capacity
  <2>1. Ready(P, L \ R, lo, hi, P[id], lo[id], hi[id]) /\ Occupied(P[id]) <= Capacity
    BY DEF Forest
  <2>2. Bears(P, L2 \ R2, lo, hi, P[id], lo[id], hi[id])
    BY <2>1, <1>3 DEF Ready, Bears
  <2> QED BY <2>1, <2>2 DEF Ready
<1>5. ASSUME NEW id \in L2 \ R2
      PROVE  \E p \in L2 : id \in ToSet(P[p].kids)
  <2>1. id \in L \ R /\ id \notin ToSet(P[r].kids)
    BY <1>0
  <2>2. PICK p \in L : id \in ToSet(P[p].kids)
    BY <2>1 DEF Forest
  <2> QED BY <2>1, <2>2
<1>6. OneParent(P, L2)
  BY <1>0 DEF OneParent
<1>7. L2 \subseteq DOMAIN P /\ R2 \subseteq L2
  BY <1>0, <1>2
<1> HIDE DEF L2, R2
<1>8. Forest(P, L2, R2, lo, hi)
  BY <1>0, <1>4, <1>5, <1>6, <1>7 DEF Forest
<1> QED BY <1>8 DEF L2, R2

\* The children of a node that is ready are different pages.
LEMMA KidsDiffer ==
  ASSUME NEW P, NEW R, NEW lo, NEW hi, NEW n, NEW a \in Nat, NEW b \in Nat,
         Ready(P, R, lo, hi, n, a, b)
  PROVE  IsInjective(n.kids)
<1> SUFFICES ASSUME NEW i \in DOMAIN n.kids, NEW j \in DOMAIN n.kids, n.kids[i] = n.kids[j]
             PROVE  i = j
  BY DEF IsInjective
<1>1. Shaped(n) /\ Spans(n, a, b) /\ Bears(P, R, lo, hi, n, a, b)
  BY DEF Ready
<1>2. KidLow(n, i, a) = KidLow(n, j, a)
  BY <1>1 DEF Bears
<1>3. ~ IsLeaf(n) /\ Len(n.kids) = Len(n.keys) + 1 /\ i \in 1 .. Len(n.kids) /\ j \in 1 .. Len(n.kids)
      /\ Len(n.keys) \in Nat /\ DOMAIN n.keys = 1 .. Len(n.keys)
  BY <1>1, NodeFacts, SMTT(60) DEF Shaped
<1>4. \A x \in 1 .. Len(n.kids) : x # 1 => x - 1 \in DOMAIN n.keys /\ a < n.keys[x - 1] /\ n.keys[x - 1] \in Nat
  <2>1. \A x \in DOMAIN n.keys : a < n.keys[x] /\ n.keys[x] \in Nat
    BY <1>1, <1>3, NodeFacts DEF Spans
  <2>2. \A x \in 1 .. Len(n.kids) : x # 1 => x - 1 \in DOMAIN n.keys
    BY <1>3
  <2> QED BY <2>1, <2>2
<1>5. CASE i = 1 \/ j = 1
  BY <1>2, <1>3, <1>4, <1>5 DEF KidLow
<1>6. CASE i # 1 /\ j # 1
  <2>1. n.keys[i - 1] = n.keys[j - 1] /\ i - 1 \in DOMAIN n.keys /\ j - 1 \in DOMAIN n.keys
    BY <1>2, <1>3, <1>4, <1>6 DEF KidLow
  <2>2. Increasing(n.keys) /\ i - 1 \in Nat /\ j - 1 \in Nat /\ n.keys[i - 1] \in Nat
    <3>1. Increasing(n.keys)
      BY <1>1, <1>3 DEF Shaped
    <3>2. i - 1 \in Nat /\ j - 1 \in Nat
      BY <1>3, <1>6
    <3>3. n.keys[i - 1] \in Nat
      BY <1>3, <1>4, <1>6
    <3> QED BY <3>1, <3>2, <3>3
  <2>3. ~ (i - 1 < j - 1) /\ ~ (j - 1 < i - 1)
    BY <2>1, <2>2 DEF Increasing
  <2> QED BY <2>2, <2>3, <1>3
<1> QED BY <1>5, <1>6

\* A node whose children are roots takes them under itself.
LEMMA Plant ==
  ASSUME NEW P, NEW L, NEW R, NEW lo, NEW hi, Forest(P, L, R, lo, hi),
         NEW n, NEW a \in Nat, NEW b \in Nat, Ready(P, R, lo, hi, n, a, b),
         Occupied(n) <= Capacity,
         NEW Q, NEW id \in Nat, id \notin L, id \in DOMAIN Q, L \subseteq DOMAIN Q,
         Q[id] = n, \A x \in L : Q[x] = P[x]
  PROVE  Forest(Q, L \union {id}, (R \ ToSet(n.kids)) \union {id},
                [lo EXCEPT ![id] = a], [hi EXCEPT ![id] = b])
<1>a. IsInjective(n.kids)
  BY KidsDiffer
<1> DEFINE L2 == L \union {id}
           R2 == (R \ ToSet(n.kids)) \union {id}
           lo2 == [lo EXCEPT ![id] = a]
           hi2 == [hi EXCEPT ![id] = b]
<1>0. R \subseteq L /\ lo \in [Nat -> Nat] /\ hi \in [Nat -> Nat]
      /\ OneParent(P, L)
  BY DEF Forest
<1>1. lo2 \in [Nat -> Nat] /\ hi2 \in [Nat -> Nat] /\ lo2[id] = a /\ hi2[id] = b
      /\ \A x \in L : lo2[x] = lo[x] /\ hi2[x] = hi[x]
  BY <1>0
<1> HIDE DEF lo2, hi2
<1>2. \A x \in L : \A i \in DOMAIN P[x].kids : P[x].kids[i] \in L \ R
  BY DEF Forest, Ready, Bears
<1>3. \A i \in DOMAIN n.kids : n.kids[i] \in R
  BY DEF Ready, Bears
<1>4. ToSet(n.kids) \subseteq R
  BY <1>3 DEF ToSet
<1>5. ASSUME NEW x \in L
      PROVE  Ready(Q, L2 \ R2, lo2, hi2, Q[x], lo2[x], hi2[x]) /\ Occupied(Q[x]) <= Capacity
  <2>1. Ready(P, L \ R, lo, hi, P[x], lo[x], hi[x]) /\ Occupied(P[x]) <= Capacity
    BY DEF Forest
  <2>2. Q[x] = P[x] /\ lo2[x] = lo[x] /\ hi2[x] = hi[x]
    BY <1>1
  <2>3. \A i \in DOMAIN P[x].kids : LET k == P[x].kids[i] IN
          k \in L2 \ R2 /\ Q[k] = P[k] /\ lo2[k] = lo[k] /\ hi2[k] = hi[k]
    BY <1>1, <1>2
  <2>4. Bears(Q, L2 \ R2, lo2, hi2, P[x], lo[x], hi[x])
    BY <2>1, <2>3 DEF Ready, Bears
  <2> QED BY <2>1, <2>2, <2>4 DEF Ready
<1>6. Ready(Q, L2 \ R2, lo2, hi2, n, a, b)
  <2>1. \A i \in DOMAIN n.kids : LET k == n.kids[i] IN
          k \in L2 \ R2 /\ Q[k] = P[k] /\ lo2[k] = lo[k] /\ hi2[k] = hi[k]
    BY <1>0, <1>1, <1>3 DEF ToSet
  <2>2. Bears(Q, L2 \ R2, lo2, hi2, n, a, b)
    BY <2>1 DEF Ready, Bears
  <2> QED BY <2>2 DEF Ready
<1>7. OneParent(Q, L2)
  <2> SUFFICES ASSUME NEW x \in L2, NEW y \in L2, NEW i \in DOMAIN Q[x].kids,
                      NEW j \in DOMAIN Q[y].kids, Q[x].kids[i] = Q[y].kids[j]
               PROVE  x = y /\ i = j
    BY DEF OneParent
  <2>1. CASE x = id /\ y = id
    <3>1. i \in DOMAIN n.kids /\ j \in DOMAIN n.kids /\ n.kids[i] = n.kids[j]
      BY <2>1
    <3> QED BY <2>1, <3>1, <1>a DEF IsInjective
  <2>2. CASE x = id /\ y # id
    BY <2>2, <1>2, <1>3
  <2>3. CASE x # id /\ y = id
    BY <2>3, <1>2, <1>3
  <2>4. CASE x # id /\ y # id
    BY <2>4, <1>0 DEF OneParent
  <2> QED BY <2>1, <2>2, <2>3, <2>4
<1>8. ASSUME NEW x \in L2 \ R2
      PROVE  \E p \in L2 : x \in ToSet(Q[p].kids)
  <2>1. CASE x \in ToSet(n.kids)
    BY <2>1
  <2>2. CASE x \notin ToSet(n.kids)
    <3>1. x \in L \ R
      BY <2>2
    <3>2. PICK p \in L : x \in ToSet(P[p].kids)
      BY <3>1 DEF Forest
    <3> QED BY <3>2
  <2> QED BY <2>1, <2>2
<1>9. L2 \subseteq DOMAIN Q /\ R2 \subseteq L2
  BY <1>0
<1>10. ASSUME NEW x \in L2
       PROVE  Ready(Q, L2 \ R2, lo2, hi2, Q[x], lo2[x], hi2[x]) /\ Occupied(Q[x]) <= Capacity
  BY <1>1, <1>5, <1>6
<1> HIDE DEF L2, R2
<1>11. Forest(Q, L2, R2, lo2, hi2)
  BY <1>1, <1>7, <1>8, <1>9, <1>10 DEF Forest
<1> QED BY <1>11 DEF L2, R2, lo2, hi2

FreshId(w) == IF w.free = <<>> THEN Len(w.pages) + 1 ELSE Head(w.free)

(* Keeps: the pages of S are as they were.                                 *)
Same(P, Q, S) == \A x \in S : Q[x] = P[x]

\* write_new_node takes a page that is in no tree.
LEMMA PutFacts ==
  ASSUME NEW w \in WorkType, NEW L, NEW D, Accounted(w.pages, w.free, L, D), NEW n \in Node
  PROVE  LET id == FreshId(w)  v == Put(w, n) IN
         /\ v \in WorkType /\ id \in Nat /\ id \notin L /\ id \notin D
         /\ id \in DOMAIN v.pages /\ DOMAIN w.pages \subseteq DOMAIN v.pages
         /\ v.pages[id] = n /\ Same(w.pages, v.pages, L \union D)
         /\ Accounted(v.pages, v.free, L \union {id}, D)
         /\ v.ids = Append(w.ids, id) /\ v.keys = w.keys /\ v.freed = w.freed
<1> DEFINE id == FreshId(w)
           v == Put(w, n)
<1>0. /\ w.pages \in Seq(Node) /\ w.free \in Seq(Nat) /\ w.ids \in Seq(Nat)
      /\ w.keys \in Seq(Nat) /\ w.freed \in Seq(Nat)
      /\ DOMAIN w.pages = 1 .. Len(w.pages) /\ Len(w.pages) \in Nat
  BY DEF WorkType
<1>1. CASE w.free = <<>>
  <2>1. id = Len(w.pages) + 1 /\ id \in Nat /\ id \notin DOMAIN w.pages
    BY <1>0, <1>1 DEF FreshId
  <2>2. v = [w EXCEPT !.pages = Append(@, n), !.ids = Append(@, id)]
    BY <1>1, <2>1 DEF Put
  <2>3. v.pages = Append(w.pages, n) /\ v.free = w.free /\ v.ids = Append(w.ids, id)
        /\ v.keys = w.keys /\ v.freed = w.freed
    BY <2>2 DEF WorkType
  <2>a. v.pages \in Seq(Node) /\ v.ids \in Seq(Nat)
    BY <2>1, <2>3, <1>0
  <2>4. v.pages \in Seq(Node) /\ v.ids \in Seq(Nat) /\ v \in WorkType
    <3> HIDE DEF v, id
    <3> QED BY <2>a, <2>2, <2>3 DEF WorkType
  <2>5. /\ DOMAIN v.pages = DOMAIN w.pages \union {id} /\ v.pages[id] = n
        /\ \A x \in DOMAIN w.pages : v.pages[x] = w.pages[x]
    BY <2>1, <2>3, <1>0
  <2> HIDE DEF v, id
  <2>6. Accounted(v.pages, v.free, L \union {id}, D)
    BY <2>1, <2>3, <2>5 DEF Accounted
  <2>7. id \notin L /\ id \notin D /\ L \union D \subseteq DOMAIN w.pages
    BY <2>1 DEF Accounted
  <2> QED BY <2>1, <2>3, <2>4, <2>5, <2>6, <2>7 DEF v, id, Same
<1>2. CASE w.free # <<>>
  <2>1. id = Head(w.free) /\ id \in Nat /\ 1 \in DOMAIN w.free /\ id = w.free[1]
    BY <1>0, <1>2 DEF FreshId
  <2>a. id \in ToSet(w.free)
    BY <2>1 DEF ToSet
  <2>b. id \in DOMAIN w.pages /\ id \notin L /\ id \notin D
    BY <2>a DEF Accounted
  <2>2. v = [w EXCEPT !.pages[id] = n, !.free = Tail(@), !.ids = Append(@, id)]
    BY <1>2, <2>1 DEF Put
  <2> HIDE DEF v, id
  <2>3. v.pages = [w.pages EXCEPT ![id] = n] /\ v.free = Tail(w.free) /\ v.ids = Append(w.ids, id)
        /\ v.keys = w.keys /\ v.freed = w.freed
    BY <2>2 DEF WorkType
  <2>4. v.pages \in Seq(Node) /\ v.ids \in Seq(Nat) /\ v.free \in Seq(Nat)
    BY <2>1, <2>3, <1>0, <1>2, <2>b
  <2>c. v \in WorkType
    BY <2>2, <2>3, <2>4 DEF WorkType
  <2>5. /\ DOMAIN v.pages = DOMAIN w.pages /\ v.pages[id] = n
        /\ \A x \in DOMAIN w.pages \ {id} : v.pages[x] = w.pages[x]
    BY <2>1, <2>3, <1>0, <2>b
  <2>6. /\ DOMAIN w.free = 1 .. Len(w.free) /\ Len(w.free) \in Nat
        /\ DOMAIN v.free = 1 .. Len(w.free) - 1
        /\ \A i \in DOMAIN v.free : v.free[i] = w.free[i + 1]
    BY <2>3, <1>0, <1>2
  <2>7. IsInjective(w.free)
    BY DEF Accounted
  <2>8. IsInjective(v.free)
    <3>1. \A i \in DOMAIN v.free : i + 1 \in DOMAIN w.free /\ i \in Nat
      BY <2>6
    <3>2. ASSUME NEW i \in DOMAIN v.free, NEW j \in DOMAIN v.free, v.free[i] = v.free[j]
          PROVE  i = j
      <4>1. i + 1 = j + 1
        BY <2>6, <2>7, <3>1, <3>2 DEF IsInjective
      <4> QED BY <3>1, <4>1
    <3> QED BY <3>2 DEF IsInjective
  <2>9. ToSet(v.free) = ToSet(w.free) \ {id}
    <3>1. ASSUME NEW x \in ToSet(v.free) PROVE x \in ToSet(w.free) /\ x # id
      <4>1. PICK i \in DOMAIN v.free : x = v.free[i]
        BY DEF ToSet
      <4>2. i + 1 \in DOMAIN w.free /\ x = w.free[i + 1] /\ i + 1 # 1
        BY <4>1, <2>6
      <4> QED BY <4>2, <2>7, <2>1 DEF ToSet, IsInjective
    <3>2. ASSUME NEW x \in ToSet(w.free), x # id PROVE x \in ToSet(v.free)
      <4>1. PICK i \in DOMAIN w.free : x = w.free[i]
        BY DEF ToSet
      <4>2. i # 1
        BY <4>1, <3>2, <2>1
      <4>3. i - 1 \in DOMAIN v.free /\ (i - 1) + 1 = i
        BY <4>2, <2>6
      <4>4. v.free[i - 1] = x
        BY <4>1, <4>3, <2>6
      <4> QED BY <4>3, <4>4 DEF ToSet
    <3> QED BY <3>1, <3>2
  <2>10. Accounted(v.pages, v.free, L \union {id}, D)
    BY <2>5, <2>8, <2>9, <2>a, <2>b DEF Accounted
  <2>11. L \union D \subseteq DOMAIN w.pages
    BY DEF Accounted
  <2> QED BY <2>1, <2>3, <2>b, <2>c, <2>5, <2>10, <2>11 DEF v, id, Same
<1> QED BY <1>1, <1>2

HoldsAlso(P, Q, L, id) ==
  Held(Q, L \union {id})
    = Held(P, L) \union (IF IsLeaf(Q[id]) THEN ToSet(Q[id].keys) ELSE {})

\* What is held, with one node more.
LEMMA HeldWith ==
  ASSUME NEW P, NEW Q, NEW L, NEW id, Same(P, Q, L),
         ToSet(Q[id].keys) \subseteq Keys
  PROVE  HoldsAlso(P, Q, L, id)
BY DEF Held, Same, HoldsAlso

Planted(w, v, L, R, lo, hi, D, n, a, b, id) ==
  /\ id \in Nat /\ id \notin L /\ id \notin D
  /\ Sound(v, L \union {id}, (R \ ToSet(n.kids)) \union {id},
           [lo EXCEPT ![id] = a], [hi EXCEPT ![id] = b], D)
  /\ v.pages[id] = n /\ Same(w.pages, v.pages, L \union D)
  /\ v.ids = Append(w.ids, id) /\ v.keys = w.keys /\ v.freed = w.freed
  /\ Held(v.pages, L \union {id})
       = Held(w.pages, L) \union (IF IsLeaf(n) THEN ToSet(n.keys) ELSE {})

\* A node that is ready and fits, written to a new page, becomes a root.
LEMMA PutSound ==
  ASSUME NEW w, NEW L, NEW R, NEW lo, NEW hi, NEW D, Sound(w, L, R, lo, hi, D),
         NEW n, NEW a \in Nat, NEW b \in Nat, Ready(w.pages, R, lo, hi, n, a, b),
         Occupied(n) <= Capacity
  PROVE  Planted(w, Put(w, n), L, R, lo, hi, D, n, a, b, FreshId(w))
<1> DEFINE id == FreshId(w)
           v == Put(w, n)
<1>1. w \in WorkType /\ Forest(w.pages, L, R, lo, hi) /\ Accounted(w.pages, w.free, L, D)
  BY DEF Sound
<1>2. n \in Node /\ n.keys \in Seq(Keys)
  BY DEF Ready, Shaped
<1>3. /\ v \in WorkType /\ id \in Nat /\ id \notin L /\ id \notin D
      /\ id \in DOMAIN v.pages /\ DOMAIN w.pages \subseteq DOMAIN v.pages
      /\ v.pages[id] = n /\ Same(w.pages, v.pages, L \union D)
      /\ Accounted(v.pages, v.free, L \union {id}, D)
      /\ v.ids = Append(w.ids, id) /\ v.keys = w.keys /\ v.freed = w.freed
  BY <1>1, <1>2, PutFacts
<1> HIDE DEF id, v
<1>4. L \subseteq DOMAIN v.pages /\ \A x \in L : v.pages[x] = w.pages[x]
  BY <1>1, <1>3 DEF Forest, Same
<1>5. Forest(v.pages, L \union {id}, (R \ ToSet(n.kids)) \union {id},
             [lo EXCEPT ![id] = a], [hi EXCEPT ![id] = b])
  BY <1>1, <1>3, <1>4, Plant
<1>6. Same(w.pages, v.pages, L) /\ ToSet(n.keys) \subseteq Keys
  BY <1>2, <1>3 DEF Same, ToSet
<1>7. Held(v.pages, L \union {id})
        = Held(w.pages, L) \union (IF IsLeaf(n) THEN ToSet(n.keys) ELSE {})
  <2>1. ToSet(v.pages[id].keys) \subseteq Keys
    BY <1>3, <1>6
  <2>2. HoldsAlso(w.pages, v.pages, L, id)
    BY <2>1, <1>6, HeldWith
  <2> QED BY <2>2, <1>3 DEF HoldsAlso
<1>8. Planted(w, v, L, R, lo, hi, D, n, a, b, id)
  BY <1>3, <1>5, <1>7 DEF Planted, Sound
<1> QED BY <1>8 DEF id, v

-----------------------------------------------------------------------------
(* Sequences, element by element.                                          *)

(* u is s with its elements i to j - 1 replaced by t.                      *)
IsSplice(u, s, i, t, j) ==
  /\ Len(u) = (i - 1) + Len(t) + (Len(s) - j + 1)
  /\ \A x \in 1 .. i - 1 : u[x] = s[x]
  /\ \A x \in 1 .. Len(t) : u[i - 1 + x] = t[x]
  /\ \A x \in j .. Len(s) : u[i - 1 + Len(t) + (x - j + 1)] = s[x]

\* A run of a sequence, element by element.
LEMMA SubSeqIs ==
  ASSUME NEW S, NEW s \in Seq(S), NEW m \in Nat, NEW n \in Nat, m >= 1, n <= Len(s), m <= n + 1
  PROVE  /\ SubSeq(s, m, n) \in Seq(S) /\ Len(SubSeq(s, m, n)) = n - m + 1
         /\ \A x \in 1 .. n - m + 1 : SubSeq(s, m, n)[x] = s[m + x - 1]
<1>1. \A x \in m .. n : s[x] \in S
  <2>1. ASSUME NEW x \in m .. n PROVE s[x] \in S
    <3>1. x \in 1 .. Len(s)
      BY SMT
    <3> QED BY <3>1, ElementOfSeq
  <2> QED BY <2>1
<1>2. m \in Int /\ n \in Int
  OBVIOUS
<1> QED BY <1>1, <1>2, SubSeqProperties

\* A sequence with a part replaced, as Absorbed writes it.
LEMMA SpliceIs ==
  ASSUME NEW S, NEW s \in Seq(S), NEW t \in Seq(S), NEW i \in Nat, NEW j \in Nat,
         1 <= i, i <= j, j <= Len(s) + 1
  PROVE  LET u == SubSeq(s, 1, i - 1) \o t \o SubSeq(s, j, Len(s))
         IN  u \in Seq(S) /\ IsSplice(u, s, i, t, j)
<1> DEFINE p == SubSeq(s, 1, i - 1)
           q == SubSeq(s, j, Len(s))
           u == p \o t \o q
<1>0. Len(s) \in Nat /\ i - 1 \in Nat /\ i - 1 <= Len(s) /\ Len(t) \in Nat
  OBVIOUS
<1>1. p \in Seq(S) /\ Len(p) = i - 1 /\ \A x \in 1 .. i - 1 : p[x] = s[x]
  <2>1. /\ SubSeq(s, 1, i - 1) \in Seq(S) /\ Len(SubSeq(s, 1, i - 1)) = (i - 1) - 1 + 1
        /\ \A x \in 1 .. (i - 1) - 1 + 1 : SubSeq(s, 1, i - 1)[x] = s[1 + x - 1]
    BY <1>0, SubSeqIs
  <2>2. (i - 1) - 1 + 1 = i - 1 /\ \A x \in 1 .. i - 1 : 1 + x - 1 = x
    BY <1>0
  <2> QED BY <2>1, <2>2
<1>2. /\ q \in Seq(S) /\ Len(q) = Len(s) - j + 1
      /\ \A x \in 1 .. Len(s) - j + 1 : q[x] = s[j + x - 1]
  BY <1>0, SubSeqIs
<1> HIDE DEF p, q
<1>3. /\ p \o t \in Seq(S) /\ Len(p \o t) = (i - 1) + Len(t)
      /\ \A x \in 1 .. (i - 1) + Len(t) : (p \o t)[x] = IF x <= i - 1 THEN p[x] ELSE t[x - (i - 1)]
  <2>1. /\ p \o t \in Seq(S) /\ Len(p \o t) = Len(p) + Len(t)
        /\ \A x \in 1 .. Len(p) + Len(t) : (p \o t)[x] = IF x <= Len(p) THEN p[x] ELSE t[x - Len(p)]
    BY <1>1, ConcatProperties, Zenon
  <2> QED BY <2>1, <1>1, Zenon
<1>4. /\ u \in Seq(S) /\ Len(u) = (i - 1) + Len(t) + (Len(s) - j + 1)
      /\ \A x \in 1 .. (i - 1) + Len(t) + (Len(s) - j + 1) :
           u[x] = IF x <= (i - 1) + Len(t) THEN (p \o t)[x] ELSE q[x - ((i - 1) + Len(t))]
  <2>1. PICK r \in Seq(S) : r = p \o t /\ Len(r) = (i - 1) + Len(t)
    BY <1>3
  <2>2. /\ r \o q \in Seq(S) /\ Len(r \o q) = Len(r) + Len(q)
        /\ \A x \in 1 .. Len(r) + Len(q) : (r \o q)[x] = IF x <= Len(r) THEN r[x] ELSE q[x - Len(r)]
    <3>1. q \in Seq(S)
      BY <1>2
    <3> QED BY <3>1, ConcatProperties, Zenon
  <2>3. u = r \o q
    BY <2>1
  <2> HIDE DEF u
  <2> QED BY <2>1, <2>2, <2>3, <1>2
<1> HIDE DEF u
<1>5. ASSUME NEW x \in 1 .. i - 1 PROVE u[x] = s[x]
  <2>1. x \in 1 .. (i - 1) + Len(t) /\ x \in 1 .. (i - 1) + Len(t) + (Len(s) - j + 1)
        /\ x <= (i - 1) + Len(t)
    BY <1>0
  <2> QED BY <2>1, <1>1, <1>3, <1>4
<1>6. ASSUME NEW x \in 1 .. Len(t) PROVE u[i - 1 + x] = t[x]
  <2>1. /\ i - 1 + x \in 1 .. (i - 1) + Len(t) + (Len(s) - j + 1)
        /\ i - 1 + x \in 1 .. (i - 1) + Len(t)
        /\ i - 1 + x <= (i - 1) + Len(t) /\ ~ (i - 1 + x <= i - 1)
        /\ (i - 1 + x) - (i - 1) = x
    BY <1>0
  <2> QED BY <2>1, <1>3, <1>4
<1>7. ASSUME NEW x \in j .. Len(s) PROVE u[i - 1 + Len(t) + (x - j + 1)] = s[x]
  <2> DEFINE y == i - 1 + Len(t) + (x - j + 1)
  <2>1. /\ y \in 1 .. (i - 1) + Len(t) + (Len(s) - j + 1)
        /\ ~ (y <= (i - 1) + Len(t)) /\ y - ((i - 1) + Len(t)) = x - j + 1
        /\ x - j + 1 \in 1 .. Len(s) - j + 1 /\ j + (x - j + 1) - 1 = x
    BY <1>0
  <2> QED BY <2>1, <1>2, <1>4
<1>8. IsSplice(u, s, i, t, j)
  BY <1>4, <1>5, <1>6, <1>7 DEF IsSplice
<1> QED BY <1>4, <1>8 DEF u, p, q

\* One sequence after another, element by element.
LEMMA ConcatIs ==
  ASSUME NEW S, NEW s \in Seq(S), NEW t \in Seq(S)
  PROVE  s \o t \in Seq(S) /\ Joined(s \o t, s, t)
BY ConcatProperties DEF Joined

-----------------------------------------------------------------------------
(* An inner node, child by child.                                          *)

(* The x-th bound between its children: a, its keys, b.                    *)
Fence(keys, a, b, x) == IF x = 0 THEN a ELSE IF x = Len(keys) + 1 THEN b ELSE keys[x]

Fits(P, R, lo, hi, l, kid, f, g) ==
  kid \in R /\ P[kid].level + 1 = l /\ lo[kid] = f /\ hi[kid] = g /\ f < g

Row(P, R, lo, hi, l, keys, kids, a, b) ==
  /\ keys \in Seq(Keys) /\ kids \in Seq(Nat) /\ Len(kids) = Len(keys) + 1
  /\ \A x \in 1 .. Len(keys) + 1 :
       Fits(P, R, lo, hi, l, kids[x], Fence(keys, a, b, x - 1), Fence(keys, a, b, x))

\* Keys are naturals.
LEMMA KeysAreNat == \A keys \in Seq(Keys) : /\ keys \in Seq(Nat) /\ Len(keys) \in Nat
                                            /\ \A x \in 1 .. Len(keys) : keys[x] \in Nat /\ keys[x] \in Keys
<1>1. Keys \subseteq Nat
  BY SizesAssumption
<1>2. ASSUME NEW keys \in Seq(Keys)
      PROVE  /\ keys \in Seq(Nat) /\ Len(keys) \in Nat
             /\ \A x \in 1 .. Len(keys) : keys[x] \in Nat /\ keys[x] \in Keys
  <2>1. \A x \in 1 .. Len(keys) : keys[x] \in Keys
    OBVIOUS
  <2>2. keys \in Seq(Nat)
    BY <1>1, SeqMonotonic, Zenon
  <2>3. Len(keys) \in Nat
    OBVIOUS
  <2> QED BY <1>1, <2>1, <2>2, <2>3
<1> QED BY <1>2

\* An inner node that is ready is a row of children between its fences.
LEMMA ReadyRow ==
  ASSUME NEW P, NEW R, NEW lo, NEW hi, NEW n, NEW a \in Nat, NEW b \in Nat,
         Ready(P, R, lo, hi, n, a, b), n.level # 0
  PROVE  /\ n.level \in Nat /\ n = Inner(n.level, n.keys, n.kids)
         /\ Row(P, R, lo, hi, n.level, n.keys, n.kids, a, b)
<1>1. Shaped(n) /\ Spans(n, a, b) /\ Bears(P, R, lo, hi, n, a, b) /\ ~ IsLeaf(n)
  BY DEF Ready, IsLeaf
<1>2. /\ n.level \in Nat /\ n.keys \in Seq(Keys) /\ n.kids \in Seq(Nat) /\ n.keys \in Seq(Nat)
      /\ DOMAIN n.keys = 1 .. Len(n.keys) /\ DOMAIN n.kids = 1 .. Len(n.kids) /\ Len(n.keys) \in Nat
      /\ \A i \in DOMAIN n.keys : n.keys[i] \in Keys /\ n.keys[i] \in Nat
      /\ \A i \in DOMAIN n.kids : n.kids[i] \in Nat
  BY <1>1, NodeFacts
<1>3. Len(n.kids) = Len(n.keys) + 1
  BY <1>1 DEF Shaped
<1>4. a < b /\ \A x \in 1 .. Len(n.keys) : a < n.keys[x] /\ n.keys[x] < b
  BY <1>1, <1>2 DEF Spans
<1>5. \A x, y \in 1 .. Len(n.keys) : x < y => n.keys[x] < n.keys[y]
  BY <1>1, <1>2 DEF Shaped, Increasing
<1>6. ASSUME NEW x \in 1 .. Len(n.keys) + 1
      PROVE  Fits(P, R, lo, hi, n.level, n.kids[x], Fence(n.keys, a, b, x - 1), Fence(n.keys, a, b, x))
  <2>1. PICK m \in Nat : m = Len(n.keys)
    BY <1>2
  <2>3. /\ n.kids[x] \in R /\ P[n.kids[x]].level + 1 = n.level
        /\ lo[n.kids[x]] = KidLow(n, x, a) /\ hi[n.kids[x]] = KidHigh(n, x, b)
    BY <1>1, <1>2, <1>3 DEF Bears
  <2>4. KidLow(n, x, a) = Fence(n.keys, a, b, x - 1) /\ KidHigh(n, x, b) = Fence(n.keys, a, b, x)
    BY <2>1, <1>3 DEF KidLow, KidHigh, Fence
  <2>2. Fence(n.keys, a, b, x - 1) < Fence(n.keys, a, b, x)
    <3>1. x \in 1 .. m + 1
      BY <2>1
    <3>2. CASE x = 1 /\ m = 0
      BY <3>1, <3>2, <2>1, <1>4 DEF Fence
    <3>3. CASE x = 1 /\ m # 0
      BY <3>1, <3>3, <2>1, <1>4 DEF Fence
    <3>4. CASE x = m + 1 /\ m # 0
      <4>1. x - 1 \in 1 .. m /\ x - 1 # 0 /\ x - 1 # m + 1
        BY <3>4
      <4> QED BY <4>1, <3>4, <2>1, <1>4 DEF Fence
    <3>5. CASE x # 1 /\ x # m + 1
      <4>1. x - 1 \in 1 .. m /\ x \in 1 .. m /\ x - 1 # 0 /\ x - 1 # m + 1 /\ x # 0 /\ x - 1 < x
        BY <3>5, <3>1
      <4> QED BY <4>1, <3>5, <2>1, <1>5 DEF Fence
    <3> QED BY <3>1, <3>2, <3>3, <3>4, <3>5
  <2> QED BY <2>2, <2>3, <2>4 DEF Fits
<1>7. n = Inner(n.level, n.keys, n.kids)
  BY <1>1 DEF Shaped, Node, Inner
<1> QED BY <1>2, <1>3, <1>6, <1>7 DEF Row

\* Bounds that rise from each to the next rise from any to a later one.
LEMMA Rising ==
  ASSUME NEW n \in Nat, NEW f, \A x \in 0 .. n : f[x] \in Nat,
         \A x \in 1 .. n : f[x - 1] < f[x],
         NEW x \in 0 .. n, NEW y \in 0 .. n, x < y
  PROVE  f[x] < f[y]
<1> DEFINE Bad == {z \in x + 1 .. n : ~ (f[x] < f[z])}
<1> SUFFICES ASSUME Bad # {} PROVE FALSE
  <2>1. y \in x + 1 .. n
    OBVIOUS
  <2> QED BY <2>1
<1>0. Bad \subseteq Nat
  OBVIOUS
<1>1. PICK m \in Nat : m \in Bad /\ \A z \in Bad : m <= z
  BY <1>0, LeastNatural
<1>2. m \in x + 1 .. n /\ ~ (f[x] < f[m])
  BY <1>1
<1>3. m - 1 \notin Bad
  <2> HIDE DEF Bad
  <2> QED BY <1>1
<1>4. CASE m = x + 1
  BY <1>2, <1>4
<1>5. CASE m # x + 1
  <2>1. m - 1 \in x + 1 .. n /\ m \in 1 .. n /\ m - 1 \in 0 .. n /\ m \in 0 .. n
    BY <1>2, <1>5
  <2>2. f[x] < f[m - 1]
    BY <1>3, <2>1
  <2>3. f[m - 1] < f[m] /\ f[m - 1] \in Nat /\ f[m] \in Nat /\ f[x] \in Nat
    BY <2>1
  <2> QED BY <1>2, <2>2, <2>3
<1> QED BY <1>4, <1>5

\* The fences of a row rise.
LEMMA FencesRise ==
  ASSUME NEW P, NEW R, NEW lo, NEW hi, NEW l, NEW keys, NEW kids, NEW a \in Nat, NEW b \in Nat,
         Row(P, R, lo, hi, l, keys, kids, a, b)
  PROVE  /\ \A x \in 0 .. Len(keys) + 1 : Fence(keys, a, b, x) \in Nat
         /\ \A x, y \in 0 .. Len(keys) + 1 : x < y => Fence(keys, a, b, x) < Fence(keys, a, b, y)
<1>1. keys \in Seq(Keys) /\ Len(keys) \in Nat /\ \A x \in 1 .. Len(keys) : keys[x] \in Nat
  BY KeysAreNat DEF Row
<1>2. PICK f : f = [x \in 0 .. Len(keys) + 1 |-> Fence(keys, a, b, x)]
  OBVIOUS
<1>3. \A x \in 0 .. Len(keys) + 1 : f[x] = Fence(keys, a, b, x)
  BY <1>2
<1>4. \A x \in 0 .. Len(keys) + 1 : Fence(keys, a, b, x) \in Nat
  BY <1>1 DEF Fence
<1>5. \A x \in 1 .. Len(keys) + 1 : f[x - 1] < f[x]
  <2>1. ASSUME NEW x \in 1 .. Len(keys) + 1 PROVE f[x - 1] < f[x]
    <3>1. x - 1 \in 0 .. Len(keys) + 1 /\ x \in 0 .. Len(keys) + 1
      BY <1>1
    <3> QED BY <3>1, <1>3 DEF Row, Fits
  <2> QED BY <2>1
<1>6. ASSUME NEW x \in 0 .. Len(keys) + 1, NEW y \in 0 .. Len(keys) + 1, x < y
      PROVE  f[x] < f[y]
  <2>1. Len(keys) + 1 \in Nat /\ \A z \in 0 .. Len(keys) + 1 : f[z] \in Nat
    BY <1>1, <1>3, <1>4
  <2> HIDE DEF Row
  <2>2. PICK n \in Nat : n = Len(keys) + 1
    BY <2>1
  <2> QED BY <2>1, <2>2, <1>5, <1>6, Rising
<1> QED BY <1>3, <1>4, <1>6

\* And back: a row of roots is the children of a node that is ready.
LEMMA RowReady ==
  ASSUME NEW P, NEW R, NEW lo, NEW hi, NEW l \in Nat, l # 0, NEW keys, NEW kids,
         NEW a \in Nat, NEW b \in Nat, Row(P, R, lo, hi, l, keys, kids, a, b)
  PROVE  Ready(P, R, lo, hi, Inner(l, keys, kids), a, b)
<1> DEFINE n == Inner(l, keys, kids)
<1>1. n.level = l /\ n.keys = keys /\ n.kids = kids /\ ~ IsLeaf(n)
  BY DEF Inner, IsLeaf
<1>2. keys \in Seq(Keys) /\ keys \in Seq(Nat) /\ kids \in Seq(Nat) /\ Len(keys) \in Nat
      /\ Len(kids) = Len(keys) + 1
      /\ \A x \in 1 .. Len(keys) : keys[x] \in Nat
  BY KeysAreNat DEF Row
<1>3. n \in Node
  BY <1>2 DEF Node, Inner
<1> HIDE DEF n
<1>4. \A x, y \in 0 .. Len(keys) + 1 : x < y => Fence(keys, a, b, x) < Fence(keys, a, b, y)
  BY FencesRise
<1>5. \A x \in 1 .. Len(keys) : Fence(keys, a, b, x) = keys[x]
  BY <1>2 DEF Fence
<1>6. Fence(keys, a, b, 0) = a /\ Fence(keys, a, b, Len(keys) + 1) = b
  BY <1>2 DEF Fence
<1>7. \A x, y \in 1 .. Len(keys) : x < y => keys[x] < keys[y]
  <2>1. ASSUME NEW x \in 1 .. Len(keys), NEW y \in 1 .. Len(keys), x < y
        PROVE  keys[x] < keys[y]
    <3>1. x \in 0 .. Len(keys) + 1 /\ y \in 0 .. Len(keys) + 1
      BY <1>2, SMTT(60)
    <3> QED BY <3>1, <2>1, <1>4, <1>5
  <2> QED BY <2>1
<1>8. Shaped(n)
  <2>1. DOMAIN keys = 1 .. Len(keys)
    BY <1>2
  <2> QED BY <2>1, <1>1, <1>2, <1>3, <1>7 DEF Shaped, Increasing
<1>9. Spans(n, a, b)
  <2>1. ASSUME NEW x \in 1 .. Len(keys) PROVE a < keys[x] /\ keys[x] < b
    <3>1. x \in 0 .. Len(keys) + 1 /\ 0 \in 0 .. Len(keys) + 1 /\ Len(keys) + 1 \in 0 .. Len(keys) + 1
          /\ 0 < x /\ x < Len(keys) + 1
      BY <1>2
    <3> QED BY <3>1, <1>4, <1>5, <1>6
  <2>2. a < b
    <3>1. 0 \in 0 .. Len(keys) + 1 /\ Len(keys) + 1 \in 0 .. Len(keys) + 1 /\ 0 < Len(keys) + 1
      BY <1>2
    <3> QED BY <3>1, <1>4, <1>6
  <2>3. DOMAIN keys = 1 .. Len(keys) /\ \A x \in 1 .. Len(keys) : a <= keys[x]
    BY <1>2, <2>1
  <2> QED BY <1>1, <2>1, <2>2, <2>3 DEF Spans
<1>10. Bears(P, R, lo, hi, n, a, b)
  <2>1. ASSUME NEW x \in 1 .. Len(keys) + 1
        PROVE  /\ kids[x] \in R /\ P[kids[x]].level + 1 = l
               /\ lo[kids[x]] = KidLow(n, x, a) /\ hi[kids[x]] = KidHigh(n, x, b)
    <3>1. /\ kids[x] \in R /\ P[kids[x]].level + 1 = l
          /\ lo[kids[x]] = Fence(keys, a, b, x - 1) /\ hi[kids[x]] = Fence(keys, a, b, x)
      BY DEF Row, Fits
    <3> QED BY <3>1, <1>1, <1>2 DEF Fence, KidLow, KidHigh
  <2>2. DOMAIN kids = 1 .. Len(keys) + 1
    BY <1>2
  <2> QED BY <1>1, <2>1, <2>2 DEF Bears
<1> QED BY <1>8, <1>9, <1>10 DEF Ready, n

-----------------------------------------------------------------------------
(* A node with some of its children replaced.                              *)

(* The children but the i-th to j-th are as they must be.                  *)
Outside(P, R, lo, hi, l, keys, kids, a, b, i, j) ==
  /\ keys \in Seq(Keys) /\ kids \in Seq(Nat) /\ Len(kids) = Len(keys) + 1
  /\ \A x \in 1 .. Len(keys) + 1 : x < i \/ x > j =>
       Fits(P, R, lo, hi, l, kids[x], Fence(keys, a, b, x - 1), Fence(keys, a, b, x))

\* The fences of a row with a part replaced.
LEMMA FenceSplice ==
  ASSUME NEW keys \in Seq(Keys), NEW rk \in Seq(Keys), NEW u \in Seq(Keys),
         NEW i \in Nat, NEW j \in Nat, 1 <= i, i <= j, j <= Len(keys) + 1,
         IsSplice(u, keys, i, rk, j), NEW a, NEW b
  PROVE  /\ \A x \in 0 .. i - 1 : Fence(u, a, b, x) = Fence(keys, a, b, x)
         /\ \A x \in 0 .. Len(rk) + 1 :
              Fence(u, a, b, i - 1 + x) = Fence(rk, Fence(keys, a, b, i - 1), Fence(keys, a, b, j), x)
         /\ \A x \in j .. Len(keys) + 1 : Fence(u, a, b, i + Len(rk) + (x - j)) = Fence(keys, a, b, x)
<1>0. PICK N \in Nat, m \in Nat : N = Len(keys) /\ m = Len(rk)
  OBVIOUS
<1>1. /\ Len(u) = (i - 1) + m + (N - j + 1)
      /\ \A x \in 1 .. i - 1 : u[x] = keys[x]
      /\ \A x \in 1 .. m : u[i - 1 + x] = rk[x]
      /\ \A x \in j .. N : u[i - 1 + m + (x - j + 1)] = keys[x]
  BY <1>0 DEF IsSplice
<1>2. ASSUME NEW x \in 0 .. i - 1 PROVE Fence(u, a, b, x) = Fence(keys, a, b, x)
  <2>1. CASE x = 0
    BY <2>1 DEF Fence
  <2>2. CASE x # 0
    <3>1. x \in 1 .. i - 1 /\ x # N + 1 /\ x # Len(u) + 1
      BY <2>2, <1>0, <1>1
    <3> QED BY <3>1, <2>2, <1>0, <1>1 DEF Fence
  <2> QED BY <2>1, <2>2
<1>3. ASSUME NEW x \in j .. N + 1 PROVE Fence(u, a, b, i + m + (x - j)) = Fence(keys, a, b, x)
  <2>a. Len(u) = (i - 1) + m + (N - j + 1)
    BY <1>1
  <2>0. i + m + (x - j) # 0 /\ x # 0 /\ (x = N + 1 <=> i + m + (x - j) = Len(u) + 1)
    BY <2>a
  <2>1. CASE x = N + 1
    BY <2>0, <2>1, <1>0 DEF Fence
  <2>2. CASE x # N + 1
    <3>1. x \in j .. N /\ i + m + (x - j) = i - 1 + m + (x - j + 1)
      BY <2>2, <1>0
    <3>2. u[i + m + (x - j)] = keys[x]
      BY <3>1, <1>1
    <3> QED BY <2>0, <2>2, <3>2, <1>0 DEF Fence
  <2> QED BY <2>1, <2>2
<1>4. ASSUME NEW x \in 0 .. m + 1
      PROVE  Fence(u, a, b, i - 1 + x) = Fence(rk, Fence(keys, a, b, i - 1), Fence(keys, a, b, j), x)
  <2>1. CASE x = 0
    <3>1. i - 1 + x = i - 1 /\ i - 1 \in 0 .. i - 1
      BY <2>1
    <3> QED BY <2>1, <3>1, <1>2 DEF Fence
  <2>2. CASE x = m + 1
    <3>1. i - 1 + x = i + m + (j - j) /\ j \in j .. N + 1 /\ x # 0
      BY <2>2, <1>0
    <3>2. Fence(u, a, b, i - 1 + x) = Fence(keys, a, b, j)
      BY <3>1, <1>3
    <3> QED BY <2>2, <3>1, <3>2, <1>0 DEF Fence
  <2>3. CASE x # 0 /\ x # m + 1
    <3>1. x \in 1 .. m /\ i - 1 + x # 0 /\ i - 1 + x # Len(u) + 1
      BY <2>3, <1>0, <1>1
    <3>2. u[i - 1 + x] = rk[x]
      BY <3>1, <1>1
    <3> QED BY <2>3, <3>1, <3>2, <1>0 DEF Fence
  <2> QED BY <2>1, <2>2, <2>3
<1> QED BY <1>0, <1>2, <1>3, <1>4

\* Children in place of others with the same bounds make a row.
LEMMA SpliceRow ==
  ASSUME NEW P, NEW R, NEW lo, NEW hi, NEW l, NEW keys, NEW kids, NEW a, NEW b,
         NEW i \in Nat, NEW j \in Nat, 1 <= i, i <= j, j <= Len(keys) + 1,
         Outside(P, R, lo, hi, l, keys, kids, a, b, i, j),
         NEW rk, NEW ids,
         Row(P, R, lo, hi, l, rk, ids, Fence(keys, a, b, i - 1), Fence(keys, a, b, j)),
         NEW u \in Seq(Keys), NEW v \in Seq(Nat),
         IsSplice(u, keys, i, rk, j), IsSplice(v, kids, i, ids, j + 1)
  PROVE  Row(P, R, lo, hi, l, u, v, a, b)
<1> DEFINE Good(keysX, kidsX, aX, bX, x) ==
      Fits(P, R, lo, hi, l, kidsX[x], Fence(keysX, aX, bX, x - 1), Fence(keysX, aX, bX, x))
<1>0. keys \in Seq(Keys) /\ rk \in Seq(Keys) /\ Len(kids) = Len(keys) + 1 /\ Len(ids) = Len(rk) + 1
  BY DEF Outside, Row
<1>1. PICK N \in Nat, m \in Nat : N = Len(keys) /\ m = Len(rk)
  BY <1>0
<1>2. \A x \in 1 .. N + 1 : x < i \/ x > j => Good(keys, kids, a, b, x)
  BY <1>1 DEF Outside
<1>3. \A x \in 1 .. m + 1 : Good(rk, ids, Fence(keys, a, b, i - 1), Fence(keys, a, b, j), x)
  BY <1>1 DEF Row
<1>4. /\ \A x \in 0 .. i - 1 : Fence(u, a, b, x) = Fence(keys, a, b, x)
      /\ \A x \in 0 .. m + 1 :
              Fence(u, a, b, i - 1 + x) = Fence(rk, Fence(keys, a, b, i - 1), Fence(keys, a, b, j), x)
      /\ \A x \in j .. N + 1 : Fence(u, a, b, i + m + (x - j)) = Fence(keys, a, b, x)
  BY <1>0, <1>1, FenceSplice
<1>5. Len(u) = (i - 1) + m + (N - j + 1)
  BY <1>1 DEF IsSplice
<1>6. /\ Len(v) = (i - 1) + (m + 1) + (N + 1 - (j + 1) + 1)
      /\ \A x \in 1 .. i - 1 : v[x] = kids[x]
      /\ \A x \in 1 .. m + 1 : v[i - 1 + x] = ids[x]
      /\ \A x \in j + 1 .. N + 1 : v[i - 1 + (m + 1) + (x - (j + 1) + 1)] = kids[x]
  BY <1>0, <1>1 DEF IsSplice
<1>7. ASSUME NEW x \in 1 .. Len(u) + 1 PROVE Good(u, v, a, b, x)
  <2>1. CASE x < i
    <3>1. x \in 1 .. i - 1 /\ x \in 0 .. i - 1 /\ x - 1 \in 0 .. i - 1 /\ x \in 1 .. N + 1
      BY <2>1, <1>1
    <3>2. v[x] = kids[x] /\ Fence(u, a, b, x) = Fence(keys, a, b, x)
          /\ Fence(u, a, b, x - 1) = Fence(keys, a, b, x - 1)
      BY <3>1, <1>4, <1>6
    <3> QED BY <3>1, <3>2, <2>1, <1>2
  <2>2. CASE i <= x /\ x <= i + m
    <3>1. PICK y \in 1 .. m + 1 : x = i - 1 + y
      <4>1. x - i + 1 \in 1 .. m + 1 /\ x = i - 1 + (x - i + 1)
        BY <2>2
      <4> QED BY <4>1
    <3>2. y \in 0 .. m + 1 /\ y - 1 \in 0 .. m + 1 /\ x - 1 = i - 1 + (y - 1)
      BY <3>1
    <3>3. /\ v[x] = ids[y]
          /\ Fence(u, a, b, x) = Fence(rk, Fence(keys, a, b, i - 1), Fence(keys, a, b, j), y)
          /\ Fence(u, a, b, x - 1) = Fence(rk, Fence(keys, a, b, i - 1), Fence(keys, a, b, j), y - 1)
      BY <3>1, <3>2, <1>4, <1>6
    <3> QED BY <3>1, <3>3, <1>3
  <2>3. CASE x > i + m
    <3>1. PICK y \in j + 1 .. N + 1 : x = i + m + (y - j)
      <4>1. x - i - m + j \in j + 1 .. N + 1 /\ x = i + m + ((x - i - m + j) - j)
        BY <2>3, <1>5
      <4> QED BY <4>1
    <3>2. /\ y \in j .. N + 1 /\ y - 1 \in j .. N + 1 /\ x - 1 = i + m + ((y - 1) - j)
          /\ x = i - 1 + (m + 1) + (y - (j + 1) + 1) /\ y > j /\ y \in 1 .. N + 1
      BY <3>1
    <3>3. v[x] = kids[y] /\ Fence(u, a, b, x) = Fence(keys, a, b, y)
          /\ Fence(u, a, b, x - 1) = Fence(keys, a, b, y - 1)
      BY <3>1, <3>2, <1>4, <1>6
    <3> QED BY <3>2, <3>3, <1>2
  <2>4. x \in Int /\ i + m \in Int /\ i \in Int
    BY <1>5
  <2> QED BY <2>1, <2>2, <2>3, <2>4
<1>8. Len(v) = Len(u) + 1
  BY <1>5, <1>6
<1> QED BY <1>7, <1>8 DEF Row

-----------------------------------------------------------------------------
(* Rows joined and split.                                                  *)

(* u is s, then k, then t.                                                 *)
IsJoin(u, s, k, t) ==
  /\ Len(u) = Len(s) + 1 + Len(t)
  /\ \A i \in 1 .. Len(s) : u[i] = s[i]
  /\ u[Len(s) + 1] = k
  /\ \A i \in 1 .. Len(t) : u[Len(s) + 1 + i] = t[i]

\* Two sequences around one element, element by element.
LEMMA JoinIs ==
  ASSUME NEW S, NEW s \in Seq(S), NEW k \in S, NEW t \in Seq(S)
  PROVE  s \o <<k>> \o t \in Seq(S) /\ IsJoin(s \o <<k>> \o t, s, k, t)
<1>1. <<k>> \in Seq(S) /\ Len(<<k>>) = 1 /\ <<k>>[1] = k
  OBVIOUS
<1>2. PICK r : r = s \o <<k>>
  OBVIOUS
<1>3. r \in Seq(S) /\ Joined(r, s, <<k>>)
  BY <1>1, <1>2, ConcatIs
<1>4. PICK u : u = r \o t
  OBVIOUS
<1>5. u \in Seq(S) /\ Joined(u, r, t)
  BY <1>3, <1>4, ConcatIs
<1>6. Len(r) = Len(s) + 1 /\ (\A x \in 1 .. Len(s) : r[x] = s[x]) /\ r[Len(s) + 1] = k /\ Len(s) \in Nat
  BY <1>1, <1>3 DEF Joined
<1>7. IsJoin(u, s, k, t)
  BY <1>5, <1>6 DEF Joined, IsJoin
<1> QED BY <1>2, <1>4, <1>5, <1>7

(* The bounds of a row that is joined are those of its parts.              *)
FencesJoined(u, s, k, t, a, b) ==
  /\ \A x \in 0 .. Len(s) + 1 : Fence(u, a, b, x) = Fence(s, a, k, x)
  /\ \A x \in 0 .. Len(t) + 1 : Fence(u, a, b, Len(s) + 1 + x) = Fence(t, k, b, x)

\* The fences of two rows joined at a pivot.
LEMMA FenceJoin ==
  ASSUME NEW u \in Seq(Keys), NEW s \in Seq(Keys), NEW k, NEW t \in Seq(Keys), IsJoin(u, s, k, t),
         NEW a, NEW b
  PROVE  FencesJoined(u, s, k, t, a, b)
<1>0. PICK p \in Nat, q \in Nat : p = Len(s) /\ q = Len(t)
  OBVIOUS
<1>1. /\ Len(u) = p + 1 + q
      /\ \A i \in 1 .. p : u[i] = s[i]
      /\ u[p + 1] = k
      /\ \A i \in 1 .. q : u[p + 1 + i] = t[i]
  BY <1>0 DEF IsJoin
<1>2. ASSUME NEW x \in 0 .. p + 1 PROVE Fence(u, a, b, x) = Fence(s, a, k, x)
  <2>1. x # Len(u) + 1
    BY <1>1
  <2>2. CASE x = 0
    BY <2>2 DEF Fence
  <2>3. CASE x = p + 1
    BY <2>1, <2>3, <1>0, <1>1 DEF Fence
  <2>4. CASE x # 0 /\ x # p + 1
    <3>1. x \in 1 .. p
      BY <2>4
    <3> QED BY <3>1, <2>1, <2>4, <1>0, <1>1 DEF Fence
  <2> QED BY <2>2, <2>3, <2>4
<1>3. ASSUME NEW x \in 0 .. q + 1 PROVE Fence(u, a, b, p + 1 + x) = Fence(t, k, b, x)
  <2>1. p + 1 + x # 0 /\ (p + 1 + x = Len(u) + 1 <=> x = q + 1)
    BY <1>1
  <2>2. CASE x = 0
    <3>1. p + 1 + x = p + 1
      BY <2>2
    <3> QED BY <2>1, <2>2, <3>1, <1>0, <1>1 DEF Fence
  <2>3. CASE x = q + 1
    BY <2>1, <2>3, <1>0, <1>1 DEF Fence
  <2>4. CASE x # 0 /\ x # q + 1
    <3>1. x \in 1 .. q
      BY <2>4
    <3> QED BY <3>1, <2>1, <2>4, <1>0, <1>1 DEF Fence
  <2> QED BY <2>2, <2>3, <2>4
<1> QED BY <1>0, <1>2, <1>3 DEF FencesJoined

\* Two neighbours in one row, with the pivot between them; and one row cut at a pivot.
RowParts(P, R, lo, hi, l, u, e, a, b, s, f, k, t, g) ==
  Row(P, R, lo, hi, l, u, e, a, b)
    <=> Row(P, R, lo, hi, l, s, f, a, k) /\ Row(P, R, lo, hi, l, t, g, k, b)

\* Two rows joined at a pivot are one row, and one row is two.
LEMMA JoinedRow ==
  ASSUME NEW P, NEW R, NEW lo, NEW hi, NEW l, NEW a, NEW k \in Keys, NEW b,
         NEW s \in Seq(Keys), NEW t \in Seq(Keys), NEW u \in Seq(Keys), IsJoin(u, s, k, t),
         NEW f \in Seq(Nat), NEW g \in Seq(Nat), NEW e \in Seq(Nat), Joined(e, f, g),
         Len(f) = Len(s) + 1, Len(g) = Len(t) + 1
  PROVE  RowParts(P, R, lo, hi, l, u, e, a, b, s, f, k, t, g)
<1> DEFINE Good(keysX, kidsX, aX, bX, x) ==
      Fits(P, R, lo, hi, l, kidsX[x], Fence(keysX, aX, bX, x - 1), Fence(keysX, aX, bX, x))
<1>0. PICK p \in Nat, q \in Nat : p = Len(s) /\ q = Len(t)
  OBVIOUS
<1>1. /\ Len(u) = p + 1 + q
      /\ \A x \in 0 .. p + 1 : Fence(u, a, b, x) = Fence(s, a, k, x)
      /\ \A x \in 0 .. q + 1 : Fence(u, a, b, p + 1 + x) = Fence(t, k, b, x)
  <2>1. FencesJoined(u, s, k, t, a, b)
    BY FenceJoin
  <2> QED BY <2>1, <1>0 DEF IsJoin, FencesJoined
<1>2. /\ Len(e) = p + 1 + (q + 1)
      /\ \A x \in 1 .. p + 1 : e[x] = f[x]
      /\ \A x \in 1 .. q + 1 : e[p + 1 + x] = g[x]
  BY <1>0 DEF Joined
<1>3. ASSUME NEW x \in 1 .. p + 1
      PROVE  Good(u, e, a, b, x) <=> Good(s, f, a, k, x)
  <2>1. x \in 0 .. p + 1 /\ x - 1 \in 0 .. p + 1
    OBVIOUS
  <2>2. Fence(u, a, b, x) = Fence(s, a, k, x) /\ Fence(u, a, b, x - 1) = Fence(s, a, k, x - 1)
        /\ e[x] = f[x]
    BY <2>1, <1>1, <1>2
  <2> QED BY <2>2
<1>4. ASSUME NEW x \in 1 .. q + 1
      PROVE  Good(u, e, a, b, p + 1 + x) <=> Good(t, g, k, b, x)
  <2>1. x \in 0 .. q + 1 /\ x - 1 \in 0 .. q + 1 /\ p + 1 + (x - 1) = p + 1 + x - 1
    OBVIOUS
  <2>2. Fence(u, a, b, p + 1 + x) = Fence(t, k, b, x)
        /\ Fence(u, a, b, p + 1 + x - 1) = Fence(t, k, b, x - 1)
        /\ e[p + 1 + x] = g[x]
    BY <2>1, <1>1, <1>2
  <2> QED BY <2>2
<1>5. Row(P, R, lo, hi, l, u, e, a, b) <=> \A x \in 1 .. p + 1 + q + 1 : Good(u, e, a, b, x)
  BY <1>1, <1>2 DEF Row
<1>6. Row(P, R, lo, hi, l, s, f, a, k) <=> \A x \in 1 .. p + 1 : Good(s, f, a, k, x)
  BY <1>0 DEF Row
<1>7. Row(P, R, lo, hi, l, t, g, k, b) <=> \A x \in 1 .. q + 1 : Good(t, g, k, b, x)
  BY <1>0 DEF Row
<1> HIDE DEF Good
<1>8. \A x \in 1 .. p + 1 : x \in 1 .. p + 1 + q + 1
  OBVIOUS
<1>9. \A x \in 1 .. q + 1 : p + 1 + x \in 1 .. p + 1 + q + 1
  OBVIOUS
<1>10. \A x \in 1 .. p + 1 + q + 1 : x \in 1 .. p + 1 \/ \E y \in 1 .. q + 1 : x = p + 1 + y
  <2>1. ASSUME NEW x \in 1 .. p + 1 + q + 1, x \notin 1 .. p + 1
        PROVE  \E y \in 1 .. q + 1 : x = p + 1 + y
    <3>1. x - p - 1 \in 1 .. q + 1 /\ x = p + 1 + (x - p - 1)
      BY <2>1
    <3> QED BY <3>1
  <2> QED BY <2>1
<1>11. (\A x \in 1 .. p + 1 + q + 1 : Good(u, e, a, b, x))
         <=> (\A x \in 1 .. p + 1 : Good(s, f, a, k, x)) /\ (\A x \in 1 .. q + 1 : Good(t, g, k, b, x))
  BY <1>3, <1>4, <1>8, <1>9, <1>10
<1> QED BY <1>5, <1>6, <1>7, <1>11 DEF RowParts

-----------------------------------------------------------------------------
(* PutAll.                                                                 *)

Carried(P, Q, lo, hi, lo2, hi2, S) ==
  \A x \in S : Q[x] = P[x] /\ lo2[x] = lo[x] /\ hi2[x] = hi[x]

\* A node stays ready when its children are carried over.
LEMMA ReadyMoves ==
  ASSUME NEW P, NEW R, NEW lo, NEW hi, NEW n, NEW a, NEW b, Ready(P, R, lo, hi, n, a, b),
         NEW Q, NEW R2, NEW lo2, NEW hi2, ToSet(n.kids) \subseteq R2,
         Carried(P, Q, lo, hi, lo2, hi2, ToSet(n.kids))
  PROVE  Ready(Q, R2, lo2, hi2, n, a, b)
<1>1. \A i \in DOMAIN n.kids : n.kids[i] \in ToSet(n.kids)
  BY DEF ToSet
<1> QED BY <1>1 DEF Ready, Bears, Carried

\* A row stays one when its children are carried over.
LEMMA RowMoves ==
  ASSUME NEW P, NEW R, NEW lo, NEW hi, NEW l, NEW keys, NEW kids, NEW a, NEW b,
         Row(P, R, lo, hi, l, keys, kids, a, b),
         NEW Q, NEW R2, NEW lo2, NEW hi2, ToSet(kids) \subseteq R2,
         Carried(P, Q, lo, hi, lo2, hi2, ToSet(kids))
  PROVE  Row(Q, R2, lo2, hi2, l, keys, kids, a, b)
<1>1. \A x \in 1 .. Len(keys) + 1 : kids[x] \in ToSet(kids)
  BY DEF ToSet, Row
<1> QED BY <1>1 DEF Row, Fits, Carried

PutSteps(w, nodes, f) ==
  /\ f[0] = [w EXCEPT !.ids = <<>>, !.keys = <<>>]
  /\ \A i \in 1 .. Len(nodes) : f[i] = Put(f[i - 1], nodes[i])

\* The recursive function in PutAll exists.
LEMMA PutAllSteps ==
  ASSUME NEW w, NEW nodes, Len(nodes) \in Nat
  PROVE  \E f : PutSteps(w, nodes, f) /\ PutAll(w, nodes) = f[Len(nodes)]
<1> DEFINE First == [w EXCEPT !.ids = <<>>, !.keys = <<>>]
           Rec(g, n) == g = [i \in 0 .. n |-> IF i = 0 THEN First ELSE Put(g[i - 1], nodes[i])]
<1> HIDE DEF First
<1>1. \A n \in Nat : \E g : Rec(g, n)
  <2> DEFINE Bad == {n \in Nat : ~ \E g : Rec(g, n)}
  <2> SUFFICES ASSUME Bad # {} PROVE FALSE
    OBVIOUS
  <2>0. Bad \subseteq Nat
    OBVIOUS
  <2>1. PICK m \in Nat : m \in Bad /\ \A n \in Bad : m <= n
    BY <2>0, LeastNatural
  <2>2. m # 0
    <3> DEFINE g == [i \in 0 .. 0 |-> First]
    <3>1. Rec(g, 0)
      OBVIOUS
    <3> QED BY <2>1, <3>1
  <2>3. m - 1 \in Nat /\ m - 1 \notin Bad
    <3> HIDE DEF Bad
    <3> QED BY <2>1, <2>2
  <2>4. PICK g : Rec(g, m - 1)
    BY <2>3
  <2> DEFINE h == [i \in 0 .. m |-> IF i < m THEN g[i] ELSE Put(g[m - 1], nodes[m])]
  <2>5. Rec(h, m)
    <3>1. ASSUME NEW i \in 0 .. m
          PROVE  h[i] = IF i = 0 THEN First ELSE Put(h[i - 1], nodes[i])
      BY <2>3, <2>4
    <3> QED BY <3>1, Zenon
  <2> QED BY <2>5, <2>1
<1> HIDE DEF Rec
<1> DEFINE f == CHOOSE g : Rec(g, Len(nodes))
<1>3. Rec(f, Len(nodes))
  BY <1>1, Zenon
<1>4. PutAll(w, nodes) = f[Len(nodes)]
  BY Zenon DEF PutAll, Rec, First
<1> HIDE DEF f
<1>5. PutSteps(w, nodes, f)
  BY <1>3 DEF Rec, PutSteps, First
<1> QED BY <1>4, <1>5

HeldIn(n) == IF IsLeaf(n) THEN ToSet(n.keys) ELSE {}
KidsOf(ns, i) == UNION {ToSet(ns[j].kids) : j \in 1 .. i}
HeldOf(ns, i) == UNION {HeldIn(ns[j]) : j \in 1 .. i}

(* Nodes that can be written: over different roots, and small enough.      *)
Writable(P, R, lo, hi, ns, A, B) ==
  /\ Len(ns) \in Nat
  /\ \A i \in 1 .. Len(ns) : /\ A[i] \in Nat /\ B[i] \in Nat
                             /\ Ready(P, R, lo, hi, ns[i], A[i], B[i])
                             /\ Occupied(ns[i]) <= Capacity
  /\ \A i, j \in 1 .. Len(ns) : i # j => ToSet(ns[i].kids) \cap ToSet(ns[j].kids) = {}

(* v is w with the first i of the nodes ns written.                        *)
Built(w, v, L, R, lo, hi, D, ns, A, B, i, lo2, hi2) ==
  /\ Len(v.ids) = i
  /\ Sound(v, L \union ToSet(v.ids), (R \ KidsOf(ns, i)) \union ToSet(v.ids), lo2, hi2, D)
  /\ Carried(w.pages, v.pages, lo, hi, lo2, hi2, L) /\ Same(w.pages, v.pages, D)
  /\ ToSet(v.ids) \cap (L \union D) = {}
  /\ \A j \in 1 .. i : /\ v.pages[v.ids[j]] = ns[j]
                       /\ lo2[v.ids[j]] = A[j] /\ hi2[v.ids[j]] = B[j]
  /\ v.keys = <<>> /\ v.freed = w.freed
  /\ Held(v.pages, L \union ToSet(v.ids)) = Held(w.pages, L) \union HeldOf(ns, i)

\* PutAll has written nothing at first.
LEMMA BuiltNone ==
  ASSUME NEW w, NEW L, NEW R, NEW lo, NEW hi, NEW D, Sound(w, L, R, lo, hi, D), NEW ns, NEW A, NEW B
  PROVE  Built(w, [w EXCEPT !.ids = <<>>, !.keys = <<>>], L, R, lo, hi, D, ns, A, B, 0, lo, hi)
<1>1. PICK v : v = [w EXCEPT !.ids = <<>>, !.keys = <<>>]
  OBVIOUS
<1>a. w \in WorkType
  BY DEF Sound
<1>b. v.pages = w.pages /\ v.free = w.free /\ v.ids = <<>> /\ v.keys = <<>> /\ v.freed = w.freed
  BY <1>a, <1>1 DEF WorkType
<1>c. <<>> \in Seq(Nat)
  OBVIOUS
<1>2. v \in WorkType /\ v.pages = w.pages /\ v.free = w.free /\ v.ids = <<>> /\ v.keys = <<>>
      /\ v.freed = w.freed
  BY <1>a, <1>b, <1>c, <1>1 DEF WorkType
<1>3. ToSet(v.ids) = {} /\ Len(v.ids) = 0
  BY <1>2 DEF ToSet
<1>4. KidsOf(ns, 0) = {} /\ HeldOf(ns, 0) = {}
  BY DEF KidsOf, HeldOf
<1>5. L \union ToSet(v.ids) = L /\ (R \ KidsOf(ns, 0)) \union ToSet(v.ids) = R
  BY <1>3, <1>4
<1>6. Sound(v, L, R, lo, hi, D)
  BY <1>2 DEF Sound
<1>7. Built(w, v, L, R, lo, hi, D, ns, A, B, 0, lo, hi)
  <2>1. Sound(v, L \union ToSet(v.ids), (R \ KidsOf(ns, 0)) \union ToSet(v.ids), lo, hi, D)
    BY <1>5, <1>6
  <2>2. Held(v.pages, L \union ToSet(v.ids))
          = Held(w.pages, L) \union HeldOf(ns, 0)
    <3>1. Held(v.pages, L \union ToSet(v.ids)) = Held(w.pages, L)
      BY <1>2, <1>5
    <3> QED BY <3>1, <1>4
  <2>3. Carried(w.pages, v.pages, lo, hi, lo, hi, L) /\ Same(w.pages, v.pages, D)
    BY <1>2 DEF Carried, Same
  <2>4. ToSet(v.ids) \cap (L \union D) = {} /\ 1 .. 0 = {}
    BY <1>3
  <2> QED BY <2>1, <2>2, <2>3, <2>4, <1>2, <1>3 DEF Built
<1> QED BY <1>1, <1>7

\* PutAll writes one node more.
LEMMA BuiltMore ==
  ASSUME NEW w, NEW L, NEW R, NEW lo, NEW hi, NEW D, Sound(w, L, R, lo, hi, D), NEW ns, NEW A, NEW B,
         Writable(w.pages, R, lo, hi, ns, A, B), NEW i \in 1 .. Len(ns),
         NEW v, NEW lo2, NEW hi2, Built(w, v, L, R, lo, hi, D, ns, A, B, i - 1, lo2, hi2)
  PROVE  \E lo3, hi3 : Built(w, Put(v, ns[i]), L, R, lo, hi, D, ns, A, B, i, lo3, hi3)
<1>a. i \in Nat /\ i - 1 \in Nat
  BY DEF Writable
<1> DEFINE L2 == L \union ToSet(v.ids)
           R2 == (R \ KidsOf(ns, i - 1)) \union ToSet(v.ids)
           n == ns[i]
           u == Put(v, n)
           id == FreshId(v)
           lo3 == [lo2 EXCEPT ![id] = A[i]]
           hi3 == [hi2 EXCEPT ![id] = B[i]]
           S == ToSet(n.kids)
           T == ToSet(v.ids)
<1>1. Sound(v, L2, R2, lo2, hi2, D)
  BY DEF Built
<1>2. Ready(w.pages, R, lo, hi, n, A[i], B[i]) /\ Occupied(n) <= Capacity /\ A[i] \in Nat /\ B[i] \in Nat
  BY DEF Writable
<1>3. S \subseteq R /\ R \subseteq L
  <2>1. \A j \in DOMAIN n.kids : n.kids[j] \in R
    BY <1>2 DEF Ready, Bears
  <2>2. R \subseteq L
    BY DEF Sound, Forest
  <2> QED BY <2>1, <2>2 DEF ToSet
<1>4. S \cap KidsOf(ns, i - 1) = {}
  <2>1. ASSUME NEW j \in 1 .. i - 1 PROVE S \cap ToSet(ns[j].kids) = {}
    <3>1. j \in 1 .. Len(ns) /\ j # i
      BY <1>a
    <3> QED BY <3>1 DEF Writable
  <2> QED BY <2>1 DEF KidsOf
<1>5. S \subseteq R2
  BY <1>3, <1>4
<1>6. Carried(w.pages, v.pages, lo, hi, lo2, hi2, S)
  BY <1>3 DEF Built, Carried
<1>7. Ready(v.pages, R2, lo2, hi2, n, A[i], B[i])
  BY <1>2, <1>5, <1>6, ReadyMoves
<1>8. Planted(v, u, L2, R2, lo2, hi2, D, n, A[i], B[i], id)
  BY <1>1, <1>2, <1>7, PutSound
<1>9. /\ Carried(w.pages, v.pages, lo, hi, lo2, hi2, L) /\ Same(w.pages, v.pages, D)
      /\ T \cap (L \union D) = {} /\ Len(v.ids) = i - 1
      /\ \A j \in 1 .. i - 1 : /\ v.pages[v.ids[j]] = ns[j]
                               /\ lo2[v.ids[j]] = A[j] /\ hi2[v.ids[j]] = B[j]
      /\ v.keys = <<>> /\ v.freed = w.freed
      /\ Held(v.pages, L2) = Held(w.pages, L) \union HeldOf(ns, i - 1)
  BY DEF Built
<1>10. v.ids \in Seq(Nat) /\ lo2 \in [Nat -> Nat] /\ hi2 \in [Nat -> Nat]
  BY <1>1 DEF Sound, WorkType, Forest
<1> HIDE DEF L2, R2, n, u, id, S
<1>11. /\ id \in Nat /\ id \notin L2 /\ id \notin D
       /\ Sound(u, L2 \union {id}, (R2 \ S) \union {id}, lo3, hi3, D)
       /\ u.pages[id] = n /\ Same(v.pages, u.pages, L2 \union D)
       /\ u.ids = Append(v.ids, id) /\ u.keys = v.keys /\ u.freed = v.freed
       /\ Held(u.pages, L2 \union {id}) = Held(v.pages, L2) \union HeldIn(n)
  BY <1>8 DEF Planted, S, HeldIn
<1>b. PICK s \in Seq(Nat) : s = v.ids
  BY <1>10
<1>c. PICK s2 \in Seq(Nat) : s2 = u.ids
  <2>1. Append(s, id) \in Seq(Nat)
    BY <1>11
  <2> QED BY <2>1, <1>b, <1>11
<1>d. s2 = Append(s, id) /\ Len(s) = i - 1
  BY <1>b, <1>c, <1>9, <1>11
<1>e. /\ DOMAIN s2 = 1 .. i /\ DOMAIN s = 1 .. i - 1 /\ Len(s2) = i /\ s2[i] = id
      /\ \A j \in 1 .. i - 1 : s2[j] = s[j]
  BY <1>a, <1>d, <1>11
<1>12. /\ Len(u.ids) = i /\ u.ids[i] = id
       /\ \A j \in 1 .. i - 1 : u.ids[j] = v.ids[j] /\ v.ids[j] \in T
  BY <1>b, <1>c, <1>e DEF ToSet
<1>13. ToSet(u.ids) = T \union {id}
  <2>2. 1 .. i = (1 .. i - 1) \union {i}
    BY <1>a
  <2>3. ToSet(s2) = ToSet(s) \union {id}
    BY <2>2, <1>e DEF ToSet
  <2> QED BY <2>3, <1>b, <1>c
<1>14. lo3[id] = A[i] /\ hi3[id] = B[i] /\ \A x \in Nat : x # id => lo3[x] = lo2[x] /\ hi3[x] = hi2[x]
  BY <1>10, <1>11
<1> HIDE DEF lo3, hi3, T
<1>15. L \union ToSet(u.ids) = L2 \union {id}
  BY <1>13 DEF L2, T
<1>16. 1 .. i = (1 .. i - 1) \union {i}
  BY <1>a
<1>17. KidsOf(ns, i) = KidsOf(ns, i - 1) \union S
  BY <1>16 DEF KidsOf, S, n
<1>18. HeldOf(ns, i) = HeldOf(ns, i - 1) \union HeldIn(n)
  <2>1. ASSUME NEW k \in HeldOf(ns, i)
        PROVE  k \in HeldOf(ns, i - 1) \union HeldIn(n)
    <3>1. PICK j \in 1 .. i : k \in HeldIn(ns[j])
      BY DEF HeldOf
    <3>2. CASE j = i
      BY <3>1, <3>2 DEF n
    <3>3. CASE j # i
      <4>1. j \in 1 .. i - 1
        BY <3>3, <1>16
      <4> QED BY <4>1, <3>1 DEF HeldOf
    <3> QED BY <3>2, <3>3
  <2>2. ASSUME NEW k \in HeldOf(ns, i - 1) \union HeldIn(n)
        PROVE  k \in HeldOf(ns, i)
    <3>1. i \in 1 .. i
      BY <1>a, <1>16
    <3>2. CASE k \in HeldIn(n)
      BY <3>1, <3>2 DEF n, HeldOf
    <3>3. CASE k \in HeldOf(ns, i - 1)
      <4>1. PICK j \in 1 .. i - 1 : k \in HeldIn(ns[j])
        BY <3>3 DEF HeldOf
      <4>2. j \in 1 .. i
        BY <1>16
      <4> QED BY <4>1, <4>2 DEF HeldOf
    <3> QED BY <3>2, <3>3
  <2> QED BY <2>1, <2>2
<1>19. (R \ KidsOf(ns, i)) \union ToSet(u.ids) = (R2 \ S) \union {id}
  BY <1>3, <1>9, <1>13, <1>17 DEF R2, T
<1>20. L \subseteq Nat /\ T \subseteq Nat
  <2>1. L \subseteq DOMAIN w.pages /\ w.pages \in Seq(Node)
    BY DEF Sound, Forest, WorkType
  <2>2. DOMAIN w.pages \subseteq Nat
    BY <2>1
  <2>3. T \subseteq Nat
    <3>1. \A j \in DOMAIN s : s[j] \in Nat
      OBVIOUS
    <3> QED BY <3>1, <1>b DEF T, ToSet
  <2> QED BY <2>1, <2>2, <2>3
<1>21. Carried(w.pages, u.pages, lo, hi, lo3, hi3, L)
  BY <1>9, <1>11, <1>14, <1>20 DEF Carried, Same, L2
<1>22. Same(w.pages, u.pages, D)
  BY <1>9, <1>11 DEF Same
<1>23. ToSet(u.ids) \cap (L \union D) = {}
  BY <1>9, <1>11, <1>13 DEF L2
<1>24. ASSUME NEW j \in 1 .. i
       PROVE  u.pages[u.ids[j]] = ns[j] /\ lo3[u.ids[j]] = A[j] /\ hi3[u.ids[j]] = B[j]
  <2>1. CASE j = i
    BY <2>1, <1>11, <1>12, <1>14 DEF n
  <2>2. CASE j # i
    <3>1. j \in 1 .. i - 1
      BY <2>2, <1>a
    <3>2. u.ids[j] = v.ids[j] /\ v.ids[j] \in T /\ v.ids[j] \in L2
      BY <3>1, <1>12 DEF L2, T
    <3>3. v.ids[j] # id /\ v.ids[j] \in Nat
      BY <3>2, <1>11, <1>20
    <3>4. u.pages[v.ids[j]] = v.pages[v.ids[j]]
      BY <3>2, <1>11 DEF Same
    <3> QED BY <3>1, <3>2, <3>3, <3>4, <1>9, <1>14
  <2> QED BY <2>1, <2>2
<1>25. Built(w, u, L, R, lo, hi, D, ns, A, B, i, lo3, hi3)
  <2>1. Sound(u, L \union ToSet(u.ids), (R \ KidsOf(ns, i)) \union ToSet(u.ids), lo3, hi3, D)
    BY <1>11, <1>15, <1>19
  <2>2. Held(u.pages, L \union ToSet(u.ids))
          = Held(w.pages, L) \union HeldOf(ns, i)
    <3>1. Held(u.pages, L \union ToSet(u.ids)) = Held(v.pages, L2) \union HeldIn(n)
      BY <1>11, <1>15
    <3>2. Held(v.pages, L2) = Held(w.pages, L) \union HeldOf(ns, i - 1)
      BY <1>9
    <3> QED BY <3>1, <3>2, <1>18
  <2> QED BY <2>1, <2>2, <1>9, <1>11, <1>12, <1>21, <1>22, <1>23, <1>24 DEF Built
<1> QED BY <1>25 DEF u, n

\* PutAll writes nodes that are ready and fit, each to a page of its own.
LEMMA PutAllBuilt ==
  ASSUME NEW w, NEW L, NEW R, NEW lo, NEW hi, NEW D, Sound(w, L, R, lo, hi, D), NEW ns, NEW A, NEW B,
         Writable(w.pages, R, lo, hi, ns, A, B)
  PROVE  \E lo2, hi2 : Built(w, PutAll(w, ns), L, R, lo, hi, D, ns, A, B, Len(ns), lo2, hi2)
<1>1. Len(ns) \in Nat
  BY DEF Writable
<1>2. PICK f : PutSteps(w, ns, f) /\ PutAll(w, ns) = f[Len(ns)]
  BY <1>1, PutAllSteps
<1> DEFINE Good(i) == \E lo2, hi2 : Built(w, f[i], L, R, lo, hi, D, ns, A, B, i, lo2, hi2)
           Bad == {i \in 0 .. Len(ns) : ~ Good(i)}
<1>3. Good(0)
  <2>1. f[0] = [w EXCEPT !.ids = <<>>, !.keys = <<>>]
    BY <1>2 DEF PutSteps
  <2>2. Built(w, [w EXCEPT !.ids = <<>>, !.keys = <<>>], L, R, lo, hi, D, ns, A, B, 0, lo, hi)
    BY BuiltNone
  <2>3. Built(w, f[0], L, R, lo, hi, D, ns, A, B, 0, lo, hi)
    BY <2>1, <2>2
  <2> QED BY <2>3
<1>4. ASSUME NEW i \in 1 .. Len(ns), Good(i - 1) PROVE Good(i)
  <2>1. f[i] = Put(f[i - 1], ns[i])
    BY <1>2 DEF PutSteps
  <2>2. PICK lo2, hi2 : Built(w, f[i - 1], L, R, lo, hi, D, ns, A, B, i - 1, lo2, hi2)
    BY <1>4
  <2>3. \E lo3, hi3 : Built(w, Put(f[i - 1], ns[i]), L, R, lo, hi, D, ns, A, B, i, lo3, hi3)
    BY <2>2, BuiltMore
  <2> QED BY <2>1, <2>3
<1> HIDE DEF Good
<1>5. Bad = {}
  <2> SUFFICES ASSUME Bad # {} PROVE FALSE
    OBVIOUS
  <2>0. Bad \subseteq Nat
    OBVIOUS
  <2>1. PICK m \in 0 .. Len(ns) : m \in Bad /\ \A n \in Bad : m <= n
    BY <2>0, LeastNatural
  <2>2. m # 0
    BY <2>1, <1>3
  <2>3. m - 1 \notin Bad
    <3> HIDE DEF Bad
    <3> QED BY <2>1, <1>1
  <2>4. m \in 1 .. Len(ns) /\ m - 1 \in 0 .. Len(ns)
    BY <2>1, <2>2, <1>1
  <2> QED BY <2>1, <2>3, <2>4, <1>4
<1>6. Good(Len(ns))
  <2>1. Len(ns) \in 0 .. Len(ns)
    BY <1>1
  <2> QED BY <2>1, <1>5
<1> QED BY <1>2, <1>6 DEF Good

-----------------------------------------------------------------------------
(* Leaves.                                                                 *)

LeafReady(keys, a, b) ==
  /\ keys \in Seq(Keys) /\ Increasing(keys) /\ a < b
  /\ \A x \in 1 .. Len(keys) : a <= keys[x] /\ keys[x] < b

\* A leaf is ready when its keys rise between its bounds.
LEMMA ReadyLeaf ==
  ASSUME NEW P, NEW R, NEW lo, NEW hi, NEW keys, NEW a \in Nat, NEW b \in Nat
  PROVE  Ready(P, R, lo, hi, Leaf(keys), a, b) <=> LeafReady(keys, a, b)
<1>1. PICK n : n = Leaf(keys)
  OBVIOUS
<1>2. n.level = 0 /\ n.keys = keys /\ n.kids = <<>> /\ IsLeaf(n)
  BY <1>1 DEF Leaf, IsLeaf
<1>3. ASSUME Ready(P, R, lo, hi, n, a, b) PROVE LeafReady(keys, a, b)
  <2>1. keys \in Seq(Keys) /\ DOMAIN keys = 1 .. Len(keys)
    BY <1>2, <1>3 DEF Ready, Shaped
  <2> QED BY <1>2, <1>3, <2>1 DEF Ready, Shaped, Spans, LeafReady
<1>4. ASSUME LeafReady(keys, a, b) PROVE Ready(P, R, lo, hi, n, a, b)
  <2>1. keys \in Seq(Keys) /\ keys \in Seq(Nat) /\ DOMAIN keys = 1 .. Len(keys) /\ <<>> \in Seq(Nat)
    BY <1>4, KeysAreNat DEF LeafReady
  <2>2. n \in Node
    BY <1>1, <2>1 DEF Node, Leaf
  <2>3. DOMAIN n.kids = {} /\ Len(n.kids) = 0
    BY <1>2
  <2> QED BY <1>2, <1>4, <2>1, <2>2, <2>3 DEF Ready, Shaped, Spans, Bears, LeafReady
<1> QED BY <1>1, <1>3, <1>4

\* A node of level 0 is the leaf of its keys.
LEMMA LeafNode ==
  ASSUME NEW n, Shaped(n), n.level = 0
  PROVE  n = Leaf(n.keys)
<1>1. n \in Node /\ Len(n.kids) = 0 /\ n.kids \in Seq(Nat)
  BY DEF Shaped, IsLeaf, Node
<1>2. n.kids = <<>>
  BY <1>1
<1> QED BY <1>1, <1>2 DEF Leaf, Node

\* A leaf cut before the first key of t; and leaves joined.
LEMMA CutLeaf ==
  ASSUME NEW a \in Nat, NEW b \in Nat, NEW s \in Seq(Keys), NEW t \in Seq(Keys), NEW u \in Seq(Keys),
         Joined(u, s, t), LeafReady(u, a, b), s # <<>>, t # <<>>
  PROVE  LeafReady(s, a, t[1]) /\ LeafReady(t, t[1], b) /\ t[1] \in Keys /\ t[1] \in Nat
<1>1. PICK p \in Nat, q \in Nat : p = Len(s) /\ q = Len(t)
  OBVIOUS
<1>2. p >= 1 /\ q >= 1
  BY <1>1
<1>3. /\ Len(u) = p + q
      /\ \A i \in 1 .. p : u[i] = s[i]
      /\ \A i \in 1 .. q : u[p + i] = t[i]
  BY <1>1 DEF Joined
<1>4. /\ DOMAIN u = 1 .. p + q /\ DOMAIN s = 1 .. p /\ DOMAIN t = 1 .. q
      /\ \A x \in 1 .. p + q : u[x] \in Nat
  BY <1>1, <1>3, KeysAreNat, SMTT(60)
<1>5. /\ \A x, y \in 1 .. p + q : x < y => u[x] < u[y]
      /\ \A x \in 1 .. p + q : a <= u[x] /\ u[x] < b
  BY <1>3, <1>4 DEF LeafReady, Increasing
<1>6. t[1] \in Keys /\ t[1] \in Nat
  BY <1>1, <1>2, KeysAreNat
<1>7. u[p + 1] = t[1] /\ p + 1 \in 1 .. p + q /\ t[1] < b
  <2>1. 1 \in 1 .. q /\ p + 1 \in 1 .. p + q
    BY <1>2
  <2>2. u[p + 1] = t[1]
    BY <2>1, <1>3
  <2> QED BY <2>1, <2>2, <1>5
<1>8. ASSUME NEW x \in 1 .. p
      PROVE  a <= s[x] /\ s[x] < t[1]
  <2>1. x \in 1 .. p + q /\ x < p + 1
    BY <1>2
  <2> QED BY <2>1, <1>3, <1>5, <1>7
<1>9. a < t[1]
  <2>1. 1 \in 1 .. p /\ s[1] \in Nat
    BY <1>1, <1>2, KeysAreNat
  <2> QED BY <2>1, <1>6, <1>8
<1>10. ASSUME NEW x \in 1 .. q
       PROVE  t[1] <= t[x] /\ t[x] < b
  <2>1. p + x \in 1 .. p + q /\ u[p + x] = t[x]
    BY <1>3
  <2>2. CASE x = 1
    BY <2>2, <1>6, <1>7
  <2>3. CASE x # 1
    <3>1. p + 1 < p + x
      BY <2>3
    <3>2. t[1] < t[x] /\ t[x] < b /\ t[x] \in Nat
      BY <3>1, <2>1, <1>4, <1>5, <1>7
    <3> QED BY <3>2, <1>6
  <2> QED BY <2>2, <2>3
<1>11. \A x, y \in 1 .. p : x < y => s[x] < s[y]
  <2>1. \A x \in 1 .. p : x \in 1 .. p + q /\ u[x] = s[x]
    BY <1>3
  <2> QED BY <2>1, <1>5
<1>12. \A x, y \in 1 .. q : x < y => t[x] < t[y]
  <2>1. ASSUME NEW x \in 1 .. q, NEW y \in 1 .. q, x < y PROVE t[x] < t[y]
    <3>1. p + x \in 1 .. p + q /\ u[p + x] = t[x] /\ p + y \in 1 .. p + q /\ u[p + y] = t[y]
          /\ p + x < p + y
      BY <2>1, <1>3
    <3> QED BY <3>1, <1>5
  <2> QED BY <2>1
<1>13. LeafReady(s, a, t[1])
  BY <1>1, <1>4, <1>8, <1>9, <1>11 DEF LeafReady, Increasing
<1>14. LeafReady(t, t[1], b)
  BY <1>1, <1>4, <1>7, <1>10, <1>12 DEF LeafReady, Increasing
<1> QED BY <1>6, <1>13, <1>14

\* Two leaves side by side make one.
LEMMA JoinedLeaf ==
  ASSUME NEW a \in Nat, NEW k \in Nat, NEW b \in Nat, NEW s, NEW t, NEW u \in Seq(Keys),
         Joined(u, s, t), LeafReady(s, a, k), LeafReady(t, k, b)
  PROVE  LeafReady(u, a, b)
<1>0. s \in Seq(Keys) /\ t \in Seq(Keys)
  BY DEF LeafReady
<1>1. PICK p \in Nat, q \in Nat : p = Len(s) /\ q = Len(t)
  BY <1>0
<1>3. /\ Len(u) = p + q
      /\ \A i \in 1 .. p : u[i] = s[i]
      /\ \A i \in 1 .. q : u[p + i] = t[i]
  BY <1>1 DEF Joined
<1>4. /\ DOMAIN u = 1 .. p + q /\ DOMAIN s = 1 .. p /\ DOMAIN t = 1 .. q
      /\ (\A x \in 1 .. p : s[x] \in Nat) /\ \A x \in 1 .. q : t[x] \in Nat
  <2>1. DOMAIN u = 1 .. Len(u) /\ DOMAIN s = 1 .. Len(s) /\ DOMAIN t = 1 .. Len(t)
    BY <1>0
  <2>2. (\A x \in 1 .. Len(s) : s[x] \in Nat) /\ \A x \in 1 .. Len(t) : t[x] \in Nat
    BY <1>0, KeysAreNat
  <2> QED BY <2>1, <2>2, <1>1, <1>3
<1>5. /\ \A x, y \in 1 .. p : x < y => s[x] < s[y]
      /\ \A x, y \in 1 .. q : x < y => t[x] < t[y]
      /\ \A x \in 1 .. p : a <= s[x] /\ s[x] < k
      /\ \A x \in 1 .. q : k <= t[x] /\ t[x] < b
      /\ a < k /\ k < b
  BY <1>1, <1>4 DEF LeafReady, Increasing
<1>6. \A x \in 1 .. p + q : x \in 1 .. p \/ \E y \in 1 .. q : x = p + y
  <2>1. ASSUME NEW x \in 1 .. p + q, x \notin 1 .. p PROVE \E y \in 1 .. q : x = p + y
    <3>1. x - p \in 1 .. q /\ x = p + (x - p)
      BY <2>1
    <3> QED BY <3>1
  <2> QED BY <2>1
<1>7. ASSUME NEW x \in 1 .. p + q
      PROVE  a <= u[x] /\ u[x] < b
  <2>1. CASE x \in 1 .. p
    BY <2>1, <1>3, <1>4, <1>5
  <2>2. ASSUME NEW y \in 1 .. q, x = p + y PROVE a <= u[x] /\ u[x] < b
    <3>1. u[x] = t[y] /\ t[y] \in Nat /\ k <= t[y] /\ t[y] < b
      BY <2>2, <1>3, <1>4, <1>5
    <3> QED BY <3>1, <1>5
  <2> QED BY <2>1, <2>2, <1>6
<1>8. ASSUME NEW x \in 1 .. p + q, NEW y \in 1 .. p + q, x < y
      PROVE  u[x] < u[y]
  <2>1. CASE x \in 1 .. p /\ y \in 1 .. p
    BY <2>1, <1>3, <1>5, <1>8
  <2>2. ASSUME NEW z \in 1 .. q, y = p + z, x \in 1 .. p PROVE u[x] < u[y]
    <3>1. u[y] = t[z] /\ t[z] \in Nat /\ k <= t[z] /\ u[x] = s[x] /\ s[x] \in Nat /\ s[x] < k
      BY <2>2, <1>3, <1>4, <1>5
    <3> QED BY <3>1
  <2>3. ASSUME NEW z \in 1 .. q, y = p + z, NEW v \in 1 .. q, x = p + v PROVE u[x] < u[y]
    <3>1. v < z
      BY <2>3, <1>8
    <3> QED BY <3>1, <2>3, <1>3, <1>5
  <2>4. ASSUME NEW v \in 1 .. q, x = p + v PROVE y \notin 1 .. p
    BY <2>4, <1>8
  <2> QED BY <2>1, <2>2, <2>3, <2>4, <1>6
<1> QED BY <1>3, <1>4, <1>5, <1>7, <1>8 DEF LeafReady, Increasing

-----------------------------------------------------------------------------
(* A node written on one to three pages.                                   *)

Rewritten(w, v, L, R, lo, hi, D, n, a, b, lo2, hi2) ==
  /\ Len(v.keys) <= 2
  /\ Sound(v, L \union ToSet(v.ids), (R \ ToSet(n.kids)) \union ToSet(v.ids), lo2, hi2, D)
  /\ Carried(w.pages, v.pages, lo, hi, lo2, hi2, L) /\ Same(w.pages, v.pages, D)
  /\ ToSet(v.ids) \cap (L \union D) = {}
  /\ Row(v.pages, ToSet(v.ids), lo2, hi2, n.level + 1, v.keys, v.ids, a, b)
  /\ v.freed = w.freed
  /\ Held(v.pages, L \union ToSet(v.ids)) = Held(w.pages, L) \union HeldIn(n)

(* The nodes ns, on the pages from, are the row ids and ks.                *)
Ordered(ns, A, B, from, n, ids, ks, a, b) ==
  /\ ids \in Seq(Nat) /\ ks \in Seq(Keys) /\ Len(ids) = Len(ks) + 1 /\ Len(ks) <= 2
  /\ ToSet(ids) = ToSet(from)
  /\ \A x \in 1 .. Len(ks) + 1 : \E j \in 1 .. Len(ns) :
       /\ ids[x] = from[j] /\ ns[j].level = n.level
       /\ A[j] = Fence(ks, a, b, x - 1) /\ B[j] = Fence(ks, a, b, x) /\ A[j] < B[j]
  /\ KidsOf(ns, Len(ns)) = ToSet(n.kids) /\ HeldOf(ns, Len(ns)) = HeldIn(n)

\* Pages in the order of their bounds stand for the node that was split.
LEMMA RewrittenIf ==
  ASSUME NEW w, NEW p, NEW L, NEW R, NEW lo, NEW hi, NEW D, NEW ns, NEW A, NEW B, NEW lo2, NEW hi2,
         Built(w, p, L, R, lo, hi, D, ns, A, B, Len(ns), lo2, hi2),
         NEW n, NEW ids, NEW ks, NEW a, NEW b, Ordered(ns, A, B, p.ids, n, ids, ks, a, b)
  PROVE  Rewritten(w, [p EXCEPT !.ids = ids, !.keys = ks], L, R, lo, hi, D, n, a, b, lo2, hi2)
<1>1. PICK v : v = [p EXCEPT !.ids = ids, !.keys = ks]
  OBVIOUS
<1>2. p \in WorkType
  BY DEF Built, Sound
<1>3. v.pages = p.pages /\ v.free = p.free /\ v.ids = ids /\ v.keys = ks /\ v.freed = p.freed
  BY <1>1, <1>2 DEF WorkType
<1>4. ids \in Seq(Nat) /\ ks \in Seq(Keys) /\ ks \in Seq(Nat)
  BY KeysAreNat DEF Ordered
<1>5. v \in WorkType
  BY <1>1, <1>2, <1>4 DEF WorkType
<1>6. ToSet(ids) = ToSet(p.ids) /\ Len(ks) <= 2 /\ Len(ids) = Len(ks) + 1
      /\ KidsOf(ns, Len(ns)) = ToSet(n.kids) /\ HeldOf(ns, Len(ns)) = HeldIn(n)
  BY DEF Ordered
<1>7. /\ Sound(p, L \union ToSet(ids), (R \ ToSet(n.kids)) \union ToSet(ids), lo2, hi2, D)
      /\ Carried(w.pages, p.pages, lo, hi, lo2, hi2, L) /\ Same(w.pages, p.pages, D)
      /\ ToSet(ids) \cap (L \union D) = {}
      /\ p.freed = w.freed
      /\ Held(p.pages, L \union ToSet(ids)) = Held(w.pages, L) \union HeldIn(n)
  BY <1>6 DEF Built
<1>8. Sound(v, L \union ToSet(ids), (R \ ToSet(n.kids)) \union ToSet(ids), lo2, hi2, D)
  BY <1>3, <1>5, <1>7 DEF Sound
<1>9. ASSUME NEW x \in 1 .. Len(ks) + 1
      PROVE  Fits(p.pages, ToSet(ids), lo2, hi2, n.level + 1, ids[x], Fence(ks, a, b, x - 1), Fence(ks, a, b, x))
  <2>1. PICK j \in 1 .. Len(ns) :
       /\ ids[x] = p.ids[j] /\ ns[j].level = n.level
       /\ A[j] = Fence(ks, a, b, x - 1) /\ B[j] = Fence(ks, a, b, x) /\ A[j] < B[j]
    BY DEF Ordered
  <2>2. p.pages[p.ids[j]] = ns[j] /\ lo2[p.ids[j]] = A[j] /\ hi2[p.ids[j]] = B[j]
    BY DEF Built
  <2>3. ids[x] \in ToSet(ids)
    <3>1. DOMAIN ids = 1 .. Len(ks) + 1
      BY <1>4, <1>6
    <3> QED BY <3>1, Zenon DEF ToSet
  <2> QED BY <2>1, <2>2, <2>3 DEF Fits
<1>10. Row(p.pages, ToSet(ids), lo2, hi2, n.level + 1, ks, ids, a, b)
  BY <1>4, <1>6, <1>9 DEF Row
<1>11. Rewritten(w, v, L, R, lo, hi, D, n, a, b, lo2, hi2)
  BY <1>3, <1>6, <1>7, <1>8, <1>10 DEF Rewritten
<1> QED BY <1>1, <1>11

\* One page.
LEMMA OneRewritten ==
  ASSUME NEW w, NEW L, NEW R, NEW lo, NEW hi, NEW D, Sound(w, L, R, lo, hi, D),
         NEW n, NEW a \in Nat, NEW b \in Nat, Ready(w.pages, R, lo, hi, n, a, b), Occupied(n) <= Capacity
  PROVE  \E lo2, hi2 : /\ Rewritten(w, PutAll(w, <<n>>), L, R, lo, hi, D, n, a, b, lo2, hi2)
                       /\ PutAll(w, <<n>>).pages[PutAll(w, <<n>>).ids[1]] = n
                       /\ Len(PutAll(w, <<n>>).ids) = 1 /\ PutAll(w, <<n>>).keys = <<>>
<1>1. PICK ns : ns = <<n>>
  OBVIOUS
<1>2. Len(ns) = 1 /\ ns[1] = n /\ 1 .. 1 = {1}
  BY <1>1
<1>3. PICK A, B : A = <<a>> /\ B = <<b>>
  OBVIOUS
<1>4. A[1] = a /\ B[1] = b
  BY <1>3
<1>5. Writable(w.pages, R, lo, hi, ns, A, B)
  BY <1>2, <1>4 DEF Writable
<1>6. PICK p : p = PutAll(w, ns)
  OBVIOUS
<1>7. PICK lo2, hi2 : Built(w, p, L, R, lo, hi, D, ns, A, B, 1, lo2, hi2)
  BY <1>2, <1>5, <1>6, PutAllBuilt
<1>8. p \in WorkType /\ p.keys = <<>> /\ Len(p.ids) = 1
  BY <1>7 DEF Built, Sound
<1>9. p.ids \in Seq(Nat) /\ <<>> \in Seq(Keys) /\ Len(<<>>) = 0
  BY <1>8 DEF WorkType
<1>10. a < b
  BY DEF Ready, Spans
<1>11. Ordered(ns, A, B, p.ids, n, p.ids, p.keys, a, b)
  <2>1. KidsOf(ns, 1) = ToSet(n.kids) /\ HeldOf(ns, 1) = HeldIn(n)
    BY <1>2 DEF KidsOf, HeldOf
  <2>2. Fence(p.keys, a, b, 0) = a /\ Fence(p.keys, a, b, 1) = b
    BY <1>8, <1>9 DEF Fence
  <2>3. ASSUME NEW x \in 1 .. 0 + 1
        PROVE  \E j \in 1 .. Len(ns) :
       /\ p.ids[x] = p.ids[j] /\ ns[j].level = n.level
       /\ A[j] = Fence(p.keys, a, b, x - 1) /\ B[j] = Fence(p.keys, a, b, x) /\ A[j] < B[j]
    <3>1. x = 1 /\ 1 \in 1 .. Len(ns)
      BY <1>2
    <3> QED BY <3>1, <2>2, <1>2, <1>4, <1>10
  <2> QED BY <2>1, <2>3, <1>2, <1>8, <1>9 DEF Ordered
<1>12. Rewritten(w, [p EXCEPT !.ids = p.ids, !.keys = p.keys], L, R, lo, hi, D, n, a, b, lo2, hi2)
  BY <1>2, <1>7, <1>11, RewrittenIf
<1>13. p = [p EXCEPT !.ids = p.ids, !.keys = p.keys]
  BY <1>8 DEF WorkType
<1>14. p.pages[p.ids[1]] = n
  BY <1>2, <1>7 DEF Built
<1> QED BY <1>1, <1>6, <1>8, <1>12, <1>13, <1>14

-----------------------------------------------------------------------------
(* Cuts.                                                                   *)

\* A run is its two parts, one after the other.
LEMMA SubSeqJoined ==
  ASSUME NEW S, NEW s \in Seq(S), NEW i \in Nat, NEW j \in Nat, NEW k \in Nat,
         1 <= i, i <= j + 1, j <= k, k <= Len(s)
  PROVE  Joined(SubSeq(s, i, k), SubSeq(s, i, j), SubSeq(s, j + 1, k))
<1>1. /\ Len(SubSeq(s, i, k)) = k - i + 1
      /\ \A x \in 1 .. k - i + 1 : SubSeq(s, i, k)[x] = s[i + x - 1]
  BY SubSeqIs
<1>2. /\ Len(SubSeq(s, i, j)) = j - i + 1
      /\ \A x \in 1 .. j - i + 1 : SubSeq(s, i, j)[x] = s[i + x - 1]
  BY SubSeqIs
<1>3. /\ Len(SubSeq(s, j + 1, k)) = k - (j + 1) + 1
      /\ \A x \in 1 .. k - (j + 1) + 1 : SubSeq(s, j + 1, k)[x] = s[(j + 1) + x - 1]
  <2>1. j + 1 \in Nat /\ j + 1 >= 1 /\ j + 1 <= k + 1
    OBVIOUS
  <2> QED BY <2>1, SubSeqIs
<1>4. PICK u, p, q : u = SubSeq(s, i, k) /\ p = SubSeq(s, i, j) /\ q = SubSeq(s, j + 1, k)
  OBVIOUS
<1>5. ASSUME NEW x \in 1 .. Len(p) PROVE u[x] = p[x]
  <2>1. x \in 1 .. k - i + 1 /\ x \in 1 .. j - i + 1
    BY <1>2, <1>4
  <2> QED BY <2>1, <1>1, <1>2, <1>4
<1>6. ASSUME NEW x \in 1 .. Len(q) PROVE u[Len(p) + x] = q[x]
  <2>1. x \in 1 .. k - (j + 1) + 1 /\ Len(p) + x \in 1 .. k - i + 1
        /\ i + (Len(p) + x) - 1 = (j + 1) + x - 1
    BY <1>2, <1>3, <1>4
  <2> QED BY <2>1, <1>1, <1>3, <1>4
<1>7. Len(u) = Len(p) + Len(q)
  BY <1>1, <1>2, <1>3, <1>4
<1> QED BY <1>4, <1>5, <1>6, <1>7 DEF Joined

\* The run from first to last is the sequence.
LEMMA WholeSubSeq ==
  ASSUME NEW S, NEW s \in Seq(S)
  PROVE  SubSeq(s, 1, Len(s)) = s
<1>1. Len(s) \in Nat
  OBVIOUS
<1>2. /\ SubSeq(s, 1, Len(s)) \in Seq(S) /\ Len(SubSeq(s, 1, Len(s))) = Len(s) - 1 + 1
      /\ \A x \in 1 .. Len(s) - 1 + 1 : SubSeq(s, 1, Len(s))[x] = s[1 + x - 1]
  BY <1>1, SubSeqIs
<1>3. Len(s) - 1 + 1 = Len(s) /\ \A x \in 1 .. Len(s) : 1 + x - 1 = x
  BY <1>1
<1> QED BY <1>2, <1>3, SeqEqual

\* The bytes of a run are the difference of two partial sums.
LEMMA SubTotal ==
  ASSUME NEW sizes \in [Keys -> Nat], NEW keys \in Seq(Keys), NEW F, Summed(sizes, keys, F),
         NEW i \in Nat, NEW j \in Nat, 1 <= i, i <= j + 1, j <= Len(keys)
  PROVE  /\ Total(sizes, SubSeq(keys, i, j)) \in Nat /\ F[i - 1] \in Nat /\ F[j] \in Nat
         /\ Total(sizes, SubSeq(keys, i, j)) + F[i - 1] = F[j]
<1>1. ASSUME NEW m \in Nat, m <= Len(keys)
      PROVE  Total(sizes, SubSeq(keys, 1, m)) = F[m]
  <2>1. PICK s : s = SubSeq(keys, 1, m)
    OBVIOUS
  <2>2. /\ SubSeq(keys, 1, m) \in Seq(Keys) /\ Len(SubSeq(keys, 1, m)) = m - 1 + 1
        /\ \A x \in 1 .. m - 1 + 1 : SubSeq(keys, 1, m)[x] = keys[1 + x - 1]
    BY <1>1, SubSeqIs
  <2>3. s \in Seq(Keys) /\ Len(s) = m /\ \A x \in 1 .. m : s[x] = keys[x]
    <3>1. m - 1 + 1 = m /\ \A x \in 1 .. m : 1 + x - 1 = x
      OBVIOUS
    <3> QED BY <2>1, <2>2, <3>1
  <2>4. Starts(keys, s)
    BY <2>3, <1>1 DEF Starts
  <2>5. PICK f : Summed(sizes, s, f) /\ Total(sizes, s) = f[m]
    BY <2>3, TotalSummed
  <2>6. F[Len(s)] = f[Len(s)]
    BY <2>3, <2>4, <2>5, SumsAgree
  <2> QED BY <2>1, <2>3, <2>5, <2>6
<1>2. i - 1 \in Nat /\ i - 1 <= Len(keys) /\ i - 1 <= j /\ 1 <= (i - 1) + 1 /\ (i - 1) + 1 = i
  OBVIOUS
<1>3. PICK u, s, t : u = SubSeq(keys, 1, j) /\ s = SubSeq(keys, 1, i - 1) /\ t = SubSeq(keys, i, j)
  OBVIOUS
<1>4. u \in Seq(Keys) /\ s \in Seq(Keys) /\ t \in Seq(Keys)
  <2>1. SubSeq(keys, 1, j) \in Seq(Keys)
    BY SubSeqIs
  <2>2. SubSeq(keys, 1, i - 1) \in Seq(Keys)
    BY <1>2, SubSeqIs
  <2>3. SubSeq(keys, i, j) \in Seq(Keys)
    BY SubSeqIs
  <2> QED BY <2>1, <2>2, <2>3, <1>3
<1>5. Joined(u, s, t)
  <2>1. Joined(SubSeq(keys, 1, j), SubSeq(keys, 1, i - 1), SubSeq(keys, (i - 1) + 1, j))
    BY <1>2, SubSeqJoined
  <2> QED BY <2>1, <1>2, <1>3
<1>6. Total(sizes, u) = Total(sizes, s) + Total(sizes, t)
  BY <1>4, <1>5, TotalOfParts, ZenonT(60)
<1>7. Total(sizes, u) \in Nat /\ Total(sizes, s) \in Nat /\ Total(sizes, t) \in Nat
  BY <1>4, TotalNat
<1>8. Total(sizes, u) = F[j] /\ Total(sizes, s) = F[i - 1]
  BY <1>1, <1>2, <1>3
<1> QED BY <1>3, <1>6, <1>7, <1>8

CutAfter(sizes, room, keys, first, c) ==
  /\ c \in first .. Len(keys) + 1
  /\ c <= Len(keys) => Total(sizes, SubSeq(keys, first, c)) > room
  /\ Total(sizes, SubSeq(keys, first, c - 1)) <= room

NextCut(sizes, room, keys, first) ==
  Min({i \in first .. Len(keys) : Total(sizes, SubSeq(keys, first, i)) > room}
      \union {Len(keys) + 1})

\* The next cut comes after the longest run that fits.
LEMMA NextCutIs ==
  ASSUME NEW sizes \in [Keys -> Nat], NEW room \in Nat, NEW keys \in Seq(Keys),
         NEW first \in 1 .. Len(keys) + 1
  PROVE  CutAfter(sizes, room, keys, first, NextCut(sizes, room, keys, first))
<1> DEFINE S == {i \in first .. Len(keys) : Total(sizes, SubSeq(keys, first, i)) > room}
                \union {Len(keys) + 1}
           c == Min(S)
<1>0. Len(keys) \in Nat
  OBVIOUS
<1>1. S \subseteq Nat /\ S # {}
  BY <1>0
<1>2. c \in S /\ \A y \in S : c <= y
  <2> HIDE DEF S
  <2> QED BY <1>1, MinIn
<1>3. c \in first .. Len(keys) + 1 /\ (c <= Len(keys) => Total(sizes, SubSeq(keys, first, c)) > room)
  <2> HIDE DEF c
  <2> QED BY <1>0, <1>2
<1>4. Total(sizes, SubSeq(keys, first, c - 1)) <= room
  <2>0. c - 1 \in Nat /\ c - 1 <= Len(keys) /\ c - 1 >= first - 1
    BY <1>0, <1>3
  <2>5. c - 1 \in Nat /\ first \in Nat /\ first >= 1 /\ c - 1 <= Len(keys) /\ first <= (c - 1) + 1
    BY <1>0, <2>0
  <2> HIDE DEF c
  <2>1. CASE c = first
    <3>1. SubSeq(keys, first, c - 1) = <<>>
      <4>1. Len(SubSeq(keys, first, c - 1)) = (c - 1) - first + 1 /\ SubSeq(keys, first, c - 1) \in Seq(Keys)
        BY <2>5, SubSeqIs
      <4>2. Len(SubSeq(keys, first, c - 1)) = 0
        BY <4>1, <2>1
      <4> QED BY <4>1, <4>2
    <3>2. Total(sizes, <<>>) = 0
      BY TotalEmpty
    <3>3. Total(sizes, SubSeq(keys, first, c - 1)) = 0
      BY <3>1, <3>2, Zenon
    <3> QED BY <3>3
  <2>2. CASE c # first
    <3>1. c - 1 \in first .. Len(keys)
      BY <2>0, <2>2, <1>3
    <3>2. c - 1 \notin S
      <4> HIDE DEF S, c
      <4> QED BY <1>2, <1>3, <1>0
    <3>3. SubSeq(keys, first, c - 1) \in Seq(Keys)
      BY <2>5, SubSeqIs
    <3>4. Total(sizes, SubSeq(keys, first, c - 1)) \in Nat
      BY <3>3, TotalNat
    <3> HIDE DEF c
    <3> QED BY <3>1, <3>2, <3>4
  <2> QED BY <2>1, <2>2
<1> QED BY <1>3, <1>4 DEF CutAfter, NextCut

CutSteps(sizes, room, keys, promoted, f) ==
  /\ f[0] = 1 - promoted
  /\ \A n \in 1 .. Len(keys) + 1 : f[n] = NextCut(sizes, room, keys, f[n - 1] + promoted)
  /\ DOMAIN f = 0 .. Len(keys) + 1

\* The recursive function in Cuts exists.
LEMMA CutsSteps ==
  ASSUME NEW sizes, NEW room, NEW keys, Len(keys) \in Nat, NEW promoted
  PROVE  CutSteps(sizes, room, keys, promoted, Cuts(sizes, room, keys, promoted))
<1> DEFINE Next1(c) == NextCut(sizes, room, keys, c + promoted)
           Rec(g, n) == g = [i \in 0 .. n |-> IF i = 0 THEN 1 - promoted ELSE Next1(g[i - 1])]
<1> HIDE DEF Next1
<1>1. \A n \in Nat : \E g : Rec(g, n)
  <2> DEFINE Bad == {n \in Nat : ~ \E g : Rec(g, n)}
  <2> SUFFICES ASSUME Bad # {} PROVE FALSE
    OBVIOUS
  <2>0. Bad \subseteq Nat
    OBVIOUS
  <2>1. PICK m \in Nat : m \in Bad /\ \A n \in Bad : m <= n
    BY <2>0, LeastNatural
  <2>2. m # 0
    <3> DEFINE g == [i \in 0 .. 0 |-> 1 - promoted]
    <3>1. Rec(g, 0)
      OBVIOUS
    <3> QED BY <2>1, <3>1
  <2>3. m - 1 \in Nat /\ m - 1 \notin Bad
    <3> HIDE DEF Bad
    <3> QED BY <2>1, <2>2
  <2>4. PICK g : Rec(g, m - 1)
    BY <2>3
  <2> DEFINE h == [i \in 0 .. m |-> IF i < m THEN g[i] ELSE Next1(g[m - 1])]
  <2>5. Rec(h, m)
    <3>1. ASSUME NEW i \in 0 .. m
          PROVE  h[i] = IF i = 0 THEN 1 - promoted ELSE Next1(h[i - 1])
      BY <2>3, <2>4
    <3> QED BY <3>1, Zenon
  <2> QED BY <2>5, <2>1
<1> HIDE DEF Rec
<1> DEFINE f == CHOOSE g : Rec(g, Len(keys) + 1)
<1>2. Len(keys) + 1 \in Nat
  OBVIOUS
<1>3. Rec(f, Len(keys) + 1)
  BY <1>1, <1>2, Zenon
<1>4. Cuts(sizes, room, keys, promoted) = f
  BY Zenon DEF Cuts, Rec, Next1, NextCut
<1> HIDE DEF f
<1>5. CutSteps(sizes, room, keys, promoted, f)
  <2>1. f = [i \in 0 .. Len(keys) + 1 |-> IF i = 0 THEN 1 - promoted ELSE Next1(f[i - 1])]
    BY <1>3 DEF Rec
  <2>2. DOMAIN f = 0 .. Len(keys) + 1 /\ f[0] = 1 - promoted
        /\ \A n \in 1 .. Len(keys) + 1 : f[n] = Next1(f[n - 1])
    BY <2>1, <1>2
  <2> QED BY <2>2 DEF CutSteps, Next1
<1> QED BY <1>4, <1>5

\* There are as many groups as cuts up to the last.
LEMMA GroupsAre ==
  ASSUME NEW cut, NEW keys, NEW m \in DOMAIN cut, DOMAIN cut \subseteq Nat, cut[m] = Len(keys) + 1,
         \A n \in DOMAIN cut : n < m => cut[n] # Len(keys) + 1
  PROVE  Groups(cut, keys) = 1 .. m
<1> DEFINE S == {n \in DOMAIN cut : cut[n] = Len(keys) + 1}
<1>1. S \subseteq Nat /\ m \in S
  OBVIOUS
<1>2. Min(S) \in S /\ \A y \in S : Min(S) <= y
  <2> HIDE DEF S
  <2> QED BY <1>1, MinIn
<1>3. Min(S) = m
  <2>1. PICK c : c = Min(S)
    OBVIOUS
  <2>2. c \in DOMAIN cut /\ cut[c] = Len(keys) + 1 /\ c <= m
    BY <2>1, <1>1, <1>2
  <2>3. ~ (c < m) /\ c \in Nat /\ m \in Nat
    BY <2>2
  <2> QED BY <2>1, <2>2, <2>3
<1> QED BY <1>3 DEF Groups

\* The groups of a leaf with an entry too much: two, or three.
LeafCuts(keys, gs, c, d) ==
  /\ c \in 2 .. Len(keys) /\ d \in c + 1 .. Len(keys) + 1
  /\ Len(gs) = (IF d = Len(keys) + 1 THEN 2 ELSE 3)
  /\ gs[1] = SubSeq(keys, 1, c - 1) /\ gs[2] = SubSeq(keys, c, d - 1)
  /\ d # Len(keys) + 1 => gs[3] = SubSeq(keys, d, Len(keys))
  /\ \A i \in 1 .. Len(gs) : Total(LeafSize, gs[i]) <= Capacity

\* An overfull leaf, of at most two pages, is cut into two or three groups that fit.
LEMMA LeafGroupsAre ==
  ASSUME NEW keys \in Seq(Keys), Total(LeafSize, keys) > Capacity, Total(LeafSize, keys) <= 2 * Capacity
  PROVE  /\ \E c, d \in Nat : LeafCuts(keys, LeafGroups(keys), c, d)
         /\ DOMAIN LeafGroups(keys) = 1 .. Len(LeafGroups(keys)) /\ Len(LeafGroups(keys)) \in Nat
<1>0. /\ LeafSize \in [Keys -> Nat] /\ Capacity \in Nat
      /\ \A k \in Keys : LeafSize[k] <= Capacity
  BY SizesAssumption
<1>1. PICK N \in Nat : N = Len(keys)
  OBVIOUS
<1>2. PICK cut : cut = Cuts(LeafSize, Capacity, keys, 0)
  OBVIOUS
<1>3. CutSteps(LeafSize, Capacity, keys, 0, cut)
  BY <1>1, <1>2, CutsSteps
<1>4. PICK F : Summed(LeafSize, keys, F)
  BY <1>0, TotalSummed
<1> DEFINE T(i, j) == Total(LeafSize, SubSeq(keys, i, j))
<1>6. ASSUME NEW i \in Nat, NEW j \in Nat, 1 <= i, i <= j + 1, j <= N
      PROVE  /\ T(i, j) \in Nat
             /\ F[i - 1] \in Nat /\ F[j] \in Nat /\ T(i, j) + F[i - 1] = F[j]
  BY <1>0, <1>1, <1>4, <1>6, SubTotal
<1>5. \A i, j : T(i, j) = Total(LeafSize, SubSeq(keys, i, j))
  OBVIOUS
<1> HIDE DEF T
<1>7. N >= 1 /\ T(1, N) > Capacity /\ T(1, N) <= 2 * Capacity
  <2>1. SubSeq(keys, 1, N) = keys
    BY <1>1, WholeSubSeq
  <2>2. N # 0
    <3> SUFFICES ASSUME N = 0 PROVE FALSE
      OBVIOUS
    <3>1. Len(keys) = 0
      BY <1>1
    <3>2. keys = <<>>
      BY <3>1
    <3>3. Total(LeafSize, <<>>) = 0
      BY <1>0, TotalEmpty
    <3> QED BY <3>2, <3>3, <1>0
  <2>3. T(1, N) = Total(LeafSize, keys)
    BY <2>1, <1>5
  <2>4. N >= 1
    BY <2>2
  <2> QED BY <2>3, <2>4
<1>8. ASSUME NEW first \in 1 .. N
      PROVE  LET c == NextCut(LeafSize, Capacity, keys, first) IN
             /\ c \in first + 1 .. N + 1 /\ c \in Nat /\ T(first, c - 1) <= Capacity
             /\ c <= N => T(first, c) > Capacity
  <2>1. PICK c : c = NextCut(LeafSize, Capacity, keys, first)
    OBVIOUS
  <2>2. CutAfter(LeafSize, Capacity, keys, first, c)
    <3>1. first \in 1 .. Len(keys) + 1
      BY <1>1
    <3> QED BY <3>1, <2>1, <1>0, NextCutIs
  <2>3. c \in first .. N + 1 /\ (c <= N => T(first, c) > Capacity) /\ T(first, c - 1) <= Capacity
    <3>1. c \in first .. N + 1 /\ c \in Nat /\ c - 1 \in Nat
      BY <1>1, <2>2 DEF CutAfter
    <3> QED BY <3>1, <1>1, <1>5, <2>2 DEF CutAfter
  <2>4. c # first
    <3>1. SUFFICES T(first, first) <= Capacity
      BY <2>3, <1>6, <1>0
    <3>2. T(first, first) + F[first - 1] = F[first] /\ T(first, first) \in Nat /\ F[first - 1] \in Nat
      BY <1>6
    <3>3. F[first] = F[first - 1] + LeafSize[keys[first]] /\ keys[first] \in Keys
      BY <1>1, <1>4 DEF Summed
    <3>4. LeafSize[keys[first]] \in Nat /\ LeafSize[keys[first]] <= Capacity
      BY <3>3, <1>0
    <3> QED BY <3>2, <3>3, <3>4, <1>0
  <2> QED BY <2>1, <2>3, <2>4
<1>9. /\ cut[0] = 1 /\ DOMAIN cut = 0 .. N + 1
      /\ \A n \in 1 .. N + 1 : cut[n] = NextCut(LeafSize, Capacity, keys, cut[n - 1] + 0)
  BY <1>1, <1>3 DEF CutSteps
<1>10. PICK c \in Nat : c = cut[1] /\ c \in 2 .. N /\ T(1, c - 1) <= Capacity /\ T(1, c) > Capacity
  <2>1. 1 \in 1 .. N + 1 /\ 1 \in 1 .. N /\ cut[1 - 1] + 0 = 1
    BY <1>7, <1>9
  <2>2. PICK c : c = NextCut(LeafSize, Capacity, keys, 1)
    OBVIOUS
  <2>3. c \in 1 + 1 .. N + 1 /\ c \in Nat /\ T(1, c - 1) <= Capacity /\ (c <= N => T(1, c) > Capacity)
    BY <1>8, <2>1, <2>2
  <2>4. cut[1] = c
    BY <1>9, <2>1, <2>2
  <2>5. c # N + 1
    <3>1. c = N + 1 => c - 1 = N
      OBVIOUS
    <3>2. T(1, N) \in Nat
      BY <1>6, <1>7
    <3>3. c = N + 1 => T(1, c - 1) = T(1, N)
      BY <3>1
    <3> QED BY <3>2, <3>3, <2>3, <1>7, <1>0
  <2> QED BY <2>3, <2>4, <2>5
<1>11. PICK d \in Nat : d = cut[2] /\ d \in c + 1 .. N + 1 /\ T(c, d - 1) <= Capacity
                        /\ (d <= N => T(c, d) > Capacity)
  <2>1. 2 \in 1 .. N + 1 /\ c \in 1 .. N /\ cut[2 - 1] + 0 = c
    BY <1>7, <1>9, <1>10
  <2>2. PICK d : d = NextCut(LeafSize, Capacity, keys, c)
    OBVIOUS
  <2>3. d \in c + 1 .. N + 1 /\ d \in Nat /\ T(c, d - 1) <= Capacity /\ (d <= N => T(c, d) > Capacity)
    BY <1>8, <2>1, <2>2
  <2>4. cut[2] = d
    BY <1>9, <2>1, <2>2
  <2> QED BY <2>3, <2>4
<1>12. PICK gs : gs = LeafGroups(keys)
  OBVIOUS
<1>13. gs = [n \in Groups(cut, keys) |-> SubSeq(keys, cut[n - 1], cut[n] - 1)]
  BY <1>2, <1>12 DEF LeafGroups
<1> SUFFICES /\ \E x, y \in Nat : LeafCuts(keys, gs, x, y)
             /\ DOMAIN gs = 1 .. Len(gs) /\ Len(gs) \in Nat
  BY <1>12
<1>14. CASE d = N + 1
  <2>1. Groups(cut, keys) = 1 .. 2
    <3>1. \A n \in DOMAIN cut : n < 2 => n = 0 \/ n = 1
      BY <1>9
    <3>2. cut[0] # Len(keys) + 1 /\ cut[1] # Len(keys) + 1 /\ cut[2] = Len(keys) + 1
          /\ 2 \in DOMAIN cut /\ DOMAIN cut \subseteq Nat
      BY <1>1, <1>7, <1>9, <1>10, <1>11, <1>14
    <3> QED BY <3>1, <3>2, GroupsAre
  <2>2. Len(gs) = 2 /\ DOMAIN gs = 1 .. 2
    BY <2>1, <1>13
  <2>3. gs[1] = SubSeq(keys, 1, c - 1) /\ gs[2] = SubSeq(keys, c, d - 1)
    <3>1. 1 \in 1 .. 2 /\ 2 \in 1 .. 2 /\ 1 - 1 = 0 /\ 2 - 1 = 1
      OBVIOUS
    <3> QED BY <3>1, <2>1, <1>9, <1>10, <1>11, <1>13
  <2>4. T(1, c - 1) = Total(LeafSize, gs[1]) /\ T(c, d - 1) = Total(LeafSize, gs[2])
    BY <2>3, <1>5
  <2>5. ASSUME NEW i \in 1 .. 2 PROVE Total(LeafSize, gs[i]) <= Capacity
    <3>1. i = 1 \/ i = 2
      OBVIOUS
    <3> QED BY <3>1, <2>4, <1>10, <1>11
  <2>6. LeafCuts(keys, gs, c, d)
    BY <2>2, <2>3, <2>5, <1>1, <1>10, <1>11, <1>14 DEF LeafCuts
  <2> QED BY <2>2, <2>6
<1>15. CASE d # N + 1
  <2>0. d \in 1 .. N /\ d <= N /\ N >= 3
    BY <1>10, <1>11, <1>15
  <2>1. cut[3] = N + 1 /\ T(d, N) <= Capacity
    <3>1. 3 \in 1 .. N + 1 /\ cut[3 - 1] + 0 = d
      BY <2>0, <1>11
    <3>2. PICK e : e = NextCut(LeafSize, Capacity, keys, d)
      OBVIOUS
    <3>3. e \in d + 1 .. N + 1 /\ e \in Nat /\ T(d, e - 1) <= Capacity /\ (e <= N => T(d, e) > Capacity)
      BY <1>8, <2>0, <3>2
    <3>4. cut[3] = e
      BY <1>9, <3>1, <3>2
    <3>5. e = N + 1
      <4> SUFFICES ASSUME e <= N PROVE FALSE
        BY <3>3
      <4>1. T(1, c) > Capacity /\ T(d, e) > Capacity
        BY <3>3, <1>10
      <4>2. T(1, c) + F[1 - 1] = F[c] /\ T(1, c) \in Nat /\ F[1 - 1] \in Nat /\ F[c] \in Nat
        <5>1. 1 <= c + 1 /\ c <= N
          BY <1>10
        <5> QED BY <5>1, <1>6
      <4>3. T(d, e) + F[d - 1] = F[e] /\ T(d, e) \in Nat /\ F[d - 1] \in Nat /\ F[e] \in Nat
        BY <1>6, <3>3, <2>0
      <4>4. T(1, N) + F[1 - 1] = F[N] /\ T(1, N) \in Nat /\ F[N] \in Nat
        BY <1>6, <1>7
      <4>5. F[c] <= F[d - 1]
        <5>1. c + 1 \in Nat /\ d - 1 \in Nat /\ 1 <= c + 1 /\ c + 1 <= (d - 1) + 1 /\ d - 1 <= N
              /\ (c + 1) - 1 = c
          <6>1. c \in Nat /\ d \in Nat /\ c + 1 <= d /\ d <= N + 1
            BY <1>10, <1>11
          <6> QED BY <6>1
        <5>2. T(c + 1, d - 1) + F[c] = F[d - 1] /\ T(c + 1, d - 1) \in Nat
          BY <5>1, <1>6
        <5> QED BY <5>2, <4>2, <4>3, SMTT(60)
      <4>6. F[e] <= F[N]
        <5>1. e + 1 \in Nat /\ 1 <= e + 1 /\ e + 1 <= N + 1 /\ (e + 1) - 1 = e
          BY <3>3
        <5>2. T(e + 1, N) + F[e] = F[N] /\ T(e + 1, N) \in Nat
          BY <5>1, <1>6, SMTT(60)
        <5> QED BY <5>2, <4>3, <4>4, SMTT(60)
      <4> QED BY <4>1, <4>2, <4>3, <4>4, <4>5, <4>6, <1>7, <1>0, SMTT(60)
    <3>6. e - 1 = N
      BY <3>5
    <3> QED BY <3>3, <3>4, <3>5, <3>6
  <2>2. Groups(cut, keys) = 1 .. 3
    <3>1. \A n \in DOMAIN cut : n < 3 => n = 0 \/ n = 1 \/ n = 2
      BY <1>9
    <3>2. cut[0] # Len(keys) + 1 /\ cut[1] # Len(keys) + 1 /\ cut[2] # Len(keys) + 1
          /\ cut[3] = Len(keys) + 1 /\ 3 \in DOMAIN cut /\ DOMAIN cut \subseteq Nat
      BY <2>0, <2>1, <1>1, <1>7, <1>9, <1>10, <1>11, <1>15
    <3> QED BY <3>1, <3>2, GroupsAre
  <2>3. Len(gs) = 3 /\ DOMAIN gs = 1 .. 3
    BY <2>2, <1>13
  <2>4. gs[1] = SubSeq(keys, 1, c - 1) /\ gs[2] = SubSeq(keys, c, d - 1) /\ gs[3] = SubSeq(keys, d, N)
    <3>1. 1 \in 1 .. 3 /\ 2 \in 1 .. 3 /\ 3 \in 1 .. 3 /\ 1 - 1 = 0 /\ 2 - 1 = 1 /\ 3 - 1 = 2
          /\ (N + 1) - 1 = N
      OBVIOUS
    <3> QED BY <3>1, <2>1, <2>2, <1>9, <1>10, <1>11, <1>13
  <2>5. T(1, c - 1) = Total(LeafSize, gs[1]) /\ T(c, d - 1) = Total(LeafSize, gs[2])
        /\ T(d, N) = Total(LeafSize, gs[3])
    BY <2>4, <1>5
  <2>6. ASSUME NEW i \in 1 .. 3 PROVE Total(LeafSize, gs[i]) <= Capacity
    <3>1. i = 1 \/ i = 2 \/ i = 3
      OBVIOUS
    <3> QED BY <3>1, <2>1, <2>5, <1>10, <1>11
  <2>7. LeafCuts(keys, gs, c, d)
    BY <2>3, <2>4, <2>6, <1>1, <1>10, <1>11, <1>15 DEF LeafCuts
  <2> QED BY <2>3, <2>7
<1> QED BY <1>14, <1>15

\* The fields of a leaf.
LEMMA LeafFields ==
  \A keys : /\ Leaf(keys).level = 0 /\ Leaf(keys).keys = keys /\ IsLeaf(Leaf(keys))
            /\ ToSet(Leaf(keys).kids) = {} /\ HeldIn(Leaf(keys)) = ToSet(keys)
<1>1. ASSUME NEW keys
      PROVE  /\ Leaf(keys).level = 0 /\ Leaf(keys).keys = keys /\ Leaf(keys).kids = <<>>
  BY DEF Leaf
<1>2. ToSet(<<>>) = {}
  BY DEF ToSet
<1> QED BY <1>1, <1>2 DEF IsLeaf, HeldIn

\* The elements of two sequences, one after the other.
LEMMA JoinedSet ==
  ASSUME NEW S, NEW u \in Seq(S), NEW s \in Seq(S), NEW t \in Seq(S), Joined(u, s, t)
  PROVE  ToSet(u) = ToSet(s) \union ToSet(t)
<1>1. PICK p \in Nat, q \in Nat : p = Len(s) /\ q = Len(t)
  OBVIOUS
<1>2. /\ Len(u) = p + q
      /\ \A i \in 1 .. p : u[i] = s[i]
      /\ \A i \in 1 .. q : u[p + i] = t[i]
  BY <1>1 DEF Joined
<1>3. DOMAIN u = 1 .. p + q /\ DOMAIN s = 1 .. p /\ DOMAIN t = 1 .. q
  <2>1. DOMAIN u = 1 .. Len(u) /\ DOMAIN s = 1 .. Len(s) /\ DOMAIN t = 1 .. Len(t)
    OBVIOUS
  <2> QED BY <2>1, <1>1, <1>2
<1>4. ASSUME NEW x \in ToSet(u) PROVE x \in ToSet(s) \union ToSet(t)
  <2>1. PICK i \in 1 .. p + q : x = u[i]
    BY <1>3 DEF ToSet
  <2>2. CASE i \in 1 .. p
    BY <2>1, <2>2, <1>2, <1>3 DEF ToSet
  <2>3. CASE i \notin 1 .. p
    <3>1. i - p \in 1 .. q /\ p + (i - p) = i
      BY <2>3
    <3>2. x = t[i - p]
      BY <2>1, <3>1, <1>2
    <3> QED BY <3>1, <3>2, <1>3 DEF ToSet
  <2> QED BY <2>2, <2>3
<1>5. ASSUME NEW x \in ToSet(s) PROVE x \in ToSet(u)
  <2>1. PICK i \in 1 .. p : x = s[i]
    BY <1>3 DEF ToSet
  <2>2. i \in 1 .. p + q /\ x = u[i]
    BY <2>1, <1>2
  <2> QED BY <2>2, <1>3 DEF ToSet
<1>6. ASSUME NEW x \in ToSet(t) PROVE x \in ToSet(u)
  <2>1. PICK i \in 1 .. q : x = t[i]
    BY <1>3 DEF ToSet
  <2>2. p + i \in 1 .. p + q /\ x = u[p + i]
    BY <2>1, <1>2
  <2> QED BY <2>2, <1>3 DEF ToSet
<1> QED BY <1>4, <1>5, <1>6

(* The groups gs of keys between a and b, each with its first key as bound.*)
Pieces(keys, gs, ks, a, b) ==
  /\ ks \in Seq(Keys) /\ Len(ks) + 1 = Len(gs)
  /\ \A x \in 1 .. Len(gs) : LeafReady(gs[x], Fence(ks, a, b, x - 1), Fence(ks, a, b, x))
  /\ \A k : k \in ToSet(keys) <=> \E x \in 1 .. Len(gs) : k \in ToSet(gs[x])

\* The groups of a leaf, and the pivots between them, are a row of leaves.
LEMMA LeafPieces ==
  ASSUME NEW keys, NEW a \in Nat, NEW b \in Nat, LeafReady(keys, a, b), NEW gs,
         NEW c \in Nat, NEW d \in Nat, LeafCuts(keys, gs, c, d),
         DOMAIN gs = 1 .. Len(gs)
  PROVE  Pieces(keys, gs, [i \in 1 .. Len(gs) - 1 |-> Head(gs[i + 1])], a, b)
<1>0. keys \in Seq(Keys)
  BY DEF LeafReady
<1>1. PICK N \in Nat : N = Len(keys)
  BY <1>0
<1>2. /\ c \in 2 .. N /\ d \in c + 1 .. N + 1
      /\ Len(gs) = (IF d = N + 1 THEN 2 ELSE 3)
      /\ gs[1] = SubSeq(keys, 1, c - 1) /\ gs[2] = SubSeq(keys, c, d - 1)
      /\ d # N + 1 => gs[3] = SubSeq(keys, d, N)
  BY <1>1 DEF LeafCuts
<1>3. PICK s, r : s = SubSeq(keys, 1, c - 1) /\ r = SubSeq(keys, c, N)
  OBVIOUS
<1>4. s \in Seq(Keys) /\ Len(s) = c - 1 /\ r \in Seq(Keys) /\ Len(r) = N - c + 1 /\ Joined(keys, s, r)
  <2>1. c - 1 \in Nat /\ 1 <= c - 1 /\ c - 1 <= N /\ (c - 1) - 1 + 1 = c - 1 /\ (c - 1) + 1 = c
    BY <1>2
  <2>2. SubSeq(keys, 1, c - 1) \in Seq(Keys) /\ Len(SubSeq(keys, 1, c - 1)) = (c - 1) - 1 + 1
    BY <2>1, <1>0, <1>1, SubSeqIs
  <2>3. SubSeq(keys, c, N) \in Seq(Keys) /\ Len(SubSeq(keys, c, N)) = N - c + 1
    BY <2>1, <1>0, <1>1, <1>2, SubSeqIs
  <2>4. Joined(SubSeq(keys, 1, N), SubSeq(keys, 1, c - 1), SubSeq(keys, (c - 1) + 1, N))
    BY <2>1, <1>0, <1>1, SubSeqJoined
  <2>5. SubSeq(keys, 1, N) = keys
    BY <1>0, <1>1, WholeSubSeq
  <2> QED BY <2>1, <2>2, <2>3, <2>4, <2>5, <1>3
<1>5. s # <<>> /\ r # <<>>
  <2>1. Len(s) # 0 /\ Len(r) # 0
    BY <1>2, <1>4
  <2> QED BY <2>1
<1>6. LeafReady(s, a, r[1]) /\ LeafReady(r, r[1], b) /\ r[1] \in Keys /\ r[1] \in Nat
  BY <1>0, <1>4, <1>5, CutLeaf
<1>7. ToSet(keys) = ToSet(s) \union ToSet(r)
  BY <1>0, <1>4, JoinedSet
<1>8. CASE d = N + 1
  <2>1. gs[1] = s /\ gs[2] = r /\ Len(gs) = 2
    BY <1>2, <1>3, <1>8
  <2>2. PICK ks : ks = [i \in 1 .. Len(gs) - 1 |-> Head(gs[i + 1])]
    OBVIOUS
  <2>3. ks = <<r[1]>>
    BY <2>1, <2>2
  <2>4. ks \in Seq(Keys) /\ Len(ks) = 1 /\ ks[1] = r[1]
    BY <2>3, <1>6
  <2>5. Fence(ks, a, b, 0) = a /\ Fence(ks, a, b, 1) = r[1] /\ Fence(ks, a, b, 2) = b
    BY <2>4 DEF Fence
  <2>6. 1 .. 2 = {1, 2}
    OBVIOUS
  <2>7. Pieces(keys, gs, ks, a, b)
    BY <2>1, <2>4, <2>5, <2>6, <1>6, <1>7 DEF Pieces
  <2> QED BY <2>2, <2>7
<1>9. CASE d # N + 1
  <2>0. d \in c + 1 .. N
    BY <1>2, <1>9
  <2>1. PICK g, t : g = SubSeq(keys, c, d - 1) /\ t = SubSeq(keys, d, N)
    OBVIOUS
  <2>2. g \in Seq(Keys) /\ Len(g) = d - c /\ t \in Seq(Keys) /\ Len(t) = N - d + 1 /\ Joined(r, g, t)
        /\ g[1] = r[1]
    <3>1. d - 1 \in Nat /\ c <= (d - 1) + 1 /\ 1 <= c /\ d - 1 <= N /\ (d - 1) - c + 1 = d - c /\ (d - 1) + 1 = d
          /\ c <= d /\ 1 <= d /\ d <= N + 1 /\ c <= N + 1
      BY <2>0, <1>2
    <3>2. /\ SubSeq(keys, c, d - 1) \in Seq(Keys) /\ Len(SubSeq(keys, c, d - 1)) = (d - 1) - c + 1
          /\ \A x \in 1 .. (d - 1) - c + 1 : SubSeq(keys, c, d - 1)[x] = keys[c + x - 1]
      BY <3>1, <1>0, <1>1, SubSeqIs, SMTT(60)
    <3>3. SubSeq(keys, d, N) \in Seq(Keys) /\ Len(SubSeq(keys, d, N)) = N - d + 1
      BY <3>1, <1>0, <1>1, SubSeqIs
    <3>4. Joined(SubSeq(keys, c, N), SubSeq(keys, c, d - 1), SubSeq(keys, (d - 1) + 1, N))
      BY <3>1, <1>0, <1>1, SubSeqJoined
    <3>5. /\ SubSeq(keys, c, N) \in Seq(Keys) /\ Len(SubSeq(keys, c, N)) = N - c + 1
          /\ \A x \in 1 .. N - c + 1 : SubSeq(keys, c, N)[x] = keys[c + x - 1]
      <4>1. c \in Nat /\ c >= 1 /\ N <= Len(keys) /\ c <= N + 1 /\ keys \in Seq(Keys)
        BY <3>1, <1>0, <1>1
      <4> QED BY <4>1, SubSeqIs
    <3>6. 1 \in 1 .. (d - 1) - c + 1 /\ 1 \in 1 .. N - c + 1
      BY <2>0, <1>2
    <3>7. g[1] = keys[c + 1 - 1] /\ r[1] = keys[c + 1 - 1]
      BY <2>1, <3>2, <3>5, <3>6, <1>3
    <3> QED BY <3>1, <3>2, <3>3, <3>4, <3>7, <2>1, <1>3
  <2>3. g # <<>> /\ t # <<>>
    <3>1. Len(g) # 0 /\ Len(t) # 0
      BY <2>0, <2>2, <1>2
    <3> QED BY <3>1
  <2>4. LeafReady(g, r[1], t[1]) /\ LeafReady(t, t[1], b) /\ t[1] \in Keys /\ t[1] \in Nat
    BY <2>2, <2>3, <1>4, <1>6, CutLeaf
  <2>5. ToSet(r) = ToSet(g) \union ToSet(t)
    BY <2>2, <1>4, JoinedSet
  <2>6. gs[1] = s /\ gs[2] = g /\ gs[3] = t /\ Len(gs) = 3
    BY <2>1, <1>2, <1>3, <1>9
  <2>7. PICK ks : ks = [i \in 1 .. Len(gs) - 1 |-> Head(gs[i + 1])]
    OBVIOUS
  <2>8. ks = <<r[1], t[1]>>
    BY <2>2, <2>6, <2>7
  <2>9. ks \in Seq(Keys) /\ Len(ks) = 2 /\ ks[1] = r[1] /\ ks[2] = t[1]
    BY <2>4, <2>8, <1>6
  <2>10. Fence(ks, a, b, 0) = a /\ Fence(ks, a, b, 1) = r[1] /\ Fence(ks, a, b, 2) = t[1]
         /\ Fence(ks, a, b, 3) = b
    BY <2>9 DEF Fence
  <2>11. 1 .. 3 = {1, 2, 3}
    OBVIOUS
  <2>12. Pieces(keys, gs, ks, a, b)
    BY <2>4, <2>5, <2>6, <2>9, <2>10, <2>11, <1>6, <1>7 DEF Pieces
  <2> QED BY <2>7, <2>12
<1> QED BY <1>8, <1>9

\* A split leaf.
LEMMA SplitLeafRewritten ==
  ASSUME NEW w, NEW L, NEW R, NEW lo, NEW hi, NEW D, Sound(w, L, R, lo, hi, D),
         NEW n, NEW a \in Nat, NEW b \in Nat, Ready(w.pages, R, lo, hi, n, a, b), n.level = 0,
         Total(LeafSize, n.keys) > Capacity, Total(LeafSize, n.keys) <= 2 * Capacity
  PROVE  \E lo2, hi2 : Rewritten(w, SplitLeaf(w, n), L, R, lo, hi, D, n, a, b, lo2, hi2)
<1>1. Shaped(n) /\ n = Leaf(n.keys)
  BY LeafNode DEF Ready
<1>2. PICK keys \in Seq(Keys) : keys = n.keys
  BY <1>1 DEF Shaped
<1>3. LeafReady(keys, a, b)
  BY <1>1, <1>2, ReadyLeaf
<1>4. PICK gs : gs = LeafGroups(keys)
  OBVIOUS
<1>5. PICK c \in Nat, d \in Nat : LeafCuts(keys, gs, c, d)
  BY <1>2, <1>4, LeafGroupsAre
<1>6. DOMAIN gs = 1 .. Len(gs) /\ Len(gs) \in Nat
  BY <1>2, <1>4, LeafGroupsAre
<1>7. PICK m \in 2 .. 3 : m = Len(gs)
  BY <1>5 DEF LeafCuts
<1>8. PICK ks : ks = [i \in 1 .. Len(gs) - 1 |-> Head(gs[i + 1])]
  OBVIOUS
<1>9. Pieces(keys, gs, ks, a, b)
  BY <1>3, <1>5, <1>6, <1>8, LeafPieces
<1>10. /\ ks \in Seq(Keys) /\ Len(ks) = m - 1
       /\ \A x \in 1 .. m : LeafReady(gs[x], Fence(ks, a, b, x - 1), Fence(ks, a, b, x))
       /\ \A k : k \in ToSet(keys) <=> \E x \in 1 .. m : k \in ToSet(gs[x])
  BY <1>7, <1>9 DEF Pieces
<1>11. PICK ns : ns = Reverse([i \in DOMAIN gs |-> Leaf(gs[i])])
  OBVIOUS
<1>12. ns = [i \in 1 .. m |-> Leaf(gs[(m - i) + 1])]
  <2>1. PICK f : f = [i \in DOMAIN gs |-> Leaf(gs[i])]
    OBVIOUS
  <2>2. f = [i \in 1 .. m |-> Leaf(gs[i])]
    BY <2>1, <1>6, <1>7
  <2>3. Len(f) = m
    BY <2>2
  <2>4. \A i \in 1 .. m : (m - i) + 1 \in 1 .. m
    OBVIOUS
  <2> QED BY <2>1, <2>2, <2>3, <2>4, <1>11 DEF Reverse
<1>13. Len(ns) = m /\ \A i \in 1 .. m : ns[i] = Leaf(gs[m - i + 1])
  BY <1>12
<1>14. PICK A, B : /\ A = [i \in 1 .. m |-> Fence(ks, a, b, m - i)]
                   /\ B = [i \in 1 .. m |-> Fence(ks, a, b, m - i + 1)]
  OBVIOUS
<1>15. ASSUME NEW x \in 0 .. m PROVE Fence(ks, a, b, x) \in Nat
  <2>1. \A y \in 1 .. Len(ks) : ks[y] \in Nat
    BY <1>10, KeysAreNat
  <2> QED BY <2>1, <1>10 DEF Fence
<1>16. ASSUME NEW i \in 1 .. m
       PROVE  /\ A[i] = Fence(ks, a, b, (m - i + 1) - 1) /\ B[i] = Fence(ks, a, b, m - i + 1)
              /\ m - i + 1 \in 1 .. m /\ A[i] \in Nat /\ B[i] \in Nat
              /\ LeafReady(gs[m - i + 1], A[i], B[i])
              /\ ns[i] = Leaf(gs[m - i + 1])
  <2>1. m - i + 1 \in 1 .. m /\ m - i \in 0 .. m /\ m - i + 1 \in 0 .. m /\ (m - i + 1) - 1 = m - i
    OBVIOUS
  <2>2. A[i] = Fence(ks, a, b, m - i) /\ B[i] = Fence(ks, a, b, m - i + 1)
    BY <1>14
  <2> QED BY <2>1, <2>2, <1>10, <1>13, <1>15
<1>17. Writable(w.pages, R, lo, hi, ns, A, B)
  <2>1. ASSUME NEW i \in 1 .. m
        PROVE  /\ Ready(w.pages, R, lo, hi, ns[i], A[i], B[i]) /\ Occupied(ns[i]) <= Capacity
               /\ ToSet(ns[i].kids) = {}
    <3>1. Ready(w.pages, R, lo, hi, Leaf(gs[m - i + 1]), A[i], B[i])
      BY <1>16, ReadyLeaf
    <3>2. Total(LeafSize, gs[m - i + 1]) <= Capacity
      BY <1>5, <1>7, <1>16 DEF LeafCuts
    <3>3. Occupied(Leaf(gs[m - i + 1])) <= Capacity
      BY <3>2 DEF Occupied, Leaf, IsLeaf
    <3>4. ToSet(Leaf(gs[m - i + 1]).kids) = {}
      BY DEF ToSet, Leaf
    <3> QED BY <3>1, <3>3, <3>4, <1>16
  <2>2. \A i, j \in 1 .. m : ToSet(ns[i].kids) \cap ToSet(ns[j].kids) = {}
    BY <2>1
  <2>3. \A i \in 1 .. m : A[i] \in Nat /\ B[i] \in Nat
    BY <1>16
  <2>4. Len(ns) = m /\ m \in Nat
    BY <1>13
  <2> QED BY <2>1, <2>2, <2>3, <2>4, Zenon DEF Writable
<1>18. PICK p : p = PutAll(w, ns)
  OBVIOUS
<1>19. PICK lo2, hi2 : Built(w, p, L, R, lo, hi, D, ns, A, B, m, lo2, hi2)
  BY <1>13, <1>17, <1>18, PutAllBuilt
<1>20. PICK pids \in Seq(Nat) : pids = p.ids /\ Len(pids) = m
  BY <1>19 DEF Built, Sound, WorkType
<1>21. PICK ids : ids = Reverse(pids)
  OBVIOUS
<1>22. ids = [i \in 1 .. m |-> pids[(m - i) + 1]]
  BY <1>20, <1>21 DEF Reverse
<1>23. /\ ids \in Seq(Nat) /\ Len(ids) = m
       /\ \A i \in 1 .. m : ids[i] = pids[m - i + 1] /\ m - i + 1 \in 1 .. m
  <2>2. \A i \in 1 .. m : pids[i] \in Nat
    BY <1>20
  <2>1. \A i \in 1 .. m : (m - i) + 1 \in 1 .. m /\ pids[(m - i) + 1] \in Nat
    <3>1. \A i \in 1 .. m : (m - i) + 1 \in 1 .. m
      OBVIOUS
    <3> QED BY <3>1, <2>2
  <2> QED BY <2>1, <1>22
<1>24. ToSet(ids) = ToSet(pids)
  <2>1. DOMAIN ids = 1 .. m /\ DOMAIN pids = 1 .. m
    BY <1>20, <1>22
  <2>2. ASSUME NEW x \in 1 .. m PROVE pids[x] \in ToSet(ids)
    <3>1. m - x + 1 \in 1 .. m /\ m - (m - x + 1) + 1 = x
      OBVIOUS
    <3>2. ids[m - x + 1] = pids[x]
      BY <3>1, <1>23
    <3> QED BY <3>1, <3>2, <2>1 DEF ToSet
  <2>3. ASSUME NEW x \in 1 .. m PROVE ids[x] \in ToSet(pids)
    BY <2>1, <1>23 DEF ToSet
  <2> QED BY <2>1, <2>2, <2>3 DEF ToSet
<1>25. Ordered(ns, A, B, p.ids, n, ids, ks, a, b)
  <2>1. ASSUME NEW x \in 1 .. Len(ks) + 1
        PROVE  \E j \in 1 .. Len(ns) :
       /\ ids[x] = p.ids[j] /\ ns[j].level = n.level
       /\ A[j] = Fence(ks, a, b, x - 1) /\ B[j] = Fence(ks, a, b, x) /\ A[j] < B[j]
    <3>1. x \in 1 .. m
      BY <1>10
    <3>2. PICK j \in 1 .. m : j = m - x + 1 /\ m - j + 1 = x
      <4>1. m - x + 1 \in 1 .. m /\ m - (m - x + 1) + 1 = x
        BY <3>1
      <4> QED BY <4>1
    <3>3. ids[x] = p.ids[j]
      BY <3>1, <3>2, <1>20, <1>23
    <3>4. A[j] = Fence(ks, a, b, x - 1) /\ B[j] = Fence(ks, a, b, x) /\ LeafReady(gs[x], A[j], B[j])
          /\ ns[j] = Leaf(gs[x])
      BY <3>2, <1>16
    <3>5. ns[j].level = n.level
      BY <3>4 DEF Leaf
    <3> QED BY <3>3, <3>4, <3>5, <1>13 DEF LeafReady
  <2>2. KidsOf(ns, m) = ToSet(n.kids)
    <3>1. ToSet(n.kids) = {}
      BY <1>1 DEF Leaf, ToSet
    <3>2. ASSUME NEW i \in 1 .. m PROVE ToSet(ns[i].kids) = {}
      BY <1>16, LeafFields
    <3> QED BY <3>1, <3>2 DEF KidsOf
  <2>3. HeldOf(ns, m) = HeldIn(n)
    <3>1. HeldIn(n) = ToSet(keys)
      BY <1>2 DEF HeldIn, IsLeaf
    <3>2. ASSUME NEW i \in 1 .. m PROVE HeldIn(ns[i]) = ToSet(gs[m - i + 1])
      BY <1>16, LeafFields
    <3>3. ASSUME NEW k \in ToSet(keys) PROVE k \in HeldOf(ns, m)
      <4>1. PICK x \in 1 .. m : k \in ToSet(gs[x])
        BY <1>10
      <4>2. m - x + 1 \in 1 .. m /\ m - (m - x + 1) + 1 = x
        OBVIOUS
      <4>3. k \in HeldIn(ns[m - x + 1])
        BY <4>1, <4>2, <3>2
      <4> QED BY <4>2, <4>3 DEF HeldOf
    <3>4. ASSUME NEW k \in HeldOf(ns, m) PROVE k \in ToSet(keys)
      <4>1. PICK i \in 1 .. m : k \in HeldIn(ns[i])
        BY DEF HeldOf
      <4>2. m - i + 1 \in 1 .. m /\ k \in ToSet(gs[m - i + 1])
        BY <4>1, <3>2
      <4> QED BY <4>2, <1>10
    <3> QED BY <3>1, <3>3, <3>4
  <2>4. Len(ks) <= 2 /\ Len(ids) = Len(ks) + 1
    BY <1>10, <1>23
  <2> QED BY <2>1, <2>2, <2>3, <2>4, <1>10, <1>13, <1>20, <1>23, <1>24 DEF Ordered
<1>26. Rewritten(w, [p EXCEPT !.ids = ids, !.keys = ks], L, R, lo, hi, D, n, a, b, lo2, hi2)
  BY <1>13, <1>19, <1>25, RewrittenIf
<1>27. SplitLeaf(w, n) = [p EXCEPT !.ids = ids, !.keys = ks]
  <2>1. [p EXCEPT !.ids = Reverse(@), !.keys = ks] = [p EXCEPT !.ids = ids, !.keys = ks]
    BY <1>20, <1>21
  <2> QED BY <2>1, <1>2, <1>4, <1>8, <1>11, <1>18 DEF SplitLeaf
<1> QED BY <1>26, <1>27

\* The groups of an inner node with pivots too many: two.
InnerCut(n, gs, c) ==
  /\ c \in 1 .. Len(n.keys) /\ DOMAIN gs = 1 .. 2 /\ Len(gs) = 2
  /\ gs[1] = [keys |-> SubSeq(n.keys, 1, c - 1), kids |-> SubSeq(n.kids, 1, c), last |-> c]
  /\ gs[2] = [keys |-> SubSeq(n.keys, c + 1, Len(n.keys)), kids |-> SubSeq(n.kids, c + 1, Len(n.keys) + 1),
              last |-> Len(n.keys) + 1]
  /\ LeftmostSize + Total(PivotSize, gs[1].keys) <= Capacity
  /\ LeftmostSize + Total(PivotSize, gs[2].keys) <= Capacity

\* An overfull inner node, of at most two pages, is cut at one promoted pivot.
LEMMA InternalGroupsAre ==
  ASSUME NEW n, n.keys \in Seq(Keys), LeftmostSize + Total(PivotSize, n.keys) > Capacity,
         Total(PivotSize, n.keys) <= 2 * (Capacity - LeftmostSize)
  PROVE  \E c \in Nat : InnerCut(n, InternalGroups(n), c)
<1>0. /\ PivotSize \in [Keys -> Nat] /\ Capacity \in Nat /\ LeftmostSize \in Nat
      /\ LeftmostSize < Capacity
  <2>1. LeftmostSize < Capacity \div 2 /\ Capacity \in Nat /\ LeftmostSize \in Nat
    BY SizesAssumption
  <2> QED BY <2>1, SizesAssumption
<1>1. PICK N \in Nat : N = Len(n.keys)
  OBVIOUS
<1>2. PICK room \in Nat : room = Capacity - LeftmostSize
  BY <1>0
<1>3. PICK cut : cut = Cuts(PivotSize, room, n.keys, 1)
  OBVIOUS
<1>4. CutSteps(PivotSize, room, n.keys, 1, cut)
  BY <1>1, <1>3, CutsSteps
<1>5. PICK F : Summed(PivotSize, n.keys, F)
  BY <1>0, TotalSummed
<1> DEFINE T(i, j) == Total(PivotSize, SubSeq(n.keys, i, j))
<1>6. ASSUME NEW i \in Nat, NEW j \in Nat, 1 <= i, i <= j + 1, j <= N
      PROVE  T(i, j) \in Nat /\ F[i - 1] \in Nat /\ F[j] \in Nat /\ T(i, j) + F[i - 1] = F[j]
  BY <1>0, <1>1, <1>5, <1>6, SubTotal, SMTT(60)
<1>7. \A i, j : T(i, j) = Total(PivotSize, SubSeq(n.keys, i, j))
  OBVIOUS
<1> HIDE DEF T
<1>8. N >= 1 /\ T(1, N) > room /\ T(1, N) <= 2 * room
  <2>1. T(1, N) = Total(PivotSize, n.keys)
    BY <1>1, <1>7, WholeSubSeq
  <2>2. N # 0
    <3> SUFFICES ASSUME N = 0 PROVE FALSE
      OBVIOUS
    <3>1. Len(n.keys) = 0
      BY <1>1
    <3>2. n.keys = <<>>
      BY <3>1
    <3>3. Total(PivotSize, <<>>) = 0
      BY <1>0, TotalEmpty
    <3> QED BY <3>2, <3>3, <1>0
  <2>3. N >= 1 /\ T(1, N) \in Nat
    BY <2>2, <1>6
  <2> QED BY <2>1, <2>3, <1>0, <1>2
<1>9. ASSUME NEW first \in 1 .. N + 1
      PROVE  LET c == NextCut(PivotSize, room, n.keys, first) IN
             /\ c \in first .. N + 1 /\ c \in Nat /\ T(first, c - 1) <= room
             /\ c <= N => T(first, c) > room
  <2>1. PICK c : c = NextCut(PivotSize, room, n.keys, first)
    OBVIOUS
  <2>2. CutAfter(PivotSize, room, n.keys, first, c)
    <3>1. first \in 1 .. Len(n.keys) + 1
      BY <1>1
    <3> QED BY <3>1, <2>1, <1>0, NextCutIs
  <2>3. c \in first .. N + 1 /\ c \in Nat
    BY <1>1, <2>2 DEF CutAfter
  <2>4. (c <= N => T(first, c) > room) /\ T(first, c - 1) <= room
    BY <1>1, <1>7, <2>2 DEF CutAfter
  <2> QED BY <2>1, <2>3, <2>4
<1>10. /\ cut[0] = 0 /\ DOMAIN cut = 0 .. N + 1
       /\ \A i \in 1 .. N + 1 : cut[i] = NextCut(PivotSize, room, n.keys, cut[i - 1] + 1)
  BY <1>1, <1>4 DEF CutSteps
<1>11. PICK c \in Nat : c = cut[1] /\ c \in 1 .. N /\ T(1, c - 1) <= room /\ T(1, c) > room
  <2>1. 1 \in 1 .. N + 1 /\ cut[1 - 1] + 1 = 1
    BY <1>8, <1>10
  <2>2. PICK c : c = NextCut(PivotSize, room, n.keys, 1)
    OBVIOUS
  <2>3. c \in 1 .. N + 1 /\ c \in Nat /\ T(1, c - 1) <= room /\ (c <= N => T(1, c) > room)
    BY <1>9, <2>1, <2>2
  <2>4. cut[1] = c
    BY <1>10, <2>1, <2>2
  <2>5. c # N + 1
    <3>1. c = N + 1 => c - 1 = N
      OBVIOUS
    <3>2. T(1, N) \in Nat
      BY <1>6, <1>8
    <3>3. c = N + 1 => T(1, c - 1) = T(1, N)
      BY <3>1
    <3> QED BY <3>2, <3>3, <2>3, <1>8
  <2> QED BY <2>3, <2>4, <2>5
<1>12. cut[2] = N + 1 /\ T(c + 1, N) <= room
  <2>1. 2 \in 1 .. N + 1 /\ cut[2 - 1] + 1 = c + 1 /\ c + 1 \in 1 .. N + 1
    BY <1>8, <1>11
  <2>2. PICK d : d = NextCut(PivotSize, room, n.keys, c + 1)
    OBVIOUS
  <2>3. d \in c + 1 .. N + 1 /\ d \in Nat /\ T(c + 1, d - 1) <= room /\ (d <= N => T(c + 1, d) > room)
    BY <1>9, <2>1, <2>2
  <2>4. cut[2] = d
    BY <1>10, <2>1, <2>2
  <2>5. d = N + 1
    <3> SUFFICES ASSUME d <= N PROVE FALSE
      BY <2>3
    <3>1. T(1, c) > room /\ T(c + 1, d) > room
      BY <2>3, <1>11
    <3>2. T(1, c) + F[1 - 1] = F[c] /\ T(1, c) \in Nat /\ F[1 - 1] \in Nat /\ F[c] \in Nat
      <4>1. 1 <= c + 1 /\ c <= N
        BY <1>11
      <4> QED BY <4>1, <1>6
    <3>3. T(c + 1, d) + F[(c + 1) - 1] = F[d] /\ T(c + 1, d) \in Nat /\ F[d] \in Nat /\ (c + 1) - 1 = c
      BY <1>6, <2>3, SMTT(60)
    <3>4. T(1, N) + F[1 - 1] = F[N] /\ T(1, N) \in Nat /\ F[N] \in Nat
      BY <1>6, <1>8
    <3>5. F[d] <= F[N]
      <4>1. d + 1 \in Nat /\ 1 <= d + 1 /\ d + 1 <= N + 1 /\ (d + 1) - 1 = d
        BY <2>3
      <4>2. T(d + 1, N) + F[d] = F[N] /\ T(d + 1, N) \in Nat
        BY <4>1, <1>6, SMTT(60)
      <4> QED BY <4>2, <3>3, <3>4
    <3> QED BY <3>1, <3>2, <3>3, <3>4, <3>5, <1>8
  <2>6. d - 1 = N
    BY <2>5
  <2> QED BY <2>3, <2>4, <2>5, <2>6
<1>13. PICK gs : gs = InternalGroups(n)
  OBVIOUS
<1>14. gs = [i \in Groups(cut, n.keys) |->
        [keys |-> SubSeq(n.keys, cut[i - 1] + 1, cut[i] - 1),
         kids |-> SubSeq(n.kids, cut[i - 1] + 1, cut[i]),
         last |-> cut[i]]]
  BY <1>2, <1>3, <1>13, Zenon DEF InternalGroups
<1>15. Groups(cut, n.keys) = 1 .. 2
  <2>1. \A i \in DOMAIN cut : i < 2 => i = 0 \/ i = 1
    BY <1>10
  <2>2. cut[0] # Len(n.keys) + 1 /\ cut[1] # Len(n.keys) + 1 /\ cut[2] = Len(n.keys) + 1
        /\ 2 \in DOMAIN cut /\ DOMAIN cut \subseteq Nat
    BY <1>1, <1>8, <1>10, <1>11, <1>12
  <2> QED BY <2>1, <2>2, GroupsAre
<1>16. gs[1] = [keys |-> SubSeq(n.keys, 1, c - 1), kids |-> SubSeq(n.kids, 1, c), last |-> c]
  <2>1. 1 \in 1 .. 2 /\ cut[1 - 1] + 1 = 1 /\ cut[1] = c
    BY <1>10, <1>11
  <2> QED BY <2>1, <1>14, <1>15
<1>17. gs[2] = [keys |-> SubSeq(n.keys, c + 1, N), kids |-> SubSeq(n.kids, c + 1, N + 1), last |-> N + 1]
  <2>1. 2 \in 1 .. 2 /\ cut[2 - 1] + 1 = c + 1 /\ cut[2] = N + 1 /\ cut[2] - 1 = N
    BY <1>10, <1>11, <1>12
  <2> QED BY <2>1, <1>14, <1>15
<1>18. DOMAIN gs = 1 .. 2 /\ Len(gs) = 2
  BY <1>14, <1>15
<1>19. LeftmostSize + Total(PivotSize, gs[1].keys) <= Capacity
       /\ LeftmostSize + Total(PivotSize, gs[2].keys) <= Capacity
  <2>1. T(1, c - 1) = Total(PivotSize, gs[1].keys) /\ T(c + 1, N) = Total(PivotSize, gs[2].keys)
    BY <1>7, <1>16, <1>17
  <2>2. T(1, c - 1) \in Nat /\ T(c + 1, N) \in Nat
    <3>1. c - 1 \in Nat /\ 1 <= (c - 1) + 1 /\ c - 1 <= N /\ c + 1 \in Nat /\ 1 <= c + 1 /\ c + 1 <= N + 1
      BY <1>11
    <3> QED BY <3>1, <1>6
  <2> QED BY <2>1, <2>2, <1>0, <1>2, <1>11, <1>12, SMTT(60)
<1>20. InnerCut(n, gs, c)
  BY <1>1, <1>11, <1>16, <1>17, <1>18, <1>19 DEF InnerCut
<1> QED BY <1>13, <1>20

\* A split inner node.
LEMMA SplitInternalRewritten ==
  ASSUME NEW w, NEW L, NEW R, NEW lo, NEW hi, NEW D, Sound(w, L, R, lo, hi, D),
         NEW n, NEW a \in Nat, NEW b \in Nat, Ready(w.pages, R, lo, hi, n, a, b), n.level # 0,
         LeftmostSize + Total(PivotSize, n.keys) > Capacity,
         Total(PivotSize, n.keys) <= 2 * (Capacity - LeftmostSize)
  PROVE  \E lo2, hi2 : Rewritten(w, SplitInternal(w, n), L, R, lo, hi, D, n, a, b, lo2, hi2)
<1>1. n.level \in Nat /\ Row(w.pages, R, lo, hi, n.level, n.keys, n.kids, a, b)
  BY ReadyRow
<1>2. n.keys \in Seq(Keys) /\ n.kids \in Seq(Nat) /\ Len(n.kids) = Len(n.keys) + 1
  BY <1>1 DEF Row
<1>3. PICK gs : gs = InternalGroups(n)
  OBVIOUS
<1>4. PICK c \in Nat : InnerCut(n, gs, c)
  BY <1>2, <1>3, InternalGroupsAre
<1>5. PICK N \in Nat : N = Len(n.keys) /\ c \in 1 .. N
  <2>1. c \in 1 .. Len(n.keys)
    BY <1>4 DEF InnerCut
  <2> QED BY <1>2, <2>1
<1>6. PICK s, t, f, g : /\ s = SubSeq(n.keys, 1, c - 1) /\ t = SubSeq(n.keys, c + 1, N)
                        /\ f = SubSeq(n.kids, 1, c) /\ g = SubSeq(n.kids, c + 1, N + 1)
  OBVIOUS
<1>7. /\ gs[1].keys = s /\ gs[1].kids = f /\ gs[1].last = c /\ gs[2].keys = t /\ gs[2].kids = g
      /\ LeftmostSize + Total(PivotSize, s) <= Capacity /\ LeftmostSize + Total(PivotSize, t) <= Capacity
      /\ DOMAIN gs = 1 .. 2 /\ Len(gs) = 2
  BY <1>4, <1>5, <1>6, SMTT(60) DEF InnerCut
<1>8. n.keys[c] \in Keys /\ n.keys[c] \in Nat
  BY <1>2, <1>5, KeysAreNat
<1>9. /\ s \in Seq(Keys) /\ t \in Seq(Keys) /\ Len(s) = c - 1 /\ Len(t) = N - c
      /\ IsJoin(n.keys, s, n.keys[c], t)
  <2>1. c - 1 \in Nat /\ 1 <= (c - 1) + 1 /\ c - 1 <= N /\ (c - 1) - 1 + 1 = c - 1
        /\ c + 1 \in Nat /\ 1 <= c + 1 /\ c + 1 <= N + 1 /\ N - (c + 1) + 1 = N - c
    BY <1>5
  <2>2. /\ SubSeq(n.keys, 1, c - 1) \in Seq(Keys) /\ Len(SubSeq(n.keys, 1, c - 1)) = (c - 1) - 1 + 1
        /\ \A x \in 1 .. (c - 1) - 1 + 1 : SubSeq(n.keys, 1, c - 1)[x] = n.keys[1 + x - 1]
    BY <2>1, <1>2, <1>5, SubSeqIs
  <2>3. /\ SubSeq(n.keys, c + 1, N) \in Seq(Keys) /\ Len(SubSeq(n.keys, c + 1, N)) = N - (c + 1) + 1
        /\ \A x \in 1 .. N - (c + 1) + 1 : SubSeq(n.keys, c + 1, N)[x] = n.keys[(c + 1) + x - 1]
    BY <2>1, <1>2, <1>5, SubSeqIs, SMTT(60)
  <2>4. s \in Seq(Keys) /\ Len(s) = c - 1 /\ t \in Seq(Keys) /\ Len(t) = N - c
    BY <2>1, <2>2, <2>3, <1>6
  <2>5. ASSUME NEW x \in 1 .. c - 1 PROVE n.keys[x] = s[x]
    <3>1. 1 + x - 1 = x /\ x \in 1 .. (c - 1) - 1 + 1
      OBVIOUS
    <3> QED BY <3>1, <2>2, <1>6
  <2>6. ASSUME NEW x \in 1 .. N - c PROVE n.keys[(c - 1) + 1 + x] = t[x]
    <3>1. (c + 1) + x - 1 = (c - 1) + 1 + x /\ x \in 1 .. N - (c + 1) + 1
      OBVIOUS
    <3> QED BY <3>1, <2>3, <1>6
  <2>7. (c - 1) + 1 = c /\ N = (c - 1) + 1 + (N - c)
    OBVIOUS
  <2> QED BY <2>4, <2>5, <2>6, <2>7, <1>5 DEF IsJoin
<1>10. /\ f \in Seq(Nat) /\ g \in Seq(Nat) /\ Len(f) = c /\ Len(g) = N + 1 - c
       /\ Joined(n.kids, f, g)
  <2>1. c \in Nat /\ 1 <= c + 1 /\ c <= N + 1 /\ c - 1 + 1 = c /\ c + 1 \in Nat /\ 1 <= c + 1
        /\ c + 1 <= (N + 1) + 1 /\ (N + 1) - (c + 1) + 1 = N + 1 - c /\ N + 1 \in Nat
    BY <1>5
  <2>6. Len(n.kids) = N + 1 /\ n.kids \in Seq(Nat)
    BY <1>2, <1>5
  <2>2. SubSeq(n.kids, 1, c) \in Seq(Nat) /\ Len(SubSeq(n.kids, 1, c)) = c - 1 + 1
    <3>1. c <= Len(n.kids)
      BY <2>1, <2>6
    <3> QED BY <3>1, <2>1, <2>6, SubSeqIs
  <2>3. SubSeq(n.kids, c + 1, N + 1) \in Seq(Nat)
        /\ Len(SubSeq(n.kids, c + 1, N + 1)) = (N + 1) - (c + 1) + 1
    BY <2>1, <2>6, SubSeqIs
  <2>4. Joined(SubSeq(n.kids, 1, N + 1), SubSeq(n.kids, 1, c), SubSeq(n.kids, c + 1, N + 1))
    BY <2>1, <1>2, <1>5, SubSeqJoined, SMTT(60)
  <2>5. SubSeq(n.kids, 1, N + 1) = n.kids
    BY <1>2, <1>5, WholeSubSeq
  <2> QED BY <2>1, <2>2, <2>3, <2>4, <2>5, <1>6
<1>11. PICK k \in Keys : k = n.keys[c] /\ k \in Nat
  BY <1>8
<1>12. Row(w.pages, R, lo, hi, n.level, s, f, a, k) /\ Row(w.pages, R, lo, hi, n.level, t, g, k, b)
  <2>1. Len(f) = Len(s) + 1 /\ Len(g) = Len(t) + 1
    <3>1. c = (c - 1) + 1 /\ N + 1 - c = (N - c) + 1
      BY <1>5
    <3> QED BY <3>1, <1>9, <1>10
  <2>2. IsJoin(n.keys, s, k, t)
    BY <1>9, <1>11
  <2>3. RowParts(w.pages, R, lo, hi, n.level, n.keys, n.kids, a, b, s, f, k, t, g)
    BY <2>1, <2>2, <1>2, <1>9, <1>10, JoinedRow
  <2> QED BY <2>3, <1>1 DEF RowParts
<1>13. PICK ns : ns = <<Inner(n.level, s, f), Inner(n.level, t, g)>>
  OBVIOUS
<1>14. PICK A, B : A = <<a, k>> /\ B = <<k, b>>
  OBVIOUS
<1>15. Len(ns) = 2 /\ ns[1] = Inner(n.level, s, f) /\ ns[2] = Inner(n.level, t, g)
       /\ A[1] = a /\ A[2] = k /\ B[1] = k /\ B[2] = b
  BY <1>13, <1>14
<1>16. /\ ns[1].level = n.level /\ ns[1].kids = f /\ ns[1].keys = s
       /\ ns[2].level = n.level /\ ns[2].kids = g /\ ns[2].keys = t
       /\ ~ IsLeaf(ns[1]) /\ ~ IsLeaf(ns[2])
  BY <1>15 DEF Inner, IsLeaf
<1>17. Ready(w.pages, R, lo, hi, ns[1], a, k) /\ Ready(w.pages, R, lo, hi, ns[2], k, b)
  BY <1>1, <1>11, <1>12, <1>15, RowReady
<1>18. ToSet(n.kids) = ToSet(f) \union ToSet(g)
  BY <1>2, <1>10, JoinedSet
<1>19. ToSet(f) \cap ToSet(g) = {}
  <2>1. IsInjective(n.kids)
    BY KidsDiffer
  <2>2. ASSUME NEW x \in DOMAIN f, NEW y \in DOMAIN g, f[x] = g[y] PROVE FALSE
    <3>1. x \in 1 .. Len(f) /\ y \in 1 .. Len(g) /\ DOMAIN n.kids = 1 .. Len(n.kids)
      <4>1. DOMAIN f = 1 .. Len(f) /\ DOMAIN g = 1 .. Len(g) /\ DOMAIN n.kids = 1 .. Len(n.kids)
        BY <1>2, <1>10, SMTT(60)
      <4> QED BY <4>1
    <3>2. n.kids[x] = f[x] /\ n.kids[Len(f) + y] = g[y] /\ Len(n.kids) = Len(f) + Len(g)
      BY <3>1, <1>10 DEF Joined
    <3>3. x \in DOMAIN n.kids /\ Len(f) + y \in DOMAIN n.kids /\ x # Len(f) + y
      <4>1. PICK fl \in Nat, gl \in Nat : fl = Len(f) /\ gl = Len(g)
        BY <1>10
      <4> QED BY <3>1, <3>2, <4>1
    <3> QED BY <3>2, <3>3, <2>1, <2>2 DEF IsInjective
  <2> QED BY <2>2 DEF ToSet
<1>20. 1 .. 2 = {1, 2}
  OBVIOUS
<1>21. Writable(w.pages, R, lo, hi, ns, A, B)
  <2>1. Occupied(ns[1]) <= Capacity /\ Occupied(ns[2]) <= Capacity
    BY <1>7, <1>16 DEF Occupied
  <2>2. ToSet(ns[1].kids) \cap ToSet(ns[2].kids) = {} /\ ToSet(ns[2].kids) \cap ToSet(ns[1].kids) = {}
    BY <1>16, <1>19
  <2> QED BY <2>1, <2>2, <1>11, <1>15, <1>17, <1>20 DEF Writable
<1>22. PICK p : p = PutAll(w, ns)
  OBVIOUS
<1>23. PICK lo2, hi2 : Built(w, p, L, R, lo, hi, D, ns, A, B, 2, lo2, hi2)
  BY <1>15, <1>21, <1>22, PutAllBuilt
<1>24. p.ids \in Seq(Nat) /\ Len(p.ids) = 2 /\ p \in WorkType
  BY <1>23 DEF Built, Sound, WorkType
<1>25. Ordered(ns, A, B, p.ids, n, p.ids, <<k>>, a, b)
  <2>1. <<k>> \in Seq(Keys) /\ Len(<<k>>) = 1 /\ <<k>>[1] = k
    OBVIOUS
  <2>2. Fence(<<k>>, a, b, 0) = a /\ Fence(<<k>>, a, b, 1) = k /\ Fence(<<k>>, a, b, 2) = b
    BY <2>1 DEF Fence
  <2>3. a < k /\ k < b
    BY <1>17 DEF Ready, Spans
  <2>4. ASSUME NEW x \in 1 .. 1 + 1
        PROVE  \E j \in 1 .. Len(ns) :
       /\ p.ids[x] = p.ids[j] /\ ns[j].level = n.level
       /\ A[j] = Fence(<<k>>, a, b, x - 1) /\ B[j] = Fence(<<k>>, a, b, x) /\ A[j] < B[j]
    <3>1. (x = 1 \/ x = 2) /\ 1 \in 1 .. Len(ns) /\ 2 \in 1 .. Len(ns) /\ 1 - 1 = 0 /\ 2 - 1 = 1
      BY <1>15
    <3> QED BY <3>1, <2>2, <2>3, <1>15, <1>16
  <2>5. KidsOf(ns, 2) = ToSet(n.kids)
    BY <1>16, <1>18, <1>20 DEF KidsOf
  <2>6. HeldOf(ns, 2) = HeldIn(n)
    <3>1. HeldIn(ns[1]) = {} /\ HeldIn(ns[2]) = {} /\ HeldIn(n) = {}
      BY <1>16 DEF HeldIn, IsLeaf
    <3> QED BY <3>1, <1>20 DEF HeldOf
  <2> QED BY <2>1, <2>4, <2>5, <2>6, <1>15, <1>24 DEF Ordered
<1>26. Rewritten(w, [p EXCEPT !.ids = p.ids, !.keys = <<k>>], L, R, lo, hi, D, n, a, b, lo2, hi2)
  BY <1>15, <1>23, <1>25, RewrittenIf
<1>27. SplitInternal(w, n) = [p EXCEPT !.ids = p.ids, !.keys = <<k>>]
  <2>1. [i \in DOMAIN gs |-> Inner(n.level, gs[i].keys, gs[i].kids)] = ns
    <3>1. [i \in 1 .. 2 |-> Inner(n.level, gs[i].keys, gs[i].kids)]
            = <<Inner(n.level, gs[1].keys, gs[1].kids), Inner(n.level, gs[2].keys, gs[2].kids)>>
      OBVIOUS
    <3> QED BY <3>1, <1>7, <1>13
  <2>2. [i \in 1 .. Len(gs) - 1 |-> n.keys[gs[i].last]] = <<k>>
    <3>1. 1 .. Len(gs) - 1 = 1 .. 1
      BY <1>7
    <3>2. [i \in 1 .. 1 |-> n.keys[gs[i].last]] = <<n.keys[gs[1].last]>>
      OBVIOUS
    <3> QED BY <3>1, <3>2, <1>7, <1>11
  <2>3. [p EXCEPT !.keys = <<k>>] = [p EXCEPT !.ids = p.ids, !.keys = <<k>>]
    BY <1>24 DEF WorkType
  <2> QED BY <2>1, <2>2, <2>3, <1>3, <1>22 DEF SplitInternal
<1> QED BY <1>26, <1>27

SizeBound(n) == IF IsLeaf(n) THEN Total(LeafSize, n.keys) <= 2 * Capacity
                ELSE Total(PivotSize, n.keys) <= 2 * (Capacity - LeftmostSize)

\* A node, on one page or split, is replaced by pages that stand for it.
LEMMA ReplacedRewritten ==
  ASSUME NEW w, NEW L, NEW R, NEW lo, NEW hi, NEW D, Sound(w, L, R, lo, hi, D),
         NEW n, NEW a \in Nat, NEW b \in Nat, Ready(w.pages, R, lo, hi, n, a, b), SizeBound(n)
  PROVE  \E lo2, hi2 : Rewritten(w, Replaced(w, n), L, R, lo, hi, D, n, a, b, lo2, hi2)
<1>1. n.keys \in Seq(Keys) /\ n.level \in Nat
  BY DEF Ready, Shaped, Node
<1>2. /\ LeafSize \in [Keys -> Nat] /\ PivotSize \in [Keys -> Nat] /\ LeftmostSize \in Nat /\ Capacity \in Nat
  BY SizesAssumption
<1>3. Total(LeafSize, n.keys) \in Nat /\ Total(PivotSize, n.keys) \in Nat
  BY <1>1, <1>2, TotalNat
<1>4. CASE Occupied(n) <= Capacity
  <2>1. Replaced(w, n) = PutAll(w, <<n>>)
    BY <1>4 DEF Replaced
  <2> QED BY <2>1, <1>4, OneRewritten
<1>5. CASE ~ (Occupied(n) <= Capacity) /\ IsLeaf(n)
  <2>1. Replaced(w, n) = SplitLeaf(w, n)
    BY <1>5 DEF Replaced
  <2>2. n.level = 0 /\ Total(LeafSize, n.keys) > Capacity /\ Total(LeafSize, n.keys) <= 2 * Capacity
    BY <1>2, <1>3, <1>5 DEF Occupied, SizeBound, IsLeaf
  <2> QED BY <2>1, <2>2, SplitLeafRewritten
<1>6. CASE ~ (Occupied(n) <= Capacity) /\ ~ IsLeaf(n)
  <2>1. Replaced(w, n) = SplitInternal(w, n)
    BY <1>6 DEF Replaced
  <2>2. n.level # 0 /\ LeftmostSize + Total(PivotSize, n.keys) > Capacity
        /\ Total(PivotSize, n.keys) <= 2 * (Capacity - LeftmostSize)
    BY <1>2, <1>3, <1>6 DEF Occupied, SizeBound, IsLeaf
  <2> QED BY <2>1, <2>2, SplitInternalRewritten
<1> QED BY <1>4, <1>5, <1>6

-----------------------------------------------------------------------------
(* The pieces of a splice.                                                 *)

Before(s, i) == {s[x] : x \in 1 .. i - 1}
From(s, j) == {s[x] : x \in j .. Len(s)}

\* The elements of a sequence with a part replaced.
LEMMA SpliceSet ==
  ASSUME NEW S, NEW s \in Seq(S), NEW t \in Seq(S), NEW u \in Seq(S), NEW i \in Nat, NEW j \in Nat,
         1 <= i, i <= j, j <= Len(s) + 1, IsSplice(u, s, i, t, j)
  PROVE  ToSet(u) = Before(s, i) \union ToSet(t) \union From(s, j)
<1>1. PICK N \in Nat, m \in Nat : N = Len(s) /\ m = Len(t)
  OBVIOUS
<1>2. /\ Len(u) = (i - 1) + m + (N - j + 1)
      /\ \A x \in 1 .. i - 1 : u[x] = s[x]
      /\ \A x \in 1 .. m : u[i - 1 + x] = t[x]
      /\ \A x \in j .. N : u[i - 1 + m + (x - j + 1)] = s[x]
  BY <1>1 DEF IsSplice
<1>3. DOMAIN u = 1 .. (i - 1) + m + (N - j + 1) /\ DOMAIN t = 1 .. m
  <2>1. DOMAIN u = 1 .. Len(u) /\ DOMAIN t = 1 .. Len(t)
    OBVIOUS
  <2> QED BY <2>1, <1>1, <1>2
<1>4. ASSUME NEW y \in DOMAIN u PROVE u[y] \in Before(s, i) \union ToSet(t) \union From(s, j)
  <2>1. CASE y \in 1 .. i - 1
    BY <2>1, <1>2 DEF Before
  <2>2. CASE y \in i .. i - 1 + m
    <3>1. y - (i - 1) \in 1 .. m /\ i - 1 + (y - (i - 1)) = y
      BY <2>2
    <3>2. u[y] = t[y - (i - 1)]
      BY <3>1, <1>2
    <3> QED BY <3>1, <3>2, <1>3 DEF ToSet
  <2>3. CASE y > i - 1 + m
    <3>1. PICK x \in j .. N : y = i - 1 + m + (x - j + 1)
      <4>1. /\ y - (i - 1) - m + j - 1 \in j .. N
            /\ y = i - 1 + m + ((y - (i - 1) - m + j - 1) - j + 1)
        BY <2>3, <1>3
      <4> QED BY <4>1
    <3> QED BY <3>1, <1>1, <1>2 DEF From
  <2> QED BY <2>1, <2>2, <2>3, <1>3
<1>5. ASSUME NEW x \in 1 .. i - 1 PROVE s[x] \in ToSet(u)
  <2>1. x \in DOMAIN u
    BY <1>1, <1>3
  <2> QED BY <2>1, <1>2 DEF ToSet
<1>6. ASSUME NEW x \in 1 .. m PROVE t[x] \in ToSet(u)
  <2>1. i - 1 + x \in DOMAIN u
    BY <1>1, <1>3
  <2> QED BY <2>1, <1>2 DEF ToSet
<1>7. ASSUME NEW x \in j .. N PROVE s[x] \in ToSet(u)
  <2>1. i - 1 + m + (x - j + 1) \in DOMAIN u
    BY <1>1, <1>3
  <2> QED BY <2>1, <1>2 DEF ToSet
<1>8. ToSet(u) \subseteq Before(s, i) \union ToSet(t) \union From(s, j)
  BY <1>4 DEF ToSet
<1>9. Before(s, i) \subseteq ToSet(u) /\ ToSet(t) \subseteq ToSet(u) /\ From(s, j) \subseteq ToSet(u)
  <2>1. \A z \in ToSet(t) : \E x \in 1 .. m : z = t[x]
    BY <1>3 DEF ToSet
  <2> QED BY <2>1, <1>1, <1>5, <1>6, <1>7 DEF Before, From
<1> QED BY <1>8, <1>9

\* The same of keys.
LEMMA KeysSplice ==
  ASSUME NEW s \in Seq(Keys), NEW t \in Seq(Keys), NEW u \in Seq(Keys), NEW i \in Nat, NEW j \in Nat,
         1 <= i, i <= j, j <= Len(s) + 1, IsSplice(u, s, i, t, j)
  PROVE  ToSet(u) = Before(s, i) \union ToSet(t) \union From(s, j)
  BY SpliceSet

\* Bytes that are inserted add up.
LEMMA InsertedTotal ==
  ASSUME NEW sizes \in [Keys -> Nat], NEW ks \in Seq(Keys), NEW wk \in Seq(Keys),
         NEW i \in Nat, 1 <= i, i <= Len(ks) + 1
  PROVE  Total(sizes, SubSeq(ks, 1, i - 1) \o wk \o SubSeq(ks, i, Len(ks)))
           = Total(sizes, ks) + Total(sizes, wk)
<1>1. PICK N \in Nat : N = Len(ks)
  OBVIOUS
<1>2. PICK p, q : p = SubSeq(ks, 1, i - 1) /\ q = SubSeq(ks, i, Len(ks))
  OBVIOUS
<1>3. i - 1 \in Nat /\ 1 <= (i - 1) + 1 /\ i - 1 <= N /\ (i - 1) + 1 = i /\ i <= N + 1
  BY <1>1
<1>4. SubSeq(ks, 1, i - 1) \in Seq(Keys)
  BY <1>1, <1>3, SubSeqIs
<1>5. SubSeq(ks, i, Len(ks)) \in Seq(Keys)
  BY <1>1, <1>3, SubSeqIs
<1>6. Joined(SubSeq(ks, 1, N), SubSeq(ks, 1, i - 1), SubSeq(ks, (i - 1) + 1, N))
  BY <1>1, <1>3, SubSeqJoined
<1>7. Joined(ks, p, q)
  BY <1>1, <1>2, <1>3, <1>6, WholeSubSeq
<1>8. Total(sizes, ks) = Total(sizes, p) + Total(sizes, q)
  <2>1. p \in Seq(Keys) /\ q \in Seq(Keys)
    BY <1>2, <1>4, <1>5, Zenon
  <2> QED BY <2>1, <1>7, TotalOfParts, ZenonT(60)
<1>9. PICK r : r = p \o wk /\ r \in Seq(Keys)
  <2>1. p \in Seq(Keys) /\ wk \in Seq(Keys)
    BY <1>2, <1>4
  <2>2. p \o wk \in Seq(Keys)
    BY <2>1, ConcatIs
  <2> QED BY <2>2
<1>10. Total(sizes, r) = Total(sizes, p) + Total(sizes, wk)
  BY <1>2, <1>4, <1>9, TotalConcat
<1>11. Total(sizes, r \o q) = Total(sizes, r) + Total(sizes, q)
  BY <1>2, <1>5, <1>9, TotalConcat
<1>12. Total(sizes, p) \in Nat /\ Total(sizes, q) \in Nat /\ Total(sizes, wk) \in Nat
  BY <1>2, <1>4, <1>5, TotalNat
<1>13. Total(sizes, r \o q) = Total(sizes, ks) + Total(sizes, wk)
  BY <1>8, <1>10, <1>11, <1>12
<1> QED BY <1>2, <1>9, <1>13, Zenon

\* The node with its i-th child replaced by a row.
AbsorbedNode(P, R, lo, hi, n, i, wk, wi, a, b, u, v) ==
  /\ u \in Seq(Keys) /\ v \in Seq(Nat)
  /\ Ready(P, R, lo, hi, Inner(n.level, u, v), a, b)
  /\ ToSet(v) = Before(n.kids, i) \union ToSet(wi) \union From(n.kids, i + 1)
  /\ Total(PivotSize, u) = Total(PivotSize, n.keys) + Total(PivotSize, wk)

\* The node with a child replaced by several, and the pivots between them.
LEMMA Absorb ==
  ASSUME NEW P, NEW R, NEW lo, NEW hi, NEW n, n.level \in Nat, n.level # 0,
         NEW a \in Nat, NEW b \in Nat,
         NEW i \in 1 .. Len(n.keys) + 1, NEW wk, NEW wi,
         Outside(P, R, lo, hi, n.level, n.keys, n.kids, a, b, i, i),
         Row(P, R, lo, hi, n.level, wk, wi, Fence(n.keys, a, b, i - 1), Fence(n.keys, a, b, i))
  PROVE  AbsorbedNode(P, R, lo, hi, n, i, wk, wi, a, b,
                      SubSeq(n.keys, 1, i - 1) \o wk \o SubSeq(n.keys, i, Len(n.keys)),
                      SubSeq(n.kids, 1, i - 1) \o wi \o SubSeq(n.kids, i + 1, Len(n.kids)))
<1>1. PICK ks \in Seq(Keys), cs \in Seq(Nat) : ks = n.keys /\ cs = n.kids /\ Len(cs) = Len(ks) + 1
  BY DEF Outside
<1>2. PICK N \in Nat : N = Len(ks) /\ i \in Nat /\ 1 <= i /\ i <= N + 1
  BY <1>1
<1>3. wk \in Seq(Keys) /\ wi \in Seq(Nat)
  BY DEF Row
<1>4. PICK u, v : /\ u = SubSeq(ks, 1, i - 1) \o wk \o SubSeq(ks, i, Len(ks))
                  /\ v = SubSeq(cs, 1, i - 1) \o wi \o SubSeq(cs, i + 1, Len(cs))
  OBVIOUS
<1>5. u \in Seq(Keys) /\ IsSplice(u, ks, i, wk, i)
  BY <1>2, <1>3, <1>4, SpliceIs
<1>6. v \in Seq(Nat) /\ IsSplice(v, cs, i, wi, i + 1)
  <2>1. i + 1 \in Nat /\ i <= i + 1 /\ i + 1 <= Len(cs) + 1
    BY <1>1, <1>2
  <2> QED BY <2>1, <1>2, <1>3, <1>4, SpliceIs
<1>7. Row(P, R, lo, hi, n.level, u, v, a, b)
  <2>1. Outside(P, R, lo, hi, n.level, ks, cs, a, b, i, i)
        /\ Row(P, R, lo, hi, n.level, wk, wi, Fence(ks, a, b, i - 1), Fence(ks, a, b, i))
    BY <1>1
  <2>2. i <= i /\ i <= Len(ks) + 1
    BY <1>2
  <2> QED BY <2>1, <2>2, <1>2, <1>5, <1>6, SpliceRow
<1>8. Ready(P, R, lo, hi, Inner(n.level, u, v), a, b)
  BY <1>7, RowReady
<1>9. ToSet(v) = Before(cs, i) \union ToSet(wi) \union From(cs, i + 1)
  <2>1. i + 1 \in Nat /\ i <= i + 1 /\ i + 1 <= Len(cs) + 1
    BY <1>1, <1>2
  <2>2. /\ cs \in Seq(Nat) /\ wi \in Seq(Nat) /\ v \in Seq(Nat) /\ i \in Nat /\ 1 <= i
        /\ IsSplice(v, cs, i, wi, i + 1)
    BY <1>2, <1>3, <1>6
  <2>3. PICK j \in Nat : j = i + 1
    OBVIOUS
  <2>4. i <= j /\ j <= Len(cs) + 1 /\ IsSplice(v, cs, i, wi, j)
    BY <2>1, <2>2, <2>3
  <2>5. ToSet(v) = Before(cs, i) \union ToSet(wi) \union From(cs, j)
    BY <2>2, <2>4, SpliceSet
  <2> QED BY <2>3, <2>5
<1>10. Total(PivotSize, u) = Total(PivotSize, ks) + Total(PivotSize, wk)
  <2>1. PivotSize \in [Keys -> Nat]
    BY SizesAssumption
  <2>2. i <= Len(ks) + 1
    BY <1>2
  <2> QED BY <2>1, <2>2, <1>2, <1>3, <1>4, InsertedTotal
<1> QED BY <1>1, <1>4, <1>5, <1>6, <1>8, <1>9, <1>10 DEF AbsorbedNode

-----------------------------------------------------------------------------
(* The descent to a key.                                                   *)

\* The child the key belongs to is the one whose bounds are around it.
LEMMA ChildIndexIs ==
  ASSUME NEW P, NEW R, NEW lo, NEW hi, NEW l, NEW n, NEW a \in Nat, NEW b \in Nat,
         Row(P, R, lo, hi, l, n.keys, n.kids, a, b), NEW key \in Nat, a <= key, key < b
  PROVE  LET i == ChildIndex(n, key) IN
         /\ i \in 1 .. Len(n.keys) + 1
         /\ Fence(n.keys, a, b, i - 1) <= key /\ key < Fence(n.keys, a, b, i)
<1>1. PICK N \in Nat : N = Len(n.keys) /\ Len(n.kids) = N + 1
  BY KeysAreNat DEF Row
<1>2. \A x \in 1 .. N : n.keys[x] \in Nat
  BY <1>1, KeysAreNat DEF Row
<1> DEFINE Good(i) == /\ i = Len(n.kids) \/ n.keys[i] > key
                      /\ \A j \in 1 .. i - 1 : n.keys[j] <= key
           S == {x \in 1 .. N + 1 : x = N + 1 \/ n.keys[x] > key}
<1>3. S \subseteq Nat /\ S # {}
  <2>1. N + 1 \in S
    OBVIOUS
  <2>2. S \subseteq Nat
    OBVIOUS
  <2> QED BY <2>1, <2>2
<1>4. PICK m \in S : \A x \in S : m <= x
  BY <1>3, LeastNatural
<1>5. m \in 1 .. Len(n.kids) /\ Good(m)
  <2>1. m \in 1 .. N + 1 /\ (m = N + 1 \/ n.keys[m] > key)
    BY <1>4
  <2>2. ASSUME NEW j \in 1 .. m - 1 PROVE n.keys[j] <= key
    <3>1. j \in 1 .. N /\ j \notin S
      <4> HIDE DEF S
      <4>1. j \in 1 .. N /\ ~ (m <= j)
        BY <2>1
      <4> QED BY <4>1, <1>4
    <3> QED BY <3>1, <1>2
  <2> QED BY <2>1, <2>2, <1>1
<1>6. PICK i : i = ChildIndex(n, key)
  OBVIOUS
<1>7. i \in 1 .. Len(n.kids) /\ Good(i)
  BY <1>5, <1>6, Zenon DEF ChildIndex
<1>8. i \in 1 .. N + 1 /\ (i = N + 1 \/ n.keys[i] > key) /\ \A j \in 1 .. i - 1 : n.keys[j] <= key
  BY <1>1, <1>7
<1>9. key < Fence(n.keys, a, b, i)
  BY <1>1, <1>2, <1>8 DEF Fence
<1>10. Fence(n.keys, a, b, i - 1) <= key
  <2>1. CASE i = 1
    BY <2>1 DEF Fence
  <2>2. CASE i # 1
    <3>1. i - 1 \in 1 .. i - 1 /\ i - 1 # 0 /\ i - 1 # N + 1
      BY <2>2, <1>8
    <3> QED BY <3>1, <1>1, <1>8 DEF Fence
  <2> QED BY <2>1, <2>2
<1> QED BY <1>1, <1>6, <1>8, <1>9, <1>10

PathSteps(t, top, key, h, at) ==
  /\ at[h] = top
  /\ \A l \in 1 .. h : at[l - 1] = t.pages[at[l]].kids[ChildIndex(t.pages[at[l]], key)]

\* The recursive function in Path exists.
LEMMA PathIs ==
  ASSUME NEW t, NEW top, NEW key, NEW h \in Nat, h = t.pages[top].level
  PROVE  PathSteps(t, top, key, h, Path(t, top, key)) /\ DOMAIN Path(t, top, key) = 0 .. h
<1> DEFINE Down(p) == LET node == t.pages[p] IN node.kids[ChildIndex(node, key)]
           Rec(g, n) == g = [l \in h - n .. h |-> IF l = h THEN top ELSE Down(g[l + 1])]
<1> HIDE DEF Down
<1>1. \A n \in 0 .. h : \E g : Rec(g, n)
  <2> DEFINE Bad == {n \in 0 .. h : ~ \E g : Rec(g, n)}
  <2> HIDE DEF Rec
  <2> SUFFICES ASSUME Bad # {} PROVE FALSE
    OBVIOUS
  <2> USE DEF Rec
  <2>0. Bad \subseteq Nat
    OBVIOUS
  <2>1. PICK m \in 0 .. h : m \in Bad /\ \A n \in Bad : m <= n
    BY <2>0, LeastNatural
  <2>2. m # 0
    <3> DEFINE g == [l \in h - 0 .. h |-> top]
    <3>1. ASSUME NEW l \in h - 0 .. h PROVE top = IF l = h THEN top ELSE Down(g[l + 1])
      OBVIOUS
    <3>2. g = [l \in h - 0 .. h |-> IF l = h THEN top ELSE Down(g[l + 1])]
      BY <3>1, Zenon
    <3> QED BY <2>1, <3>2
  <2>3. m - 1 \in 0 .. h /\ m - 1 \notin Bad
    <3>1. h \in Nat /\ ~ (m <= m - 1) /\ m - 1 \in 0 .. h
      BY <2>1, <2>2
    <3> HIDE DEF Bad
    <3> QED BY <2>1, <3>1
  <2>4. PICK g : Rec(g, m - 1)
    BY <2>3
  <2> DEFINE f == [l \in h - m .. h |-> IF l > h - m THEN g[l] ELSE Down(g[l + 1])]
  <2>5. Rec(f, m)
    <3>1. ASSUME NEW l \in h - m .. h
          PROVE  f[l] = IF l = h THEN top ELSE Down(f[l + 1])
      <4>0. g = [x \in h - (m - 1) .. h |-> IF x = h THEN top ELSE Down(g[x + 1])]
        BY <2>4
      <4>1. CASE l > h - m
        <5>1. l \in h - (m - 1) .. h
          BY <4>1, <2>1
        <5>2. g[l] = IF l = h THEN top ELSE Down(g[l + 1])
          BY <4>0, <5>1
        <5>3. l # h => f[l + 1] = g[l + 1]
          BY <4>1, <2>1
        <5>4. f[l] = g[l]
          BY <4>1
        <5> QED BY <5>2, <5>3, <5>4
      <4>2. CASE ~ (l > h - m)
        <5>1. l # h /\ l + 1 \in h - m .. h /\ l + 1 > h - m
          BY <4>2, <2>1, <2>2
        <5>2. f[l] = Down(g[l + 1]) /\ f[l + 1] = g[l + 1]
          BY <4>2, <5>1
        <5> QED BY <5>1, <5>2
      <4> QED BY <4>1, <4>2
    <3> QED BY <3>1, Zenon
  <2> QED BY <2>5, <2>1
<1> HIDE DEF Rec
<1> DEFINE f == CHOOSE g : Rec(g, h)
<1>2. h \in 0 .. h
  OBVIOUS
<1>3. Rec(f, h)
  BY <1>1, <1>2, Zenon
<1>a. h - h = 0
  OBVIOUS
<1>b. f = CHOOSE g : g = [l \in 0 .. h |-> IF l = h THEN top ELSE Down(g[l + 1])]
  BY <1>a, ZenonT(60) DEF Rec
<1>4. Path(t, top, key) = f
  BY <1>b, ZenonT(60) DEF Path, Down
<1> HIDE DEF f
<1>5. f = [l \in 0 .. h |-> IF l = h THEN top ELSE Down(f[l + 1])]
  BY <1>3, <1>a DEF Rec
<1>6. f[h] = top /\ DOMAIN f = 0 .. h
  BY <1>5
<1>7. ASSUME NEW l \in 1 .. h PROVE f[l - 1] = Down(f[l])
  <2>1. l - 1 \in 0 .. h /\ l - 1 # h /\ (l - 1) + 1 = l
    OBVIOUS
  <2> QED BY <2>1, <1>5
<1> QED BY <1>4, <1>6, <1>7 DEF PathSteps, Down

(* at is the way down to key through a forest's pages.                     *)
OnPath(P, L, lo, hi, key, l, p) ==
  p \in L /\ P[p].level = l /\ lo[p] <= key /\ key < hi[p]

StepDown(P, lo, hi, key, p, q) ==
  LET n == P[p]
      i == ChildIndex(n, key) IN
  /\ i \in 1 .. Len(n.keys) + 1 /\ q = n.kids[i]
  /\ lo[q] = Fence(n.keys, lo[p], hi[p], i - 1) /\ hi[q] = Fence(n.keys, lo[p], hi[p], i)

Descent(P, L, lo, hi, top, key, h, at) ==
  /\ at[h] = top /\ h \in Nat
  /\ \A l \in 0 .. h : OnPath(P, L, lo, hi, key, l, at[l])
  /\ \A l \in 1 .. h : StepDown(P, lo, hi, key, at[l], at[l - 1])

\* What is known of a page of a forest.
LEMMA PageFacts ==
  ASSUME NEW P, NEW L, NEW R, NEW lo, NEW hi, Forest(P, L, R, lo, hi), L \subseteq Nat, NEW p \in L
  PROVE  /\ Ready(P, L \ R, lo, hi, P[p], lo[p], hi[p]) /\ lo[p] \in Nat /\ hi[p] \in Nat
         /\ P[p].level \in Nat /\ P[p].keys \in Seq(Keys) /\ Occupied(P[p]) <= Capacity
         /\ P[p].level # 0 => Row(P, L \ R, lo, hi, P[p].level, P[p].keys, P[p].kids, lo[p], hi[p])
<1>1. Ready(P, L \ R, lo, hi, P[p], lo[p], hi[p]) /\ Occupied(P[p]) <= Capacity
  BY DEF Forest
<1>2. P[p].level \in Nat /\ P[p].keys \in Seq(Keys)
  BY <1>1 DEF Ready, Shaped, Node
<1>3. lo[p] \in Nat /\ hi[p] \in Nat
  BY DEF Forest
<1> QED BY <1>1, <1>2, <1>3, ReadyRow

\* Pages are numbers, and a page is in the forest or displaced.
LEMMA SoundNat ==
  ASSUME NEW w, NEW L, NEW R, NEW lo, NEW hi, NEW D, Sound(w, L, R, lo, hi, D)
  PROVE  L \subseteq Nat /\ R \subseteq L /\ D \subseteq Nat /\ L \cap D = {}
<1>1. w.pages \in Seq(Node)
  BY DEF Sound, WorkType
<1>2. DOMAIN w.pages \subseteq Nat
  BY <1>1
<1> QED BY <1>2 DEF Sound, Forest, Accounted

OffRoot(L, R, h, at) == \A l \in 0 .. h : l # h => at[l] \in L \ R

\* The descent from a root whose bounds are around the key.
LEMMA Descends ==
  ASSUME NEW t, NEW L, NEW R, NEW lo, NEW hi, Forest(t.pages, L, R, lo, hi), L \subseteq Nat,
         NEW top \in L, NEW key \in Nat, lo[top] <= key, key < hi[top],
         NEW h, h = t.pages[top].level, NEW at, at = Path(t, top, key), NEW P, P = t.pages
  PROVE  Descent(P, L, lo, hi, top, key, h, at) /\ OffRoot(L, R, h, at)
<1>0. P = t.pages
  OBVIOUS
<1>1. h \in Nat
  BY PageFacts
<1>2. at = Path(t, top, key)
  OBVIOUS
<1>3. PathSteps(t, top, key, h, at)
  BY <1>1, <1>2, PathIs
<1>4. at[h] = top /\ \A l \in 1 .. h : at[l - 1] = P[at[l]].kids[ChildIndex(P[at[l]], key)]
  BY <1>0, <1>3 DEF PathSteps
<1> DEFINE Good(l) == OnPath(P, L, lo, hi, key, l, at[l])
<1>5. Good(h)
  BY <1>0, <1>4 DEF OnPath
<1>6. ASSUME NEW l \in 1 .. h, Good(l)
      PROVE  Good(l - 1) /\ StepDown(P, lo, hi, key, at[l], at[l - 1]) /\ at[l - 1] \in L \ R
  <2>1. PICK p \in L : p = at[l]
    BY <1>6 DEF OnPath
  <2>2. P[p].level = l /\ lo[p] <= key /\ key < hi[p] /\ P[p].level # 0
    BY <2>1, <1>6 DEF OnPath
  <2>3. Row(P, L \ R, lo, hi, l, P[p].keys, P[p].kids, lo[p], hi[p]) /\ lo[p] \in Nat /\ hi[p] \in Nat
    BY <2>2, <1>0, PageFacts
  <2>4. PICK i : i = ChildIndex(P[p], key)
    OBVIOUS
  <2>5. /\ i \in 1 .. Len(P[p].keys) + 1
        /\ Fence(P[p].keys, lo[p], hi[p], i - 1) <= key /\ key < Fence(P[p].keys, lo[p], hi[p], i)
    BY <2>2, <2>3, <2>4, ChildIndexIs
  <2>6. PICK q : q = P[p].kids[i]
    OBVIOUS
  <2>7. /\ q \in L \ R /\ P[q].level + 1 = l
        /\ lo[q] = Fence(P[p].keys, lo[p], hi[p], i - 1) /\ hi[q] = Fence(P[p].keys, lo[p], hi[p], i)
    BY <2>3, <2>5, <2>6 DEF Row, Fits
  <2>8. P[q].level \in Nat
    BY <2>7, <1>0, PageFacts
  <2>9. q = at[l - 1]
    BY <2>1, <2>4, <2>6, <1>4
  <2>10. Good(l - 1)
    BY <2>5, <2>7, <2>8, <2>9, SMTT(60) DEF OnPath
  <2>11. StepDown(P, lo, hi, key, at[l], at[l - 1])
    BY <2>1, <2>4, <2>5, <2>6, <2>7, <2>9 DEF StepDown
  <2> QED BY <2>7, <2>9, <2>10, <2>11
<1> HIDE DEF Good
<1>7. \A l \in 0 .. h : Good(l)
  <2> DEFINE Bad == {d \in 0 .. h : ~ Good(h - d)}
  <2>1. Bad = {}
    <3> SUFFICES ASSUME Bad # {} PROVE FALSE
      OBVIOUS
    <3>0. Bad \subseteq Nat
      OBVIOUS
    <3>1. PICK m \in 0 .. h : m \in Bad /\ \A d \in Bad : m <= d
      BY <3>0, LeastNatural
    <3>2. m # 0
      BY <3>1, <1>1, <1>5
    <3>3. m - 1 \in 0 .. h /\ m - 1 \notin Bad
      <4>1. ~ (m <= m - 1) /\ m - 1 \in 0 .. h
        BY <3>1, <3>2, <1>1
      <4> HIDE DEF Bad
      <4> QED BY <3>1, <4>1
    <3>4. Good(h - (m - 1)) /\ h - (m - 1) \in 1 .. h /\ (h - (m - 1)) - 1 = h - m
      BY <3>1, <3>2, <3>3, <1>1
    <3>5. Good(h - m)
      BY <3>4, <1>6
    <3> QED BY <3>1, <3>5
  <2>2. ASSUME NEW l \in 0 .. h PROVE Good(l)
    <3>1. h - l \in 0 .. h /\ h - (h - l) = l
      BY <1>1
    <3> QED BY <3>1, <2>1
  <2> QED BY <2>2
<1>8. \A l \in 1 .. h : l \in 0 .. h
  BY <1>1
<1>9. ASSUME NEW l \in 0 .. h, l # h PROVE at[l] \in L \ R
  <2>1. l + 1 \in 1 .. h /\ (l + 1) - 1 = l
    BY <1>1, <1>9
  <2> QED BY <2>1, <1>6, <1>7, <1>8
<1>10. Descent(P, L, lo, hi, top, key, h, at)
  <2>1. \A l \in 0 .. h : OnPath(P, L, lo, hi, key, l, at[l])
    BY <1>7 DEF Good
  <2>2. \A l \in 1 .. h : StepDown(P, lo, hi, key, at[l], at[l - 1])
    BY <1>6, <1>7, <1>8
  <2> QED BY <2>1, <2>2, <1>1, <1>4 DEF Descent
<1> QED BY <1>9, <1>10 DEF OffRoot

-----------------------------------------------------------------------------
(* Counting down from h to m.                                              *)

\* What holds at h, and at each level below one where it holds, holds at all.
LEMMA DownTo ==
  ASSUME NEW h \in Nat, NEW S, h \in S,
         \A l \in 1 .. h : l \in S => l - 1 \in S, NEW m \in 0 .. h
  PROVE  m \in S
<1> DEFINE Bad == {d \in 0 .. h : h - d \notin S}
<1>1. Bad = {}
  <2> SUFFICES ASSUME Bad # {} PROVE FALSE
    OBVIOUS
  <2>0. Bad \subseteq Nat
    OBVIOUS
  <2>1. PICK d \in 0 .. h : d \in Bad /\ \A e \in Bad : d <= e
    BY <2>0, LeastNatural
  <2>2. d # 0
    BY <2>1
  <2>3. d - 1 \in 0 .. h /\ d - 1 \notin Bad
    <3>1. ~ (d <= d - 1) /\ d - 1 \in 0 .. h
      BY <2>1, <2>2
    <3> HIDE DEF Bad
    <3> QED BY <2>1, <3>1
  <2>4. h - (d - 1) \in S /\ h - (d - 1) \in 1 .. h /\ (h - (d - 1)) - 1 = h - d
    BY <2>1, <2>2, <2>3
  <2> QED BY <2>1, <2>4
<1>2. h - m \in 0 .. h /\ h - (h - m) = m
  OBVIOUS
<1> QED BY <1>1, <1>2

(* The pages on the way from level m up; the children beside the way, and  *)
(* all of them above level l.                                              *)
Way(at, m, h) == {at[l] : l \in m .. h}
Side(P, at, l) == ToSet(P[at[l]].kids) \ {at[l - 1]}
Above(P, at, l, h) == UNION {Side(P, at, j) : j \in l + 1 .. h}

OneUp(P, at, l, h) == Above(P, at, l - 1, h) = Above(P, at, l, h) \union Side(P, at, l)

\* What is beside the way grows by one level.
LEMMA AboveSteps ==
  ASSUME NEW P, NEW at, NEW h \in Nat
  PROVE  Above(P, at, h, h) = {} /\ \A l \in 1 .. h : OneUp(P, at, l, h)
<1>1. h + 1 .. h = {}
  OBVIOUS
<1>2. Above(P, at, h, h) = {}
  BY <1>1 DEF Above
<1>3. ASSUME NEW l \in 1 .. h PROVE OneUp(P, at, l, h)
  <2>1. (l - 1) + 1 .. h = {l} \union (l + 1 .. h)
    OBVIOUS
  <2>2. ASSUME NEW x PROVE x \in Above(P, at, l - 1, h) <=> x \in Above(P, at, l, h) \union Side(P, at, l)
    <3>1. x \in Above(P, at, l - 1, h) <=> \E j \in (l - 1) + 1 .. h : x \in Side(P, at, j)
      BY DEF Above
    <3>2. x \in Above(P, at, l, h) <=> \E j \in l + 1 .. h : x \in Side(P, at, j)
      BY DEF Above
    <3> QED BY <2>1, <3>1, <3>2
  <2> QED BY <2>2 DEF OneUp
<1> QED BY <1>2, <1>3

\* The way grows by one level.
LEMMA WaySteps ==
  ASSUME NEW at, NEW h \in Nat
  PROVE  Way(at, h, h) = {at[h]} /\ \A l \in 1 .. h : Way(at, l - 1, h) = Way(at, l, h) \union {at[l - 1]}
<1>1. h .. h = {h} /\ \A l \in 1 .. h : l - 1 .. h = (l .. h) \union {l - 1}
  OBVIOUS
<1>2. Way(at, h, h) = {at[h]}
  BY <1>1 DEF Way
<1>3. ASSUME NEW l \in 1 .. h PROVE Way(at, l - 1, h) = Way(at, l, h) \union {at[l - 1]}
  BY <1>1 DEF Way
<1> QED BY <1>2, <1>3

(* The way and what is beside it, level by level.                          *)
Beside(P, L, at, h) ==
  /\ \A l \in 0 .. h : at[l] \in L /\ P[at[l]].level = l
  /\ \A l \in 1 .. h : at[l - 1] \in ToSet(P[at[l]].kids)
  /\ \A l \in 0 .. h : \A k \in ToSet(P[at[l]].kids) : k \in L /\ P[k].level + 1 = l /\ P[k].level \in Nat

\* A descent is a way with children beside it.
LEMMA BesideTheWay ==
  ASSUME NEW P, NEW L, NEW R, NEW lo, NEW hi, NEW top, Forest(P, L, R, lo, hi), L \subseteq Nat,
         NEW key, NEW h, NEW at, Descent(P, L, lo, hi, top, key, h, at)
  PROVE  Beside(P, L, at, h)
<1>0. h \in Nat
  BY DEF Descent
<1>1. \A l \in 0 .. h : at[l] \in L /\ P[at[l]].level = l
  BY DEF Descent, OnPath
<1>2. \A l \in 1 .. h : at[l - 1] \in ToSet(P[at[l]].kids)
  <2>1. ASSUME NEW l \in 1 .. h PROVE at[l - 1] \in ToSet(P[at[l]].kids)
    <3>1. PICK i \in 1 .. Len(P[at[l]].keys) + 1 : at[l - 1] = P[at[l]].kids[i]
      BY DEF Descent, StepDown
    <3>2. Len(P[at[l]].kids) = Len(P[at[l]].keys) + 1 /\ P[at[l]].kids \in Seq(Nat)
      <4>1. at[l] \in L /\ P[at[l]].level # 0
        BY <1>0, <1>1
      <4> QED BY <4>1, PageFacts DEF Row
    <3>3. i \in DOMAIN P[at[l]].kids
      BY <3>1, <3>2
    <3> QED BY <3>1, <3>3 DEF ToSet
  <2> QED BY <2>1
<1>3. \A l \in 0 .. h : \A k \in ToSet(P[at[l]].kids) : k \in L /\ P[k].level + 1 = l
  <2>1. ASSUME NEW l \in 0 .. h, NEW k \in ToSet(P[at[l]].kids) PROVE k \in L /\ P[k].level + 1 = l
    <3>1. Ready(P, L \ R, lo, hi, P[at[l]], lo[at[l]], hi[at[l]]) /\ P[at[l]].level = l
      BY <1>1, PageFacts
    <3>2. PICK i \in DOMAIN P[at[l]].kids : k = P[at[l]].kids[i]
      BY DEF ToSet
    <3> QED BY <3>1, <3>2 DEF Ready, Bears
  <2> QED BY <2>1
<1>4. \A k \in L : P[k].level \in Nat
  BY PageFacts
<1> QED BY <1>1, <1>2, <1>3, <1>4 DEF Beside

\* A child beside the way is a page, of the level below its parent's.
LEMMA AboveLevels ==
  ASSUME NEW P, NEW L, NEW at, NEW h \in Nat, Beside(P, L, at, h), NEW l \in 0 .. h,
         NEW x \in Above(P, at, l, h)
  PROVE  x \in L /\ P[x].level \in Nat /\ P[x].level >= l /\ x \notin Way(at, 0, h)
<1>1. PICK j \in l + 1 .. h : x \in Side(P, at, j)
  BY DEF Above
<1>2. j \in 1 .. h /\ j \in 0 .. h /\ x \in ToSet(P[at[j]].kids) /\ x # at[j - 1]
  BY <1>1 DEF Side
<1>3. x \in L /\ P[x].level + 1 = j /\ P[x].level \in Nat
  BY <1>2 DEF Beside
<1>4. ASSUME NEW m \in 0 .. h, x = at[m] PROVE FALSE
  <2>1. P[x].level = m
    BY <1>4 DEF Beside
  <2>2. m = j - 1
    BY <2>1, <1>3, <1>2
  <2> QED BY <2>2, <1>2, <1>4
<1> QED BY <1>1, <1>3, <1>4 DEF Way

\* The forest that is left when the pages on the way are taken out.
LEMMA UprootWay ==
  ASSUME NEW P, NEW L, NEW lo, NEW hi, NEW top, Forest(P, L, {top}, lo, hi),
         NEW h \in Nat, NEW at, at[h] = top, Beside(P, L, at, h), NEW m \in 0 .. h
  PROVE  Forest(P, L \ Way(at, m, h), Above(P, at, m, h) \union ToSet(P[at[m]].kids), lo, hi)
<1> DEFINE Good(l) == Forest(P, L \ Way(at, l, h), Above(P, at, l, h) \union ToSet(P[at[l]].kids), lo, hi)
<1>1. Good(h)
  <2>1. ({top} \ {top}) \union ToSet(P[top].kids) = Above(P, at, h, h) \union ToSet(P[at[h]].kids)
    BY AboveSteps
  <2>2. Forest(P, L \ {top}, ({top} \ {top}) \union ToSet(P[top].kids), lo, hi)
    BY Uproot
  <2>3. L \ {top} = L \ Way(at, h, h)
    BY WaySteps
  <2> QED BY <2>1, <2>2, <2>3
<1>2. ASSUME NEW l \in 1 .. h, Good(l) PROVE Good(l - 1)
  <2>1. PICK p : p = at[l - 1]
    OBVIOUS
  <2>2. l \in 0 .. h /\ l - 1 \in 0 .. h
    OBVIOUS
  <2>3. p \in ToSet(P[at[l]].kids) /\ P[p].level = l - 1
    BY <2>1, <2>2 DEF Beside
  <2>4. p \notin Above(P, at, l, h)
    BY <2>2, <2>3, AboveLevels
  <2>5. Forest(P, (L \ Way(at, l, h)) \ {p}, ((Above(P, at, l, h) \union ToSet(P[at[l]].kids)) \ {p}) \union ToSet(P[p].kids), lo, hi)
    BY <2>3, <1>2, Uproot
  <2>6. (Above(P, at, l, h) \union ToSet(P[at[l]].kids)) \ {p} = Above(P, at, l - 1, h)
    <3>1. Above(P, at, l - 1, h) = Above(P, at, l, h) \union Side(P, at, l)
      BY AboveSteps DEF OneUp
    <3>2. Side(P, at, l) = ToSet(P[at[l]].kids) \ {p}
      BY <2>1 DEF Side
    <3> QED BY <3>1, <3>2, <2>4
  <2>7. (L \ Way(at, l, h)) \ {p} = L \ Way(at, l - 1, h)
    <3>1. Way(at, l - 1, h) = Way(at, l, h) \union {at[l - 1]}
      BY WaySteps
    <3> QED BY <2>1, <3>1
  <2> QED BY <2>1, <2>5, <2>6, <2>7
<1> HIDE DEF Good
<1> DEFINE S == {l \in 0 .. h : Good(l)}
<1>3. h \in S /\ \A l \in 1 .. h : l \in S => l - 1 \in S
  BY <1>1, <1>2
<1>4. m \in S
  <2> HIDE DEF S
  <2> QED BY <1>3, DownTo
<1> QED BY <1>4 DEF Good

-----------------------------------------------------------------------------
(* On the way up.  The pages w.ids, with the pivots w.keys between, stand  *)
(* for the page at[l] of the tree of the pages P; the pages above are as   *)
(* they were, and are to be freed.                                         *)
Climb(P, lo, hi, at, h, w, L, lo2, hi2, D, l) ==
  /\ Sound(w, L, Above(P, at, l, h) \union ToSet(w.ids), lo2, hi2, D)
  /\ Row(w.pages, ToSet(w.ids), lo2, hi2, l + 1, w.keys, w.ids, lo[at[l]], hi[at[l]])
  /\ Len(w.keys) <= 2
  /\ Carried(P, w.pages, lo, hi, lo2, hi2, Above(P, at, l, h))
  /\ Same(P, w.pages, Way(at, l + 1, h)) /\ Way(at, l + 1, h) \subseteq D

(* The parent on level l, and its i-th child, which is to be replaced.     *)
Parent(P, lo, hi, at, h, w, lo2, hi2, l, n, i) ==
  /\ w.pages[at[l]] = n /\ n.level = l /\ i \in 1 .. Len(n.keys) + 1
  /\ lo[at[l]] \in Nat /\ hi[at[l]] \in Nat /\ Occupied(n) <= Capacity
  /\ Outside(w.pages, Above(P, at, l - 1, h) \union ToSet(w.ids), lo2, hi2, l, n.keys, n.kids,
             lo[at[l]], hi[at[l]], i, i)
  /\ Row(w.pages, Above(P, at, l - 1, h) \union ToSet(w.ids), lo2, hi2, l, w.keys, w.ids,
         Fence(n.keys, lo[at[l]], hi[at[l]], i - 1), Fence(n.keys, lo[at[l]], hi[at[l]], i))
  /\ Above(P, at, l - 1, h) \union ToSet(w.ids)
       = Above(P, at, l, h) \union (Before(n.kids, i) \union ToSet(w.ids) \union From(n.kids, i + 1))
  /\ Above(P, at, l, h) \cap (Before(n.kids, i) \union ToSet(w.ids) \union From(n.kids, i + 1)) = {}

\* The other children of a node whose children are different.
LEMMA OtherKids ==
  ASSUME NEW s \in Seq(Nat), IsInjective(s), NEW i \in 1 .. Len(s)
  PROVE  Before(s, i) \union From(s, i + 1) = ToSet(s) \ {s[i]}
<1>1. DOMAIN s = 1 .. Len(s) /\ Len(s) \in Nat
  OBVIOUS
<1>2. \A x \in 1 .. Len(s) : x # i => s[x] # s[i]
  BY <1>1 DEF IsInjective
<1>3. Before(s, i) \union From(s, i + 1) \subseteq ToSet(s) \ {s[i]}
  <2>1. ASSUME NEW x \in 1 .. i - 1 PROVE s[x] \in ToSet(s) \ {s[i]}
    BY <1>1, <1>2 DEF ToSet
  <2>2. ASSUME NEW x \in i + 1 .. Len(s) PROVE s[x] \in ToSet(s) \ {s[i]}
    BY <1>1, <1>2 DEF ToSet
  <2> QED BY <2>1, <2>2 DEF Before, From
<1>4. ASSUME NEW y \in ToSet(s) \ {s[i]} PROVE y \in Before(s, i) \union From(s, i + 1)
  <2>1. PICK x \in 1 .. Len(s) : y = s[x]
    BY <1>1 DEF ToSet
  <2>2. x \in 1 .. i - 1 \/ x \in i + 1 .. Len(s)
    BY <2>1, <1>4
  <2> QED BY <2>1, <2>2 DEF Before, From
<1> QED BY <1>3, <1>4

\* The parent of what has climbed so far: its other children still stand.
LEMMA ParentIs ==
  ASSUME NEW P, NEW L0, NEW lo, NEW hi, NEW top, Forest(P, L0, {top}, lo, hi), L0 \subseteq Nat,
         NEW key, NEW h \in Nat, NEW at, Descent(P, L0, lo, hi, top, key, h, at), Beside(P, L0, at, h),
         NEW w, NEW L, NEW lo2, NEW hi2, NEW D, NEW l \in 1 .. h,
         Climb(P, lo, hi, at, h, w, L, lo2, hi2, D, l - 1)
  PROVE  Parent(P, lo, hi, at, h, w, lo2, hi2, l, P[at[l]], ChildIndex(P[at[l]], key))
<1> DEFINE A == Above(P, at, l, h)  B == Above(P, at, l - 1, h)
<1>0. l \in 0 .. h /\ l - 1 \in 0 .. h /\ l \in (l - 1) + 1 .. h /\ l # 0 /\ (l - 1) + 1 = l
  OBVIOUS
<1>1. PICK p : p = at[l]
  OBVIOUS
<1>2. PICK n : n = P[p]
  OBVIOUS
<1>3. PICK i : i = ChildIndex(n, key)
  OBVIOUS
<1>4. p \in L0 /\ n.level = l
  BY <1>0, <1>1, <1>2 DEF Beside
<1>5. /\ Ready(P, L0 \ {top}, lo, hi, n, lo[p], hi[p]) /\ lo[p] \in Nat /\ hi[p] \in Nat
      /\ Occupied(n) <= Capacity
      /\ Row(P, L0 \ {top}, lo, hi, l, n.keys, n.kids, lo[p], hi[p])
  BY <1>0, <1>2, <1>4, PageFacts
<1>6. /\ i \in 1 .. Len(n.keys) + 1 /\ at[l - 1] = n.kids[i]
      /\ lo[at[l - 1]] = Fence(n.keys, lo[p], hi[p], i - 1) /\ hi[at[l - 1]] = Fence(n.keys, lo[p], hi[p], i)
  BY <1>1, <1>2, <1>3 DEF Descent, StepDown
<1>7. w.pages[p] = n
  <2>1. p \in Way(at, (l - 1) + 1, h)
    BY <1>0, <1>1 DEF Way
  <2> QED BY <2>1, <1>2 DEF Climb, Same
<1>8. n.kids \in Seq(Nat) /\ Len(n.kids) = Len(n.keys) + 1 /\ n.keys \in Seq(Keys)
  BY <1>5 DEF Row
<1>9. Before(n.kids, i) \union From(n.kids, i + 1) = Side(P, at, l)
  <2>1. IsInjective(n.kids)
    BY <1>5, KidsDiffer
  <2>2. i \in 1 .. Len(n.kids)
    BY <1>6, <1>8
  <2>3. Side(P, at, l) = ToSet(n.kids) \ {n.kids[i]}
    BY <1>1, <1>2, <1>6 DEF Side
  <2> QED BY <2>1, <2>2, <2>3, <1>8, OtherKids
<1>10. B = A \union Side(P, at, l)
  BY AboveSteps DEF OneUp
<1>11. Outside(w.pages, B \union ToSet(w.ids), lo2, hi2, l, n.keys, n.kids, lo[p], hi[p], i, i)
  <2>1. ASSUME NEW x \in 1 .. Len(n.keys) + 1, x < i \/ x > i
        PROVE  Fits(w.pages, B \union ToSet(w.ids), lo2, hi2, l, n.kids[x],
                    Fence(n.keys, lo[p], hi[p], x - 1), Fence(n.keys, lo[p], hi[p], x))
    <3>1. n.kids[x] \in B
      <4>1. n.kids[x] \in Before(n.kids, i) \union From(n.kids, i + 1)
        <5>1. x \in 1 .. i - 1 \/ x \in i + 1 .. Len(n.kids)
          BY <2>1, <1>6, <1>8
        <5> QED BY <5>1 DEF Before, From
      <4> QED BY <4>1, <1>9, <1>10
    <3>2. Fits(P, L0 \ {top}, lo, hi, l, n.kids[x],
               Fence(n.keys, lo[p], hi[p], x - 1), Fence(n.keys, lo[p], hi[p], x))
      BY <1>5 DEF Row
    <3>3. Carried(P, w.pages, lo, hi, lo2, hi2, B)
      BY DEF Climb
    <3> QED BY <3>1, <3>2, <3>3 DEF Fits, Carried
  <2> QED BY <2>1, <1>8 DEF Outside
<1>12. Row(w.pages, B \union ToSet(w.ids), lo2, hi2, l, w.keys, w.ids,
           Fence(n.keys, lo[p], hi[p], i - 1), Fence(n.keys, lo[p], hi[p], i))
  <2>1. Row(w.pages, ToSet(w.ids), lo2, hi2, l, w.keys, w.ids,
            Fence(n.keys, lo[p], hi[p], i - 1), Fence(n.keys, lo[p], hi[p], i))
    BY <1>0, <1>6 DEF Climb
  <2>2. ToSet(w.ids) \subseteq B \union ToSet(w.ids)
    OBVIOUS
  <2>3. Carried(w.pages, w.pages, lo2, hi2, lo2, hi2, ToSet(w.ids))
    BY DEF Carried
  <2> QED BY <2>1, <2>2, <2>3, RowMoves
<1>13. A \cap (Before(n.kids, i) \union ToSet(w.ids) \union From(n.kids, i + 1)) = {}
  <2>1. ASSUME NEW x \in A PROVE x \notin Side(P, at, l) /\ x \notin ToSet(w.ids)
    <3>1. P[x].level \in Nat /\ P[x].level >= l /\ x \notin Way(at, 0, h)
      BY <1>0, AboveLevels
    <3>2. w.pages[x] = P[x]
      BY <1>10 DEF Climb, Carried
    <3>3. x \notin Side(P, at, l)
      <4>1. ASSUME x \in Side(P, at, l) PROVE FALSE
        <5>1. P[x].level + 1 = l
          BY <4>1, <1>0 DEF Side, Beside
        <5> QED BY <5>1, <3>1
      <4> QED BY <4>1
    <3>4. ASSUME x \in ToSet(w.ids) PROVE FALSE
      <4>1. PICK j \in 1 .. Len(w.keys) + 1 : x = w.ids[j]
        BY <3>4, <1>12 DEF Row, ToSet
      <4>2. w.pages[x].level + 1 = l
        BY <4>1, <1>12 DEF Row, Fits
      <4> QED BY <4>2, <3>1, <3>2
    <3> QED BY <3>3, <3>4
  <2> QED BY <2>1, <1>9
<1>14. B \union ToSet(w.ids)
         = A \union (Before(n.kids, i) \union ToSet(w.ids) \union From(n.kids, i + 1))
  BY <1>9, <1>10
<1>15. Parent(P, lo, hi, at, h, w, lo2, hi2, l, n, i)
  BY <1>1, <1>4, <1>5, <1>6, <1>7, <1>11, <1>12, <1>13, <1>14 DEF Parent
<1> QED BY <1>1, <1>2, <1>3, <1>15

-----------------------------------------------------------------------------
(* Insert: one level up.                                                   *)

\* A node with other keys and children.
LEMMA NodeWith ==
  ASSUME NEW n \in Node, NEW u \in Seq(Nat), NEW e \in Seq(Nat)
  PROVE  [n EXCEPT !.keys = u, !.kids = e] = Inner(n.level, u, e)
<1>1. PICK m : m = [n EXCEPT !.keys = u, !.kids = e]
  OBVIOUS
<1>2. m \in Node /\ m.level = n.level
  BY <1>1 DEF Node
<1>3. m.keys = u
  BY <1>1 DEF Node
<1>4. m.kids = e
  BY <1>1 DEF Node
<1>5. PICK k : k = Inner(n.level, u, e)
  OBVIOUS
<1>6. k \in Node /\ k.level = n.level /\ k.keys = u /\ k.kids = e
  BY <1>5 DEF Inner, Node
<1> QED BY <1>1, <1>2, <1>3, <1>4, <1>5, <1>6 DEF Node

\* No more than two pivots fit a page.
LEMMA ShortFits ==
  ASSUME NEW keys \in Seq(Keys), Len(keys) <= 2
  PROVE  /\ Total(PivotSize, keys) \in Nat /\ LeftmostSize \in Nat /\ Capacity \in Nat
         /\ LeftmostSize + Total(PivotSize, keys) <= Capacity
<1>1. PivotSize \in [Keys -> Nat] /\ LeftmostSize \in Nat /\ Capacity \in Nat /\ LeftmostSize <= Capacity
      /\ \A k \in Keys : PivotSize[k] \in Nat /\ LeftmostSize + 3 * PivotSize[k] <= Capacity
  <2>1. LeftmostSize < Capacity \div 2 /\ LeftmostSize \in Nat /\ Capacity \in Nat
    BY SizesAssumption
  <2>2. LeftmostSize <= Capacity
    BY <2>1
  <2> QED BY <2>1, <2>2, SizesAssumption
<1>2. PICK f : Summed(PivotSize, keys, f) /\ Total(PivotSize, keys) = f[Len(keys)]
  BY <1>1, TotalSummed
<1>3. PICK N \in Nat : N = Len(keys)
  OBVIOUS
<1>4. f[0] = 0 /\ \A x \in 1 .. N : f[x] = f[x - 1] + PivotSize[keys[x]] /\ keys[x] \in Keys
  BY <1>2, <1>3 DEF Summed
<1>5. CASE N = 0
  BY <1>1, <1>2, <1>3, <1>4, <1>5
<1>6. CASE N = 1
  <2>1. 1 \in 1 .. N /\ 1 - 1 = 0
    BY <1>6
  <2>2. f[1] = f[0] + PivotSize[keys[1]] /\ keys[1] \in Keys
    BY <2>1, <1>4
  <2>3. PICK x \in Nat : x = PivotSize[keys[1]] /\ LeftmostSize + 3 * x <= Capacity
    BY <2>2, <1>1
  <2>4. f[1] = x
    BY <2>2, <2>3, <1>4
  <2> QED BY <2>3, <2>4, <1>1, <1>2, <1>3, <1>6
<1>7. CASE N = 2
  <2>1. 1 \in 1 .. N /\ 2 \in 1 .. N /\ 1 - 1 = 0 /\ 2 - 1 = 1
    BY <1>7
  <2>2. /\ f[1] = f[0] + PivotSize[keys[1]] /\ keys[1] \in Keys
        /\ f[2] = f[1] + PivotSize[keys[2]] /\ keys[2] \in Keys
    BY <2>1, <1>4
  <2>3. PICK x \in Nat : x = PivotSize[keys[1]] /\ LeftmostSize + 3 * x <= Capacity
    BY <2>2, <1>1
  <2>4. PICK y \in Nat : y = PivotSize[keys[2]] /\ LeftmostSize + 3 * y <= Capacity
    BY <2>2, <1>1
  <2>5. f[2] = x + y
    BY <2>2, <2>3, <2>4, <1>4
  <2>6. LeftmostSize + (x + y) <= Capacity
    <3>1. PICK c \in Nat, m \in Nat : c = Capacity /\ m = LeftmostSize
      BY <1>1
    <3>2. m + 3 * x <= c /\ m + 3 * y <= c /\ m <= c
      BY <3>1, <2>3, <2>4, <1>1
    <3>3. m + (x + y) <= c
      BY <3>2
    <3> QED BY <3>1, <3>3
  <2> QED BY <2>5, <2>6, <1>1, <1>2, <1>3, <1>7
<1> QED BY <1>3, <1>5, <1>6, <1>7

Climbed(P, lo, hi, at, h, w, L, v, L3, lo3, hi3, D, l) ==
  /\ Climb(P, lo, hi, at, h, v, L3, lo3, hi3, D, l)
  /\ v.freed = w.freed /\ Held(v.pages, L3) = Held(w.pages, L)

\* The parent absorbs what has climbed to its child.
LEMMA AbsorbedClimbs ==
  ASSUME NEW P, NEW L0, NEW lo, NEW hi, NEW top, Forest(P, L0, {top}, lo, hi), L0 \subseteq Nat,
         NEW key, NEW h \in Nat, NEW at, Descent(P, L0, lo, hi, top, key, h, at), Beside(P, L0, at, h),
         NEW w, NEW L, NEW lo2, NEW hi2, NEW D, NEW l \in 1 .. h,
         Climb(P, lo, hi, at, h, w, L, lo2, hi2, D, l - 1),
         NEW v, v = Absorbed(w, P[at[l]], ChildIndex(P[at[l]], key))
  PROVE  \E L3, lo3, hi3 : Climbed(P, lo, hi, at, h, w, L, v, L3, lo3, hi3, D, l)
<1> DEFINE A == Above(P, at, l, h)  B == Above(P, at, l - 1, h)
<1>1. PICK n : n = P[at[l]]
  OBVIOUS
<1>2. PICK i : i = ChildIndex(n, key)
  OBVIOUS
<1>3. Parent(P, lo, hi, at, h, w, lo2, hi2, l, n, i)
  BY <1>1, <1>2, ParentIs
<1>4. PICK a \in Nat, b \in Nat : a = lo[at[l]] /\ b = hi[at[l]]
  BY <1>3 DEF Parent
<1>5. PICK R : R = B \union ToSet(w.ids)
  OBVIOUS
<1>6. /\ w.pages[at[l]] = n /\ n.level = l /\ i \in 1 .. Len(n.keys) + 1 /\ Occupied(n) <= Capacity
      /\ Outside(w.pages, R, lo2, hi2, l, n.keys, n.kids, a, b, i, i)
      /\ Row(w.pages, R, lo2, hi2, l, w.keys, w.ids, Fence(n.keys, a, b, i - 1), Fence(n.keys, a, b, i))
  BY <1>3, <1>4, <1>5 DEF Parent
<1>7. PICK u, e : /\ u = SubSeq(n.keys, 1, i - 1) \o w.keys \o SubSeq(n.keys, i, Len(n.keys))
                  /\ e = SubSeq(n.kids, 1, i - 1) \o w.ids \o SubSeq(n.kids, i + 1, Len(n.kids))
  OBVIOUS
<1>8. n.level \in Nat /\ n.level # 0
  BY <1>6
<1>9. AbsorbedNode(w.pages, R, lo2, hi2, n, i, w.keys, w.ids, a, b, u, e)
  BY <1>6, <1>7, <1>8, Absorb
<1>10. PICK m : m = Inner(l, u, e)
  OBVIOUS
<1>11. /\ Ready(w.pages, R, lo2, hi2, m, a, b)
       /\ ToSet(e) = Before(n.kids, i) \union ToSet(w.ids) \union From(n.kids, i + 1)
       /\ Total(PivotSize, u) = Total(PivotSize, n.keys) + Total(PivotSize, w.keys)
  BY <1>6, <1>9, <1>10 DEF AbsorbedNode
<1>12. R = A \union ToSet(m.kids) /\ A \cap ToSet(m.kids) = {}
  <2>1. m.kids = e
    BY <1>10 DEF Inner
  <2>2. R = A \union ToSet(e) /\ A \cap ToSet(e) = {}
    BY <1>3, <1>5, <1>11 DEF Parent
  <2> QED BY <2>1, <2>2
<1>13. SizeBound(m)
  <2>1. w.keys \in Seq(Keys) /\ n.keys \in Seq(Keys) /\ Len(w.keys) <= 2
    BY <1>6 DEF Row, Outside, Climb
  <2>2. /\ Total(PivotSize, w.keys) \in Nat /\ LeftmostSize \in Nat /\ Capacity \in Nat
        /\ LeftmostSize + Total(PivotSize, w.keys) <= Capacity
    BY <2>1, ShortFits
  <2>3. Total(PivotSize, n.keys) \in Nat
    BY <2>1, TotalNat, SizesAssumption
  <2>4. LeftmostSize + Total(PivotSize, n.keys) <= Capacity
    BY <1>6, <1>8 DEF Occupied, IsLeaf
  <2>5. ~ IsLeaf(m) /\ m.keys = u
    BY <1>8, <1>6, <1>10 DEF Inner, IsLeaf
  <2>6. PICK x \in Nat, y \in Nat : x = Total(PivotSize, n.keys) /\ y = Total(PivotSize, w.keys)
    BY <2>2, <2>3
  <2>7. Total(PivotSize, m.keys) <= 2 * (Capacity - LeftmostSize)
    BY <2>2, <2>4, <2>5, <2>6, <1>11
  <2> QED BY <2>5, <2>7 DEF SizeBound
<1>14. v = Replaced(w, m)
  <2>1. n \in Node
    <3>1. at[l] \in L0
      BY DEF Beside
    <3> QED BY <3>1, <1>1, PageFacts DEF Ready, Shaped
  <2>2. m = [n EXCEPT !.keys = u, !.kids = e]
    <3>1. u \in Seq(Nat) /\ e \in Seq(Nat)
      BY <1>9, KeysAreNat DEF AbsorbedNode
    <3>2. [n EXCEPT !.keys = u, !.kids = e] = Inner(n.level, u, e)
      BY <2>1, <3>1, NodeWith, Zenon
    <3> QED BY <3>2, <1>6, <1>10, Zenon
  <2> QED BY <2>2, <1>1, <1>2, <1>7, Zenon DEF Absorbed
<1>15. Sound(w, L, R, lo2, hi2, D)
  BY <1>5 DEF Climb
<1>16. PICK lo3, hi3 : Rewritten(w, v, L, R, lo2, hi2, D, m, a, b, lo3, hi3)
  BY <1>11, <1>13, <1>14, <1>15, ReplacedRewritten
<1> DEFINE L3 == L \union ToSet(v.ids)
<1>17. Sound(v, L3, A \union ToSet(v.ids), lo3, hi3, D)
  <2>1. Sound(v, L3, (R \ ToSet(m.kids)) \union ToSet(v.ids), lo3, hi3, D)
    BY <1>16 DEF Rewritten
  <2>2. R \ ToSet(m.kids) = A
    BY <1>12
  <2> QED BY <2>1, <2>2
<1>18. Carried(P, v.pages, lo, hi, lo3, hi3, A)
  <2>1. A \subseteq B
    <3>1. OneUp(P, at, l, h)
      BY AboveSteps
    <3> QED BY <3>1 DEF OneUp
  <2>2. A \subseteq L
    BY <1>12, <1>15 DEF Sound, Forest
  <2>3. Carried(w.pages, v.pages, lo2, hi2, lo3, hi3, L)
    BY <1>16 DEF Rewritten
  <2>4. Carried(P, w.pages, lo, hi, lo2, hi2, B)
    BY DEF Climb
  <2> QED BY <2>1, <2>2, <2>3, <2>4 DEF Carried
<1>19. Same(P, v.pages, Way(at, l + 1, h)) /\ Way(at, l + 1, h) \subseteq D
  <2>1. Way(at, l + 1, h) \subseteq Way(at, (l - 1) + 1, h)
    <3>1. \A x \in l + 1 .. h : x \in (l - 1) + 1 .. h
      OBVIOUS
    <3> QED BY <3>1 DEF Way
  <2>2. Same(P, w.pages, Way(at, (l - 1) + 1, h)) /\ Way(at, (l - 1) + 1, h) \subseteq D
    BY DEF Climb
  <2>3. Same(w.pages, v.pages, D)
    BY <1>16 DEF Rewritten
  <2> QED BY <2>1, <2>2, <2>3 DEF Same
<1>20. /\ Row(v.pages, ToSet(v.ids), lo3, hi3, l + 1, v.keys, v.ids, lo[at[l]], hi[at[l]])
       /\ Len(v.keys) <= 2 /\ v.freed = w.freed
       /\ Held(v.pages, L3) = Held(w.pages, L) \union HeldIn(m)
  <2>1. m.level = l
    BY <1>10 DEF Inner
  <2> QED BY <2>1, <1>4, <1>16 DEF Rewritten
<1>21. HeldIn(m) = {}
  BY <1>6, <1>8, <1>10 DEF HeldIn, IsLeaf, Inner
<1>22. Climb(P, lo, hi, at, h, v, L3, lo3, hi3, D, l)
  BY <1>17, <1>18, <1>19, <1>20 DEF Climb
<1> QED BY <1>20, <1>21, <1>22 DEF Climbed

-----------------------------------------------------------------------------
(* Insert: the leaf, and the whole way.                                    *)

(* A leaf with a key more.                                                 *)
LeafWith(keys, key, u, a, b) ==
  /\ LeafReady(u, a, b) /\ ToSet(u) = ToSet(keys) \union {key}
  /\ Total(LeafSize, u) = Total(LeafSize, keys) + LeafSize[key]

\* WithKey puts the key in its place.
LEMMA WithKeyIs ==
  ASSUME NEW a \in Nat, NEW b \in Nat, NEW keys, LeafReady(keys, a, b),
         NEW key \in Keys, key \notin ToSet(keys), a <= key, key < b
  PROVE  LeafWith(keys, key, WithKey(keys, key), a, b)
<1>1. keys \in Seq(Keys) /\ key \in Nat
  BY SizesAssumption DEF LeafReady
<1>2. PICK N \in Nat : N = Len(keys) /\ DOMAIN keys = 1 .. N
  BY <1>1
<1>3. \A x \in 1 .. N : keys[x] \in Nat /\ keys[x] # key /\ a <= keys[x] /\ keys[x] < b
  BY <1>1, <1>2, KeysAreNat DEF LeafReady, ToSet
<1>4. \A x, y \in 1 .. N : x < y => keys[x] < keys[y]
  BY <1>2 DEF LeafReady, Increasing
<1>5. PICK n : n = Max({0} \union {x \in DOMAIN keys : keys[x] < key})
  OBVIOUS
<1>6. n \in 0 .. N /\ (n = 0 \/ keys[n] < key) /\ \A x \in 1 .. N : keys[x] < key => n >= x
  <2> DEFINE S == {0} \union {x \in DOMAIN keys : keys[x] < key}
  <2>1. S \in SUBSET (0 .. N) /\ S # {}
    BY <1>2
  <2>2. n \in S /\ \A y \in S : n >= y
    <3> HIDE DEF S
    <3>1. Max(S) \in S /\ \A y \in S : Max(S) >= y
      BY <2>1, MaxIn
    <3>2. n = Max(S)
      BY <1>5 DEF S
    <3> QED BY <3>1, <3>2
  <2> QED BY <2>2, <1>2
<1>7. \A x \in 1 .. n : keys[x] < key
  <2>1. ASSUME NEW x \in 1 .. n PROVE keys[x] < key
    <3>1. n \in 1 .. N /\ x \in 1 .. N /\ keys[n] < key
      BY <1>6
    <3>2. x = n \/ keys[x] < keys[n]
      BY <3>1, <1>4
    <3> QED BY <3>1, <3>2, <1>1, <1>3
  <2> QED BY <2>1
<1>8. \A x \in n + 1 .. N : key < keys[x]
  BY <1>1, <1>3, <1>6
<1>9. PICK u : u = WithKey(keys, key)
  OBVIOUS
<1>10. PICK i \in Nat : i = n + 1 /\ 1 <= i /\ i <= N + 1 /\ n = i - 1
  BY <1>6
<1>11. u = SubSeq(keys, 1, i - 1) \o <<key>> \o SubSeq(keys, i, Len(keys))
  BY <1>5, <1>9, <1>10 DEF WithKey
<1>12. <<key>> \in Seq(Keys) /\ Len(<<key>>) = 1 /\ <<key>>[1] = key /\ ToSet(<<key>>) = {key}
  <2>1. <<key>> \in Seq(Keys) /\ Len(<<key>>) = 1 /\ <<key>>[1] = key /\ DOMAIN <<key>> = {1}
    OBVIOUS
  <2> QED BY <2>1 DEF ToSet
<1>13. PICK t \in Seq(Keys) : t = <<key>>
  BY <1>12
<1>14. u \in Seq(Keys) /\ IsSplice(u, keys, i, t, i)
  <2>1. i <= i /\ i <= Len(keys) + 1
    BY <1>2, <1>10
  <2> QED BY <2>1, <1>1, <1>10, <1>11, <1>13, SpliceIs
<1>15. /\ Len(u) = N + 1 /\ u[i] = key
       /\ \A x \in 1 .. i - 1 : u[x] = keys[x]
       /\ \A x \in i .. N : u[x + 1] = keys[x]
  <2>1. Len(t) = 1 /\ t[1] = key
    BY <1>12, <1>13
  <2>2. /\ Len(u) = (i - 1) + 1 + (N - i + 1) /\ u[i - 1 + 1] = key
        /\ \A x \in 1 .. i - 1 : u[x] = keys[x]
        /\ \A x \in i .. N : u[i - 1 + 1 + (x - i + 1)] = keys[x]
    <3>1. 1 \in 1 .. Len(t)
      BY <2>1
    <3> QED BY <2>1, <3>1, <1>2, <1>14 DEF IsSplice
  <2>3. (i - 1) + 1 + (N - i + 1) = N + 1 /\ i - 1 + 1 = i
    BY <1>10
  <2>4. \A x \in i .. N : i - 1 + 1 + (x - i + 1) = x + 1
    BY <1>10
  <2> QED BY <2>2, <2>3, <2>4
<1>16. \A x \in 1 .. N + 1 : \/ x < i /\ u[x] = keys[x] /\ x \in 1 .. n /\ x \in 1 .. N
                             \/ x = i /\ u[x] = key
                             \/ x > i /\ u[x] = keys[x - 1] /\ x - 1 \in n + 1 .. N /\ x - 1 \in 1 .. N
  <2>1. ASSUME NEW x \in 1 .. N + 1, x > i PROVE u[x] = keys[x - 1] /\ x - 1 \in n + 1 .. N /\ x - 1 \in 1 .. N
    <3>1. x - 1 \in i .. N /\ (x - 1) + 1 = x
      BY <2>1, <1>10
    <3> QED BY <3>1, <1>10, <1>15
  <2>2. ASSUME NEW x \in 1 .. N + 1, x < i PROVE x \in 1 .. i - 1 /\ x \in 1 .. n /\ x \in 1 .. N
    BY <2>2, <1>6, <1>10
  <2> QED BY <2>1, <2>2, <1>10, <1>15
<1>17. Increasing(u)
  <2>1. ASSUME NEW x \in 1 .. N + 1, NEW y \in 1 .. N + 1, x < y PROVE u[x] < u[y]
    <3>1. CASE y < i
      BY <3>1, <2>1, <1>4, <1>10, <1>16
    <3>2. CASE y = i
      <4>1. u[y] = key /\ x < i
        BY <3>2, <2>1, <1>15
      <4>2. u[x] = keys[x] /\ x \in 1 .. n
        BY <4>1, <1>10, <1>16
      <4> QED BY <4>1, <4>2, <1>7
    <3>3. CASE y > i
      <4>1. u[y] = keys[y - 1] /\ y - 1 \in n + 1 .. N /\ y - 1 \in 1 .. N
        BY <3>3, <1>10, <1>16
      <4>2. CASE x < i
        <5>1. u[x] = keys[x] /\ x \in 1 .. N /\ x < y - 1
          BY <4>2, <3>3, <1>10, <1>16
        <5> QED BY <4>1, <5>1, <1>4
      <4>3. CASE x = i
        BY <4>1, <4>3, <1>8, <1>15
      <4>4. CASE x > i
        <5>1. u[x] = keys[x - 1] /\ x - 1 \in 1 .. N /\ x - 1 < y - 1
          BY <4>4, <2>1, <1>10, <1>16
        <5> QED BY <4>1, <5>1, <1>4
      <4> QED BY <4>2, <4>3, <4>4, <1>10
    <3> QED BY <3>1, <3>2, <3>3, <1>10
  <2>2. DOMAIN u = 1 .. N + 1
    BY <1>14, <1>15
  <2> QED BY <2>1, <2>2 DEF Increasing
<1>18. \A x \in 1 .. Len(u) : a <= u[x] /\ u[x] < b
  BY <1>3, <1>15, <1>16
<1>19. LeafReady(u, a, b)
  BY <1>14, <1>17, <1>18 DEF LeafReady
<1>20. ToSet(u) = ToSet(keys) \union {key}
  <2>1. ToSet(u) = Before(keys, i) \union ToSet(t) \union From(keys, i)
    <3>1. i <= i /\ i <= Len(keys) + 1
      BY <1>2, <1>10
    <3>2. keys \in Seq(Keys) /\ i \in Nat /\ 1 <= i
      BY <1>1, <1>10
    <3> QED BY <3>1, <3>2, <1>14, KeysSplice, SMTT(60)
  <2>2. Before(keys, i) \union From(keys, i) = ToSet(keys)
    <3>1. \A x \in 1 .. N : x \in 1 .. i - 1 \/ x \in i .. N
      BY <1>10
    <3>2. \A x \in 1 .. i - 1 : x \in 1 .. N
      BY <1>10
    <3>3. \A x \in i .. N : x \in 1 .. N
      BY <1>10
    <3> QED BY <3>1, <3>2, <3>3, <1>2 DEF Before, From, ToSet
  <2> QED BY <2>1, <2>2, <1>12, <1>13
<1>21. Total(LeafSize, u) = Total(LeafSize, keys) + LeafSize[key]
  <2>1. LeafSize \in [Keys -> Nat]
    BY SizesAssumption
  <2>2. i <= Len(keys) + 1
    BY <1>2, <1>10
  <2>3. Total(LeafSize, u) = Total(LeafSize, keys) + Total(LeafSize, t)
    BY <2>1, <2>2, <1>1, <1>10, <1>11, <1>13, InsertedTotal, ZenonT(60)
  <2>4. Total(LeafSize, t) = LeafSize[key]
    BY <2>1, <1>13, TotalOne
  <2> QED BY <2>3, <2>4
<1> QED BY <1>9, <1>19, <1>20, <1>21 DEF LeafWith

-----------------------------------------------------------------------------
(* The end of an operation.                                                *)

\* A forest is a forest wherever its pages are the same.
LEMMA ForestMoves ==
  ASSUME NEW P, NEW L, NEW R, NEW lo, NEW hi, Forest(P, L, R, lo, hi), NEW Q, Same(P, Q, L),
         L \subseteq DOMAIN Q
  PROVE  Forest(Q, L, R, lo, hi) /\ Held(Q, L) = Held(P, L)
<1>1. \A x \in L : Q[x] = P[x]
  BY DEF Same
<1>2. Held(Q, L) = Held(P, L)
  BY <1>1 DEF Held
<1>3. L \subseteq DOMAIN P /\ R \subseteq L /\ lo \in [Nat -> Nat] /\ hi \in [Nat -> Nat] /\ OneParent(P, L)
  BY DEF Forest
<1>4. ASSUME NEW id \in L
      PROVE  Ready(Q, L \ R, lo, hi, Q[id], lo[id], hi[id]) /\ Occupied(Q[id]) <= Capacity
  <2>1. Ready(P, L \ R, lo, hi, P[id], lo[id], hi[id]) /\ Occupied(P[id]) <= Capacity
    BY DEF Forest
  <2>2. ToSet(P[id].kids) \subseteq L \ R
    BY <2>1 DEF Ready, Bears, ToSet
  <2>3. Carried(P, Q, lo, hi, lo, hi, ToSet(P[id].kids))
    BY <1>1, <2>2 DEF Carried
  <2>4. Ready(Q, L \ R, lo, hi, P[id], lo[id], hi[id])
    BY <2>1, <2>2, <2>3, ReadyMoves
  <2> QED BY <2>1, <2>4, <1>1
<1>5. OneParent(Q, L)
  <2>1. ASSUME NEW x \in L, NEW y \in L, NEW i \in DOMAIN Q[x].kids, NEW j \in DOMAIN Q[y].kids,
               Q[x].kids[i] = Q[y].kids[j]
        PROVE  x = y /\ i = j
    <3>1. Q[x] = P[x] /\ Q[y] = P[y]
      BY <1>1
    <3> QED BY <2>1, <3>1, <1>3 DEF OneParent
  <2> QED BY <2>1 DEF OneParent
<1>6. ASSUME NEW id \in L \ R PROVE \E p \in L : id \in ToSet(Q[p].kids)
  <2>1. PICK p \in L : id \in ToSet(P[p].kids)
    BY DEF Forest
  <2> QED BY <2>1, <1>1
<1> QED BY <1>2, <1>3, <1>4, <1>5, <1>6 DEF Forest

(* v is w with page x free.                                                *)
FreedOne(w, v, L, R, lo, hi, D, x) ==
  /\ Sound(v, L, R, lo, hi, D \ {x}) /\ Same(w.pages, v.pages, L)
  /\ Held(v.pages, L) = Held(w.pages, L)

\* free_page.
LEMMA FreeOne ==
  ASSUME NEW w, NEW L, NEW R, NEW lo, NEW hi, NEW D, Sound(w, L, R, lo, hi, D), NEW x \in D
  PROVE  FreedOne(w, FreePage(w, x), L, R, lo, hi, D, x)
<1>1. w \in WorkType /\ Forest(w.pages, L, R, lo, hi) /\ Accounted(w.pages, w.free, L, D)
  BY DEF Sound
<1>2. PICK v : v = FreePage(w, x)
  OBVIOUS
<1>3. /\ w.pages \in Seq(Node) /\ w.free \in Seq(Nat) /\ DOMAIN w.pages = 1 .. Len(w.pages)
      /\ Len(w.pages) \in Nat
  BY <1>1 DEF WorkType
<1>4. x \in DOMAIN w.pages /\ x \in Nat /\ x \notin L /\ x \notin ToSet(w.free)
  BY <1>1, <1>3 DEF Accounted
<1>5. Freed \in Node
  BY DEF Freed, Node
<1>6. v = [w EXCEPT !.pages = [w.pages EXCEPT ![x] = Freed], !.free = <<x>> \o w.free]
  BY <1>2 DEF FreePage
<1>7. [w.pages EXCEPT ![x] = Freed] \in Seq(Node) /\ <<x>> \o w.free \in Seq(Nat)
  BY <1>3, <1>4, <1>5
<1>8. v \in WorkType
  BY <1>1, <1>6, <1>7 DEF WorkType
<1>9. v.pages = [w.pages EXCEPT ![x] = Freed] /\ v.free = <<x>> \o w.free
  BY <1>1, <1>6 DEF WorkType
<1>10. DOMAIN v.pages = DOMAIN w.pages /\ v.pages[x] = Freed
       /\ \A y \in DOMAIN w.pages \ {x} : v.pages[y] = w.pages[y]
  BY <1>4, <1>9
<1>11. L \subseteq DOMAIN w.pages
  BY <1>1 DEF Accounted
<1>12. Same(w.pages, v.pages, L)
  BY <1>4, <1>10, <1>11 DEF Same
<1>13. Forest(v.pages, L, R, lo, hi) /\ Held(v.pages, L) = Held(w.pages, L)
  BY <1>1, <1>10, <1>11, <1>12, ForestMoves
<1>14. PICK N \in Nat : N = Len(w.free)
  BY <1>3
<1>15. /\ Len(v.free) = N + 1 /\ DOMAIN v.free = 1 .. N + 1 /\ v.free[1] = x
       /\ \A i \in 2 .. N + 1 : v.free[i] = w.free[i - 1] /\ i - 1 \in 1 .. N
  BY <1>3, <1>4, <1>9, <1>14
<1>16. DOMAIN w.free = 1 .. N
  BY <1>3, <1>14
<1>17. ToSet(v.free) = ToSet(w.free) \union {x}
  <2>1. ASSUME NEW y \in ToSet(v.free) PROVE y \in ToSet(w.free) \union {x}
    <3>1. PICK i \in 1 .. N + 1 : y = v.free[i]
      BY <1>15 DEF ToSet
    <3>2. i = 1 \/ i \in 2 .. N + 1
      OBVIOUS
    <3> QED BY <3>1, <3>2, <1>15, <1>16 DEF ToSet
  <2>2. ASSUME NEW y \in ToSet(w.free) PROVE y \in ToSet(v.free)
    <3>1. PICK i \in 1 .. N : y = w.free[i]
      BY <1>16 DEF ToSet
    <3>2. i + 1 \in 2 .. N + 1 /\ (i + 1) - 1 = i /\ i + 1 \in 1 .. N + 1
      OBVIOUS
    <3>3. v.free[i + 1] = y
      BY <3>1, <3>2, <1>15
    <3> QED BY <3>2, <3>3, <1>15 DEF ToSet
  <2>3. x \in ToSet(v.free)
    <3>1. 1 \in DOMAIN v.free
      BY <1>15
    <3> QED BY <3>1, <1>15 DEF ToSet
  <2> QED BY <2>1, <2>2, <2>3
<1>18. IsInjective(v.free)
  <2>1. IsInjective(w.free)
    BY <1>1 DEF Accounted
  <2>2. \A i \in 2 .. N + 1 : v.free[i] # x
    BY <1>4, <1>15, <1>16 DEF ToSet
  <2>3. ASSUME NEW i \in 1 .. N + 1, NEW j \in 1 .. N + 1, v.free[i] = v.free[j] PROVE i = j
    <3>1. CASE i = 1 \/ j = 1
      <4>1. i = 1 /\ j = 1
        BY <2>2, <2>3, <3>1, <1>15
      <4> QED BY <4>1
    <3>2. CASE i # 1 /\ j # 1
      <4>1. i \in 2 .. N + 1 /\ j \in 2 .. N + 1
        BY <3>2
      <4>2. w.free[i - 1] = w.free[j - 1] /\ i - 1 \in 1 .. N /\ j - 1 \in 1 .. N
        BY <2>3, <4>1, <1>15
      <4>3. i - 1 = j - 1
        BY <2>1, <4>2, <1>16 DEF IsInjective
      <4> QED BY <4>3
    <3> QED BY <3>1, <3>2
  <2> QED BY <2>3, <1>15 DEF IsInjective
<1>19. Accounted(v.pages, v.free, L, D \ {x})
  BY <1>1, <1>4, <1>10, <1>17, <1>18 DEF Accounted
<1> QED BY <1>2, <1>8, <1>12, <1>13, <1>19 DEF Sound, FreedOne

DoneSteps(w, f) ==
  f[0] = w /\ \A i \in 1 .. Len(w.freed) : f[i] = FreePage(f[i - 1], w.freed[i])

(* t is the tree that w leaves.                                            *)
TreeOf(t, end, w) == t = [pages |-> end.pages, free |-> end.free, root |-> w.ids[1]]

\* The recursive function in Finished exists.
LEMMA FinishedSteps ==
  ASSUME NEW w, Len(w.freed) \in Nat
  PROVE  \E f : DoneSteps(w, f) /\ TreeOf(Finished(w), f[Len(w.freed)], w)
<1> DEFINE Next1(g, i) == FreePage(g, w.freed[i])
           Rec(g, n) == g = [i \in 0 .. n |-> IF i = 0 THEN w ELSE Next1(g[i - 1], i)]
<1> HIDE DEF Next1
<1>1. \A n \in Nat : \E g : Rec(g, n)
  <2> DEFINE Bad == {n \in Nat : ~ \E g : Rec(g, n)}
  <2> SUFFICES ASSUME Bad # {} PROVE FALSE
    OBVIOUS
  <2>0. Bad \subseteq Nat
    OBVIOUS
  <2>1. PICK m \in Nat : m \in Bad /\ \A n \in Bad : m <= n
    BY <2>0, LeastNatural
  <2>2. m # 0
    <3> DEFINE g == [i \in 0 .. 0 |-> w]
    <3>1. Rec(g, 0)
      OBVIOUS
    <3> QED BY <2>1, <3>1
  <2>3. m - 1 \in Nat /\ m - 1 \notin Bad
    <3> HIDE DEF Bad
    <3> QED BY <2>1, <2>2
  <2>4. PICK g : Rec(g, m - 1)
    BY <2>3
  <2> DEFINE h == [i \in 0 .. m |-> IF i < m THEN g[i] ELSE Next1(g[m - 1], m)]
  <2>5. Rec(h, m)
    <3>1. ASSUME NEW i \in 0 .. m
          PROVE  h[i] = IF i = 0 THEN w ELSE Next1(h[i - 1], i)
      BY <2>3, <2>4
    <3> QED BY <3>1, Zenon
  <2> QED BY <2>5, <2>1
<1> HIDE DEF Rec
<1> DEFINE f == CHOOSE g : Rec(g, Len(w.freed))
<1>2. Rec(f, Len(w.freed))
  BY <1>1, Zenon
<1>3. TreeOf(Finished(w), f[Len(w.freed)], w)
  BY Zenon DEF Finished, TreeOf, Rec, Next1
<1> HIDE DEF f
<1>4. DoneSteps(w, f)
  <2>1. f = [i \in 0 .. Len(w.freed) |-> IF i = 0 THEN w ELSE Next1(f[i - 1], i)]
    BY <1>2 DEF Rec
  <2> QED BY <2>1 DEF DoneSteps, Next1
<1> QED BY <1>3, <1>4

(* The tree t on the pages of L, with its keys between lo and hi of its    *)
(* root; Ended: it holds what w held.                                      *)
TreeOn(t, L, lo, hi) ==
  /\ t = [pages |-> t.pages, free |-> t.free, root |-> t.root]
  /\ t.root \in Nat /\ Sound(Work(t), L, {t.root}, lo, hi, {})
Ended(w, t, L, lo, hi) ==
  /\ TreeOn(t, L, lo, hi) /\ t.root = w.ids[1] /\ Same(w.pages, t.pages, L)
  /\ Held(t.pages, L) = Held(w.pages, L)

\* What is displaced is freed, and no page is lost.
LEMMA FinishedEnds ==
  ASSUME NEW w, NEW L, NEW lo, NEW hi, NEW D, NEW root \in Nat, w.ids[1] = root,
         Sound(w, L, {root}, lo, hi, D), IsInjective(w.freed), ToSet(w.freed) = D
  PROVE  Ended(w, Finished(w), L, lo, hi)
<1>1. w.freed \in Seq(Nat)
  BY DEF Sound, WorkType
<1>2. PICK N \in Nat : N = Len(w.freed) /\ DOMAIN w.freed = 1 .. N
  BY <1>1
<1>3. PICK f : DoneSteps(w, f) /\ TreeOf(Finished(w), f[N], w)
  BY <1>2, FinishedSteps
<1> DEFINE Left(i) == {w.freed[j] : j \in i + 1 .. N}
           Good(i) == /\ Sound(f[i], L, {root}, lo, hi, Left(i)) /\ Same(w.pages, f[i].pages, L)
                      /\ Held(f[i].pages, L) = Held(w.pages, L)
           Bad == {i \in 0 .. N : ~ Good(i)}
<1>4. Good(0)
  <2>1. f[0] = w
    BY <1>3 DEF DoneSteps
  <2>2. Left(0) = D
    BY <1>2 DEF ToSet
  <2>3. Same(w.pages, w.pages, L)
    BY DEF Same
  <2> QED BY <2>1, <2>2, <2>3
<1>5. ASSUME NEW i \in 1 .. N, Good(i - 1) PROVE Good(i)
  <2>1. PICK x : x = w.freed[i]
    OBVIOUS
  <2>2. f[i] = FreePage(f[i - 1], x)
    BY <2>1, <1>2, <1>3 DEF DoneSteps
  <2>3. x \in Left(i - 1) /\ Left(i - 1) \ {x} = Left(i)
    <3>1. i \in (i - 1) + 1 .. N /\ \A j \in i + 1 .. N : j \in (i - 1) + 1 .. N /\ j # i /\ j \in 1 .. N
      OBVIOUS
    <3>2. \A j \in (i - 1) + 1 .. N : j = i \/ j \in i + 1 .. N
      OBVIOUS
    <3>3. \A j \in i + 1 .. N : w.freed[j] # x
      BY <2>1, <3>1, <1>2 DEF IsInjective
    <3> QED BY <2>1, <3>1, <3>2, <3>3
  <2>4. PICK E : E = Left(i - 1)
    OBVIOUS
  <2>5. Sound(f[i - 1], L, {root}, lo, hi, E) /\ x \in E
    BY <2>3, <2>4, <1>5
  <2>6. FreedOne(f[i - 1], f[i], L, {root}, lo, hi, E, x)
    BY <2>2, <2>5, FreeOne
  <2>7. Sound(f[i], L, {root}, lo, hi, Left(i))
    BY <2>3, <2>4, <2>6 DEF FreedOne
  <2>8. Same(w.pages, f[i].pages, L) /\ Held(f[i].pages, L) = Held(w.pages, L)
    BY <2>6, <1>5 DEF FreedOne, Same
  <2> QED BY <2>7, <2>8
<1>a. Left(N) = {}
  OBVIOUS
<1> HIDE DEF Good, Left
<1>6. Bad = {}
  <2> SUFFICES ASSUME Bad # {} PROVE FALSE
    OBVIOUS
  <2>0. Bad \subseteq Nat
    OBVIOUS
  <2>1. PICK m \in 0 .. N : m \in Bad /\ \A n \in Bad : m <= n
    BY <2>0, LeastNatural
  <2>2. m # 0
    BY <2>1, <1>4
  <2>3. m - 1 \notin Bad /\ m \in 1 .. N /\ m - 1 \in 0 .. N
    <3>1. ~ (m <= m - 1) /\ m \in 1 .. N /\ m - 1 \in 0 .. N
      BY <2>1, <2>2
    <3> HIDE DEF Bad
    <3> QED BY <2>1, <3>1
  <2> QED BY <2>1, <2>3, <1>5
<1>7. Good(N)
  BY <1>6
<1>8. PICK end : end = f[N]
  OBVIOUS
<1>9. /\ Sound(end, L, {root}, lo, hi, {}) /\ Same(w.pages, end.pages, L)
      /\ Held(end.pages, L) = Held(w.pages, L)
  BY <1>7, <1>8, <1>a DEF Good
<1>10. PICK t : t = Finished(w)
  OBVIOUS
<1>11. t = [pages |-> end.pages, free |-> end.free, root |-> root]
  BY <1>3, <1>8, <1>10 DEF TreeOf
<1>12. t.pages = end.pages /\ t.free = end.free /\ t.root = root
  BY <1>11
<1>13. Work(t) = [pages |-> end.pages, free |-> end.free, ids |-> <<>>, keys |-> <<>>, freed |-> <<>>]
  BY <1>12 DEF Work
<1>14. Work(t) \in WorkType /\ Work(t).pages = end.pages /\ Work(t).free = end.free
  BY <1>9, <1>13 DEF Sound, WorkType
<1>15. Sound(Work(t), L, {t.root}, lo, hi, {})
  BY <1>9, <1>12, <1>14 DEF Sound
<1>16. TreeOn(t, L, lo, hi)
  BY <1>11, <1>12, <1>15 DEF TreeOn
<1> QED BY <1>9, <1>10, <1>12, <1>16 DEF Ended

-----------------------------------------------------------------------------
(* The start of an operation: the way to the key is taken out.             *)

\* Pages that are taken out of the trees are accounted for.
LEMMA MovedOut ==
  ASSUME NEW P, NEW free, NEW L, NEW D, Accounted(P, free, L, D), NEW S, S \subseteq L
  PROVE  Accounted(P, free, L \ S, D \union S)
BY DEF Accounted

(* The tree t, and the way at to key in it.                                *)
OnTheWay(t, L, lo, hi, key, h, at) ==
  /\ h \in Nat /\ h = t.pages[t.root].level /\ L \subseteq Nat
  /\ at = Path(t, t.root, key) /\ at[h] = t.root /\ t.root \in Nat
  /\ Forest(t.pages, L, {t.root}, lo, hi)
  /\ Descent(t.pages, L, lo, hi, t.root, key, h, at) /\ Beside(t.pages, L, at, h)

\* Path is the way to a key of the tree.
LEMMA WayIs ==
  ASSUME NEW t, NEW L, NEW lo, NEW hi, TreeOn(t, L, lo, hi), NEW key \in Nat,
         lo[t.root] <= key, key < hi[t.root]
  PROVE  OnTheWay(t, L, lo, hi, key, t.pages[t.root].level, Path(t, t.root, key))
<1>1. Sound(Work(t), L, {t.root}, lo, hi, {}) /\ t.root \in Nat
  BY DEF TreeOn
<1>2. Forest(t.pages, L, {t.root}, lo, hi)
  BY <1>1 DEF Sound, Work
<1>3. L \subseteq Nat /\ t.root \in L
  BY <1>1, SoundNat
<1>4. PICK h : h = t.pages[t.root].level
  OBVIOUS
<1>5. PICK at : at = Path(t, t.root, key)
  OBVIOUS
<1>6. Descent(t.pages, L, lo, hi, t.root, key, h, at)
  BY <1>2, <1>3, <1>4, <1>5, Descends
<1>7. Beside(t.pages, L, at, h) /\ h \in Nat /\ at[h] = t.root
  BY <1>2, <1>3, <1>6, BesideTheWay DEF Descent
<1> QED BY <1>1, <1>2, <1>3, <1>4, <1>5, <1>6, <1>7 DEF OnTheWay

TakenOut(t, L, lo, hi, h, at) ==
  /\ Sound(Work(t), L \ Way(at, 0, h), Above(t.pages, at, 0, h), lo, hi, Way(at, 0, h))
  /\ Held(t.pages, L) = Held(t.pages, L \ Way(at, 0, h)) \union ToSet(t.pages[at[0]].keys)
  /\ at[0] \in L /\ Way(at, 0, h) \subseteq L
  /\ LeafReady(t.pages[at[0]].keys, lo[at[0]], hi[at[0]])
  /\ Total(LeafSize, t.pages[at[0]].keys) <= Capacity
  /\ lo[at[0]] \in Nat /\ hi[at[0]] \in Nat /\ t.pages[at[0]].level = 0

\* Without the pages on the way, the rest is sound.
LEMMA WayTakenOut ==
  ASSUME NEW t, NEW L, NEW lo, NEW hi, TreeOn(t, L, lo, hi), NEW key, NEW h, NEW at,
         OnTheWay(t, L, lo, hi, key, h, at)
  PROVE  TakenOut(t, L, lo, hi, h, at)
<1>1. /\ h \in Nat /\ L \subseteq Nat /\ at[h] = t.root
      /\ Forest(t.pages, L, {t.root}, lo, hi) /\ Beside(t.pages, L, at, h)
  BY DEF OnTheWay
<1>2. 0 \in 0 .. h
  BY <1>1
<1>3. at[0] \in L /\ t.pages[at[0]].level = 0 /\ Way(at, 0, h) \subseteq L
  BY <1>1, <1>2 DEF Beside, Way
<1>4. /\ Ready(t.pages, L \ {t.root}, lo, hi, t.pages[at[0]], lo[at[0]], hi[at[0]])
      /\ lo[at[0]] \in Nat /\ hi[at[0]] \in Nat /\ Occupied(t.pages[at[0]]) <= Capacity
  BY <1>1, <1>3, PageFacts
<1>5. t.pages[at[0]] = Leaf(t.pages[at[0]].keys)
  BY <1>3, <1>4, LeafNode DEF Ready
<1>6. ToSet(t.pages[at[0]].kids) = {}
  BY <1>5, LeafFields
<1>7. Forest(t.pages, L \ Way(at, 0, h), Above(t.pages, at, 0, h), lo, hi)
  <2>1. Forest(t.pages, L \ Way(at, 0, h), Above(t.pages, at, 0, h) \union ToSet(t.pages[at[0]].kids), lo, hi)
    BY <1>1, <1>2, UprootWay
  <2> QED BY <2>1, <1>6
<1>8. Sound(Work(t), L, {t.root}, lo, hi, {}) /\ Work(t).pages = t.pages /\ Work(t).free = t.free
  BY DEF TreeOn, Work
<1>9. Accounted(t.pages, t.free, L \ Way(at, 0, h), Way(at, 0, h))
  <2>1. Accounted(t.pages, t.free, L \ Way(at, 0, h), {} \union Way(at, 0, h))
    BY <1>3, <1>8, MovedOut DEF Sound
  <2> QED BY <2>1
<1>10. Sound(Work(t), L \ Way(at, 0, h), Above(t.pages, at, 0, h), lo, hi, Way(at, 0, h))
  BY <1>7, <1>8, <1>9 DEF Sound
<1>11. Held(t.pages, L) = Held(t.pages, L \ Way(at, 0, h)) \union ToSet(t.pages[at[0]].keys)
  <2>1. ASSUME NEW id \in Way(at, 0, h), IsLeaf(t.pages[id]) PROVE id = at[0]
    <3>1. PICK l \in 0 .. h : id = at[l]
      BY DEF Way
    <3>2. t.pages[id].level = l
      BY <3>1, <1>1 DEF Beside
    <3> QED BY <2>1, <3>1, <3>2 DEF IsLeaf
  <2>2. IsLeaf(t.pages[at[0]]) /\ ToSet(t.pages[at[0]].keys) \subseteq Keys
    <3>1. t.pages[at[0]].keys \in Seq(Keys)
      BY <1>4 DEF Ready, Shaped
    <3> QED BY <3>1, <1>3 DEF IsLeaf, ToSet
  <2> QED BY <2>1, <2>2, <1>3 DEF Held
<1>12. LeafReady(t.pages[at[0]].keys, lo[at[0]], hi[at[0]])
  <2>1. PICK keys : keys = t.pages[at[0]].keys
    OBVIOUS
  <2>2. Ready(t.pages, L \ {t.root}, lo, hi, Leaf(keys), lo[at[0]], hi[at[0]])
    BY <2>1, <1>4, <1>5
  <2>3. LeafReady(keys, lo[at[0]], hi[at[0]])
    BY <2>2, <1>4, ReadyLeaf
  <2> QED BY <2>1, <2>3
<1>13. Total(LeafSize, t.pages[at[0]].keys) <= Capacity
  BY <1>3, <1>4 DEF Occupied, IsLeaf
<1> QED BY <1>3, <1>4, <1>10, <1>11, <1>12, <1>13 DEF TakenOut

-----------------------------------------------------------------------------
(* Insert.                                                                 *)

(* What has grown to level l.                                              *)
Grown(t, L, lo, hi, key, h, at, w, l) ==
  \E L2, lo2, hi2 :
    /\ Climb(t.pages, lo, hi, at, h, w, L2, lo2, hi2, Way(at, 0, h), l)
    /\ w.freed = <<>> /\ Held(w.pages, L2) = Held(t.pages, L) \union {key}

\* The leaf has the new key.
LEMMA LeafGrown ==
  ASSUME NEW t, NEW L, NEW lo, NEW hi, TreeOn(t, L, lo, hi), NEW key \in Keys, NEW h, NEW at,
         OnTheWay(t, L, lo, hi, key, h, at), key \notin ToSet(t.pages[at[0]].keys),
         NEW w, w = Replaced(Work(t), Leaf(WithKey(t.pages[at[0]].keys, key)))
  PROVE  Grown(t, L, lo, hi, key, h, at, w, 0)
<1>1. TakenOut(t, L, lo, hi, h, at)
  BY WayTakenOut
<1>0. PICK keys : keys = t.pages[at[0]].keys
  OBVIOUS
<1>2. PICK a \in Nat, b \in Nat : keys = t.pages[at[0]].keys /\ a = lo[at[0]] /\ b = hi[at[0]]
  BY <1>0, <1>1 DEF TakenOut
<1>3. LeafReady(keys, a, b) /\ Total(LeafSize, keys) <= Capacity
  BY <1>1, <1>2 DEF TakenOut
<1>4. a <= key /\ key < b
  <2>1. 0 \in 0 .. h
    BY DEF OnTheWay
  <2> QED BY <2>1, <1>2 DEF OnTheWay, Descent, OnPath
<1>5. PICK u : u = WithKey(keys, key)
  OBVIOUS
<1>6. LeafWith(keys, key, u, a, b)
  BY <1>2, <1>3, <1>4, <1>5, WithKeyIs
<1>7. PICK n : n = Leaf(u)
  OBVIOUS
<1>8. w = Replaced(Work(t), n)
  BY <1>2, <1>5, <1>7
<1>9. PICK L0, R, D : L0 = L \ Way(at, 0, h) /\ R = Above(t.pages, at, 0, h) /\ D = Way(at, 0, h)
  OBVIOUS
<1>10. Sound(Work(t), L0, R, lo, hi, D) /\ Work(t).pages = t.pages /\ Work(t).freed = <<>>
  BY <1>1, <1>9 DEF TakenOut, Work
<1>11. Ready(t.pages, R, lo, hi, n, a, b)
  BY <1>6, <1>7, ReadyLeaf DEF LeafWith
<1>12. SizeBound(n)
  <2>1. IsLeaf(n) /\ n.keys = u
    BY <1>7, LeafFields
  <2>2. Total(LeafSize, u) = Total(LeafSize, keys) + LeafSize[key]
    BY <1>6 DEF LeafWith
  <2>3. keys \in Seq(Keys) /\ LeafSize \in [Keys -> Nat] /\ Capacity \in Nat /\ LeafSize[key] <= Capacity
    BY <1>3, SizesAssumption DEF LeafReady
  <2>4. Total(LeafSize, keys) \in Nat
    BY <2>3, TotalNat
  <2>5. LeafSize[key] \in Nat
    BY <2>3
  <2>6. Total(LeafSize, u) <= 2 * Capacity
    BY <2>2, <2>3, <2>4, <2>5, <1>3
  <2> QED BY <2>1, <2>6 DEF SizeBound
<1>13. PICK lo2, hi2 : Rewritten(Work(t), w, L0, R, lo, hi, D, n, a, b, lo2, hi2)
  BY <1>8, <1>10, <1>11, <1>12, ReplacedRewritten
<1>14. n.level = 0 /\ ToSet(n.kids) = {} /\ HeldIn(n) = ToSet(keys) \union {key}
  BY <1>6, <1>7, LeafFields DEF LeafWith
<1> DEFINE L2 == L0 \union ToSet(w.ids)
<1>15. Sound(w, L2, R \union ToSet(w.ids), lo2, hi2, D)
  <2>1. Sound(w, L2, (R \ ToSet(n.kids)) \union ToSet(w.ids), lo2, hi2, D)
    BY <1>13 DEF Rewritten
  <2>2. R \ ToSet(n.kids) = R
    BY <1>14
  <2> QED BY <2>1, <2>2
<1>16. Carried(t.pages, w.pages, lo, hi, lo2, hi2, R)
  <2>1. R \subseteq L0
    BY <1>10 DEF Sound, Forest
  <2> QED BY <2>1, <1>10, <1>13 DEF Rewritten, Carried
<1>17. Way(at, 0 + 1, h) \subseteq D /\ Same(t.pages, w.pages, Way(at, 0 + 1, h))
  <2>1. Way(at, 0 + 1, h) \subseteq D
    BY <1>9, SMTT(60) DEF Way, OnTheWay
  <2> QED BY <2>1, <1>10, <1>13 DEF Rewritten, Same
<1>18. /\ Row(w.pages, ToSet(w.ids), lo2, hi2, 0 + 1, w.keys, w.ids, lo[at[0]], hi[at[0]])
       /\ Len(w.keys) <= 2 /\ w.freed = <<>>
       /\ Held(w.pages, L2) = Held(t.pages, L0) \union (ToSet(keys) \union {key})
  BY <1>2, <1>10, <1>13, <1>14 DEF Rewritten
<1>19. Climb(t.pages, lo, hi, at, h, w, L2, lo2, hi2, D, 0)
  BY <1>9, <1>15, <1>16, <1>17, <1>18 DEF Climb
<1>20. Held(t.pages, L) = Held(t.pages, L0) \union ToSet(keys)
  BY <1>1, <1>2, <1>9 DEF TakenOut
<1>21. Held(w.pages, L2) = Held(t.pages, L) \union {key}
  BY <1>18, <1>20
<1> QED BY <1>9, <1>18, <1>19, <1>21 DEF Grown

GrowSteps(t, key, h, at, f) ==
  /\ f[0] = Replaced(Work(t), Leaf(WithKey(t.pages[at[0]].keys, key)))
  /\ \A l \in 1 .. h : f[l] = Absorbed(f[l - 1], t.pages[at[l]], ChildIndex(t.pages[at[l]], key))

GrowEnd(t, h, at, w) == Finished(Displace(Rooted(w), [l \in 1 .. h + 1 |-> at[l - 1]]))

\* The recursive function in Inserted exists.
LEMMA InsertedSteps ==
  ASSUME NEW t, NEW key, NEW h \in Nat, h = t.pages[t.root].level, NEW at, at = Path(t, t.root, key)
  PROVE  \E f : GrowSteps(t, key, h, at, f) /\ Inserted(t, key) = GrowEnd(t, h, at, f[h])
<1> DEFINE up == [l \in 1 .. t.pages[t.root].level |-> t.pages[Path(t, t.root, key)[l]]]
           First == Replaced(Work(t), Leaf(WithKey(t.pages[Path(t, t.root, key)[0]].keys, key)))
           Next1(g, l) == Absorbed(g, up[l], ChildIndex(up[l], key))
           Rec(g, n) == g = [l \in 0 .. n |-> IF l = 0 THEN First ELSE Next1(g[l - 1], l)]
<1>0. Len(up) = h /\ Len(up) \in Nat
  OBVIOUS
<1>a. \A l \in 1 .. h : up[l] = t.pages[at[l]]
  OBVIOUS
<1> HIDE DEF Next1, First, up
<1>1. \A n \in Nat : \E g : Rec(g, n)
  <2> DEFINE Bad == {n \in Nat : ~ \E g : Rec(g, n)}
  <2> SUFFICES ASSUME Bad # {} PROVE FALSE
    OBVIOUS
  <2>0. Bad \subseteq Nat
    OBVIOUS
  <2>1. PICK m \in Nat : m \in Bad /\ \A n \in Bad : m <= n
    BY <2>0, LeastNatural
  <2>2. m # 0
    <3> DEFINE g == [i \in 0 .. 0 |-> First]
    <3>1. Rec(g, 0)
      OBVIOUS
    <3> QED BY <2>1, <3>1
  <2>3. m - 1 \in Nat /\ m - 1 \notin Bad
    <3> HIDE DEF Bad
    <3> QED BY <2>1, <2>2
  <2>4. PICK g : Rec(g, m - 1)
    BY <2>3
  <2> DEFINE e == [i \in 0 .. m |-> IF i < m THEN g[i] ELSE Next1(g[m - 1], m)]
  <2>5. Rec(e, m)
    <3>1. ASSUME NEW i \in 0 .. m
          PROVE  e[i] = IF i = 0 THEN First ELSE Next1(e[i - 1], i)
      BY <2>3, <2>4
    <3> QED BY <3>1, Zenon
  <2> QED BY <2>5, <2>1
<1> HIDE DEF Rec
<1> DEFINE f == CHOOSE g : Rec(g, Len(up))
<1>2. Rec(f, Len(up))
  BY <1>0, <1>1, Zenon
<1>3. Inserted(t, key) = Finished(Displace(Rooted(f[Len(up)]),
                           [l \in 1 .. Len(up) + 1 |-> Path(t, t.root, key)[l - 1]]))
  BY Zenon DEF Inserted, Rec, Next1, First, up
<1> HIDE DEF f
<1>4. Inserted(t, key) = GrowEnd(t, h, at, f[h])
  BY <1>0, <1>3, Zenon DEF GrowEnd
<1>5. GrowSteps(t, key, h, at, f)
  <2>1. f = [l \in 0 .. h |-> IF l = 0 THEN First ELSE Next1(f[l - 1], l)]
    BY <1>0, <1>2 DEF Rec
  <2>2. f[0] = First /\ \A l \in 1 .. h : f[l] = Next1(f[l - 1], l)
    BY <2>1
  <2>3. f[0] = Replaced(Work(t), Leaf(WithKey(t.pages[at[0]].keys, key)))
    BY <2>2 DEF First
  <2>4. ASSUME NEW l \in 1 .. h
        PROVE f[l] = Absorbed(f[l - 1], t.pages[at[l]], ChildIndex(t.pages[at[l]], key))
    BY <2>2, <1>a DEF Next1
  <2> QED BY <2>3, <2>4 DEF GrowSteps
<1> QED BY <1>4, <1>5

\* What has grown to the root.
LEMMA GrownToRoot ==
  ASSUME NEW t, NEW L, NEW lo, NEW hi, TreeOn(t, L, lo, hi), NEW key \in Keys, NEW h, NEW at,
         OnTheWay(t, L, lo, hi, key, h, at), key \notin ToSet(t.pages[at[0]].keys),
         NEW f, GrowSteps(t, key, h, at, f)
  PROVE  Grown(t, L, lo, hi, key, h, at, f[h], h)
<1> DEFINE Good(l) == Grown(t, L, lo, hi, key, h, at, f[l], l)
           Bad == {l \in 0 .. h : ~ Good(l)}
<1>0. /\ h \in Nat /\ Forest(t.pages, L, {t.root}, lo, hi) /\ L \subseteq Nat
      /\ Descent(t.pages, L, lo, hi, t.root, key, h, at) /\ Beside(t.pages, L, at, h)
  BY DEF OnTheWay
<1>1. Good(0)
  BY LeafGrown DEF GrowSteps
<1>2. ASSUME NEW l \in 1 .. h, Good(l - 1) PROVE Good(l)
  <2>1. PICK w, v : w = f[l - 1] /\ v = f[l]
    OBVIOUS
  <2>2. PICK L2, lo2, hi2 :
          /\ Climb(t.pages, lo, hi, at, h, w, L2, lo2, hi2, Way(at, 0, h), l - 1)
          /\ w.freed = <<>> /\ Held(w.pages, L2) = Held(t.pages, L) \union {key}
    BY <2>1, <1>2 DEF Grown
  <2>3. v = Absorbed(w, t.pages[at[l]], ChildIndex(t.pages[at[l]], key))
    BY <2>1 DEF GrowSteps
  <2>4. PICK P, D, r : P = t.pages /\ D = Way(at, 0, h) /\ r = t.root
    OBVIOUS
  <2>5. /\ h \in Nat /\ Forest(P, L, {r}, lo, hi) /\ L \subseteq Nat
        /\ Descent(P, L, lo, hi, r, key, h, at) /\ Beside(P, L, at, h)
        /\ Climb(P, lo, hi, at, h, w, L2, lo2, hi2, D, l - 1)
        /\ v = Absorbed(w, P[at[l]], ChildIndex(P[at[l]], key))
    BY <2>2, <2>3, <2>4, <1>0
  <2>6. \E L3, lo3, hi3 : Climbed(P, lo, hi, at, h, w, L2, v, L3, lo3, hi3, D, l)
    BY <2>5, AbsorbedClimbs
  <2> QED BY <2>1, <2>2, <2>4, <2>6 DEF Grown, Climbed
<1> HIDE DEF Good
<1>3. Bad = {}
  <2> SUFFICES ASSUME Bad # {} PROVE FALSE
    OBVIOUS
  <2>0. Bad \subseteq Nat
    OBVIOUS
  <2>1. PICK m \in 0 .. h : m \in Bad /\ \A n \in Bad : m <= n
    BY <2>0, LeastNatural
  <2>2. m # 0
    BY <2>1, <1>1
  <2>3. m - 1 \notin Bad /\ m \in 1 .. h /\ m - 1 \in 0 .. h
    <3>1. ~ (m <= m - 1) /\ m \in 1 .. h /\ m - 1 \in 0 .. h
      BY <2>1, <2>2, <1>0
    <3> HIDE DEF Bad
    <3> QED BY <2>1, <3>1
  <2> QED BY <2>1, <2>3, <1>2
<1>4. h \in 0 .. h
  BY <1>0
<1> QED BY <1>3, <1>4 DEF Good

(* v has the one root of w's tree, between a and b.                        *)
RootOf(w, v, L2, L3, lo3, hi3, D, a, b) ==
  /\ v.ids[1] \in Nat /\ Sound(v, L3, {v.ids[1]}, lo3, hi3, D)
  /\ lo3[v.ids[1]] = a /\ hi3[v.ids[1]] = b
  /\ v.freed = w.freed /\ Held(v.pages, L3) = Held(w.pages, L2)

\* build_new_root makes one root of what has climbed to the top.
LEMMA RootedRoot ==
  ASSUME NEW w, NEW L2, NEW lo2, NEW hi2, NEW D, NEW l \in Nat, NEW a \in Nat, NEW b \in Nat,
         Sound(w, L2, ToSet(w.ids), lo2, hi2, D), Len(w.keys) <= 2,
         Row(w.pages, ToSet(w.ids), lo2, hi2, l + 1, w.keys, w.ids, a, b)
  PROVE  \E L3, lo3, hi3 : RootOf(w, Rooted(w), L2, L3, lo3, hi3, D, a, b)
<1>1. w.keys \in Seq(Keys) /\ w.ids \in Seq(Nat) /\ Len(w.ids) = Len(w.keys) + 1
  BY DEF Row
<1>2. CASE Len(w.ids) = 1
  <2>1. Rooted(w) = w
    BY <1>2 DEF Rooted
  <2>2. PICK r \in Nat : r = w.ids[1] /\ w.ids = <<r>>
    BY <1>1, <1>2
  <2>3. ToSet(w.ids) = {r}
    BY <2>2 DEF ToSet
  <2>4. Len(w.keys) = 0
    BY <1>1, <1>2
  <2>5. Fits(w.pages, ToSet(w.ids), lo2, hi2, l + 1, w.ids[1], Fence(w.keys, a, b, 1 - 1), Fence(w.keys, a, b, 1))
    <3>1. 1 \in 1 .. Len(w.keys) + 1
      BY <2>4
    <3> QED BY <3>1 DEF Row
  <2>6. lo2[r] = a /\ hi2[r] = b
    BY <2>2, <2>4, <2>5 DEF Fits, Fence
  <2>7. RootOf(w, w, L2, L2, lo2, hi2, D, a, b)
    BY <2>2, <2>3, <2>6 DEF RootOf
  <2> QED BY <2>1, <2>7
<1>3. CASE Len(w.ids) # 1
  <2>1. w.pages[w.ids[1]].level + 1 = l + 1
    <3>1. 1 \in 1 .. Len(w.keys) + 1
      BY <1>1
    <3> QED BY <3>1 DEF Row, Fits
  <2>2. PICK n : n = Inner(l + 1, w.keys, w.ids)
    OBVIOUS
  <2>3. Rooted(w) = PutAll(w, <<n>>)
    BY <1>3, <2>1, <2>2 DEF Rooted
  <2>4. l + 1 \in Nat /\ l + 1 # 0
    OBVIOUS
  <2>5. Ready(w.pages, ToSet(w.ids), lo2, hi2, n, a, b)
    BY <2>2, <2>4, RowReady
  <2>6. n.keys = w.keys /\ n.kids = w.ids /\ ~ IsLeaf(n)
    BY <2>2, <2>4 DEF Inner, IsLeaf
  <2>7. Occupied(n) <= Capacity
    BY <2>6, <1>1, ShortFits DEF Occupied
  <2>8. PICK v : v = Rooted(w)
    OBVIOUS
  <2>9. PICK lo3, hi3 : /\ Rewritten(w, v, L2, ToSet(w.ids), lo2, hi2, D, n, a, b, lo3, hi3)
                        /\ Len(v.ids) = 1 /\ v.keys = <<>>
    BY <2>3, <2>5, <2>7, <2>8, OneRewritten
  <2>10. v.ids \in Seq(Nat)
    BY <2>9 DEF Rewritten, Row
  <2>11. PICK r \in Nat : r = v.ids[1] /\ v.ids = <<r>>
    <3>1. PICK s \in Seq(Nat) : s = v.ids /\ Len(s) = 1
      BY <2>9, <2>10
    <3>2. s[1] \in Nat /\ s = <<s[1]>>
      BY <3>1
    <3> QED BY <3>1, <3>2
  <2>12. ToSet(v.ids) = {r}
    BY <2>11 DEF ToSet
  <2>13. (ToSet(w.ids) \ ToSet(n.kids)) \union ToSet(v.ids) = {r}
    BY <2>6, <2>12
  <2>14. Sound(v, L2 \union {r}, {r}, lo3, hi3, D)
    BY <2>9, <2>12, <2>13 DEF Rewritten
  <2>15. Fits(v.pages, ToSet(v.ids), lo3, hi3, n.level + 1, v.ids[1], Fence(v.keys, a, b, 1 - 1), Fence(v.keys, a, b, 1))
    <3>1. 1 \in 1 .. Len(v.keys) + 1
      BY <2>9
    <3> QED BY <3>1, <2>9 DEF Rewritten, Row
  <2>16. lo3[r] = a /\ hi3[r] = b
    BY <2>9, <2>11, <2>15 DEF Fits, Fence
  <2>17. v.freed = w.freed /\ Held(v.pages, L2 \union {r}) = Held(w.pages, L2)
    <3>1. HeldIn(n) = {}
      BY <2>6 DEF HeldIn
    <3> QED BY <3>1, <2>9, <2>12 DEF Rewritten
  <2>18. RootOf(w, v, L2, L2 \union {r}, lo3, hi3, D, a, b)
    BY <2>11, <2>14, <2>16, <2>17 DEF RootOf
  <2> QED BY <2>8, <2>18
<1> QED BY <1>2, <1>3

(* w with other displaced pages.                                           *)
LEMMA DisplaceIs ==
  ASSUME NEW w \in WorkType, NEW ids \in Seq(Nat)
  PROVE  LET v == Displace(w, ids) IN
         /\ v \in WorkType /\ v.pages = w.pages /\ v.free = w.free /\ v.ids = w.ids
         /\ v.keys = w.keys /\ v.freed = w.freed \o ids
<1>1. PICK v : v = Displace(w, ids)
  OBVIOUS
<1>2. w.freed \in Seq(Nat)
  BY DEF WorkType
<1>3. PICK s \in Seq(Nat) : s = w.freed \o ids
  <2>1. w.freed \o ids \in Seq(Nat)
    BY <1>2
  <2> QED BY <2>1
<1>4. v = [w EXCEPT !.freed = s]
  BY <1>1, <1>3 DEF Displace
<1>5. v \in WorkType /\ v.pages = w.pages /\ v.free = w.free /\ v.ids = w.ids
      /\ v.keys = w.keys /\ v.freed = s
  BY <1>4 DEF WorkType
<1> QED BY <1>1, <1>3, <1>5

(* The way upwards, as a sequence.                                         *)
Upward(s, at, h) == s = [l \in 1 .. h + 1 |-> at[l - 1]]

\* The pages on the way, upwards, are different pages.
LEMMA WayUp ==
  ASSUME NEW P, NEW L, NEW h \in Nat, NEW at, Beside(P, L, at, h), L \subseteq Nat,
         NEW s, Upward(s, at, h)
  PROVE  s \in Seq(Nat) /\ IsInjective(s) /\ ToSet(s) = Way(at, 0, h)
<1>1. \A l \in 1 .. h + 1 : l - 1 \in 0 .. h /\ at[l - 1] \in Nat /\ P[at[l - 1]].level = l - 1
  <2>1. \A l \in 0 .. h : at[l] \in Nat /\ P[at[l]].level = l
    BY DEF Beside
  <2>2. \A l \in 1 .. h + 1 : l - 1 \in 0 .. h
    OBVIOUS
  <2> QED BY <2>1, <2>2
<1>2. s \in Seq(Nat) /\ DOMAIN s = 1 .. h + 1
  BY <1>1 DEF Upward
<1>3. IsInjective(s)
  <2>1. ASSUME NEW x \in 1 .. h + 1, NEW y \in 1 .. h + 1, s[x] = s[y] PROVE x = y
    <3>1. x - 1 = y - 1
      BY <2>1, <1>1 DEF Upward
    <3> QED BY <3>1
  <2> QED BY <2>1, <1>2 DEF IsInjective
<1>4. ToSet(s) = Way(at, 0, h)
  <2>1. \A l \in 0 .. h : l + 1 \in 1 .. h + 1 /\ (l + 1) - 1 = l
    OBVIOUS
  <2>2. \A l \in 0 .. h : s[l + 1] = at[l]
    BY <2>1 DEF Upward
  <2>3. \A l \in 1 .. h + 1 : s[l] = at[l - 1]
    BY DEF Upward
  <2>4. ASSUME NEW x \in ToSet(s) PROVE x \in Way(at, 0, h)
    <3>1. PICK l \in 1 .. h + 1 : x = s[l]
      BY <1>2 DEF ToSet
    <3> QED BY <3>1, <2>3, <1>1 DEF Way
  <2>5. ASSUME NEW x \in Way(at, 0, h) PROVE x \in ToSet(s)
    <3>1. PICK l \in 0 .. h : x = at[l]
      BY DEF Way
    <3>2. l + 1 \in DOMAIN s /\ s[l + 1] = x
      BY <3>1, <2>1, <2>2, <1>2
    <3> QED BY <3>2 DEF ToSet
  <2> QED BY <2>4, <2>5
<1> QED BY <1>2, <1>3, <1>4

(* u is t with the keys held changed to H.                                 *)
Changed(t, u, lo, hi, L2, lo2, hi2, H) ==
  /\ TreeOn(u, L2, lo2, hi2) /\ lo2[u.root] = lo[t.root] /\ hi2[u.root] = hi[t.root]
  /\ Held(u.pages, L2) = H

\* Insert adds its key, and the tree stays one.
LEMMA InsertedSound ==
  ASSUME NEW t, NEW L, NEW lo, NEW hi, TreeOn(t, L, lo, hi), NEW key \in Keys,
         lo[t.root] <= key, key < hi[t.root],
         key \notin ToSet(t.pages[LeafOf(t, t.root, key)].keys)
  PROVE  \E L2, lo2, hi2 :
           Changed(t, Inserted(t, key), lo, hi, L2, lo2, hi2, Held(t.pages, L) \union {key})
<1>1. PICK h, at : h = t.pages[t.root].level /\ at = Path(t, t.root, key)
  OBVIOUS
<1>2. OnTheWay(t, L, lo, hi, key, h, at)
  <2>1. key \in Nat
    BY SizesAssumption
  <2> QED BY <2>1, <1>1, WayIs
<1>3. /\ h \in Nat /\ L \subseteq Nat /\ at[h] = t.root /\ Beside(t.pages, L, at, h)
      /\ Forest(t.pages, L, {t.root}, lo, hi) /\ t.root \in Nat
  BY <1>2 DEF OnTheWay
<1>4. PICK f : GrowSteps(t, key, h, at, f) /\ Inserted(t, key) = GrowEnd(t, h, at, f[h])
  BY <1>1, <1>3, InsertedSteps
<1>5. key \notin ToSet(t.pages[at[0]].keys)
  BY <1>1 DEF LeafOf
<1>6. PICK w : w = f[h]
  OBVIOUS
<1>7. Grown(t, L, lo, hi, key, h, at, w, h)
  BY <1>2, <1>4, <1>5, <1>6, GrownToRoot
<1>8. PICK L2, lo2, hi2 : /\ Climb(t.pages, lo, hi, at, h, w, L2, lo2, hi2, Way(at, 0, h), h)
                          /\ w.freed = <<>> /\ Held(w.pages, L2) = Held(t.pages, L) \union {key}
  BY <1>7 DEF Grown
<1>9. PICK D : D = Way(at, 0, h)
  OBVIOUS
<1>10. PICK a \in Nat, b \in Nat : a = lo[t.root] /\ b = hi[t.root]
  BY <1>3 DEF Forest
<1>11. Above(t.pages, at, h, h) = {}
  BY <1>3, AboveSteps
<1>12. /\ Sound(w, L2, ToSet(w.ids), lo2, hi2, D) /\ Len(w.keys) <= 2
       /\ Row(w.pages, ToSet(w.ids), lo2, hi2, h + 1, w.keys, w.ids, a, b)
  <2>1. {} \union ToSet(w.ids) = ToSet(w.ids)
    OBVIOUS
  <2> QED BY <2>1, <1>3, <1>8, <1>9, <1>10, <1>11 DEF Climb
<1>13. PICK v : v = Rooted(w)
  OBVIOUS
<1>14. PICK L3, lo3, hi3 : RootOf(w, v, L2, L3, lo3, hi3, D, a, b)
  BY <1>3, <1>12, <1>13, RootedRoot
<1>15. PICK r \in Nat : r = v.ids[1]
  BY <1>14 DEF RootOf
<1>16. PICK s : s = [l \in 1 .. h + 1 |-> at[l - 1]]
  OBVIOUS
<1>17. s \in Seq(Nat) /\ IsInjective(s) /\ ToSet(s) = D
  <2>1. PICK P : P = t.pages
    OBVIOUS
  <2>2. Beside(P, L, at, h) /\ Upward(s, at, h)
    BY <2>1, <1>3, <1>16 DEF Upward
  <2> QED BY <2>2, <1>3, <1>9, <1>16, WayUp, ZenonT(60)
<1>18. v \in WorkType /\ v.freed = <<>>
  BY <1>8, <1>14 DEF RootOf, Sound
<1>19. PICK z : z = Displace(v, s)
  OBVIOUS
<1>20. /\ z \in WorkType /\ z.pages = v.pages /\ z.free = v.free /\ z.ids = v.ids /\ z.freed = s
  <2>1. <<>> \o s = s
    BY <1>17
  <2> QED BY <2>1, <1>17, <1>18, <1>19, DisplaceIs
<1>21. Sound(z, L3, {r}, lo3, hi3, D)
  BY <1>14, <1>15, <1>20 DEF RootOf, Sound
<1>22. Ended(z, Finished(z), L3, lo3, hi3)
  BY <1>15, <1>17, <1>20, <1>21, FinishedEnds
<1>23. PICK u : u = Finished(z)
  OBVIOUS
<1>24. u = Inserted(t, key)
  BY <1>4, <1>6, <1>13, <1>16, <1>19, <1>23 DEF GrowEnd
<1>25. /\ TreeOn(u, L3, lo3, hi3) /\ u.root = r
       /\ Held(u.pages, L3) = Held(t.pages, L) \union {key}
  BY <1>8, <1>14, <1>15, <1>20, <1>22, <1>23 DEF Ended, RootOf
<1>26. lo3[u.root] = lo[t.root] /\ hi3[u.root] = hi[t.root]
  BY <1>10, <1>14, <1>15, <1>25 DEF RootOf
<1> QED BY <1>24, <1>25, <1>26 DEF Changed
=============================================================================
