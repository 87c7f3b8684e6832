------------------------ MODULE BTree_proofs ------------------------
(***************************************************************************)
(* Delete keeps a tree a tree, and what this says of every state: BTree's  *)
(* types, its pages accounted for, every node on a page it fits, look-ups  *)
(* that implement KeyMap, and range scans that agree with them while no    *)
(* leaf but the root is empty.                                             *)
(***************************************************************************)
EXTENDS BTreeInsert_proofs, FiniteSetTheorems

-----------------------------------------------------------------------------
(* Delete: sequences with one element fewer.                               *)

\* RemoveAt, element by element.
LEMMA RemoveAtIs ==
  ASSUME NEW S, NEW s \in Seq(S), NEW i \in 1 .. Len(s)
  PROVE  /\ RemoveAt(s, i) \in Seq(S) /\ Len(RemoveAt(s, i)) = Len(s) - 1
         /\ \A x \in 1 .. i - 1 : RemoveAt(s, i)[x] = s[x]
         /\ \A x \in i .. Len(s) - 1 : RemoveAt(s, i)[x] = s[x + 1]
<1>1. PICK N \in Nat : N = Len(s)
  OBVIOUS
<1>2. PICK p, q : p = SubSeq(s, 1, i - 1) /\ q = SubSeq(s, i + 1, Len(s))
  OBVIOUS
<1>3. p \in Seq(S) /\ Len(p) = i - 1 /\ \A x \in 1 .. i - 1 : p[x] = s[x]
  <2>1. PICK j \in Nat : j = i - 1 /\ j <= Len(s) /\ 1 <= j + 1 /\ j - 1 + 1 = j
    OBVIOUS
  <2>2. /\ SubSeq(s, 1, j) \in Seq(S) /\ Len(SubSeq(s, 1, j)) = j - 1 + 1
        /\ \A x \in 1 .. j - 1 + 1 : SubSeq(s, 1, j)[x] = s[1 + x - 1]
    BY <2>1, SubSeqIs
  <2>3. \A x \in 1 .. j : 1 + x - 1 = x
    BY <2>1
  <2> QED BY <2>1, <2>2, <2>3, <1>2
<1>4. q \in Seq(S) /\ Len(q) = N - i /\ \A x \in 1 .. N - i : q[x] = s[i + x]
  <2>1. PICK j \in Nat : j = i + 1 /\ j >= 1 /\ j <= N + 1 /\ N - j + 1 = N - i
    BY <1>1
  <2>2. /\ SubSeq(s, j, N) \in Seq(S) /\ Len(SubSeq(s, j, N)) = N - j + 1
        /\ \A x \in 1 .. N - j + 1 : SubSeq(s, j, N)[x] = s[j + x - 1]
    <3>1. j \in Nat /\ N \in Nat /\ j >= 1 /\ N <= Len(s) /\ j <= N + 1
      BY <2>1, <1>1
    <3> QED BY <3>1, SubSeqIs
  <2>3. \A x \in 1 .. N - i : j + x - 1 = i + x
    BY <2>1, <1>1
  <2> QED BY <2>1, <2>2, <2>3, <1>1, <1>2
<1>5. p \o q \in Seq(S) /\ Joined(p \o q, p, q)
  BY <1>3, <1>4, ConcatIs
<1>6. PICK r \in Seq(S) : r = p \o q
  BY <1>5
<1>7. /\ Len(r) = (i - 1) + (N - i) /\ \A x \in 1 .. i - 1 : r[x] = s[x]
      /\ \A x \in 1 .. N - i : r[(i - 1) + x] = s[i + x]
  BY <1>3, <1>4, <1>5, <1>6 DEF Joined
<1>8. ASSUME NEW x \in i .. N - 1 PROVE r[x] = s[x + 1]
  <2>1. PICK y \in 1 .. N - i : y = x - i + 1
    BY <1>1
  <2>2. (i - 1) + y = x /\ i + y = x + 1
    BY <2>1
  <2> QED BY <2>2, <1>7
<1>9. (i - 1) + (N - i) = N - 1
  BY <1>1
<1>10. r = RemoveAt(s, i)
  BY <1>2, <1>6 DEF RemoveAt
<1> QED BY <1>1, <1>7, <1>8, <1>9, <1>10

\* The bytes of what is left.
LEMMA RemovedTotal ==
  ASSUME NEW sizes \in [Keys -> Nat], NEW s \in Seq(Keys), NEW i \in 1 .. Len(s)
  PROVE  Total(sizes, RemoveAt(s, i)) \in Nat /\ Total(sizes, RemoveAt(s, i)) <= Total(sizes, s)
<1>1. PICK N \in Nat : N = Len(s) /\ i \in Nat /\ 1 <= i /\ i <= N
  OBVIOUS
<1>2. PICK p, q, r, m : /\ p = SubSeq(s, 1, i - 1) /\ q = SubSeq(s, i + 1, N)
                        /\ r = SubSeq(s, i, N) /\ m = SubSeq(s, i, i)
  OBVIOUS
<1>3. PICK j \in Nat, k \in Nat : j = i - 1 /\ k = i + 1 /\ 1 <= j + 1 /\ j <= N /\ j + 1 = i /\ i + 1 = k
                                  /\ k <= N + 1
  BY <1>1
<1>4. SubSeq(s, 1, j) \in Seq(Keys)
  BY <1>1, <1>3, SubSeqIs
<1>5. SubSeq(s, k, N) \in Seq(Keys)
  BY <1>1, <1>3, SubSeqIs
<1>6. SubSeq(s, i, N) \in Seq(Keys)
  BY <1>1, <1>3, SubSeqIs
<1>7. SubSeq(s, i, i) \in Seq(Keys)
  BY <1>1, <1>3, SubSeqIs
<1>8. Joined(SubSeq(s, 1, N), SubSeq(s, 1, j), SubSeq(s, j + 1, N))
  BY <1>1, <1>3, SubSeqJoined
<1>9. Joined(SubSeq(s, i, N), SubSeq(s, i, i), SubSeq(s, i + 1, N))
  BY <1>1, <1>3, SubSeqJoined
<1>10. Joined(s, p, r) /\ Joined(r, m, q)
  BY <1>1, <1>2, <1>3, <1>8, <1>9, WholeSubSeq
<1>11. p \in Seq(Keys) /\ q \in Seq(Keys) /\ r \in Seq(Keys) /\ m \in Seq(Keys)
  BY <1>2, <1>3, <1>4, <1>5, <1>6, <1>7
<1>12. Total(sizes, s) = Total(sizes, p) + Total(sizes, r) /\ Total(sizes, r) = Total(sizes, m) + Total(sizes, q)
  <2>1. Total(sizes, s) = Total(sizes, p) + Total(sizes, r)
    <3>1. p \in Seq(Keys) /\ r \in Seq(Keys) /\ Joined(s, p, r)
      BY <1>10, <1>11
    <3> QED BY <3>1, TotalOfParts, ZenonT(60)
  <2>2. Total(sizes, r) = Total(sizes, m) + Total(sizes, q)
    <3>1. r \in Seq(Keys) /\ m \in Seq(Keys) /\ q \in Seq(Keys) /\ Joined(r, m, q)
      BY <1>10, <1>11
    <3> QED BY <3>1, TotalOfParts, ZenonT(60)
  <2> QED BY <2>1, <2>2
<1>13. Total(sizes, p) \in Nat /\ Total(sizes, q) \in Nat /\ Total(sizes, m) \in Nat
  BY <1>11, TotalNat
<1>14. Total(sizes, p \o q) = Total(sizes, p) + Total(sizes, q)
  BY <1>11, TotalConcat
<1>15. RemoveAt(s, i) = p \o q
  BY <1>1, <1>2 DEF RemoveAt
<1>16. Total(sizes, p \o q) \in Nat /\ Total(sizes, p \o q) <= Total(sizes, s)
  BY <1>12, <1>13, <1>14
<1> QED BY <1>15, <1>16, Zenon

\* One pivot and one child fewer, the child before replaced; and two children replaced.
LEMMA RemovedPivot ==
  ASSUME NEW S, NEW s \in Seq(S), NEW i \in 1 .. Len(s)
  PROVE  IsSplice(RemoveAt(s, i), s, i, <<>>, i + 1)
<1>1. PICK N \in Nat : N = Len(s)
  OBVIOUS
<1>2. PICK r : r = RemoveAt(s, i)
  OBVIOUS
<1>3. /\ Len(r) = N - 1
      /\ \A x \in 1 .. i - 1 : r[x] = s[x]
      /\ \A x \in i .. N - 1 : r[x] = s[x + 1]
  BY <1>1, <1>2, RemoveAtIs
<1>4. Len(<<>>) = 0
  OBVIOUS
<1>5. ASSUME NEW x \in i + 1 .. N PROVE r[i - 1 + 0 + (x - (i + 1) + 1)] = s[x]
  <2>1. x - 1 \in i .. N - 1 /\ (x - 1) + 1 = x /\ i - 1 + 0 + (x - (i + 1) + 1) = x - 1
    BY <1>1
  <2> QED BY <2>1, <1>3
<1>6. N - 1 = (i - 1) + 0 + (N - (i + 1) + 1)
  BY <1>1
<1>7. \A x \in 1 .. 0 : r[i - 1 + x] = <<>>[x]
  OBVIOUS
<1> QED BY <1>1, <1>2, <1>3, <1>4, <1>5, <1>6, <1>7 DEF IsSplice

\* One child in place of two, as Merge writes it.
LEMMA RemovedChild ==
  ASSUME NEW S, NEW s \in Seq(S), NEW i \in 1 .. Len(s) - 1, NEW id \in S,
         NEW v, v = RemoveAt([s EXCEPT ![i] = id], i + 1)
  PROVE  v \in Seq(S) /\ IsSplice(v, s, i, <<id>>, i + 2)
<1>1. PICK N \in Nat : N = Len(s)
  OBVIOUS
<1>2. PICK j : j = i + 1
  OBVIOUS
<1>3. j \in 1 .. N /\ i \in 1 .. N
  BY <1>1, <1>2
<1>0. PICK e : e = [s EXCEPT ![i] = id]
  OBVIOUS
<1>4. e \in Seq(S) /\ Len(e) = N /\ e[i] = id /\ \A x \in 1 .. N : x # i => e[x] = s[x]
  BY <1>0, <1>1, <1>3
<1>5. /\ v \in Seq(S) /\ Len(v) = N - 1
      /\ \A x \in 1 .. j - 1 : v[x] = e[x]
      /\ \A x \in j .. N - 1 : v[x] = e[x + 1]
  <2>1. v = RemoveAt(e, j) /\ e \in Seq(S) /\ j \in 1 .. Len(e) /\ Len(e) = N
    BY <1>0, <1>2, <1>3, <1>4
  <2> QED BY <2>1, RemoveAtIs
<1>6. Len(<<id>>) = 1 /\ <<id>>[1] = id
  OBVIOUS
<1>7. \A x \in 1 .. i - 1 : v[x] = s[x]
  <2>1. \A x \in 1 .. i - 1 : x \in 1 .. j - 1 /\ x \in 1 .. N /\ x # i
    BY <1>1, <1>2, <1>3
  <2> QED BY <2>1, <1>4, <1>5
<1>8. \A x \in 1 .. 1 : v[i - 1 + x] = <<id>>[x]
  <2>1. i \in 1 .. j - 1 /\ i - 1 + 1 = i
    BY <1>2
  <2>2. v[i - 1 + 1] = id
    BY <2>1, <1>4, <1>5
  <2> QED BY <2>2, <1>6
<1>9. ASSUME NEW x \in i + 2 .. N PROVE v[i - 1 + 1 + (x - (i + 2) + 1)] = s[x]
  <2>1. x - 1 \in j .. N - 1 /\ (x - 1) + 1 = x /\ x \in 1 .. N /\ x # i
        /\ i - 1 + 1 + (x - (i + 2) + 1) = x - 1
    BY <1>1, <1>2
  <2> QED BY <2>1, <1>4, <1>5
<1>10. N - 1 = (i - 1) + 1 + (N - (i + 2) + 1)
  BY <1>1
<1> QED BY <1>1, <1>5, <1>6, <1>7, <1>8, <1>9, <1>10 DEF IsSplice

\* Two children replaced, as Borrow writes them.
LEMMA TwoReplaced ==
  ASSUME NEW S, NEW s \in Seq(S), NEW i \in 1 .. Len(s) - 1, NEW x \in S, NEW y \in S,
         NEW t, t = <<x, y>>, NEW v, v = [[s EXCEPT ![i] = x] EXCEPT ![i + 1] = y]
  PROVE  v \in Seq(S) /\ IsSplice(v, s, i, t, i + 2)
<1>1. PICK N \in Nat : N = Len(s)
  OBVIOUS
<1>2. i \in 1 .. N /\ i + 1 \in 1 .. N /\ i + 1 # i
  BY <1>1
<1>3. v \in Seq(S) /\ Len(v) = N /\ v[i] = x /\ v[i + 1] = y
      /\ \A z \in 1 .. N : z # i /\ z # i + 1 => v[z] = s[z]
  BY <1>1, <1>2
<1>4. Len(t) = 2 /\ t[1] = x /\ t[2] = y
  OBVIOUS
<1>5. \A z \in 1 .. i - 1 : v[z] = s[z]
  BY <1>2, <1>3
<1>6. \A z \in 1 .. 2 : v[i - 1 + z] = t[z]
  <2>1. \A z \in 1 .. 2 : z = 1 \/ z = 2
    OBVIOUS
  <2>2. i - 1 + 1 = i /\ i - 1 + 2 = i + 1
    BY <1>2
  <2> QED BY <2>1, <2>2, <1>3, <1>4
<1>7. ASSUME NEW z \in i + 2 .. N PROVE v[i - 1 + 2 + (z - (i + 2) + 1)] = s[z]
  <2>1. i - 1 + 2 + (z - (i + 2) + 1) = z /\ z \in 1 .. N /\ z # i /\ z # i + 1
    BY <1>2
  <2> QED BY <2>1, <1>3
<1>8. N = (i - 1) + 2 + (N - (i + 2) + 1)
  BY <1>2
<1> QED BY <1>1, <1>3, <1>4, <1>5, <1>6, <1>7, <1>8 DEF IsSplice

\* One child replaced, as Processed writes it.
LEMMA OneReplaced ==
  ASSUME NEW S, NEW s \in Seq(S), NEW i \in 1 .. Len(s), NEW x \in S, NEW t, t = <<x>>,
         NEW v, v = [s EXCEPT ![i] = x]
  PROVE  v \in Seq(S) /\ IsSplice(v, s, i, t, i + 1)
<1>1. PICK N \in Nat : N = Len(s) /\ i \in 1 .. N
  OBVIOUS
<1>2. v \in Seq(S) /\ Len(v) = N /\ v[i] = x /\ \A z \in 1 .. N : z # i => v[z] = s[z]
  BY <1>1
<1>3. Len(t) = 1 /\ t[1] = x
  OBVIOUS
<1>4. \A z \in 1 .. i - 1 : v[z] = s[z]
  BY <1>1, <1>2
<1>5. \A z \in 1 .. 1 : v[i - 1 + z] = t[z]
  <2>1. i - 1 + 1 = i
    BY <1>1
  <2> QED BY <2>1, <1>2, <1>3
<1>6. ASSUME NEW z \in i + 1 .. N PROVE v[i - 1 + 1 + (z - (i + 1) + 1)] = s[z]
  <2>1. i - 1 + 1 + (z - (i + 1) + 1) = z /\ z \in 1 .. N /\ z # i
    BY <1>1
  <2> QED BY <2>1, <1>2
<1>7. N = (i - 1) + 1 + (N - (i + 1) + 1)
  BY <1>1
<1> QED BY <1>1, <1>2, <1>3, <1>4, <1>5, <1>6, <1>7 DEF IsSplice

-----------------------------------------------------------------------------
(* A node in hand, to be written over roots of the forest; A are the others. *)
Hand(w, L, A, lo, hi, D, node, a, b) ==
  /\ Sound(w, L, A \union ToSet(node.kids), lo, hi, D) /\ A \cap ToSet(node.kids) = {}
  /\ node \in Node /\ node.level # 0 /\ Occupied(node) <= Capacity
  /\ Row(w.pages, A \union ToSet(node.kids), lo, hi, node.level, node.keys, node.kids, a, b)
  /\ a \in Nat /\ b \in Nat

(* Its i-th and (i+1)-th child x and y, taken out: their children C are    *)
(* roots, as are B, those that were roots beside the pair.                 *)
Pulled(w, L, B, C, lo, hi, D, node, i, x, y, fa, k, fb, a, b) ==
  /\ Sound(w, L \ {x, y}, B \union C, lo, hi, D \union {x, y})
  /\ B \cap C = {} /\ x \in L /\ y \in L /\ x # y
  /\ C = ToSet(w.pages[x].kids) \union ToSet(w.pages[y].kids)
  /\ Held(w.pages, L) = Held(w.pages, L \ {x, y}) \union (HeldIn(w.pages[x]) \union HeldIn(w.pages[y]))
  /\ Ready(w.pages, B \union C, lo, hi, w.pages[x], fa, k)
  /\ Ready(w.pages, B \union C, lo, hi, w.pages[y], k, fb)
  /\ Occupied(w.pages[x]) <= Capacity /\ Occupied(w.pages[y]) <= Capacity
  /\ w.pages[x].level + 1 = node.level /\ w.pages[y].level + 1 = node.level
  /\ fa \in Nat /\ k \in Keys /\ k \in Nat /\ fb \in Nat
  /\ Outside(w.pages, B, lo, hi, node.level, node.keys, node.kids, a, b, i, i + 1)

\* The pair of children taken out of the forest leaves their own children as roots.
LEMMA PairPulled ==
  ASSUME NEW w, NEW L, NEW A, NEW lo, NEW hi, NEW D, NEW node, NEW a, NEW b,
         Hand(w, L, A, lo, hi, D, node, a, b), NEW i \in 1 .. Len(node.keys),
         NEW x, x = node.kids[i], NEW y, y = node.kids[i + 1],
         NEW B, B = A \union (Before(node.kids, i) \union From(node.kids, i + 2)),
         NEW C, C = ToSet(w.pages[x].kids) \union ToSet(w.pages[y].kids)
  PROVE  Pulled(w, L, B, C, lo, hi, D, node, i, x, y,
                Fence(node.keys, a, b, i - 1), node.keys[i], Fence(node.keys, a, b, i + 1), a, b)
<1>1. PICK P, R : P = w.pages /\ R = A \union ToSet(node.kids)
  OBVIOUS
<1>2. /\ Sound(w, L, R, lo, hi, D) /\ Forest(P, L, R, lo, hi) /\ Accounted(P, w.free, L, D)
      /\ a \in Nat /\ b \in Nat /\ node.level \in Nat /\ node.level # 0
      /\ Row(P, R, lo, hi, node.level, node.keys, node.kids, a, b)
  BY <1>1 DEF Hand, Sound, Node
<1>3. PICK ks \in Seq(Keys), cs \in Seq(Nat) : ks = node.keys /\ cs = node.kids /\ Len(cs) = Len(ks) + 1
  BY <1>2 DEF Row
<1>0. PICK N \in Nat : N = Len(ks)
  OBVIOUS
<1>4. N = Len(ks) /\ i \in 1 .. N /\ i \in 1 .. N + 1 /\ i + 1 \in 1 .. N + 1
  <2>1. i \in 1 .. N
    BY <1>0, <1>3
  <2> QED BY <2>1, <1>0
<1>5. PICK fa, k, fb : fa = Fence(ks, a, b, i - 1) /\ k = ks[i] /\ fb = Fence(ks, a, b, i + 1)
  OBVIOUS
<1>6. k = Fence(ks, a, b, i) /\ k \in Keys /\ k \in Nat
  <2>1. i # 0 /\ i # Len(ks) + 1 /\ ks[i] \in Keys
    <3>1. i # 0 /\ i # Len(ks) + 1
      BY <1>4
    <3>2. i \in 1 .. Len(ks)
      BY <1>4
    <3> QED BY <3>1, <3>2, <1>3
  <2> QED BY <2>1, <1>5, SizesAssumption DEF Fence
<1>7. fa \in Nat /\ fb \in Nat
  <2>1. \A z \in 0 .. N + 1 : Fence(ks, a, b, z) \in Nat
    BY <1>2, <1>3, <1>4, FencesRise
  <2>2. i - 1 \in 0 .. N + 1 /\ i + 1 \in 0 .. N + 1
    BY <1>4
  <2> QED BY <2>1, <2>2, <1>5
<1>8. \A z \in 1 .. N + 1 : Fits(P, R, lo, hi, node.level, cs[z], Fence(ks, a, b, z - 1), Fence(ks, a, b, z))
  BY <1>2, <1>3, <1>4 DEF Row
<1>9. /\ x \in R /\ P[x].level + 1 = node.level /\ lo[x] = fa /\ hi[x] = k
      /\ y \in R /\ P[y].level + 1 = node.level /\ lo[y] = k /\ hi[y] = fb
  <2>1. Fits(P, R, lo, hi, node.level, x, fa, k)
    BY <1>3, <1>4, <1>5, <1>6, <1>8
  <2>2. (i + 1) - 1 = i
    BY <1>4
  <2>3. Fits(P, R, lo, hi, node.level, y, k, fb)
    BY <2>2, <1>3, <1>4, <1>5, <1>6, <1>8
  <2> QED BY <2>1, <2>3 DEF Fits
<1>10. /\ IsInjective(cs) /\ \A z \in 1 .. N + 1, u \in 1 .. N + 1 : cs[z] = cs[u] => z = u
  <2>1. Ready(P, R, lo, hi, Inner(node.level, ks, cs), a, b)
    BY <1>2, <1>3, RowReady
  <2>2. Inner(node.level, ks, cs).kids = cs
    BY DEF Inner
  <2>3. IsInjective(cs)
    BY <2>1, <2>2, <1>2, KidsDiffer
  <2>4. DOMAIN cs = 1 .. N + 1
    BY <1>3, <1>4
  <2> QED BY <2>3, <2>4 DEF IsInjective
<1>11. x = cs[i] /\ y = cs[i + 1] /\ x # y
  BY <1>3, <1>4, <1>10
<1>12. L \subseteq Nat /\ R \subseteq L /\ x \in L /\ y \in L
  BY <1>2, <1>9, SoundNat
<1>13. /\ Ready(P, L \ R, lo, hi, P[x], fa, k) /\ Ready(P, L \ R, lo, hi, P[y], k, fb)
       /\ Occupied(P[x]) <= Capacity /\ Occupied(P[y]) <= Capacity
  <2>1. Ready(P, L \ R, lo, hi, P[x], lo[x], hi[x]) /\ Occupied(P[x]) <= Capacity
    BY <1>2, <1>12, PageFacts
  <2>2. Ready(P, L \ R, lo, hi, P[y], lo[y], hi[y]) /\ Occupied(P[y]) <= Capacity
    BY <1>2, <1>12, PageFacts
  <2> QED BY <2>1, <2>2, <1>9
<1>14. ToSet(P[x].kids) \subseteq L \ R /\ ToSet(P[y].kids) \subseteq L \ R
  BY <1>13 DEF Ready, Bears, ToSet
<1>15. R = B \union {x, y} /\ x \notin B /\ y \notin B
  <2>1. A \cap ToSet(cs) = {}
    BY <1>3 DEF Hand
  <2>2. DOMAIN cs = 1 .. N + 1 /\ Len(cs) = N + 1
    BY <1>3, <1>4
  <2>3. ASSUME NEW z \in ToSet(cs) PROVE z \in Before(cs, i) \union From(cs, i + 2) \union {x, y}
    <3>1. PICK j \in 1 .. N + 1 : z = cs[j]
      BY <2>2 DEF ToSet
    <3>2. j \in 1 .. i - 1 \/ j = i \/ j = i + 1 \/ j \in i + 2 .. Len(cs)
      <4>1. N \in Nat /\ i \in 1 .. N /\ j \in 1 .. N + 1 /\ Len(cs) = N + 1
        BY <2>2, <1>4, <3>1
      <4> QED BY <4>1, SMTT(60)
    <3> QED BY <3>1, <3>2, <1>11 DEF Before, From
  <2>4. ASSUME NEW z \in Before(cs, i) \union From(cs, i + 2) PROVE z \in ToSet(cs) /\ z # x /\ z # y
    <3>1. PICK j \in 1 .. N + 1 : z = cs[j] /\ j # i /\ j # i + 1
      <4>1. CASE z \in Before(cs, i)
        <5>1. PICK j \in 1 .. i - 1 : z = cs[j]
          BY <4>1 DEF Before
        <5>2. j \in 1 .. N + 1 /\ j # i /\ j # i + 1
          BY <1>4
        <5> QED BY <5>1, <5>2
      <4>2. CASE z \in From(cs, i + 2)
        <5>1. PICK j \in i + 2 .. Len(cs) : z = cs[j]
          BY <4>2 DEF From
        <5>2. j \in 1 .. N + 1 /\ j # i /\ j # i + 1
          BY <2>2, <1>4
        <5> QED BY <5>1, <5>2
      <4> QED BY <4>1, <4>2
    <3> QED BY <3>1, <2>2, <1>4, <1>10, <1>11 DEF ToSet
  <2>5. x \in ToSet(cs) /\ y \in ToSet(cs)
    BY <2>2, <1>4, <1>11 DEF ToSet
  <2>6. R = A \union ToSet(cs) /\ B = A \union (Before(cs, i) \union From(cs, i + 2))
    BY <1>1, <1>3
  <2> QED BY <2>1, <2>3, <2>4, <2>5, <2>6
<1>16. Forest(P, L \ {x, y}, B \union C, lo, hi)
  <2>1. Forest(P, L \ {x}, (R \ {x}) \union ToSet(P[x].kids), lo, hi)
    BY <1>2, <1>9, Uproot
  <2>2. PICK L1, R1 : L1 = L \ {x} /\ R1 = (R \ {x}) \union ToSet(P[x].kids)
    OBVIOUS
  <2>3. y \in R1
    BY <2>2, <1>9, <1>11
  <2>4. Forest(P, L1 \ {y}, (R1 \ {y}) \union ToSet(P[y].kids), lo, hi)
    BY <2>1, <2>2, <2>3, Uproot
  <2>5. L1 \ {y} = L \ {x, y}
    BY <2>2
  <2>6. (R1 \ {y}) \union ToSet(P[y].kids) = B \union C
    <3>1. y \notin ToSet(P[x].kids)
      BY <1>9, <1>14
    <3>2. C = ToSet(P[x].kids) \union ToSet(P[y].kids)
      BY <1>1
    <3> QED BY <3>1, <3>2, <2>2, <1>15
  <2> QED BY <2>4, <2>5, <2>6
<1>17. Sound(w, L \ {x, y}, B \union C, lo, hi, D \union {x, y})
  <2>1. Accounted(P, w.free, L \ {x, y}, D \union {x, y})
    BY <1>2, <1>12, MovedOut
  <2> QED BY <2>1, <1>1, <1>2, <1>16 DEF Sound
<1>18. B \cap C = {}
  BY <1>1, <1>14, <1>15
<1>19. Held(P, L) = Held(P, L \ {x, y}) \union (HeldIn(P[x]) \union HeldIn(P[y]))
  <2>1. ToSet(P[x].keys) \subseteq Keys /\ ToSet(P[y].keys) \subseteq Keys
    <3>1. P[x].keys \in Seq(Keys) /\ P[y].keys \in Seq(Keys)
      BY <1>13 DEF Ready, Shaped
    <3> QED BY <3>1 DEF ToSet
  <2> QED BY <2>1, <1>12 DEF Held, HeldIn
<1>20. Ready(P, B \union C, lo, hi, P[x], fa, k) /\ Ready(P, B \union C, lo, hi, P[y], k, fb)
  <2>1. ToSet(P[x].kids) \subseteq B \union C /\ ToSet(P[y].kids) \subseteq B \union C
    BY <1>1
  <2>2. Carried(P, P, lo, hi, lo, hi, ToSet(P[x].kids)) /\ Carried(P, P, lo, hi, lo, hi, ToSet(P[y].kids))
    BY DEF Carried
  <2>3. Ready(P, B \union C, lo, hi, P[x], fa, k)
    BY <2>1, <2>2, <1>13, ReadyMoves
  <2>4. Ready(P, B \union C, lo, hi, P[y], k, fb)
    BY <2>1, <2>2, <1>13, ReadyMoves
  <2> QED BY <2>3, <2>4
<1>21. Outside(P, B, lo, hi, node.level, ks, cs, a, b, i, i + 1)
  <2>1. ASSUME NEW z \in 1 .. Len(ks) + 1, z < i \/ z > i + 1
        PROVE  Fits(P, B, lo, hi, node.level, cs[z], Fence(ks, a, b, z - 1), Fence(ks, a, b, z))
    <3>1. Fits(P, R, lo, hi, node.level, cs[z], Fence(ks, a, b, z - 1), Fence(ks, a, b, z))
      BY <1>4, <1>8
    <3>2. z # i /\ z # i + 1 /\ z \in 1 .. N + 1
      BY <2>1, <1>4
    <3>3. cs[z] # x /\ cs[z] # y
      BY <3>2, <1>4, <1>10, <1>11
    <3>4. cs[z] \in B
      BY <3>1, <3>3, <1>15 DEF Fits
    <3> QED BY <3>1, <3>4 DEF Fits
  <2> QED BY <2>1, <1>3 DEF Outside
<1>22. Pulled(w, L, B, C, lo, hi, D, node, i, x, y, fa, k, fb, a, b)
  BY <1>1, <1>3, <1>6, <1>7, <1>9, <1>11, <1>12, <1>13, <1>17, <1>18, <1>19, <1>20, <1>21 DEF Pulled
<1> QED BY <1>3, <1>5, <1>22

-----------------------------------------------------------------------------
(* Two neighbours on one page, and cut again.                              *)

Joint(nl, nr, k) == IF IsLeaf(nl) THEN Leaf(nl.keys \o nr.keys)
                    ELSE Inner(nl.level, nl.keys \o <<k>> \o nr.keys, nl.kids \o nr.kids)

(* m has what nl and nr have.                                              *)
Both(nl, nr, m) ==
  /\ ToSet(m.kids) = ToSet(nl.kids) \union ToSet(nr.kids)
  /\ HeldIn(m) = HeldIn(nl) \union HeldIn(nr)
  /\ m.level = nl.level /\ m.level = nr.level

\* The pair with its pivot, as one node, is ready between the outer fences.
LEMMA JointReady ==
  ASSUME NEW P, NEW R, NEW lo, NEW hi, NEW nl, NEW nr, NEW a \in Nat, NEW k \in Nat, NEW b \in Nat,
         k \in Keys, Ready(P, R, lo, hi, nl, a, k), Ready(P, R, lo, hi, nr, k, b),
         nl.level = nr.level, NEW m, m = Joint(nl, nr, k)
  PROVE  Ready(P, R, lo, hi, m, a, b) /\ Both(nl, nr, m)
<1>1. /\ Shaped(nl) /\ Shaped(nr) /\ nl.keys \in Seq(Keys) /\ nr.keys \in Seq(Keys)
      /\ nl.kids \in Seq(Nat) /\ nr.kids \in Seq(Nat) /\ nl.level \in Nat
  BY NodeFacts DEF Ready
<1>2. CASE nl.level = 0
  <2>1. PICK s \in Seq(Keys), t \in Seq(Keys) : s = nl.keys /\ t = nr.keys
    BY <1>1
  <2>2. nl = Leaf(s) /\ nr = Leaf(t)
    BY <2>1, <1>1, <1>2, LeafNode
  <2>3. LeafReady(s, a, k)
    <3>1. Ready(P, R, lo, hi, Leaf(s), a, k)
      BY <2>2
    <3> QED BY <3>1, ReadyLeaf
  <2>4. LeafReady(t, k, b)
    <3>1. Ready(P, R, lo, hi, Leaf(t), k, b)
      BY <2>2
    <3> QED BY <3>1, ReadyLeaf
  <2>5. PICK u \in Seq(Keys) : u = s \o t /\ Joined(u, s, t)
    BY ConcatIs
  <2>6. LeafReady(u, a, b)
    BY <2>3, <2>4, <2>5, JoinedLeaf
  <2>7. m = Leaf(u)
    BY <2>1, <2>5, <1>2 DEF Joint, IsLeaf
  <2>8. Ready(P, R, lo, hi, m, a, b)
    BY <2>6, <2>7, ReadyLeaf
  <2>9. ToSet(u) = ToSet(s) \union ToSet(t)
    <3>1. Joined(u, s, t)
      BY <2>5
    <3> HIDE <2>5
    <3> QED BY <3>1, JoinedSet
  <2>10. Both(nl, nr, m)
    <3>1. nl.level = 0 /\ ToSet(nl.kids) = {} /\ HeldIn(nl) = ToSet(s)
      BY <2>2, LeafFields
    <3>2. nr.level = 0 /\ ToSet(nr.kids) = {} /\ HeldIn(nr) = ToSet(t)
      BY <2>2, LeafFields
    <3>3. m.level = 0 /\ ToSet(m.kids) = {} /\ HeldIn(m) = ToSet(u)
      BY <2>7, LeafFields
    <3> QED BY <3>1, <3>2, <3>3, <2>9 DEF Both
  <2> QED BY <2>8, <2>10
<1>3. CASE nl.level # 0
  <2>1. PICK s \in Seq(Keys), t \in Seq(Keys) : s = nl.keys /\ t = nr.keys
    BY <1>1
  <2>2. PICK f \in Seq(Nat), g \in Seq(Nat) : f = nl.kids /\ g = nr.kids
    BY <1>1
  <2>3. PICK l \in Nat : l = nl.level /\ l # 0
    BY <1>1, <1>3
  <2>4. Row(P, R, lo, hi, l, s, f, a, k)
    BY <2>1, <2>2, <2>3, ReadyRow
  <2>5. Row(P, R, lo, hi, l, t, g, k, b)
    BY <2>1, <2>2, <2>3, ReadyRow
  <2>6. PICK u \in Seq(Keys) : u = s \o <<k>> \o t /\ IsJoin(u, s, k, t)
    BY JoinIs
  <2>7. PICK e \in Seq(Nat) : e = f \o g /\ Joined(e, f, g)
    BY ConcatIs
  <2>8. Len(f) = Len(s) + 1 /\ Len(g) = Len(t) + 1
    BY <2>4, <2>5 DEF Row
  <2>9. RowParts(P, R, lo, hi, l, u, e, a, b, s, f, k, t, g)
    BY <2>6, <2>7, <2>8, JoinedRow
  <2>10. Row(P, R, lo, hi, l, u, e, a, b)
    BY <2>4, <2>5, <2>9 DEF RowParts
  <2>11. m = Inner(l, u, e)
    BY <2>1, <2>2, <2>3, <2>6, <2>7 DEF Joint, IsLeaf
  <2>12. Ready(P, R, lo, hi, m, a, b)
    BY <2>3, <2>10, <2>11, RowReady
  <2>13. ToSet(e) = ToSet(f) \union ToSet(g)
    <3>1. Joined(e, f, g)
      BY <2>7
    <3> HIDE <2>7
    <3> QED BY <3>1, JoinedSet
  <2>14. m.kids = e /\ m.level = l
    BY <2>11 DEF Inner
  <2>15. Both(nl, nr, m)
    BY <2>2, <2>3, <2>13, <2>14 DEF Both, HeldIn, IsLeaf
  <2> QED BY <2>12, <2>15
<1> QED BY <1>2, <1>3

(* ml and mr are m, cut at k.                                              *)
Recut(m, ml, mr, k) ==
  /\ ml.level = m.level /\ mr.level = m.level
  /\ ml.keys \in Seq(Keys) /\ mr.keys \in Seq(Keys) /\ ml.kids \in Seq(Nat) /\ mr.kids \in Seq(Nat)
  /\ IF m.level = 0
     THEN /\ ml = Leaf(ml.keys) /\ mr = Leaf(mr.keys) /\ Joined(m.keys, ml.keys, mr.keys)
          /\ ml.keys # <<>> /\ mr.keys # <<>> /\ k = mr.keys[1]
     ELSE /\ ml = Inner(m.level, ml.keys, ml.kids) /\ mr = Inner(m.level, mr.keys, mr.kids)
          /\ IsJoin(m.keys, ml.keys, k, mr.keys) /\ Joined(m.kids, ml.kids, mr.kids)
          /\ Len(ml.kids) = Len(ml.keys) + 1 /\ Len(mr.kids) = Len(mr.keys) + 1 /\ k \in Keys

CutInTwo(P, R, lo, hi, m, ml, mr, a, k, b) ==
  /\ Ready(P, R, lo, hi, ml, a, k) /\ Ready(P, R, lo, hi, mr, k, b) /\ Both(ml, mr, m)
  /\ ToSet(ml.kids) \cap ToSet(mr.kids) = {} /\ k \in Keys /\ k \in Nat /\ a < k /\ k < b

\* A node cut in two elsewhere is two nodes that are ready.
LEMMA RecutReady ==
  ASSUME NEW P, NEW R, NEW lo, NEW hi, NEW m, NEW ml, NEW mr, NEW a \in Nat, NEW k, NEW b \in Nat,
         Ready(P, R, lo, hi, m, a, b), Recut(m, ml, mr, k)
  PROVE  CutInTwo(P, R, lo, hi, m, ml, mr, a, k, b)
<1>1. /\ Shaped(m) /\ m.keys \in Seq(Keys) /\ m.kids \in Seq(Nat) /\ m.level \in Nat
  BY NodeFacts DEF Ready
<1>2. PICK s \in Seq(Keys), t \in Seq(Keys), u \in Seq(Keys) : s = ml.keys /\ t = mr.keys /\ u = m.keys
  BY <1>1 DEF Recut
<1>3. PICK f \in Seq(Nat), g \in Seq(Nat), e \in Seq(Nat) : f = ml.kids /\ g = mr.kids /\ e = m.kids
  BY <1>1 DEF Recut
<1>4. CASE m.level = 0
  <2>1. /\ m = Leaf(u) /\ ml = Leaf(s) /\ mr = Leaf(t) /\ Joined(u, s, t)
        /\ s # <<>> /\ t # <<>> /\ k = t[1]
    BY <1>1, <1>2, <1>4, LeafNode DEF Recut
  <2>2. LeafReady(u, a, b)
    <3>1. Ready(P, R, lo, hi, Leaf(u), a, b)
      BY <2>1
    <3> QED BY <3>1, ReadyLeaf
  <2>3. LeafReady(s, a, k) /\ LeafReady(t, k, b) /\ k \in Keys /\ k \in Nat
    BY <2>1, <2>2, CutLeaf
  <2>4. Ready(P, R, lo, hi, ml, a, k)
    BY <2>1, <2>3, ReadyLeaf
  <2>5. Ready(P, R, lo, hi, mr, k, b)
    BY <2>1, <2>3, ReadyLeaf
  <2>6. ToSet(u) = ToSet(s) \union ToSet(t)
    BY <2>1, JoinedSet
  <2>7. Both(ml, mr, m) /\ ToSet(ml.kids) \cap ToSet(mr.kids) = {}
    BY <2>1, <2>6, LeafFields DEF Both
  <2> QED BY <2>3, <2>4, <2>5, <2>7 DEF LeafReady, CutInTwo
<1>5. CASE m.level # 0
  <2>1. PICK l \in Nat : l = m.level /\ l # 0
    BY <1>1, <1>5
  <2>2. /\ ml = Inner(l, s, f) /\ mr = Inner(l, t, g) /\ IsJoin(u, s, k, t) /\ Joined(e, f, g)
        /\ Len(f) = Len(s) + 1 /\ Len(g) = Len(t) + 1 /\ k \in Keys
    BY <1>2, <1>3, <2>1 DEF Recut
  <2>3. Row(P, R, lo, hi, l, u, e, a, b)
    BY <1>2, <1>3, <2>1, ReadyRow
  <2>4. RowParts(P, R, lo, hi, l, u, e, a, b, s, f, k, t, g)
    BY <2>2, JoinedRow
  <2>5. Row(P, R, lo, hi, l, s, f, a, k) /\ Row(P, R, lo, hi, l, t, g, k, b)
    BY <2>3, <2>4 DEF RowParts
  <2>6. k \in Nat
    BY <2>2, SizesAssumption
  <2>7. Ready(P, R, lo, hi, ml, a, k)
    BY <2>1, <2>2, <2>5, <2>6, RowReady
  <2>8. Ready(P, R, lo, hi, mr, k, b)
    BY <2>1, <2>2, <2>5, <2>6, RowReady
  <2>9. ToSet(e) = ToSet(f) \union ToSet(g)
    BY <2>2, JoinedSet
  <2>10. ml.kids = f /\ mr.kids = g /\ ml.level = l /\ mr.level = l
    BY <2>2 DEF Inner
  <2>11. Both(ml, mr, m)
    BY <2>1, <2>9, <2>10, <1>3 DEF Both, HeldIn, IsLeaf
  <2>12. ToSet(f) \cap ToSet(g) = {}
    <3>1. IsInjective(e)
      BY <1>3, KidsDiffer
    <3>2. PICK F \in Nat, G \in Nat : F = Len(f) /\ G = Len(g)
      OBVIOUS
    <3>5. Len(e) = F + G /\ (\A z \in 1 .. F : e[z] = f[z]) /\ (\A z \in 1 .. G : e[F + z] = g[z])
      BY <2>2, <3>2 DEF Joined
    <3>6. DOMAIN e = 1 .. F + G /\ DOMAIN f = 1 .. F /\ DOMAIN g = 1 .. G
      BY <3>5, <3>2
    <3>3. /\ DOMAIN e = 1 .. F + G /\ DOMAIN f = 1 .. F /\ DOMAIN g = 1 .. G
          /\ \A z \in 1 .. F : e[z] = f[z]
          /\ \A z \in 1 .. G : e[F + z] = g[z]
      BY <3>5, <3>6
    <3>4. ASSUME NEW z \in 1 .. F, NEW y \in 1 .. G, f[z] = g[y] PROVE FALSE
      <4>1. z \in DOMAIN e /\ F + y \in DOMAIN e /\ z # F + y
        BY <3>3
      <4>2. e[z] = e[F + y]
        BY <3>3, <3>4
      <4> QED BY <4>1, <4>2, <3>1 DEF IsInjective
    <3> QED BY <3>3, <3>4 DEF ToSet
  <2>13. a < k /\ k < b
    BY <2>7, <2>8 DEF Ready, Spans
  <2> QED BY <2>2, <2>6, <2>7, <2>8, <2>10, <2>11, <2>12, <2>13 DEF CutInTwo
<1> QED BY <1>4, <1>5

-----------------------------------------------------------------------------
(* The pages ids, with the pivots ks between, written for the pair; w is   *)
(* before, p after.                                                        *)
Swapped(w, p, L, B, lo, hi, D, ids, ks, l, fa, fb, H, lo2, hi2) ==
  /\ Sound(p, L \union ToSet(ids), B \union ToSet(ids), lo2, hi2, D)
  /\ Carried(w.pages, p.pages, lo, hi, lo2, hi2, L) /\ Same(w.pages, p.pages, D)
  /\ ToSet(ids) \cap (L \union D) = {}
  /\ Row(p.pages, ToSet(ids), lo2, hi2, l, ks, ids, fa, fb)
  /\ Held(p.pages, L \union ToSet(ids)) = Held(w.pages, L) \union H
  /\ p.freed = w.freed

\* On one page.
SwappedOnOne(w, p, L, B, lo, hi, D, ids, id, m, fa, fb) ==
  /\ \E lo2, hi2 : Swapped(w, p, L, B, lo, hi, D, ids, <<>>, m.level + 1, fa, fb, HeldIn(m), lo2, hi2)
  /\ Last(p.ids) = id /\ id \in Nat

\* One page, written, stands in place of the pair.
LEMMA OneSwapped ==
  ASSUME NEW w, NEW L, NEW R, NEW lo, NEW hi, NEW D, Sound(w, L, R, lo, hi, D),
         NEW m, NEW fa \in Nat, NEW fb \in Nat, Ready(w.pages, R, lo, hi, m, fa, fb),
         Occupied(m) <= Capacity,
         NEW B, R = B \union ToSet(m.kids), B \cap ToSet(m.kids) = {},
         NEW p, p = Put(w, m), NEW id, id = FreshId(w), NEW ids, ids = <<id>>
  PROVE  SwappedOnOne(w, p, L, B, lo, hi, D, ids, id, m, fa, fb)
<1>1. Planted(w, p, L, R, lo, hi, D, m, fa, fb, id)
  BY PutSound
<1>2. PICK lo2, hi2 : lo2 = [lo EXCEPT ![id] = fa] /\ hi2 = [hi EXCEPT ![id] = fb]
  OBVIOUS
<1>3. /\ id \in Nat /\ id \notin L /\ id \notin D
      /\ Sound(p, L \union {id}, (R \ ToSet(m.kids)) \union {id}, lo2, hi2, D)
      /\ p.pages[id] = m /\ Same(w.pages, p.pages, L \union D)
      /\ p.ids = Append(w.ids, id) /\ p.keys = w.keys /\ p.freed = w.freed
      /\ Held(p.pages, L \union {id}) = Held(w.pages, L) \union HeldIn(m)
  BY <1>1, <1>2 DEF Planted, HeldIn
<1>4. ToSet(ids) = {id} /\ ids \in Seq(Nat) /\ Len(ids) = 1 /\ ids[1] = id
  <2>1. ids = <<id>> /\ id \in Nat
    BY <1>3
  <2> HIDE <1>3
  <2> QED BY <2>1 DEF ToSet
<1>5. (R \ ToSet(m.kids)) \union {id} = B \union ToSet(ids)
  BY <1>4
<1>6. Sound(p, L \union ToSet(ids), B \union ToSet(ids), lo2, hi2, D)
  BY <1>3, <1>4, <1>5
<1>7. lo \in [Nat -> Nat] /\ hi \in [Nat -> Nat] /\ L \subseteq Nat
  <2>1. L \subseteq Nat
    BY SoundNat
  <2> QED BY <2>1 DEF Sound, Forest
<1>8. /\ \A x \in L : lo2[x] = lo[x] /\ hi2[x] = hi[x]
      /\ lo2[id] = fa /\ hi2[id] = fb
  BY <1>2, <1>3, <1>7
<1>9. Carried(w.pages, p.pages, lo, hi, lo2, hi2, L) /\ Same(w.pages, p.pages, D)
  BY <1>3, <1>8 DEF Carried, Same
<1>10. Row(p.pages, ToSet(ids), lo2, hi2, m.level + 1, <<>>, ids, fa, fb)
  <2>1. Fits(p.pages, ToSet(ids), lo2, hi2, m.level + 1, ids[1], fa, fb)
    <3>1. fa < fb
      BY DEF Ready, Spans
    <3> QED BY <3>1, <1>3, <1>4, <1>8 DEF Fits
  <2>2. /\ <<>> \in Seq(Keys) /\ Len(<<>>) = 0
        /\ Fence(<<>>, fa, fb, 0) = fa /\ Fence(<<>>, fa, fb, 1) = fb
    BY DEF Fence
  <2>3. \A x \in 1 .. Len(<<>>) + 1 : x = 1 /\ x - 1 = 0
    BY <2>2
  <2> QED BY <2>1, <2>2, <2>3, <1>4 DEF Row
<1>11. Last(p.ids) = id
  <2>1. w.ids \in Seq(Nat)
    BY DEF Sound, WorkType
  <2>2. PICK s \in Seq(Nat) : s = w.ids
    BY <2>1
  <2> QED BY <2>2, <1>3 DEF Last
<1>12. Swapped(w, p, L, B, lo, hi, D, ids, <<>>, m.level + 1, fa, fb, HeldIn(m), lo2, hi2)
  <2>1. Held(p.pages, L \union ToSet(ids)) = Held(w.pages, L) \union HeldIn(m)
    BY <1>3, <1>4
  <2>2. ToSet(ids) \cap (L \union D) = {}
    BY <1>3, <1>4
  <2> QED BY <1>6, <1>9, <1>10, <1>3, <2>1, <2>2 DEF Swapped
<1> QED BY <1>11, <1>12, <1>3 DEF SwappedOnOne

\* On two.
SwappedOnTwo(w, p, L, B, lo, hi, D, ids, k, m, fa, fb) ==
  /\ \E lo2, hi2 : Swapped(w, p, L, B, lo, hi, D, ids, <<k>>, m.level + 1, fa, fb, HeldIn(m), lo2, hi2)
  /\ p.ids[1] \in Nat /\ p.ids[2] \in Nat

\* Two pages, written, stand in place of the pair.
LEMMA TwoSwapped ==
  ASSUME NEW w, NEW L, NEW R, NEW lo, NEW hi, NEW D, Sound(w, L, R, lo, hi, D),
         NEW m, NEW ml, NEW mr, NEW fa \in Nat, NEW fb \in Nat,
         Ready(w.pages, R, lo, hi, m, fa, fb), NEW k, Recut(m, ml, mr, k),
         Occupied(ml) <= Capacity, Occupied(mr) <= Capacity,
         NEW B, R = B \union ToSet(m.kids), B \cap ToSet(m.kids) = {},
         NEW p, p = PutAll(w, <<ml, mr>>), NEW ids, ids = <<p.ids[1], p.ids[2]>>
  PROVE  SwappedOnTwo(w, p, L, B, lo, hi, D, ids, k, m, fa, fb)
<1> DEFINE ns == <<ml, mr>>
           A == <<fa, k>>
           H == <<k, fb>>
<1>1. /\ Ready(w.pages, R, lo, hi, ml, fa, k) /\ Ready(w.pages, R, lo, hi, mr, k, fb) /\ Both(ml, mr, m)
      /\ ToSet(ml.kids) \cap ToSet(mr.kids) = {} /\ k \in Keys /\ k \in Nat /\ fa < k /\ k < fb
  <2>1. CutInTwo(w.pages, R, lo, hi, m, ml, mr, fa, k, fb)
    BY RecutReady
  <2> QED BY <2>1 DEF CutInTwo
<1>2. Len(ns) = 2 /\ ns[1] = ml /\ ns[2] = mr /\ A[1] = fa /\ A[2] = k /\ H[1] = k /\ H[2] = fb
  OBVIOUS
<1>3. \A i \in 1 .. Len(ns) : i = 1 \/ i = 2
  OBVIOUS
<1>4. Writable(w.pages, R, lo, hi, ns, A, H)
  <2> HIDE DEF ns, A, H
  <2> QED BY <1>1, <1>2, <1>3 DEF Writable
<1>5. PICK lo2, hi2 : Built(w, p, L, R, lo, hi, D, ns, A, H, 2, lo2, hi2)
  <2> HIDE DEF ns, A, H
  <2>1. \E lo2, hi2 : Built(w, PutAll(w, ns), L, R, lo, hi, D, ns, A, H, Len(ns), lo2, hi2)
    BY <1>4, PutAllBuilt
  <2>2. p = PutAll(w, ns)
    BY DEF ns
  <2> QED BY <2>1, <2>2, <1>2
<1> HIDE DEF ns, A, H
<1>6. /\ Len(p.ids) = 2 /\ p \in WorkType /\ p.ids \in Seq(Nat)
  BY <1>5 DEF Built, Sound, WorkType
<1>7. /\ p.ids[1] \in Nat /\ p.ids[2] \in Nat /\ ids \in Seq(Nat) /\ Len(ids) = 2
      /\ ids[1] = p.ids[1] /\ ids[2] = p.ids[2] /\ ToSet(ids) = ToSet(p.ids)
  <2>1. PICK s \in Seq(Nat) : s = p.ids /\ Len(s) = 2
    BY <1>6
  <2>2. ids = <<s[1], s[2]>> /\ s[1] \in Nat /\ s[2] \in Nat
    BY <2>1
  <2>3. ToSet(ids) = {s[1], s[2]} /\ ids \in Seq(Nat) /\ Len(ids) = 2 /\ ids[1] = s[1] /\ ids[2] = s[2]
    <3> HIDE <2>1
    <3> QED BY <2>2 DEF ToSet
  <2>4. ToSet(s) = {s[1], s[2]}
    <3>1. DOMAIN s = {1, 2}
      BY <2>1
    <3> QED BY <3>1 DEF ToSet
  <2> QED BY <2>1, <2>2, <2>3, <2>4
<1>8. KidsOf(ns, Len(ns)) = ToSet(m.kids) /\ HeldOf(ns, Len(ns)) = HeldIn(m)
  <2>1. 1 .. Len(ns) = {1, 2}
    BY <1>2
  <2>2. KidsOf(ns, Len(ns)) = ToSet(ml.kids) \union ToSet(mr.kids)
    BY <2>1, <1>2 DEF KidsOf
  <2>3. HeldOf(ns, Len(ns)) = HeldIn(ml) \union HeldIn(mr)
    BY <2>1, <1>2 DEF HeldOf
  <2> QED BY <2>2, <2>3, <1>1 DEF Both
<1>9. PICK ks : ks = <<k>>
  OBVIOUS
<1>10. /\ ks \in Seq(Keys) /\ Len(ks) = 1 /\ ks[1] = k
  BY <1>9, <1>1
<1>11. Ordered(ns, A, H, p.ids, m, ids, ks, fa, fb)
  <2>1. /\ Fence(ks, fa, fb, 0) = fa /\ Fence(ks, fa, fb, 1) = k /\ Fence(ks, fa, fb, 2) = fb
    BY <1>10 DEF Fence
  <2>2. ml.level = m.level /\ mr.level = m.level
    BY DEF Recut
  <2>3. \A x \in 1 .. Len(ks) + 1 : (x = 1 /\ x - 1 = 0) \/ (x = 2 /\ x - 1 = 1)
    BY <1>10
  <2>4. \A x \in 1 .. Len(ks) + 1 : \E j \in 1 .. Len(ns) :
          /\ ids[x] = p.ids[j] /\ ns[j].level = m.level
          /\ A[j] = Fence(ks, fa, fb, x - 1) /\ H[j] = Fence(ks, fa, fb, x) /\ A[j] < H[j]
    <3> TAKE x \in 1 .. Len(ks) + 1
    <3>1. x \in 1 .. Len(ns)
      BY <2>3, <1>2
    <3>2. CASE x = 1
      BY <3>1, <3>2, <2>1, <2>2, <1>1, <1>2, <1>7
    <3>3. CASE x = 2
      BY <3>1, <3>3, <2>1, <2>2, <1>1, <1>2, <1>7
    <3> QED BY <2>3, <3>2, <3>3
  <2>5. /\ ids \in Seq(Nat) /\ ks \in Seq(Keys) /\ Len(ids) = Len(ks) + 1 /\ Len(ks) <= 2
        /\ ToSet(ids) = ToSet(p.ids)
    BY <1>7, <1>10
  <2> QED BY <2>4, <2>5, <1>8, Zenon DEF Ordered
<1>12. PICK q : q = [p EXCEPT !.ids = ids, !.keys = ks]
  OBVIOUS
<1>13. Rewritten(w, q, L, R, lo, hi, D, m, fa, fb, lo2, hi2)
  <2>1. Built(w, p, L, R, lo, hi, D, ns, A, H, Len(ns), lo2, hi2)
    BY <1>2, <1>5
  <2> QED BY <2>1, <1>11, <1>12, RewrittenIf
<1>14. q.ids = ids /\ q.keys = ks /\ q.pages = p.pages /\ q.free = p.free /\ q.freed = p.freed
  BY <1>12, <1>6 DEF WorkType
<1>15. Swapped(w, p, L, B, lo, hi, D, ids, ks, m.level + 1, fa, fb, HeldIn(m), lo2, hi2)
  <2>1. (R \ ToSet(m.kids)) \union ToSet(ids) = B \union ToSet(ids)
    OBVIOUS
  <2>2. Sound(q, L \union ToSet(ids), (R \ ToSet(m.kids)) \union ToSet(ids), lo2, hi2, D)
    BY <1>13, <1>14 DEF Rewritten
  <2>3. Sound(p, L \union ToSet(ids), B \union ToSet(ids), lo2, hi2, D)
    BY <2>1, <2>2, <1>14, <1>6 DEF Sound
  <2> QED BY <2>3, <1>13, <1>14 DEF Rewritten, Swapped
<1> QED BY <1>7, <1>9, <1>15 DEF SwappedOnTwo

\* A child keeps its place when the pages are carried over.
LEMMA FitsMove ==
  ASSUME NEW P, NEW R, NEW lo, NEW hi, NEW l, NEW kid, NEW f, NEW g, Fits(P, R, lo, hi, l, kid, f, g),
         NEW Q, NEW R2, NEW lo2, NEW hi2, R \subseteq R2, Carried(P, Q, lo, hi, lo2, hi2, R)
  PROVE  Fits(Q, R2, lo2, hi2, l, kid, f, g)
BY DEF Fits, Carried

\* So do the children outside a part that is replaced.
LEMMA OutsideMoves ==
  ASSUME NEW P, NEW R, NEW lo, NEW hi, NEW l, NEW keys, NEW kids, NEW a, NEW b, NEW i, NEW j,
         Outside(P, R, lo, hi, l, keys, kids, a, b, i, j),
         NEW Q, NEW R2, NEW lo2, NEW hi2, R \subseteq R2, Carried(P, Q, lo, hi, lo2, hi2, R)
  PROVE  Outside(Q, R2, lo2, hi2, l, keys, kids, a, b, i, j)
BY FitsMove DEF Outside

(* The node in hand once its children on either side of a pivot are        *)
(* rewritten: s are the pages that displaces.                              *)
Rehand(w, L, A, lo, hi, D, node, a, b, v, node2, L2, lo2, hi2, s) ==
  /\ Hand(v, L2, A, lo2, hi2, D \union ToSet(s), node2, a, b) /\ node2.level = node.level
  /\ Carried(w.pages, v.pages, lo, hi, lo2, hi2, A) /\ Same(w.pages, v.pages, D)
  /\ Held(v.pages, L2) = Held(w.pages, L)
  /\ s \in Seq(Nat) /\ IsInjective(s) /\ ToSet(s) \cap D = {} /\ v.freed = w.freed \o s

(* The pair x and y of node, and node over what replaces it.               *)
Paired(w, L, A, B, C, lo, hi, D, node, i, x, y, fa, k, fb, a, b) ==
  /\ Hand(w, L, A, lo, hi, D, node, a, b) /\ i \in 1 .. Len(node.keys)
  /\ x = node.kids[i] /\ y = node.kids[i + 1] /\ k = node.keys[i]
  /\ fa = Fence(node.keys, a, b, i - 1) /\ fb = Fence(node.keys, a, b, i + 1)
  /\ B = A \union (Before(node.kids, i) \union From(node.kids, i + 2))
  /\ Pulled(w, L, B, C, lo, hi, D, node, i, x, y, fa, k, fb, a, b)
NodeOver(node, i, ids, ks, node2) ==
  /\ Occupied(node2) <= Capacity
  /\ \E u \in Seq(Keys), e \in Seq(Nat) :
       /\ node2 = Inner(node.level, u, e)
       /\ IsSplice(u, node.keys, i, ks, i + 1) /\ IsSplice(e, node.kids, i, ids, i + 2)
Displaced(w, w2, L, L0, D, D2, s, x, y) ==
  /\ s \in Seq(Nat) /\ IsInjective(s) /\ ToSet(s) = {x, y} /\ w2 = Displace(w, s)
  /\ L0 = L \ {x, y} /\ D2 = D \union {x, y}

\* The parent over what stands in place of the pair.
LEMMA PairDone ==
  ASSUME NEW w, NEW L, NEW A, NEW B, NEW C, NEW lo, NEW hi, NEW D, NEW node, NEW i, NEW x, NEW y,
         NEW fa, NEW k, NEW fb, NEW a, NEW b,
         Paired(w, L, A, B, C, lo, hi, D, node, i, x, y, fa, k, fb, a, b),
         NEW w2, NEW L0, NEW D2, NEW s, Displaced(w, w2, L, L0, D, D2, s, x, y),
         NEW p, NEW ids, NEW ks, NEW H, NEW lo2, NEW hi2,
         Swapped(w2, p, L0, B, lo, hi, D2, ids, ks, node.level, fa, fb, H, lo2, hi2),
         H = HeldIn(w.pages[x]) \union HeldIn(w.pages[y]),
         NEW node2, NodeOver(node, i, ids, ks, node2), NEW L2, L2 = L0 \union ToSet(ids)
  PROVE  Rehand(w, L, A, lo, hi, D, node, a, b, p, node2, L2, lo2, hi2, s)
<1>u. PICK u \in Seq(Keys) : \E e \in Seq(Nat) :
        /\ node2 = Inner(node.level, u, e)
        /\ IsSplice(u, node.keys, i, ks, i + 1) /\ IsSplice(e, node.kids, i, ids, i + 2)
  BY DEF NodeOver
<1>e. PICK e \in Seq(Nat) :
        /\ node2 = Inner(node.level, u, e)
        /\ IsSplice(u, node.keys, i, ks, i + 1) /\ IsSplice(e, node.kids, i, ids, i + 2)
  BY <1>u
<1>h. /\ Hand(w, L, A, lo, hi, D, node, a, b) /\ i \in 1 .. Len(node.keys)
      /\ fa = Fence(node.keys, a, b, i - 1) /\ fb = Fence(node.keys, a, b, i + 1)
      /\ B = A \union (Before(node.kids, i) \union From(node.kids, i + 2))
      /\ Pulled(w, L, B, C, lo, hi, D, node, i, x, y, fa, k, fb, a, b)
      /\ s \in Seq(Nat) /\ IsInjective(s) /\ ToSet(s) = {x, y} /\ w2 = Displace(w, s)
      /\ L0 = L \ {x, y} /\ D2 = D \union {x, y} /\ Occupied(node2) <= Capacity
  BY DEF Paired, Displaced, NodeOver
<1> USE <1>e, <1>h
<1>1. /\ node.level \in Nat /\ node.level # 0 /\ node.keys \in Seq(Keys) /\ node.kids \in Seq(Nat)
      /\ Len(node.kids) = Len(node.keys) + 1
  BY DEF Hand, Node, Row
<1>2. PICK l \in Nat, keys \in Seq(Keys), kids \in Seq(Nat) :
        l = node.level /\ keys = node.keys /\ kids = node.kids
  BY <1>1
<1>3. PICK N \in Nat : N = Len(keys)
  OBVIOUS
<1>4. i \in 1 .. N /\ Len(kids) = N + 1
  BY <1>1, <1>2, <1>3
<1>5. node2.level = l /\ node2.keys = u /\ node2.kids = e /\ node2 \in Node
  <2>1. u \in Seq(Nat)
    BY KeysAreNat
  <2> QED BY <2>1, <1>2 DEF Inner, Node
<1>6. /\ w \in WorkType /\ w2.pages = w.pages /\ w2.freed = w.freed \o s
  BY DisplaceIs DEF Hand, Sound
<1>7. /\ Sound(p, L0 \union ToSet(ids), B \union ToSet(ids), lo2, hi2, D2)
      /\ Carried(w.pages, p.pages, lo, hi, lo2, hi2, L0) /\ Same(w.pages, p.pages, D2)
      /\ ToSet(ids) \cap (L0 \union D2) = {}
      /\ Row(p.pages, ToSet(ids), lo2, hi2, l, ks, ids,
             Fence(keys, a, b, i - 1), Fence(keys, a, b, i + 1))
      /\ Held(p.pages, L0 \union ToSet(ids)) = Held(w.pages, L0) \union H
      /\ p.freed = w.freed \o s
  BY <1>2, <1>6 DEF Swapped
<1>8. B \subseteq L0 /\ x \in L /\ y \in L /\ L \cap D = {}
  <2>1. B \subseteq L0 /\ x \in L /\ y \in L
    BY DEF Pulled, Sound, Forest
  <2> QED BY <2>1, SoundNat DEF Hand
<1>9. PICK Q, R : Q = p.pages /\ R = B \union ToSet(ids)
  OBVIOUS
<1>10. Carried(w.pages, Q, lo, hi, lo2, hi2, B)
  BY <1>7, <1>8, <1>9 DEF Carried
<1>11. Outside(Q, R, lo2, hi2, l, keys, kids, a, b, i, i + 1)
  <2>1. Outside(w.pages, B, lo, hi, l, keys, kids, a, b, i, i + 1)
    BY <1>2 DEF Pulled
  <2>2. B \subseteq R
    BY <1>9
  <2> QED BY <2>1, <2>2, <1>10, OutsideMoves
<1>12. Row(Q, R, lo2, hi2, l, ks, ids, Fence(keys, a, b, i - 1), Fence(keys, a, b, i + 1))
  <2>1. Row(Q, ToSet(ids), lo2, hi2, l, ks, ids, Fence(keys, a, b, i - 1), Fence(keys, a, b, i + 1))
    BY <1>7, <1>9
  <2>2. ToSet(ids) \subseteq R /\ Carried(Q, Q, lo2, hi2, lo2, hi2, ToSet(ids))
    BY <1>9 DEF Carried
  <2> QED BY <2>1, <2>2, RowMoves
<1>13. Row(Q, R, lo2, hi2, l, u, e, a, b)
  <2>1. PICK j \in Nat : j = i + 1
    BY <1>4
  <2>2. /\ 1 <= i /\ i <= j /\ j <= Len(keys) + 1 /\ i \in Nat
        /\ IsSplice(u, keys, i, ks, j) /\ IsSplice(e, kids, i, ids, j + 1)
    <3>1. j + 1 = i + 2
      BY <2>1, <1>4
    <3> QED BY <2>1, <3>1, <1>2, <1>3, <1>4
  <2>3. /\ Outside(Q, R, lo2, hi2, l, keys, kids, a, b, i, j)
        /\ Row(Q, R, lo2, hi2, l, ks, ids, Fence(keys, a, b, i - 1), Fence(keys, a, b, j))
    BY <2>1, <1>11, <1>12
  <2> HIDE <2>1
  <2> QED BY <2>2, <2>3, SpliceRow
<1>14. ids \in Seq(Nat)
  BY <1>7 DEF Row
<1>15. ToSet(e) = Before(kids, i) \union ToSet(ids) \union From(kids, i + 2)
  <2>1. PICK j \in Nat : j = i + 2
    BY <1>4
  <2>2. 1 <= i /\ i <= j /\ j <= Len(kids) + 1 /\ i \in Nat /\ IsSplice(e, kids, i, ids, j)
    BY <2>1, <1>2, <1>4
  <2>3. ToSet(e) = Before(kids, i) \union ToSet(ids) \union From(kids, j)
    BY <2>2, <1>14, SpliceSet
  <2> QED BY <2>1, <2>3
<1>16. R = A \union ToSet(e)
  BY <1>2, <1>9, <1>15
<1>17. A \cap ToSet(e) = {}
  <2>1. A \cap ToSet(kids) = {}
    BY <1>2 DEF Hand
  <2>2. Before(kids, i) \subseteq ToSet(kids) /\ From(kids, i + 2) \subseteq ToSet(kids)
    <3>1. DOMAIN kids = 1 .. N + 1
      BY <1>4
    <3>2. \A z \in 1 .. i - 1 : z \in 1 .. N + 1
      BY <1>4
    <3>3. \A z \in i + 2 .. N + 1 : z \in 1 .. N + 1
      BY <1>4
    <3> QED BY <3>1, <3>2, <3>3, <1>4 DEF Before, From, ToSet
  <2>3. A \subseteq L0
    BY <1>8
  <2> QED BY <2>1, <2>2, <2>3, <1>15, <1>7
<1>18. Sound(p, L0 \union ToSet(ids), A \union ToSet(e), lo2, hi2, D \union ToSet(s))
  BY <1>7, <1>9, <1>16
<1>19. Hand(p, L0 \union ToSet(ids), A, lo2, hi2, D \union ToSet(s), node2, a, b)
  <2>1. a \in Nat /\ b \in Nat
    BY DEF Hand
  <2>2. Row(p.pages, A \union ToSet(e), lo2, hi2, l, u, e, a, b)
    BY <1>9, <1>13, <1>16
  <2> QED BY <2>1, <2>2, <1>1, <1>2, <1>5, <1>17, <1>18 DEF Hand
<1>20. Carried(w.pages, p.pages, lo, hi, lo2, hi2, A) /\ Same(w.pages, p.pages, D)
  BY <1>7, <1>8 DEF Carried, Same
<1>21. Held(p.pages, L0 \union ToSet(ids)) = Held(w.pages, L)
  BY <1>7 DEF Pulled
<1>22. ToSet(s) \cap D = {}
  BY <1>8
<1> QED BY <1>2, <1>5, <1>7, <1>19, <1>20, <1>21, <1>22 DEF Rehand

Rehanded(w, L, A, lo, hi, D, node, a, b, v, node2) ==
  \E L2, lo2, hi2, s : Rehand(w, L, A, lo, hi, D, node, a, b, v, node2, L2, lo2, hi2, s)

\* The fields of an inner node.
LEMMA InnerFields == \A l, u, e : /\ Inner(l, u, e).level = l /\ Inner(l, u, e).keys = u
                                  /\ Inner(l, u, e).kids = e
BY DEF Inner

\* The parent with a pivot and a child less still fits.
LEMMA OnePivotLess ==
  ASSUME NEW n \in Node, n.keys \in Seq(Keys), NEW i \in 1 .. Len(n.keys),
         Len(n.kids) = Len(n.keys) + 1, n.level # 0, Occupied(n) <= Capacity,
         NEW id \in Nat, NEW ids, ids = <<id>>, NEW ks, ks = <<>>,
         NEW u, u = RemoveAt(n.keys, i), NEW e, e = RemoveAt([n.kids EXCEPT ![i] = id], i + 1),
         NEW n2, n2 = Inner(n.level, u, e)
  PROVE  NodeOver(n, i, ids, ks, n2) /\ u \in Seq(Nat) /\ e \in Seq(Nat)
<1>1. PICK keys \in Seq(Keys) : keys = n.keys
  OBVIOUS
<1>2. PICK kids \in Seq(Nat) : kids = n.kids
  BY DEF Node
<1>3. u \in Seq(Keys) /\ IsSplice(u, keys, i, ks, i + 1)
  BY <1>1, RemoveAtIs, RemovedPivot
<1>4. e \in Seq(Nat) /\ IsSplice(e, kids, i, ids, i + 2)
  <2>1. i \in 1 .. Len(kids) - 1
    BY <1>1, <1>2
  <2>2. e = RemoveAt([kids EXCEPT ![i] = id], i + 1)
    BY <1>2
  <2> QED BY <2>1, <2>2, RemovedChild
<1>5. u \in Seq(Nat)
  BY <1>3, KeysAreNat
<1>6. Occupied(n2) <= Capacity
  <2>1. PICK T, U : T = Total(PivotSize, keys) /\ U = Total(PivotSize, u)
    OBVIOUS
  <2>2. PivotSize \in [Keys -> Nat] /\ LeftmostSize \in Nat /\ Capacity \in Nat
    BY SizesAssumption
  <2>3. U \in Nat /\ U <= T /\ T \in Nat
    <3>1. T \in Nat
      BY <2>1, <2>2, TotalNat
    <3>2. Total(PivotSize, RemoveAt(keys, i)) \in Nat /\ Total(PivotSize, RemoveAt(keys, i)) <= Total(PivotSize, keys)
      BY <1>1, <2>2, RemovedTotal
    <3> QED BY <3>1, <3>2, <2>1, <1>1
  <2>4. Occupied(n) = LeftmostSize + T /\ Occupied(n2) = LeftmostSize + U
    <3>1. n2.level = n.level /\ n2.keys = u
      BY InnerFields
    <3> QED BY <3>1, <2>1, <1>1 DEF Occupied, IsLeaf
  <2> QED BY <2>2, <2>3, <2>4
<1> QED BY <1>1, <1>2, <1>3, <1>4, <1>5, <1>6 DEF NodeOver

\* Merge's parent is the node over the merged child.
LEMMA MergedNode ==
  ASSUME NEW n \in Node, n.keys \in Seq(Keys), NEW i \in 1 .. Len(n.keys),
         Len(n.kids) = Len(n.keys) + 1, n.level # 0, Occupied(n) <= Capacity,
         NEW id \in Nat, NEW ids, ids = <<id>>, NEW ks, ks = <<>>,
         NEW n2, n2 = [n EXCEPT !.keys = RemoveAt(@, i), !.kids = RemoveAt([@ EXCEPT ![i] = id], i + 1)]
  PROVE  NodeOver(n, i, ids, ks, n2)
<1>1. PICK u, e, g : /\ u = RemoveAt(n.keys, i) /\ e = RemoveAt([n.kids EXCEPT ![i] = id], i + 1)
                     /\ g = Inner(n.level, u, e)
  OBVIOUS
<1>2. NodeOver(n, i, ids, ks, g) /\ u \in Seq(Nat) /\ e \in Seq(Nat)
  BY <1>1, OnePivotLess
<1>3. n2 = [n EXCEPT !.keys = u, !.kids = e]
  BY <1>1
<1>4. [n EXCEPT !.keys = u, !.kids = e] = Inner(n.level, u, e)
  BY <1>2, NodeWith
<1> QED BY <1>1, <1>2, <1>3, <1>4

\* The pair of children on either side of a pivot, and one page for both.
JointOf(w, B, C, lo, hi, x, y, fa, fb, m) ==
  /\ Ready(w.pages, B \union C, lo, hi, m, fa, fb) /\ ToSet(m.kids) = C
  /\ HeldIn(m) = HeldIn(w.pages[x]) \union HeldIn(w.pages[y])
  /\ m.level = w.pages[x].level /\ m.level = w.pages[y].level

\* The pair as one node, over the children that were theirs.
LEMMA JointPulled ==
  ASSUME NEW w, NEW L, NEW B, NEW C, NEW lo, NEW hi, NEW D, NEW node, NEW i, NEW x, NEW y,
         NEW fa, NEW k, NEW fb, NEW a, NEW b,
         Pulled(w, L, B, C, lo, hi, D, node, i, x, y, fa, k, fb, a, b),
         NEW m, m = Joint(w.pages[x], w.pages[y], k)
  PROVE  JointOf(w, B, C, lo, hi, x, y, fa, fb, m)
<1>1. PICK P, R, nl, nr : P = w.pages /\ R = B \union C /\ nl = w.pages[x] /\ nr = w.pages[y]
  OBVIOUS
<1>2. /\ Ready(P, R, lo, hi, nl, fa, k) /\ Ready(P, R, lo, hi, nr, k, fb)
      /\ fa \in Nat /\ k \in Keys /\ k \in Nat /\ fb \in Nat
      /\ nl.level + 1 = node.level /\ nr.level + 1 = node.level
      /\ C = ToSet(nl.kids) \union ToSet(nr.kids)
  BY <1>1 DEF Pulled
<1>3. nl.level = nr.level
  <2>1. nl.level \in Nat /\ nr.level \in Nat
    BY <1>2, NodeFacts DEF Ready
  <2> QED BY <2>1, <1>2
<1>4. m = Joint(nl, nr, k)
  BY <1>1
<1>5. Ready(P, R, lo, hi, m, fa, fb) /\ Both(nl, nr, m)
  BY <1>2, <1>3, <1>4, JointReady
<1> QED BY <1>1, <1>2, <1>5 DEF Both, JointOf

\* Two different pages, in either order.
LEMMA PairSeq ==
  ASSUME NEW x \in Nat, NEW y \in Nat, x # y, NEW s, s = <<x, y>> \/ s = <<y, x>>
  PROVE  s \in Seq(Nat) /\ IsInjective(s) /\ ToSet(s) = {x, y}
<1>1. s \in Seq(Nat) /\ Len(s) = 2 /\ DOMAIN s = {1, 2}
  <2>1. CASE s = <<x, y>>
    BY <2>1
  <2>2. CASE s = <<y, x>>
    BY <2>2
  <2> QED BY <2>1, <2>2
<1>2. (s[1] = x /\ s[2] = y) \/ (s[1] = y /\ s[2] = x)
  <2>1. CASE s = <<x, y>>
    BY <2>1
  <2>2. CASE s = <<y, x>>
    BY <2>2
  <2> QED BY <2>1, <2>2
<1>3. ToSet(s) = {s[1], s[2]}
  BY <1>1 DEF ToSet
<1>4. IsInjective(s)
  BY <1>1, <1>2 DEF IsInjective
<1> QED BY <1>1, <1>2, <1>3, <1>4

\* w with other displaced pages has the same forest.
LEMMA DisplacedSound ==
  ASSUME NEW w, NEW L, NEW R, NEW lo, NEW hi, NEW D, Sound(w, L, R, lo, hi, D), NEW s \in Seq(Nat)
  PROVE  Sound(Displace(w, s), L, R, lo, hi, D) /\ Displace(w, s).pages = w.pages
<1>1. /\ Displace(w, s) \in WorkType /\ Displace(w, s).pages = w.pages
      /\ Displace(w, s).free = w.free
  BY DisplaceIs DEF Sound
<1> QED BY <1>1 DEF Sound

\* The pair, and the two pages displaced, one before the other.
LEMMA PairIs ==
  ASSUME NEW w, NEW L, NEW A, NEW lo, NEW hi, NEW D, NEW node, NEW a, NEW b,
         Hand(w, L, A, lo, hi, D, node, a, b), NEW i \in 1 .. Len(node.keys),
         NEW x, x = node.kids[i], NEW y, y = node.kids[i + 1], NEW k, k = node.keys[i]
  PROVE  /\ \E B, C, fa, fb : Paired(w, L, A, B, C, lo, hi, D, node, i, x, y, fa, k, fb, a, b)
         /\ x \in Nat /\ y \in Nat /\ x # y
<1>1. PICK fa, fb, B, C :
        /\ fa = Fence(node.keys, a, b, i - 1) /\ fb = Fence(node.keys, a, b, i + 1)
        /\ B = A \union (Before(node.kids, i) \union From(node.kids, i + 2))
        /\ C = ToSet(w.pages[x].kids) \union ToSet(w.pages[y].kids)
  OBVIOUS
<1>2. Pulled(w, L, B, C, lo, hi, D, node, i, x, y, fa, k, fb, a, b)
  BY <1>1, PairPulled
<1>3. Paired(w, L, A, B, C, lo, hi, D, node, i, x, y, fa, k, fb, a, b)
  BY <1>1, <1>2 DEF Paired
<1>4. L \subseteq Nat
  BY SoundNat DEF Hand
<1> QED BY <1>2, <1>3, <1>4 DEF Pulled

(* m is what the pair has, on the roots R that are left; w2 is w with the  *)
(* pair displaced.                                                         *)
Joining(w, w2, L0, R, B, lo, hi, D2, node, x, y, m, fa, fb) ==
  /\ Sound(w2, L0, R, lo, hi, D2) /\ w2.pages = w.pages
  /\ Ready(w2.pages, R, lo, hi, m, fa, fb) /\ R = B \union ToSet(m.kids) /\ B \cap ToSet(m.kids) = {}
  /\ HeldIn(m) = HeldIn(w.pages[x]) \union HeldIn(w.pages[y])
  /\ m.level + 1 = node.level /\ fa \in Nat /\ fb \in Nat

\* Merged is the pair as one node.
LEMMA JoiningIs ==
  ASSUME NEW w, NEW L, NEW A, NEW B, NEW C, NEW lo, NEW hi, NEW D, NEW node, NEW i, NEW x, NEW y,
         NEW fa, NEW k, NEW fb, NEW a, NEW b,
         Paired(w, L, A, B, C, lo, hi, D, node, i, x, y, fa, k, fb, a, b),
         NEW w2, NEW L0, NEW D2, NEW s, Displaced(w, w2, L, L0, D, D2, s, x, y),
         NEW m, m = Merged(w, node, i), NEW R, R = B \union C
  PROVE  Joining(w, w2, L0, R, B, lo, hi, D2, node, x, y, m, fa, fb)
<1>1. Pulled(w, L, B, C, lo, hi, D, node, i, x, y, fa, k, fb, a, b)
  BY DEF Paired
<1>2. m = Joint(w.pages[x], w.pages[y], k)
  BY DEF Paired, Merged, Joint
<1>3. JointOf(w, B, C, lo, hi, x, y, fa, fb, m)
  BY <1>1, <1>2, JointPulled
<1>4. Sound(w, L0, R, lo, hi, D2)
  BY <1>1 DEF Pulled, Displaced
<1>5. Sound(w2, L0, R, lo, hi, D2) /\ w2.pages = w.pages
  BY <1>4, DisplacedSound DEF Displaced
<1> QED BY <1>1, <1>3, <1>5 DEF Joining, JointOf, Pulled

\* try_merge.
LEMMA MergeDone ==
  ASSUME NEW w, NEW L, NEW A, NEW lo, NEW hi, NEW D, NEW node, NEW a, NEW b,
         Hand(w, L, A, lo, hi, D, node, a, b), NEW i \in 1 .. Len(node.keys), MergesPair(w, node, i),
         NEW r, r = Merge(w, node, i)
  PROVE  Rehanded(w, L, A, lo, hi, D, node, a, b, r.w, r.node)
<1>1. PICK x, y, k : x = node.kids[i] /\ y = node.kids[i + 1] /\ k = node.keys[i]
  OBVIOUS
<1>2. /\ \E B, C, fa, fb : Paired(w, L, A, B, C, lo, hi, D, node, i, x, y, fa, k, fb, a, b)
      /\ x \in Nat /\ y \in Nat /\ x # y
  BY <1>1, PairIs
<1>3. PICK B, C, fa, fb : Paired(w, L, A, B, C, lo, hi, D, node, i, x, y, fa, k, fb, a, b)
  BY <1>2
<1>4. PICK m, s, w2, D2, L0, R : /\ m = Merged(w, node, i) /\ s = <<x, y>> /\ R = B \union C
                                 /\ w2 = Displace(w, s) /\ D2 = D \union {x, y} /\ L0 = L \ {x, y}
  OBVIOUS
<1>5. Displaced(w, w2, L, L0, D, D2, s, x, y)
  BY <1>2, <1>4, PairSeq DEF Displaced
<1>6. Joining(w, w2, L0, R, B, lo, hi, D2, node, x, y, m, fa, fb)
  BY <1>3, <1>4, <1>5, JoiningIs
<1>7. Occupied(m) <= Capacity
  BY <1>4 DEF MergesPair
<1>8. PICK p, id, ids, ks, H, L2 : /\ p = Put(w2, m) /\ id = FreshId(w2) /\ ids = <<id>> /\ ks = <<>>
                                   /\ H = HeldIn(m) /\ L2 = L0 \union ToSet(ids)
  OBVIOUS
<1>9. SwappedOnOne(w2, p, L0, B, lo, hi, D2, ids, id, m, fa, fb)
  BY <1>6, <1>7, <1>8, OneSwapped DEF Joining
<1>10. /\ \E lo2, hi2 : Swapped(w2, p, L0, B, lo, hi, D2, ids, ks, node.level, fa, fb, H, lo2, hi2)
       /\ Last(p.ids) = id /\ id \in Nat
  BY <1>6, <1>8, <1>9 DEF SwappedOnOne, Joining
<1>11. PICK lo2, hi2 : Swapped(w2, p, L0, B, lo, hi, D2, ids, ks, node.level, fa, fb, H, lo2, hi2)
  BY <1>10
<1>12. PICK node2 : node2 = [node EXCEPT !.keys = RemoveAt(@, i),
                                         !.kids = RemoveAt([@ EXCEPT ![i] = id], i + 1)]
  OBVIOUS
<1>13. NodeOver(node, i, ids, ks, node2)
  <2>1. /\ node \in Node /\ node.keys \in Seq(Keys) /\ Len(node.kids) = Len(node.keys) + 1
        /\ node.level # 0 /\ Occupied(node) <= Capacity
    BY DEF Hand, Row
  <2> QED BY <2>1, <1>8, <1>10, <1>12, MergedNode
<1>14. r.w = p /\ r.node = node2
  <2>1. r = [w |-> p, node |-> [node EXCEPT !.keys = RemoveAt(@, i),
                                            !.kids = RemoveAt([@ EXCEPT ![i] = Last(p.ids)], i + 1)]]
    BY <1>1, <1>4, <1>8 DEF Merge
  <2>2. r.w = p /\ r.node = [node EXCEPT !.keys = RemoveAt(@, i),
                                         !.kids = RemoveAt([@ EXCEPT ![i] = Last(p.ids)], i + 1)]
    BY <2>1
  <2> QED BY <2>2, <1>10, <1>12
<1>15. H = HeldIn(w.pages[x]) \union HeldIn(w.pages[y]) /\ L2 = L0 \union ToSet(ids)
  BY <1>6, <1>8 DEF Joining
<1>16. Rehand(w, L, A, lo, hi, D, node, a, b, p, node2, L2, lo2, hi2, s)
  BY <1>3, <1>5, <1>11, <1>13, <1>15, PairDone
<1> QED BY <1>14, <1>16 DEF Rehanded

-----------------------------------------------------------------------------
(* Delete: a borrow.                                                       *)

\* A leaf cut in two.
LEMMA RecutLeaf ==
  ASSUME NEW u \in Seq(Keys), NEW s \in Seq(Keys), NEW t \in Seq(Keys), Joined(u, s, t),
         s # <<>>, t # <<>>, NEW k, k = t[1],
         NEW m, m = Leaf(u), NEW ml, ml = Leaf(s), NEW mr, mr = Leaf(t)
  PROVE  Recut(m, ml, mr, k)
<1>1. /\ m.level = 0 /\ ml.level = 0 /\ mr.level = 0
      /\ m.keys = u /\ ml.keys = s /\ mr.keys = t /\ ml.kids = <<>> /\ mr.kids = <<>>
  BY DEF Leaf
<1>2. <<>> \in Seq(Nat)
  OBVIOUS
<1> QED BY <1>1, <1>2 DEF Recut

\* An inner node cut in two at a pivot.
LEMMA RecutInner ==
  ASSUME NEW u \in Seq(Keys), NEW s \in Seq(Keys), NEW t \in Seq(Keys), NEW k \in Keys,
         IsJoin(u, s, k, t), NEW e \in Seq(Nat), NEW f \in Seq(Nat), NEW g \in Seq(Nat), Joined(e, f, g),
         Len(f) = Len(s) + 1, Len(g) = Len(t) + 1, NEW l \in Nat, l # 0,
         NEW m, m = Inner(l, u, e), NEW ml, ml = Inner(l, s, f), NEW mr, mr = Inner(l, t, g)
  PROVE  Recut(m, ml, mr, k)
<1>1. m.level = l /\ m.keys = u /\ m.kids = e
  BY InnerFields
<1>2. ml.level = l /\ ml.keys = s /\ ml.kids = f
  BY InnerFields
<1>3. mr.level = l /\ mr.keys = t /\ mr.kids = g
  BY InnerFields
<1> QED BY <1>1, <1>2, <1>3 DEF Recut

\* Head and Tail, element by element.
LEMMA HeadAndTail ==
  ASSUME NEW S, NEW s \in Seq(S), s # <<>>
  PROVE  /\ Tail(s) \in Seq(S) /\ Len(Tail(s)) = Len(s) - 1 /\ Head(s) = s[1] /\ s[1] \in S
         /\ \A x \in 1 .. Len(s) - 1 : Tail(s)[x] = s[x + 1]
OBVIOUS

\* Front and Last, element by element.
LEMMA FrontAndLast ==
  ASSUME NEW S, NEW s \in Seq(S), s # <<>>
  PROVE  /\ Front(s) \in Seq(S) /\ Len(Front(s)) = Len(s) - 1 /\ Last(s) = s[Len(s)] /\ s[Len(s)] \in S
         /\ \A x \in 1 .. Len(s) - 1 : Front(s)[x] = s[x]
<1>1. PICK N \in Nat : N = Len(s) /\ N >= 1
  OBVIOUS
<1>2. PICK n \in Nat : n = N - 1
  BY <1>1
<1>3. SubSeq(s, 1, n) \in Seq(S) /\ Len(SubSeq(s, 1, n)) = n - 1 + 1
      /\ \A x \in 1 .. n - 1 + 1 : SubSeq(s, 1, n)[x] = s[1 + x - 1]
  <2>1. n <= Len(s) /\ 1 <= n + 1 /\ 1 >= 1
    BY <1>1, <1>2
  <2> QED BY <2>1, SubSeqIs
<1>4. Front(s) = SubSeq(s, 1, n)
  BY <1>1, <1>2 DEF Front
<1>5. \A x \in 1 .. Len(s) - 1 : x \in 1 .. n - 1 + 1 /\ 1 + x - 1 = x
  BY <1>1, <1>2
<1>6. Len(Front(s)) = Len(s) - 1
  BY <1>1, <1>2, <1>3, <1>4
<1>7. Last(s) = s[Len(s)] /\ s[Len(s)] \in S
  BY <1>1 DEF Last
<1> QED BY <1>3, <1>4, <1>5, <1>6, <1>7

\* Without the first key there are its bytes less.
LEMMA TailTotal ==
  ASSUME NEW sizes \in [Keys -> Nat], NEW s \in Seq(Keys), s # <<>>
  PROVE  /\ Total(sizes, s) = sizes[s[1]] + Total(sizes, Tail(s)) /\ s[1] \in Keys
         /\ Total(sizes, Tail(s)) \in Nat /\ sizes[s[1]] \in Nat /\ Total(sizes, s) \in Nat
<1>1. /\ Tail(s) \in Seq(Keys) /\ Len(Tail(s)) = Len(s) - 1 /\ s[1] \in Keys
      /\ \A x \in 1 .. Len(s) - 1 : Tail(s)[x] = s[x + 1]
  BY HeadAndTail
<1>2. PICK t, o : t = Tail(s) /\ o = <<s[1]>>
  OBVIOUS
<1>3. o \in Seq(Keys) /\ Len(o) = 1 /\ o[1] = s[1]
  BY <1>1, <1>2
<1>4. t \in Seq(Keys) /\ Len(t) = Len(s) - 1 /\ \A x \in 1 .. Len(t) : t[x] = s[x + 1]
  BY <1>1, <1>2
<1>5. Joined(s, o, t)
  <2>1. \A x \in 1 .. Len(t) : 1 + x = x + 1
    BY <1>4
  <2> QED BY <2>1, <1>3, <1>4 DEF Joined
<1>6. Total(sizes, s) = Total(sizes, o) + Total(sizes, t)
  BY <1>3, <1>4, <1>5, TotalOfParts
<1>7. Total(sizes, o) = sizes[s[1]]
  BY <1>1, <1>2, TotalOne
<1> QED BY <1>1, <1>2, <1>4, <1>6, <1>7, TotalNat

\* Without the last key there are no more bytes.
LEMMA FrontTotal ==
  ASSUME NEW sizes \in [Keys -> Nat], NEW s \in Seq(Keys), s # <<>>
  PROVE  Total(sizes, Front(s)) <= Total(sizes, s)
<1>1. /\ Front(s) \in Seq(Keys) /\ Len(Front(s)) = Len(s) - 1 /\ s[Len(s)] \in Keys
      /\ \A x \in 1 .. Len(s) - 1 : Front(s)[x] = s[x]
  BY FrontAndLast
<1>2. PICK t, o : t = Front(s) /\ o = <<s[Len(s)]>>
  OBVIOUS
<1>3. o \in Seq(Keys) /\ Len(o) = 1 /\ o[1] = s[Len(s)]
  BY <1>1, <1>2
<1>4. t \in Seq(Keys) /\ Len(t) = Len(s) - 1 /\ \A x \in 1 .. Len(t) : t[x] = s[x]
  BY <1>1, <1>2
<1>5. Joined(s, t, o)
  <2>1. \A x \in 1 .. Len(o) : x = 1
    BY <1>3
  <2>2. Len(t) + 1 = Len(s)
    BY <1>4
  <2>3. \A x \in 1 .. Len(t) : s[x] = t[x]
    BY <1>4
  <2> QED BY <2>1, <2>2, <2>3, <1>3, <1>4 DEF Joined
<1>6. Total(sizes, s) = Total(sizes, t) + Total(sizes, o)
  BY <1>3, <1>4, <1>5, TotalOfParts
<1>7. Total(sizes, t) \in Nat /\ Total(sizes, o) \in Nat
  BY <1>3, <1>4, TotalNat
<1> QED BY <1>2, <1>6, <1>7

\* A node with a slot to spare has one, and a leaf has two.
LEMMA SpareKeys ==
  ASSUME NEW n, n.keys \in Seq(Keys), HasSpare(n)
  PROVE  n.keys # <<>> /\ (n.level = 0 => Len(n.keys) >= 2)
<1>0. /\ LeafSize \in [Keys -> Nat] /\ PivotSize \in [Keys -> Nat] /\ LeftmostSize \in Nat
      /\ Capacity \in Nat /\ LeftmostSize < Capacity \div 2
  BY SizesAssumption
<1>1. PICK s \in Seq(Keys) : s = n.keys
  OBVIOUS
<1>2. PICK H \in Nat : H = Capacity \div 2
  BY <1>0
<1>3. H > 0 /\ LeftmostSize < H
  BY <1>0, <1>2
<1>4. CASE s = <<>>
  <2>1. Total(LeafSize, s) = 0 /\ Total(PivotSize, s) = 0
    BY <1>0, <1>4, TotalEmpty
  <2>2. Occupied(n) = 0 \/ Occupied(n) = LeftmostSize
    BY <2>1, <1>0, <1>1 DEF Occupied
  <2>3. Occupied(n) >= H + 0
    BY <1>1, <1>2, <1>4 DEF HasSpare
  <2> QED BY <2>2, <2>3, <1>0, <1>3
<1>5. CASE s # <<>> /\ n.level = 0
  <2>1. /\ Total(LeafSize, s) = LeafSize[s[1]] + Total(LeafSize, Tail(s))
        /\ Total(LeafSize, Tail(s)) \in Nat /\ LeafSize[s[1]] \in Nat
    BY <1>0, <1>5, TailTotal
  <2>2. Total(LeafSize, s) >= H + LeafSize[s[1]]
    <3>1. Head(s) = s[1]
      BY <1>5
    <3> QED BY <3>1, <1>1, <1>2, <1>5 DEF HasSpare, Occupied, IsLeaf
  <2>3. Total(LeafSize, Tail(s)) # 0
    BY <2>1, <2>2, <1>2, <1>3
  <2>4. Tail(s) # <<>>
    BY <2>3, <1>0, TotalEmpty
  <2> QED BY <2>4, <1>1, <1>5, HeadAndTail
<1> QED BY <1>1, <1>4, <1>5

\* Cuts moved by one.
Shifted(S, u, v, z, s, t, d) ==
  v \in Seq(S) /\ z \in Seq(S) /\ Joined(u, v, z) /\ Len(v) = Len(s) + d /\ Len(z) = Len(t) - d

\* The first element of the right sequence moved to the end of the left one.
LEMMA ShiftLeft ==
  ASSUME NEW S, NEW s \in Seq(S), NEW t \in Seq(S), t # <<>>,
         NEW u \in Seq(S), Joined(u, s, t), NEW v, v = Append(s, Head(t)), NEW z, z = Tail(t)
  PROVE  Shifted(S, u, v, z, s, t, 1)
<1>1. /\ z \in Seq(S) /\ Len(z) = Len(t) - 1 /\ Head(t) = t[1] /\ t[1] \in S
      /\ \A x \in 1 .. Len(t) - 1 : z[x] = t[x + 1]
  BY HeadAndTail
<1>2. PICK M \in Nat, N \in Nat : M = Len(s) /\ N = Len(t) /\ N >= 1
  OBVIOUS
<1>3. /\ v \in Seq(S) /\ Len(v) = M + 1 /\ v[M + 1] = t[1] /\ \A x \in 1 .. M : v[x] = s[x]
  BY <1>1, <1>2
<1>4. /\ Len(u) = M + N /\ (\A x \in 1 .. M : u[x] = s[x]) /\ (\A x \in 1 .. N : u[M + x] = t[x])
  BY <1>2 DEF Joined
<1>5. \A x \in 1 .. M + 1 : u[x] = v[x]
  <2> TAKE x \in 1 .. M + 1
  <2>1. CASE x = M + 1
    BY <2>1, <1>2, <1>3, <1>4
  <2>2. CASE x # M + 1
    <3>1. x \in 1 .. M
      BY <2>2, <1>2
    <3> QED BY <3>1, <1>3, <1>4
  <2> QED BY <2>1, <2>2
<1>6. \A x \in 1 .. N - 1 : u[M + 1 + x] = z[x]
  <2> TAKE x \in 1 .. N - 1
  <2>1. x + 1 \in 1 .. N /\ M + 1 + x = M + (x + 1)
    BY <1>2
  <2> QED BY <2>1, <1>1, <1>2, <1>4
<1>7. Len(z) = N - 1 /\ Len(u) = (M + 1) + (N - 1)
  BY <1>1, <1>2, <1>4
<1>8. Joined(u, v, z)
  BY <1>3, <1>5, <1>6, <1>7 DEF Joined
<1> QED BY <1>1, <1>2, <1>3, <1>8 DEF Shifted

\* The last element of the left sequence moved to the front of the right one.
LEMMA ShiftRight ==
  ASSUME NEW S, NEW s \in Seq(S), NEW t \in Seq(S), s # <<>>,
         NEW u \in Seq(S), Joined(u, s, t), NEW v, v = Front(s), NEW z, z = <<Last(s)>> \o t
  PROVE  Shifted(S, u, v, z, s, t, 0 - 1) /\ z[1] = Last(s)
<1>1. /\ v \in Seq(S) /\ Len(v) = Len(s) - 1 /\ Last(s) = s[Len(s)] /\ s[Len(s)] \in S
      /\ \A x \in 1 .. Len(s) - 1 : v[x] = s[x]
  BY FrontAndLast
<1>2. PICK M \in Nat, N \in Nat : M = Len(s) /\ N = Len(t) /\ M >= 1
  OBVIOUS
<1>3. PICK o \in Seq(S) : o = <<Last(s)>>
  <2>1. PICK k \in S : k = Last(s)
    BY <1>1
  <2>2. <<k>> \in Seq(S)
    OBVIOUS
  <2> QED BY <2>1, <2>2
<1>4. Len(o) = 1 /\ o[1] = s[M]
  BY <1>1, <1>2, <1>3
<1>5. z \in Seq(S) /\ Joined(z, o, t)
  <2>1. z = o \o t
    BY <1>3
  <2> QED BY <2>1, ConcatIs
<1>6. /\ Len(z) = 1 + N /\ z[1] = s[M] /\ \A x \in 1 .. N : z[1 + x] = t[x]
  <2>1. 1 \in 1 .. 1
    OBVIOUS
  <2> QED BY <2>1, <1>2, <1>4, <1>5 DEF Joined
<1>7. /\ Len(u) = M + N /\ (\A x \in 1 .. M : u[x] = s[x]) /\ (\A x \in 1 .. N : u[M + x] = t[x])
  BY <1>2 DEF Joined
<1>8. \A x \in 1 .. M - 1 : u[x] = v[x]
  <2> TAKE x \in 1 .. M - 1
  <2>1. x \in 1 .. M
    BY <1>2
  <2> QED BY <2>1, <1>1, <1>2, <1>7
<1>9. \A x \in 1 .. 1 + N : u[(M - 1) + x] = z[x]
  <2> TAKE x \in 1 .. 1 + N
  <2>1. CASE x = 1
    <3>1. (M - 1) + x = M /\ M \in 1 .. M
      BY <2>1, <1>2
    <3> QED BY <2>1, <3>1, <1>6, <1>7
  <2>2. CASE x # 1
    <3>1. PICK y \in 1 .. N : y = x - 1
      BY <2>2, <1>2
    <3>2. (M - 1) + x = M + y /\ x = 1 + y
      BY <3>1, <1>2
    <3>3. u[M + y] = t[y] /\ z[1 + y] = t[y]
      BY <3>1, <1>6, <1>7
    <3> QED BY <3>2, <3>3
  <2> QED BY <2>1, <2>2
<1>10. Len(v) = M - 1 /\ Len(u) = (M - 1) + (1 + N)
  BY <1>1, <1>2, <1>7
<1>11. Joined(u, v, z)
  BY <1>6, <1>8, <1>9, <1>10 DEF Joined
<1>12. Len(v) = Len(s) + (0 - 1) /\ Len(z) = Len(t) - (0 - 1)
  BY <1>1, <1>2, <1>6
<1> QED BY <1>1, <1>2, <1>5, <1>6, <1>11, <1>12 DEF Shifted

\* A sequence around k is one cut before it, or after it.
LEMMA JoinAsJoined ==
  ASSUME NEW S, NEW u \in Seq(S), NEW s \in Seq(S), NEW k \in S, NEW t \in Seq(S),
         NEW v \in Seq(S), v = Append(s, k), NEW z \in Seq(S), z = <<k>> \o t
  PROVE  /\ IsJoin(u, s, k, t) <=> Joined(u, v, t)
         /\ IsJoin(u, s, k, t) <=> Joined(u, s, z)
<1>1. PICK M \in Nat, N \in Nat : M = Len(s) /\ N = Len(t)
  OBVIOUS
<1>2. Len(v) = M + 1 /\ v[M + 1] = k /\ \A x \in 1 .. M : v[x] = s[x]
  BY <1>1
<1>3. Len(z) = 1 + N /\ z[1] = k /\ \A x \in 1 .. N : z[1 + x] = t[x]
  <2>1. PICK o \in Seq(S) : o = <<k>> /\ Len(o) = 1 /\ o[1] = k
    <3>1. <<k>> \in Seq(S) /\ Len(<<k>>) = 1 /\ <<k>>[1] = k
      OBVIOUS
    <3> QED BY <3>1
  <2>2. Joined(o \o t, o, t)
    BY ConcatIs
  <2>3. 1 \in 1 .. 1
    OBVIOUS
  <2> QED BY <2>1, <2>2, <2>3, <1>1 DEF Joined
<1>4. IsJoin(u, s, k, t) <=> Joined(u, v, t)
  <2>1. ASSUME IsJoin(u, s, k, t) PROVE Joined(u, v, t)
    <3>1. \A x \in 1 .. M + 1 : x = M + 1 \/ x \in 1 .. M
      BY <1>1
    <3> QED BY <2>1, <3>1, <1>1, <1>2 DEF IsJoin, Joined
  <2>2. ASSUME Joined(u, v, t) PROVE IsJoin(u, s, k, t)
    <3>1. M + 1 \in 1 .. M + 1 /\ \A x \in 1 .. M : x \in 1 .. M + 1
      BY <1>1
    <3> QED BY <2>2, <3>1, <1>1, <1>2 DEF IsJoin, Joined
  <2> QED BY <2>1, <2>2
<1>5. IsJoin(u, s, k, t) <=> Joined(u, s, z)
  <2>1. ASSUME IsJoin(u, s, k, t) PROVE Joined(u, s, z)
    <3>1. \A x \in 1 .. 1 + N : u[M + x] = z[x]
      <4> TAKE x \in 1 .. 1 + N
      <4>1. CASE x = 1
        BY <4>1, <2>1, <1>1, <1>3 DEF IsJoin
      <4>2. CASE x # 1
        <5>1. PICK y \in 1 .. N : y = x - 1
          BY <4>2, <1>1
        <5>2. M + x = M + 1 + y /\ x = 1 + y
          BY <5>1, <1>1
        <5>3. u[M + 1 + y] = t[y]
          BY <2>1, <5>1, <1>1 DEF IsJoin
        <5> QED BY <5>1, <5>2, <5>3, <1>3
      <4> QED BY <4>1, <4>2
    <3>2. Len(u) = M + (1 + N) /\ \A x \in 1 .. M : u[x] = s[x]
      <4>1. Len(u) = M + 1 + N /\ \A x \in 1 .. M : u[x] = s[x]
        BY <2>1, <1>1, SMTT(60) DEF IsJoin
      <4> QED BY <4>1, <1>1
    <3> QED BY <3>1, <3>2, <1>1, <1>3 DEF Joined
  <2>2. ASSUME Joined(u, s, z) PROVE IsJoin(u, s, k, t)
    <3>1. /\ Len(u) = M + (1 + N) /\ (\A x \in 1 .. M : u[x] = s[x])
          /\ (\A x \in 1 .. 1 + N : u[M + x] = z[x])
      BY <2>2, <1>1, <1>3 DEF Joined
    <3>2. u[M + 1] = k
      <4>1. 1 \in 1 .. 1 + N
        BY <1>1
      <4> QED BY <4>1, <3>1, <1>3
    <3>3. \A x \in 1 .. N : u[M + 1 + x] = t[x]
      <4> TAKE x \in 1 .. N
      <4>1. 1 + x \in 1 .. 1 + N /\ M + (1 + x) = M + 1 + x
        BY <1>1
      <4> QED BY <4>1, <3>1, <1>3
    <3> QED BY <3>1, <3>2, <3>3, <1>1 DEF IsJoin
  <2> QED BY <2>1, <2>2
<1> QED BY <1>4, <1>5

\* The bytes of a leaf and of an inner node.
LEMMA OccupiedIs ==
  /\ \A u : Occupied(Leaf(u)) = Total(LeafSize, u)
  /\ \A l, u, e : l # 0 => Occupied(Inner(l, u, e)) = LeftmostSize + Total(PivotSize, u)
<1>1. \A u : Leaf(u).level = 0 /\ Leaf(u).keys = u
  BY DEF Leaf
<1> QED BY <1>1, InnerFields DEF Occupied, IsLeaf

\* The donor has room still.
LEMMA DonorFits ==
  ASSUME NEW n, n.keys \in Seq(Keys), n.keys # <<>>, Occupied(n) <= Capacity,
         NEW z \in Seq(Keys), z = Tail(n.keys) \/ z = Front(n.keys)
  PROVE  /\ n.level = 0 => Occupied(Leaf(z)) <= Capacity
         /\ n.level # 0 => \A l, e : l # 0 => Occupied(Inner(l, z, e)) <= Capacity
<1>0. /\ LeafSize \in [Keys -> Nat] /\ PivotSize \in [Keys -> Nat] /\ LeftmostSize \in Nat
      /\ Capacity \in Nat
  BY SizesAssumption
<1>1. PICK s \in Seq(Keys) : s = n.keys
  OBVIOUS
<1>2. ASSUME NEW sizes \in [Keys -> Nat] PROVE Total(sizes, z) <= Total(sizes, s)
  <2>1. CASE z = Tail(n.keys)
    <3>1. s # <<>> /\ z = Tail(s)
      BY <2>1, <1>1, Zenon
    <3>2. /\ Total(sizes, s) = sizes[s[1]] + Total(sizes, Tail(s))
          /\ Total(sizes, Tail(s)) \in Nat /\ sizes[s[1]] \in Nat
      BY <3>1, TailTotal, Zenon
    <3> PICK j \in Nat, k \in Nat : j = sizes[s[1]] /\ k = Total(sizes, Tail(s))
      BY <3>2
    <3> QED BY <3>1, <3>2
  <2>2. CASE z = Front(n.keys)
    BY <2>2, <1>1, FrontTotal
  <2> QED BY <2>1, <2>2
<1>3. /\ Total(LeafSize, z) <= Total(LeafSize, s) /\ Total(PivotSize, z) <= Total(PivotSize, s)
      /\ Total(LeafSize, z) \in Nat /\ Total(PivotSize, z) \in Nat
      /\ Total(LeafSize, s) \in Nat /\ Total(PivotSize, s) \in Nat
  <2>1. Total(LeafSize, z) \in Nat /\ Total(PivotSize, z) \in Nat
    BY <1>0, TotalNat
  <2>2. Total(LeafSize, s) \in Nat /\ Total(PivotSize, s) \in Nat
    BY <1>0, TotalNat
  <2>3. Total(LeafSize, z) <= Total(LeafSize, s)
    BY <1>0, <1>2
  <2>4. Total(PivotSize, z) <= Total(PivotSize, s)
    BY <1>0, <1>2
  <2> QED BY <2>1, <2>2, <2>3, <2>4
<1>4. IF n.level = 0 THEN Total(LeafSize, s) <= Capacity ELSE LeftmostSize + Total(PivotSize, s) <= Capacity
  BY <1>1 DEF Occupied, IsLeaf
<1>5. n.level = 0 => Total(LeafSize, z) <= Capacity
  BY <1>0, <1>3, <1>4
<1>6. n.level # 0 => LeftmostSize + Total(PivotSize, z) <= Capacity
  BY <1>0, <1>3, <1>4
<1> QED BY <1>5, <1>6, OccupiedIs

\* The neighbours, and what MovedLeft and MovedRight make of them.
Neighbours(nl, nr, k) ==
  Shaped(nl) /\ Shaped(nr) /\ nl.level = nr.level /\ k \in Keys

\* MovedLeft cuts the pair elsewhere, and the giver still fits.
LEMMA MovedLeftIs ==
  ASSUME NEW nl, NEW nr, NEW k, Neighbours(nl, nr, k), HasSpare(nr), Occupied(nr) <= Capacity,
         NEW v, v = MovedLeft(nl, nr, k), NEW m, m = Joint(nl, nr, k)
  PROVE  Recut(m, v.left, v.right, v.pivot) /\ Occupied(v.right) <= Capacity
<1>1. PICK s \in Seq(Keys), t \in Seq(Keys) : s = nl.keys /\ t = nr.keys
  BY NodeFacts DEF Neighbours
<1>2. PICK f \in Seq(Nat), g \in Seq(Nat) : f = nl.kids /\ g = nr.kids
  BY NodeFacts DEF Neighbours
<1>3. PICK l \in Nat : l = nl.level /\ l = nr.level
  BY NodeFacts DEF Neighbours
<1>4. t # <<>> /\ (l = 0 => Len(t) >= 2)
  BY <1>1, <1>3, SpareKeys
<1>5. PICK z \in Seq(Keys) : z = Tail(t) /\ Len(z) = Len(t) - 1
  BY <1>4, HeadAndTail
<1>6. /\ l = 0 => Occupied(Leaf(z)) <= Capacity
      /\ l # 0 => \A e : Occupied(Inner(l, z, e)) <= Capacity
  BY <1>1, <1>3, <1>4, <1>5, DonorFits
<1>7. CASE l = 0
  <2>1. PICK u \in Seq(Keys) : u = s \o t /\ Joined(u, s, t)
    BY ConcatIs
  <2>2. PICK x : x = Append(s, Head(t))
    OBVIOUS
  <2>3. x \in Seq(Keys) /\ Joined(u, x, z) /\ Len(x) = Len(s) + 1
    <3>1. Joined(u, s, t) /\ t # <<>> /\ z = Tail(t)
      BY <1>4, <1>5, <2>1
    <3>2. Shifted(Keys, u, x, z, s, t, 1)
      BY <3>1, <2>2, ShiftLeft
    <3> QED BY <3>2 DEF Shifted
  <2>4. x # <<>> /\ z # <<>> /\ z[1] = t[2]
    <3>1. z[1] = t[2]
      <4>1. \A y \in 1 .. Len(t) - 1 : Tail(t)[y] = t[y + 1]
        BY <1>4, HeadAndTail
      <4> QED BY <4>1, <1>4, <1>5, <1>7
    <3>2. x # <<>>
      <4>1. Len(x) # 0
        BY <2>3
      <4> QED BY <4>1
    <3>3. z # <<>>
      <4>1. PICK N \in Nat : N = Len(t) /\ N >= 2
        BY <1>4, <1>7
      <4>2. Len(z) # 0
        <5>1. PICK Z : Z = Len(z)
          OBVIOUS
        <5>2. Z = Len(t) - 1
          BY <1>5, <5>1
        <5>3. Z = N - 1
          BY <5>2, <4>1
        <5>4. N >= 2 /\ N \in Nat
          BY <4>1
        <5>5. Z >= 1
          BY <5>3, <5>4
        <5>6. Z # 0
          BY <5>5
        <5> QED BY <5>1, <5>6
      <4> QED BY <4>2
    <3> QED BY <3>1, <3>2, <3>3
  <2>5. v.left = Leaf(x) /\ v.right = Leaf(z) /\ v.pivot = t[2]
    BY <1>1, <1>3, <1>5, <1>7, <2>2 DEF MovedLeft, IsLeaf
  <2>6. m = Leaf(u)
    BY <1>1, <1>3, <1>7, <2>1 DEF Joint, IsLeaf
  <2>7. Recut(m, v.left, v.right, v.pivot)
    BY <2>3, <2>4, <2>5, <2>6, RecutLeaf
  <2> QED BY <2>5, <2>7, <1>6, <1>7
<1>8. CASE l # 0
  <2>1. Len(f) = Len(s) + 1 /\ Len(g) = Len(t) + 1
    BY <1>1, <1>2, <1>3, <1>8 DEF Neighbours, Shaped, IsLeaf
  <2>2. PICK u \in Seq(Keys) : u = s \o <<k>> \o t /\ IsJoin(u, s, k, t)
    BY JoinIs DEF Neighbours
  <2>3. PICK e \in Seq(Nat) : e = f \o g /\ Joined(e, f, g)
    BY ConcatIs
  <2>4. PICK x : x = Append(s, k)
    OBVIOUS
  <2>5. x \in Seq(Keys) /\ Len(x) = Len(s) + 1 /\ t[1] \in Keys /\ Head(t) = t[1]
    BY <1>4, <2>4, HeadAndTail DEF Neighbours
  <2>13. PICK q \in Keys : q = t[1]
    BY <2>5
  <2>6. IsJoin(u, x, q, z)
    <3>1. PICK c \in Seq(Keys) : c = <<q>> \o z
      <4>1. <<q>> \in Seq(Keys)
        OBVIOUS
      <4> QED BY <4>1, ConcatIs
    <3>2. c = t
      <4>1. t = <<Head(t)>> \o Tail(t)
        BY <1>4
      <4> QED BY <4>1, <3>1, <2>5, <2>13, <1>5
    <3>3. PICK d \in Seq(Keys) : d = <<k>> \o t
      <4>1. <<k>> \in Seq(Keys)
        BY DEF Neighbours
      <4> QED BY <4>1, ConcatIs
    <3>4. Joined(u, x, t)
      BY <2>2, <2>4, <2>5, <3>3, JoinAsJoined DEF Neighbours
    <3>5. PICK d2 \in Seq(Keys) : d2 = Append(x, q)
      <4>1. x \in Seq(Keys)
        BY <2>5
      <4>2. Append(x, q) \in Seq(Keys)
        BY <4>1
      <4> QED BY <4>2
    <3>6. Joined(u, x, c) /\ x \in Seq(Keys)
      BY <3>2, <3>4, <2>5
    <3> QED BY <3>1, <3>5, <3>6, JoinAsJoined
  <2>7. PICK y, h : y = Append(f, Head(g)) /\ h = Tail(g)
    OBVIOUS
  <2>8. y \in Seq(Nat) /\ h \in Seq(Nat) /\ Joined(e, y, h) /\ Len(y) = Len(f) + 1 /\ Len(h) = Len(g) - 1
    <3>1. g # <<>>
      BY <2>1
    <3>2. Joined(e, f, g)
      BY <2>3
    <3> HIDE <2>3
    <3>3. Shifted(Nat, e, y, h, f, g, 1)
      BY <3>1, <3>2, <2>7, ShiftLeft
    <3> QED BY <3>3 DEF Shifted
  <2>9. v.left = Inner(l, x, y) /\ v.right = Inner(l, z, h) /\ v.pivot = q
    BY <1>1, <1>2, <1>3, <1>5, <1>8, <2>4, <2>5, <2>7, <2>13 DEF MovedLeft, IsLeaf
  <2>10. m = Inner(l, u, e)
    BY <1>1, <1>2, <1>3, <1>8, <2>2, <2>3 DEF Joint, IsLeaf
  <2>11. Len(y) = Len(x) + 1 /\ Len(h) = Len(z) + 1
    BY <2>1, <2>5, <2>8, <1>5
  <2>12. Recut(m, v.left, v.right, v.pivot)
    BY <1>8, <2>5, <2>6, <2>8, <2>9, <2>10, <2>11, RecutInner
  <2> QED BY <2>9, <2>12, <1>6, <1>8
<1> QED BY <1>7, <1>8

\* MovedRight cuts the pair elsewhere, and the giver still fits.
LEMMA MovedRightIs ==
  ASSUME NEW nl, NEW nr, NEW k, Neighbours(nl, nr, k), HasSpare(nl), Occupied(nl) <= Capacity,
         NEW v, v = MovedRight(nl, nr, k), NEW m, m = Joint(nl, nr, k)
  PROVE  Recut(m, v.left, v.right, v.pivot) /\ Occupied(v.left) <= Capacity
<1>1. PICK s \in Seq(Keys), t \in Seq(Keys) : s = nl.keys /\ t = nr.keys
  BY NodeFacts DEF Neighbours
<1>2. PICK f \in Seq(Nat), g \in Seq(Nat) : f = nl.kids /\ g = nr.kids
  BY NodeFacts DEF Neighbours
<1>3. PICK l \in Nat : l = nl.level /\ l = nr.level
  BY NodeFacts DEF Neighbours
<1>4. s # <<>> /\ (l = 0 => Len(s) >= 2)
  BY <1>1, <1>3, SpareKeys
<1>5. PICK x \in Seq(Keys) : x = Front(s) /\ Len(x) = Len(s) - 1
  BY <1>4, FrontAndLast
<1>9. Last(s) = s[Len(s)] /\ s[Len(s)] \in Keys
  BY <1>4, FrontAndLast
<1>6. /\ l = 0 => Occupied(Leaf(x)) <= Capacity
      /\ l # 0 => \A e : Occupied(Inner(l, x, e)) <= Capacity
  BY <1>1, <1>3, <1>4, <1>5, DonorFits
<1>7. CASE l = 0
  <2>1. PICK u \in Seq(Keys) : u = s \o t /\ Joined(u, s, t)
    BY ConcatIs
  <2>2. PICK z : z = <<Last(s)>> \o t
    OBVIOUS
  <2>3. z \in Seq(Keys) /\ Joined(u, x, z) /\ Len(z) = Len(t) + 1 /\ z[1] = Last(s)
    <3>1. Joined(u, s, t) /\ s # <<>> /\ x = Front(s)
      BY <1>4, <1>5, <2>1
    <3>2. Shifted(Keys, u, x, z, s, t, 0 - 1) /\ z[1] = Last(s)
      BY <3>1, <2>2, ShiftRight
    <3>3. Len(t) - (0 - 1) = Len(t) + 1
      OBVIOUS
    <3> QED BY <3>2, <3>3 DEF Shifted
  <2>4. x # <<>> /\ z # <<>>
    BY <2>3, <1>4, <1>5, <1>7
  <2>5. v.left = Leaf(x) /\ v.right = Leaf(z) /\ v.pivot = Last(s)
    BY <1>1, <1>3, <1>5, <1>7, <2>2 DEF MovedRight, IsLeaf
  <2>6. m = Leaf(u)
    BY <1>1, <1>3, <1>7, <2>1 DEF Joint, IsLeaf
  <2>7. Recut(m, v.left, v.right, v.pivot)
    BY <2>3, <2>4, <2>5, <2>6, RecutLeaf
  <2> QED BY <2>5, <2>7, <1>6, <1>7
<1>8. CASE l # 0
  <2>1. Len(f) = Len(s) + 1 /\ Len(g) = Len(t) + 1
    BY <1>1, <1>2, <1>3, <1>8 DEF Neighbours, Shaped, IsLeaf
  <2>2. PICK u \in Seq(Keys) : u = s \o <<k>> \o t /\ IsJoin(u, s, k, t)
    BY JoinIs DEF Neighbours
  <2>3. PICK e \in Seq(Nat) : e = f \o g /\ Joined(e, f, g)
    BY ConcatIs
  <2>4. PICK z \in Seq(Keys) : z = <<k>> \o t /\ Len(z) = Len(t) + 1
    <3>1. PICK o \in Seq(Keys) : o = <<k>> /\ Len(o) = 1
      <4>1. <<k>> \in Seq(Keys) /\ Len(<<k>>) = 1
        BY DEF Neighbours
      <4> QED BY <4>1
    <3>2. o \o t \in Seq(Keys) /\ Joined(o \o t, o, t)
      BY ConcatIs
    <3>3. PICK z0 \in Seq(Keys) : z0 = o \o t /\ Joined(z0, o, t)
      BY <3>2
    <3>5. Joined(z0, o, t)
      BY <3>3
    <3>4. Len(z0) = 1 + Len(t)
      BY <3>1, <3>5 DEF Joined
    <3>6. z0 = <<k>> \o t
      BY <3>1, <3>3
    <3>7. Len(z0) = Len(t) + 1
      BY <3>4
    <3> QED BY <3>6, <3>7, Zenon
  <2>5. PICK q \in Keys : q = Last(s)
    BY <1>9
  <2>6. IsJoin(u, x, q, z)
    <3>1. PICK c \in Seq(Keys) : c = Append(x, q)
      <4>1. Append(x, q) \in Seq(Keys)
        OBVIOUS
      <4> QED BY <4>1
    <3>2. c = s
      <4>1. /\ Len(c) = Len(s) /\ c[Len(s)] = s[Len(s)]
            /\ \A y \in 1 .. Len(s) - 1 : c[y] = s[y]
        <5>1. \A y \in 1 .. Len(s) - 1 : x[y] = s[y]
          BY <1>4, <1>5, FrontAndLast
        <5> QED BY <5>1, <3>1, <2>5, <1>4, <1>5, <1>9
      <4>2. \A y \in 1 .. Len(s) : y = Len(s) \/ y \in 1 .. Len(s) - 1
        OBVIOUS
      <4>3. \A y \in 1 .. Len(c) : c[y] = s[y]
        BY <4>1, <4>2
      <4> QED BY <4>1, <4>3, SeqEqual
    <3>3. PICK d \in Seq(Keys) : d = Append(s, k)
      <4>1. k \in Keys
        BY DEF Neighbours
      <4>2. Append(s, k) \in Seq(Keys)
        BY <4>1
      <4> QED BY <4>2
    <3>4. Joined(u, s, z)
      BY <2>2, <2>4, <3>3, JoinAsJoined DEF Neighbours
    <3>5. PICK d2 \in Seq(Keys) : d2 = <<q>> \o z
      <4>1. <<q>> \in Seq(Keys)
        OBVIOUS
      <4> QED BY <4>1, ConcatIs
    <3>6. Joined(u, c, z)
      BY <3>2, <3>4
    <3> QED BY <3>1, <3>5, <3>6, <1>5, JoinAsJoined
  <2>7. PICK y, h : y = Front(f) /\ h = <<Last(f)>> \o g
    OBVIOUS
  <2>8. y \in Seq(Nat) /\ h \in Seq(Nat) /\ Joined(e, y, h) /\ Len(y) = Len(f) - 1 /\ Len(h) = Len(g) + 1
    <3>1. f # <<>>
      BY <2>1
    <3>2. Joined(e, f, g)
      BY <2>3
    <3> HIDE <2>3
    <3>3. Shifted(Nat, e, y, h, f, g, 0 - 1)
      BY <3>1, <3>2, <2>7, ShiftRight
    <3>4. Len(g) - (0 - 1) = Len(g) + 1 /\ Len(f) + (0 - 1) = Len(f) - 1
      OBVIOUS
    <3> QED BY <3>3, <3>4 DEF Shifted
  <2>9. v.left = Inner(l, x, y) /\ v.right = Inner(l, z, h) /\ v.pivot = q
    BY <1>1, <1>2, <1>3, <1>5, <1>8, <2>4, <2>5, <2>7 DEF MovedRight, IsLeaf
  <2>10. m = Inner(l, u, e)
    BY <1>1, <1>2, <1>3, <1>8, <2>2, <2>3 DEF Joint, IsLeaf
  <2>11. Len(y) = Len(x) + 1 /\ Len(h) = Len(z) + 1
    BY <2>1, <2>4, <2>8, <1>5
  <2>12. Recut(m, v.left, v.right, v.pivot)
    BY <1>8, <2>6, <2>8, <2>9, <2>10, <2>11, RecutInner
  <2> QED BY <2>9, <2>12, <1>6, <1>8
<1> QED BY <1>7, <1>8

\* Nodes with the same fields are equal.
LEMMA NodeEqual ==
  ASSUME NEW a \in Node, NEW b \in Node, a.level = b.level, a.keys = b.keys, a.kids = b.kids
  PROVE  a = b
BY DEF Node

\* A node with other keys.
LEMMA KeysWith ==
  ASSUME NEW n \in Node, NEW u \in Seq(Nat)
  PROVE  [n EXCEPT !.keys = u] = Inner(n.level, u, n.kids)
<1>1. PICK m : m = [n EXCEPT !.keys = u]
  OBVIOUS
<1>2. m \in Node /\ m.level = n.level /\ m.keys = u /\ m.kids = n.kids
  BY <1>1 DEF Node
<1>3. PICK g : g = Inner(n.level, u, n.kids)
  OBVIOUS
<1>4. g \in Node /\ g.level = n.level /\ g.keys = u /\ g.kids = n.kids
  BY <1>3, InnerFields DEF Inner, Node
<1>5. m = g
  BY <1>2, <1>4, NodeEqual
<1> QED BY <1>1, <1>3, <1>5

\* A node with other children.
LEMMA KidsWith ==
  ASSUME NEW n \in Node, NEW e \in Seq(Nat)
  PROVE  [n EXCEPT !.kids = e] = Inner(n.level, n.keys, e)
<1>1. PICK m : m = [n EXCEPT !.kids = e]
  OBVIOUS
<1>2. m \in Node /\ m.level = n.level /\ m.keys = n.keys /\ m.kids = e
  BY <1>1 DEF Node
<1>3. PICK g : g = Inner(n.level, n.keys, e)
  OBVIOUS
<1>4. g \in Node /\ g.level = n.level /\ g.keys = n.keys /\ g.kids = e
  BY <1>3, InnerFields DEF Inner, Node
<1>5. m = g
  BY <1>2, <1>4, NodeEqual
<1> QED BY <1>1, <1>3, <1>5

OneKey(keys, i, k, u) == u = [keys EXCEPT ![i] = k]
TwoKids(kids, i, x, y, f, e) == f = [kids EXCEPT ![i] = x] /\ e = [f EXCEPT ![i + 1] = y]

Borrowed(n, i, k, x, y, g) == g = [n EXCEPT !.keys[i] = k, !.kids[i] = x, !.kids[i + 1] = y]

\* The fields of Borrow's parent.
LEMMA BorrowedFields ==
  ASSUME NEW n \in Node, NEW i, NEW k, NEW x, NEW y, NEW u \in Seq(Nat), OneKey(n.keys, i, k, u),
         NEW f \in Seq(Nat), NEW e \in Seq(Nat), TwoKids(n.kids, i, x, y, f, e)
  PROVE  Borrowed(n, i, k, x, y, Inner(n.level, u, e))
<1>0. u = [n.keys EXCEPT ![i] = k] /\ f = [n.kids EXCEPT ![i] = x] /\ e = [f EXCEPT ![i + 1] = y]
  BY DEF OneKey, TwoKids
<1>1. PICK a, b, c : a = [n EXCEPT !.keys = u] /\ b = [a EXCEPT !.kids = f] /\ c = [b EXCEPT !.kids = e]
  OBVIOUS
<1>2. n.level \in Nat /\ n.kids \in Seq(Nat)
  BY DEF Node
<1>3. a = Inner(n.level, u, n.kids)
  BY <1>1, KeysWith
<1>4. a \in Node /\ a.level = n.level /\ a.keys = u /\ a.kids = n.kids
  BY <1>2, <1>3, InnerFields DEF Inner, Node
<1>5. b = Inner(n.level, u, f)
  BY <1>1, <1>4, KidsWith
<1>6. b \in Node /\ b.level = n.level /\ b.keys = u /\ b.kids = f
  BY <1>2, <1>5, InnerFields DEF Inner, Node
<1>7. c = Inner(n.level, u, e)
  <2>1. b \in Node
    BY <1>6
  <2>2. [b EXCEPT !.kids = e] = Inner(b.level, b.keys, e)
    BY <2>1, KidsWith
  <2> QED BY <2>2, <1>1, <1>6
<1>8. a = [n EXCEPT !.keys[i] = k]
  BY <1>0, <1>1
<1>9. b = [a EXCEPT !.kids[i] = x]
  BY <1>0, <1>1, <1>4
<1>10. c = [b EXCEPT !.kids[i + 1] = y]
  BY <1>0, <1>1, <1>6
<1>11. c = [n EXCEPT !.keys[i] = k, !.kids[i] = x, !.kids[i + 1] = y]
  BY <1>8, <1>9, <1>10
<1> QED BY <1>7, <1>11 DEF Borrowed

\* Two children replaced are a part replaced.
LEMMA TwoKidsSplice ==
  ASSUME NEW kids \in Seq(Nat), NEW i \in 1 .. Len(kids) - 1, NEW x \in Nat, NEW y \in Nat,
         NEW ids, ids = <<x, y>>, NEW f, NEW e, TwoKids(kids, i, x, y, f, e)
  PROVE  f \in Seq(Nat) /\ e \in Seq(Nat) /\ IsSplice(e, kids, i, ids, i + 2)
<1>1. e = [[kids EXCEPT ![i] = x] EXCEPT ![i + 1] = y] /\ f = [kids EXCEPT ![i] = x]
  BY DEF TwoKids
<1>2. e \in Seq(Nat) /\ IsSplice(e, kids, i, ids, i + 2)
  BY <1>1, TwoReplaced, ZenonT(60)
<1>3. f \in Seq(Nat)
  BY <1>1
<1> QED BY <1>2, <1>3

\* Borrow's parent is the node over the pair, with a new pivot between.
LEMMA BorrowedNode ==
  ASSUME NEW n \in Node, n.keys \in Seq(Keys), NEW i \in 1 .. Len(n.keys),
         Len(n.kids) = Len(n.keys) + 1, n.level # 0, NEW k \in Keys,
         Occupied([n EXCEPT !.keys[i] = k]) <= Capacity,
         NEW x \in Nat, NEW y \in Nat, NEW ids, ids = <<x, y>>, NEW ks, ks = <<k>>
  PROVE  NodeOver(n, i, ids, ks, [n EXCEPT !.keys[i] = k, !.kids[i] = x, !.kids[i + 1] = y])
<1>1. PICK keys \in Seq(Keys) : keys = n.keys
  OBVIOUS
<1>2. PICK kids \in Seq(Nat) : kids = n.kids
  BY DEF Node
<1>3. PICK u : u = [keys EXCEPT ![i] = k]
  OBVIOUS
<1>4. PICK f, e : TwoKids(kids, i, x, y, f, e)
  BY DEF TwoKids
<1>5. f = [kids EXCEPT ![i] = x] /\ e = [f EXCEPT ![i + 1] = y]
  BY <1>4 DEF TwoKids
<1>6. u \in Seq(Keys) /\ IsSplice(u, keys, i, ks, i + 1)
  <2>1. i \in 1 .. Len(keys)
    BY <1>1
  <2> QED BY <2>1, <1>3, OneReplaced
<1>7. f \in Seq(Nat) /\ e \in Seq(Nat) /\ IsSplice(e, kids, i, ids, i + 2)
  <2>1. i \in 1 .. Len(kids) - 1
    BY <1>1, <1>2
  <2> QED BY <2>1, <1>4, TwoKidsSplice
<1>8. u \in Seq(Nat)
  BY <1>6, KeysAreNat
<1>9. PICK n2 : n2 = Inner(n.level, u, e)
  OBVIOUS
<1>10. [n EXCEPT !.keys[i] = k, !.kids[i] = x, !.kids[i + 1] = y] = n2
  <2>1. u = [n.keys EXCEPT ![i] = k] /\ f = [n.kids EXCEPT ![i] = x]
    BY <1>1, <1>2, <1>3, <1>5
  <2>2. Borrowed(n, i, k, x, y, Inner(n.level, u, e))
    <3>1. TwoKids(n.kids, i, x, y, f, e) /\ OneKey(n.keys, i, k, u)
      BY <1>2, <1>4, <2>1 DEF OneKey
    <3> QED BY <3>1, <1>7, <1>8, BorrowedFields
  <2> QED BY <2>2, <1>9 DEF Borrowed
<1>11. Occupied(n2) <= Capacity
  <2>1. [n EXCEPT !.keys = u] = Inner(n.level, u, n.kids)
    BY <1>8, KeysWith
  <2>2. [n EXCEPT !.keys[i] = k] = [n EXCEPT !.keys = u]
    BY <1>1, <1>3
  <2>3. Occupied(Inner(n.level, u, n.kids)) <= Capacity
    BY <2>1, <2>2
  <2> QED BY <2>3, <1>9, OccupiedIs
<1>12. NodeOver(n, i, ids, ks, n2)
  BY <1>1, <1>2, <1>6, <1>7, <1>9, <1>11 DEF NodeOver
<1> QED BY <1>10, <1>12

(* moved is a pair on which a borrow is right.                             *)
Lends(w, node, i, moved) ==
  /\ Recut(Merged(w, node, i), moved.left, moved.right, moved.pivot)
  /\ Occupied(moved.left) <= Capacity /\ Occupied(moved.right) <= Capacity
  /\ Occupied([node EXCEPT !.keys[i] = moved.pivot]) <= Capacity

\* try_borrow.
LEMMA BorrowDone ==
  ASSUME NEW w, NEW L, NEW A, NEW lo, NEW hi, NEW D, NEW node, NEW a, NEW b,
         Hand(w, L, A, lo, hi, D, node, a, b), NEW i \in 1 .. Len(node.keys),
         NEW moved, Lends(w, node, i, moved),
         NEW x, x = node.kids[i], NEW y, y = node.kids[i + 1], NEW s, s = <<x, y>> \/ s = <<y, x>>,
         NEW r, r = Borrow(w, node, i, moved, s)
  PROVE  Rehanded(w, L, A, lo, hi, D, node, a, b, r.w, r.node)
<1>1. PICK k : k = node.keys[i]
  OBVIOUS
<1>2. /\ \E B, C, fa, fb : Paired(w, L, A, B, C, lo, hi, D, node, i, x, y, fa, k, fb, a, b)
      /\ x \in Nat /\ y \in Nat /\ x # y
  BY <1>1, PairIs
<1>3. PICK B, C, fa, fb : Paired(w, L, A, B, C, lo, hi, D, node, i, x, y, fa, k, fb, a, b)
  BY <1>2
<1>4. PICK m, w2, D2, L0, R : /\ m = Merged(w, node, i) /\ R = B \union C
                              /\ w2 = Displace(w, s) /\ D2 = D \union {x, y} /\ L0 = L \ {x, y}
  OBVIOUS
<1>5. Displaced(w, w2, L, L0, D, D2, s, x, y)
  BY <1>2, <1>4, PairSeq DEF Displaced
<1>6. Joining(w, w2, L0, R, B, lo, hi, D2, node, x, y, m, fa, fb)
  BY <1>3, <1>4, <1>5, JoiningIs
<1>7. PICK ml, mr, q : ml = moved.left /\ mr = moved.right /\ q = moved.pivot
  OBVIOUS
<1>8. Recut(m, ml, mr, q) /\ Occupied(ml) <= Capacity /\ Occupied(mr) <= Capacity
  BY <1>4, <1>7 DEF Lends
<1>9. PICK p : p = PutAll(w2, <<ml, mr>>)
  OBVIOUS
<1>10. PICK x2, y2, ids, ks, H, L2 :
         /\ x2 = p.ids[1] /\ y2 = p.ids[2] /\ ids = <<x2, y2>> /\ ks = <<q>>
         /\ H = HeldIn(m) /\ L2 = L0 \union ToSet(ids)
  OBVIOUS
<1>11. SwappedOnTwo(w2, p, L0, B, lo, hi, D2, ids, q, m, fa, fb)
  <2>1. ids = <<p.ids[1], p.ids[2]>>
    BY <1>10
  <2> QED BY <2>1, <1>6, <1>8, <1>9, TwoSwapped DEF Joining
<1>12. /\ \E lo2, hi2 : Swapped(w2, p, L0, B, lo, hi, D2, ids, ks, node.level, fa, fb, H, lo2, hi2)
       /\ x2 \in Nat /\ y2 \in Nat
  BY <1>6, <1>10, <1>11 DEF SwappedOnTwo, Joining
<1>13. PICK lo2, hi2 : Swapped(w2, p, L0, B, lo, hi, D2, ids, ks, node.level, fa, fb, H, lo2, hi2)
  BY <1>12
<1>14. PICK node2 : node2 = [node EXCEPT !.keys[i] = q, !.kids[i] = x2, !.kids[i + 1] = y2]
  OBVIOUS
<1>15. NodeOver(node, i, ids, ks, node2)
  <2>1. /\ node \in Node /\ node.keys \in Seq(Keys) /\ Len(node.kids) = Len(node.keys) + 1
        /\ node.level # 0
    BY DEF Hand, Row
  <2>2. q \in Keys
    <3>1. ks \in Seq(Keys)
      BY <1>13 DEF Swapped, Row
    <3> QED BY <3>1, <1>10
  <2>3. Occupied([node EXCEPT !.keys[i] = q]) <= Capacity
    BY <1>7 DEF Lends
  <2>4. NodeOver(node, i, ids, ks, [node EXCEPT !.keys[i] = q, !.kids[i] = x2, !.kids[i + 1] = y2])
    BY <2>1, <2>2, <2>3, <1>10, <1>12, BorrowedNode
  <2> QED BY <2>4, <1>14
<1>16. r.w = p /\ r.node = node2
  <2>1. r = [w |-> p, node |-> [node EXCEPT !.keys[i] = q, !.kids[i] = p.ids[1], !.kids[i + 1] = p.ids[2]]]
    BY <1>4, <1>7, <1>9 DEF Borrow
  <2>2. r.w = p /\ r.node = [node EXCEPT !.keys[i] = q, !.kids[i] = p.ids[1], !.kids[i + 1] = p.ids[2]]
    BY <2>1
  <2> QED BY <2>2, <1>10, <1>14
<1>17. H = HeldIn(w.pages[x]) \union HeldIn(w.pages[y]) /\ L2 = L0 \union ToSet(ids)
  BY <1>6, <1>10 DEF Joining
<1>18. Rehand(w, L, A, lo, hi, D, node, a, b, p, node2, L2, lo2, hi2, s)
  BY <1>3, <1>5, <1>13, <1>15, <1>17, PairDone
<1> QED BY <1>16, <1>18 DEF Rehanded

\* A pair is two nodes of a level, each on its page.
LEMMA PairNeighbours ==
  ASSUME NEW w, NEW L, NEW A, NEW lo, NEW hi, NEW D, NEW node, NEW a, NEW b,
         Hand(w, L, A, lo, hi, D, node, a, b), NEW i \in 1 .. Len(node.keys),
         NEW nl, nl = w.pages[node.kids[i]], NEW nr, nr = w.pages[node.kids[i + 1]],
         NEW k, k = node.keys[i]
  PROVE  /\ Neighbours(nl, nr, k) /\ Occupied(nl) <= Capacity /\ Occupied(nr) <= Capacity
         /\ Joint(nl, nr, k) = Merged(w, node, i)
<1>1. PICK x, y : x = node.kids[i] /\ y = node.kids[i + 1]
  OBVIOUS
<1>2. \E B, C, fa, fb : Paired(w, L, A, B, C, lo, hi, D, node, i, x, y, fa, k, fb, a, b)
  BY <1>1, PairIs
<1>3. PICK B, C, fa, fb : Paired(w, L, A, B, C, lo, hi, D, node, i, x, y, fa, k, fb, a, b)
  BY <1>2
<1>4. /\ Shaped(nl) /\ Shaped(nr) /\ k \in Keys
      /\ nl.level + 1 = node.level /\ nr.level + 1 = node.level
      /\ Occupied(nl) <= Capacity /\ Occupied(nr) <= Capacity
  BY <1>1, <1>3 DEF Paired, Pulled, Ready
<1>5. nl.level \in Nat /\ nr.level \in Nat
  BY <1>4, NodeFacts
<1>6. nl.level = nr.level
  <2>1. PICK p \in Nat, q \in Nat : p = nl.level /\ q = nr.level
    BY <1>5
  <2>2. p + 1 = q + 1
    BY <1>4, <2>1
  <2>3. p = q
    BY <2>2
  <2> QED BY <2>1, <2>3
<1> QED BY <1>4, <1>6 DEF Neighbours, Merged, Joint

\* Nothing done.
LEMMA LeftAlone ==
  ASSUME NEW w, NEW L, NEW A, NEW lo, NEW hi, NEW D, NEW node, NEW a, NEW b,
         Hand(w, L, A, lo, hi, D, node, a, b)
  PROVE  Rehanded(w, L, A, lo, hi, D, node, a, b, w, node)
<1>1. PICK s : s = <<>>
  OBVIOUS
<1>2. s \in Seq(Nat) /\ IsInjective(s) /\ ToSet(s) = {}
  BY <1>1 DEF IsInjective, ToSet
<1>3. w.freed = w.freed \o s
  <2>1. PICK f \in Seq(Nat) : f = w.freed
    BY DEF Hand, Sound, WorkType
  <2> QED BY <2>1, <1>1
<1>4. D \union ToSet(s) = D
  BY <1>2
<1>5. Carried(w.pages, w.pages, lo, hi, lo, hi, A) /\ Same(w.pages, w.pages, D)
  BY DEF Carried, Same
<1>6. Rehand(w, L, A, lo, hi, D, node, a, b, w, node, L, lo, hi, s)
  BY <1>2, <1>3, <1>4, <1>5 DEF Rehand
<1> QED BY <1>6 DEF Rehanded

\* rebalance_under_parent.
LEMMA RebalancedDone ==
  ASSUME NEW w, NEW L, NEW A, NEW lo, NEW hi, NEW D, NEW node, NEW a, NEW b,
         Hand(w, L, A, lo, hi, D, node, a, b), NEW i \in 1 .. Len(node.keys) + 1,
         NEW r, r = Rebalanced(w, node, i)
  PROVE  Rehanded(w, L, A, lo, hi, D, node, a, b, r.w, r.node)
<1>1. PICK N \in Nat : N = Len(node.keys) /\ Len(node.kids) = N + 1
  <2>1. node.keys \in Seq(Keys) /\ Len(node.kids) = Len(node.keys) + 1
    BY DEF Hand, Row
  <2>2. PICK s \in Seq(Keys) : s = node.keys
    BY <2>1
  <2> QED BY <2>1, <2>2
<1>2. i < Len(node.kids) => i \in 1 .. Len(node.keys)
  BY <1>1
<1>3. PICK j : j = i - 1
  OBVIOUS
<1>4. i > 1 => j \in 1 .. Len(node.keys) /\ j + 1 = i
  BY <1>1, <1>3
<1>5. PICK child, right, left : /\ child = w.pages[node.kids[i]] /\ right = w.pages[node.kids[i + 1]]
                                /\ left = w.pages[node.kids[j]]
  OBVIOUS
<1>6. PICK fromRight, fromLeft : /\ fromRight = MovedLeft(child, right, node.keys[i])
                                 /\ fromLeft = MovedRight(left, child, node.keys[j])
  OBVIOUS
<1>7. r = IF i < Len(node.kids) /\ MergesPair(w, node, i) THEN Merge(w, node, i)
          ELSE IF i > 1 /\ MergesPair(w, node, j) THEN Merge(w, node, j)
          ELSE IF i < Len(node.kids) /\ HasSpare(right) /\ BorrowFits(node, i, fromRight, fromRight.left)
          THEN Borrow(w, node, i, fromRight, <<node.kids[i], node.kids[i + 1]>>)
          ELSE IF i > 1 /\ HasSpare(left) /\ BorrowFits(node, j, fromLeft, fromLeft.right)
          THEN Borrow(w, node, j, fromLeft, <<node.kids[i], node.kids[j]>>)
          ELSE [w |-> w, node |-> node]
  BY <1>3, <1>5, <1>6, Zenon DEF Rebalanced
<1>8. CASE r = Merge(w, node, i) /\ i < Len(node.kids) /\ MergesPair(w, node, i)
  BY <1>2, <1>8, MergeDone
<1>9. CASE r = Merge(w, node, j) /\ i > 1 /\ MergesPair(w, node, j)
  BY <1>4, <1>9, MergeDone
<1>10. CASE /\ i < Len(node.kids) /\ HasSpare(right) /\ BorrowFits(node, i, fromRight, fromRight.left)
            /\ r = Borrow(w, node, i, fromRight, <<node.kids[i], node.kids[i + 1]>>)
  <2>1. i \in 1 .. Len(node.keys)
    BY <1>2, <1>10
  <2>2. PICK k, x, y, s : k = node.keys[i] /\ x = node.kids[i] /\ y = node.kids[i + 1] /\ s = <<x, y>>
    OBVIOUS
  <2>3. /\ Neighbours(child, right, k) /\ Occupied(child) <= Capacity /\ Occupied(right) <= Capacity
        /\ Joint(child, right, k) = Merged(w, node, i)
    BY <2>1, <2>2, <1>5, PairNeighbours
  <2>4. PICK m : m = Joint(child, right, k)
    OBVIOUS
  <2>5. Recut(m, fromRight.left, fromRight.right, fromRight.pivot) /\ Occupied(fromRight.right) <= Capacity
    <3>1. fromRight = MovedLeft(child, right, k) /\ HasSpare(right)
      BY <1>6, <1>10, <2>2
    <3> QED BY <3>1, <2>3, <2>4, MovedLeftIs
  <2>6. Lends(w, node, i, fromRight)
    BY <2>3, <2>4, <2>5, <1>10 DEF BorrowFits, Lends
  <2>7. r = Borrow(w, node, i, fromRight, s)
    BY <2>2, <1>10
  <2> QED BY <2>1, <2>2, <2>6, <2>7, BorrowDone
<1>11. CASE /\ i > 1 /\ HasSpare(left) /\ BorrowFits(node, j, fromLeft, fromLeft.right)
            /\ r = Borrow(w, node, j, fromLeft, <<node.kids[i], node.kids[j]>>)
  <2>1. j \in 1 .. Len(node.keys) /\ j + 1 = i
    BY <1>4, <1>11
  <2>2. PICK k, x, y, s : k = node.keys[j] /\ x = node.kids[j] /\ y = node.kids[j + 1] /\ s = <<y, x>>
    OBVIOUS
  <2>3. /\ Neighbours(left, child, k) /\ Occupied(left) <= Capacity /\ Occupied(child) <= Capacity
        /\ Joint(left, child, k) = Merged(w, node, j)
    <3>1. left = w.pages[node.kids[j]] /\ child = w.pages[node.kids[j + 1]]
      BY <2>1, <1>5
    <3> QED BY <3>1, <2>1, <2>2, PairNeighbours
  <2>4. PICK m : m = Joint(left, child, k)
    OBVIOUS
  <2>5. Recut(m, fromLeft.left, fromLeft.right, fromLeft.pivot) /\ Occupied(fromLeft.left) <= Capacity
    <3>1. fromLeft = MovedRight(left, child, k) /\ HasSpare(left)
      BY <1>6, <1>11, <2>2
    <3> QED BY <3>1, <2>3, <2>4, MovedRightIs
  <2>6. Lends(w, node, j, fromLeft)
    BY <2>3, <2>4, <2>5, <1>11 DEF BorrowFits, Lends
  <2>7. r = Borrow(w, node, j, fromLeft, s)
    BY <2>1, <2>2, <1>11
  <2> QED BY <2>1, <2>2, <2>6, <2>7, BorrowDone
<1>12. CASE r = [w |-> w, node |-> node]
  <2>1. r.w = w /\ r.node = node
    BY <1>12
  <2> QED BY <2>1, LeftAlone
<1> QED BY <1>7, <1>8, <1>9, <1>10, <1>11, <1>12

-----------------------------------------------------------------------------
(* Delete: one level up.                                                   *)

(* node is n with its i-th child replaced.                                 *)
ChildSet(n, i, x, node) == node = [n EXCEPT !.kids[i] = x]

\* The fields of a node with one child replaced.
LEMMA ChildSetIs ==
  ASSUME NEW n \in Node, NEW i, NEW x, NEW v \in Seq(Nat), OneKey(n.kids, i, x, v)
  PROVE  ChildSet(n, i, x, Inner(n.level, n.keys, v))
<1>1. [n EXCEPT !.kids[i] = x] = [n EXCEPT !.kids = v]
  BY DEF OneKey, Node
<1>2. [n EXCEPT !.kids = v] = Inner(n.level, n.keys, v)
  BY KidsWith
<1> QED BY <1>1, <1>2 DEF ChildSet

\* The parent, with the page that replaces its i-th child, is in hand.
LEMMA ParentHanded ==
  ASSUME NEW P, NEW lo, NEW hi, NEW at, NEW h \in Nat, NEW w, NEW L, NEW lo2, NEW hi2, NEW D,
         NEW l \in 1 .. h, Climb(P, lo, hi, at, h, w, L, lo2, hi2, D, l - 1),
         w.keys = <<>>, Len(w.ids) = 1, NEW n \in Node, NEW i,
         Parent(P, lo, hi, at, h, w, lo2, hi2, l, n, i),
         NEW node, ChildSet(n, i, w.ids[1], node)
  PROVE  /\ Hand(w, L, Above(P, at, l, h), lo2, hi2, D, node, lo[at[l]], hi[at[l]])
         /\ node.level = l /\ i \in 1 .. Len(node.keys) + 1
<1> DEFINE A == Above(P, at, l, h)  B == Above(P, at, l - 1, h)
<1>1. PICK a \in Nat, b \in Nat : a = lo[at[l]] /\ b = hi[at[l]]
  BY DEF Parent
<1>2. PICK R : R = B \union ToSet(w.ids)
  OBVIOUS
<1>3. PICK ids, x : ids = w.ids /\ x = ids[1]
  OBVIOUS
<1>4. /\ n.level = l /\ l # 0 /\ i \in 1 .. Len(n.keys) + 1 /\ Occupied(n) <= Capacity
      /\ Outside(w.pages, R, lo2, hi2, l, n.keys, n.kids, a, b, i, i)
      /\ Row(w.pages, R, lo2, hi2, l, w.keys, ids, Fence(n.keys, a, b, i - 1), Fence(n.keys, a, b, i))
  BY <1>1, <1>2, <1>3 DEF Parent
<1>5. n.keys \in Seq(Keys) /\ n.kids \in Seq(Nat) /\ Len(n.kids) = Len(n.keys) + 1
  BY <1>4 DEF Outside
<1>6. x \in Nat /\ ids = <<x>> /\ ids \in Seq(Nat)
  <2>1. ids \in Seq(Nat) /\ Len(ids) = 1
    BY <1>3, <1>4 DEF Row
  <2> QED BY <2>1, <1>3
<1>7. i \in 1 .. Len(n.kids) /\ i \in Nat /\ 1 <= i /\ i <= Len(n.keys) + 1 /\ i + 1 \in Nat
      /\ i <= i + 1 /\ i + 1 <= Len(n.kids) + 1
  <2>0. Len(n.keys) \in Nat
    <3>1. \A t \in Seq(Keys) : Len(t) \in Nat
      OBVIOUS
    <3> QED BY <3>1, <1>5, Zenon
  <2>1. PICK N \in Nat : N = Len(n.keys)
    BY <2>0, Zenon
  <2> QED BY <2>1, <1>4, <1>5
<1>8. PICK v : OneKey(n.kids, i, x, v)
  BY DEF OneKey
<1>9. v \in Seq(Nat) /\ IsSplice(v, n.kids, i, ids, i + 1)
  BY <1>5, <1>6, <1>7, <1>8, OneReplaced DEF OneKey
<1>10. IsSplice(n.keys, n.keys, i, <<>>, i)
  <2>1. PICK ks \in Seq(Keys) : ks = n.keys
    BY <1>5
  <2>2. i \in 1 .. Len(ks) + 1
    BY <2>1, <1>4
  <2>3. Len(ks) = (i - 1) + Len(<<>>) + (Len(ks) - i + 1)
    BY <2>1, <2>2
  <2>4. \A y \in i .. Len(ks) : i - 1 + Len(<<>>) + (y - i + 1) = y
    BY <2>1, <2>2
  <2>5. Len(<<>>) = 0
    OBVIOUS
  <2> QED BY <2>1, <2>3, <2>4, <2>5 DEF IsSplice
<1>11. ToSet(v) = Before(n.kids, i) \union ToSet(ids) \union From(n.kids, i + 1)
  <2>1. PICK j : j = i + 1
    OBVIOUS
  <2>2. i <= j /\ j \in Nat /\ j <= Len(n.kids) + 1 /\ IsSplice(v, n.kids, i, ids, j)
    BY <2>1, <1>7, <1>9
  <2>3. PICK s \in Seq(Nat) : s = n.kids
    BY <1>5
  <2>4. /\ i \in Nat /\ 1 <= i /\ i <= j /\ j \in Nat /\ j <= Len(s) + 1 /\ IsSplice(v, s, i, ids, j)
        /\ v \in Seq(Nat) /\ ids \in Seq(Nat)
    BY <2>2, <2>3, <1>6, <1>7, <1>9
  <2>5. ToSet(v) = Before(s, i) \union ToSet(ids) \union From(s, j)
    BY <2>4, SpliceSet
  <2> QED BY <2>1, <2>3, <2>5
<1>12. node = Inner(l, n.keys, v)
  <2>1. ChildSet(n, i, x, Inner(n.level, n.keys, v))
    BY <1>8, <1>9, ChildSetIs
  <2> QED BY <2>1, <1>3, <1>4 DEF ChildSet
<1>13. node.level = l /\ node.keys = n.keys /\ node.kids = v
  BY <1>12, InnerFields
<1>14. R = A \union ToSet(v) /\ A \cap ToSet(v) = {}
  BY <1>2, <1>3, <1>11 DEF Parent
<1>15. Row(w.pages, R, lo2, hi2, l, n.keys, v, a, b)
  BY <1>4, <1>5, <1>7, <1>9, <1>10, SpliceRow
<1>16. Sound(w, L, A \union ToSet(v), lo2, hi2, D)
  BY <1>2, <1>14 DEF Climb
<1>17. node \in Node
  <2>1. n.keys \in Seq(Nat) /\ l \in Nat
    BY <1>5, KeysAreNat
  <2> QED BY <2>1, <1>9, <1>12 DEF Node, Inner
<1>18. Occupied(node) <= Capacity
  BY <1>4, <1>13 DEF Occupied, IsLeaf
<1> QED BY <1>1, <1>4, <1>13, <1>14, <1>15, <1>16, <1>17, <1>18 DEF Hand

\* In reverse.
LEMMA HandReady ==
  ASSUME NEW w, NEW L, NEW A, NEW lo, NEW hi, NEW D, NEW node, NEW a, NEW b,
         Hand(w, L, A, lo, hi, D, node, a, b)
  PROVE  /\ Ready(w.pages, A \union ToSet(node.kids), lo, hi, node, a, b) /\ node.level \in Nat
         /\ Sound(w, L, A \union ToSet(node.kids), lo, hi, D) /\ Occupied(node) <= Capacity
         /\ A \cap ToSet(node.kids) = {} /\ a \in Nat /\ b \in Nat
<1>1. PICK l \in Nat, keys \in Seq(Nat), kids \in Seq(Nat) : l = node.level /\ keys = node.keys /\ kids = node.kids
  BY DEF Hand, Node
<1>2. l # 0 /\ Row(w.pages, A \union ToSet(kids), lo, hi, l, keys, kids, a, b) /\ a \in Nat /\ b \in Nat
  BY <1>1 DEF Hand
<1>3. Ready(w.pages, A \union ToSet(kids), lo, hi, Inner(l, keys, kids), a, b)
  BY <1>2, RowReady
<1>4. node = Inner(l, keys, kids)
  BY <1>1 DEF Hand, Node, Inner
<1> QED BY <1>1, <1>3, <1>4 DEF Hand

\* A sequence after another, when they share nothing.
LEMMA InjectiveConcat ==
  ASSUME NEW s \in Seq(Nat), IsInjective(s), NEW t \in Seq(Nat), IsInjective(t),
         ToSet(s) \cap ToSet(t) = {}
  PROVE  s \o t \in Seq(Nat) /\ IsInjective(s \o t) /\ ToSet(s \o t) = ToSet(s) \union ToSet(t)
<1>1. PICK u : u = s \o t
  OBVIOUS
<1>2. u \in Seq(Nat) /\ Joined(u, s, t)
  BY <1>1, ConcatIs
<1>3. ToSet(u) = ToSet(s) \union ToSet(t)
  BY <1>2, JoinedSet
<1>4. IsInjective(u)
  <2>0. DOMAIN u = 1 .. Len(u) /\ DOMAIN s = 1 .. Len(s) /\ DOMAIN t = 1 .. Len(t)
    BY <1>2
  <2>1. SUFFICES ASSUME NEW i \in 1 .. Len(u), NEW j \in 1 .. Len(u), u[i] = u[j] PROVE i = j
    BY <2>0, Zenon DEF IsInjective
  <2>2. PICK m \in Nat, n \in Nat : m = Len(s) /\ n = Len(t)
    OBVIOUS
  <2>3. /\ Len(u) = m + n /\ \A x \in 1 .. m : u[x] = s[x]
        /\ \A x \in 1 .. n : u[m + x] = t[x]
    BY <1>2, <2>2 DEF Joined
  <2>4. \A x, y \in 1 .. m : s[x] = s[y] => x = y
    BY <2>0, <2>2, Zenon DEF IsInjective
  <2>5. \A x, y \in 1 .. n : t[x] = t[y] => x = y
    BY <2>0, <2>2, Zenon DEF IsInjective
  <2>6. \A x \in 1 .. m, y \in 1 .. n : s[x] # t[y]
    BY <2>0, <2>2 DEF ToSet
  <2>7. CASE i <= m /\ j <= m
    BY <2>1, <2>3, <2>4, <2>7
  <2>8. CASE i <= m /\ ~ j <= m
    <3>1. j - m \in 1 .. n /\ m + (j - m) = j /\ i \in 1 .. m
      BY <2>3, <2>8
    <3>2. u[j] = t[j - m] /\ u[i] = s[i]
      BY <2>3, <3>1
    <3> QED BY <2>1, <2>6, <3>1, <3>2
  <2>9. CASE ~ i <= m /\ j <= m
    <3>1. i - m \in 1 .. n /\ m + (i - m) = i /\ j \in 1 .. m
      BY <2>3, <2>9
    <3>2. u[i] = t[i - m] /\ u[j] = s[j]
      BY <2>3, <3>1
    <3> QED BY <2>1, <2>6, <3>1, <3>2
  <2>10. CASE ~ i <= m /\ ~ j <= m
    <3>1. i - m \in 1 .. n /\ m + (i - m) = i /\ j - m \in 1 .. n /\ m + (j - m) = j
      BY <2>3, <2>10
    <3>2. u[i] = t[i - m] /\ u[j] = t[j - m]
      BY <2>3, <3>1
    <3>3. i - m = j - m
      BY <2>1, <2>5, <3>1, <3>2
    <3> QED BY <3>1, <3>3
  <2> QED BY <2>7, <2>8, <2>9, <2>10
<1> QED BY <1>1, <1>2, <1>3, <1>4

\* The way from a level up, from the one above it.
LEMMA WayFrom ==
  ASSUME NEW P, NEW L, NEW h \in Nat, NEW at, Beside(P, L, at, h), NEW l \in 0 .. h
  PROVE  Way(at, l, h) = Way(at, l + 1, h) \union {at[l]} /\ at[l] \notin Way(at, l + 1, h)
<1>1. l .. h = (l + 1 .. h) \union {l}
  OBVIOUS
<1>2. \A x \in l + 1 .. h : x \in 0 .. h /\ x # l
  OBVIOUS
<1>3. Way(at, l, h) = Way(at, l + 1, h) \union {at[l]}
  BY <1>1 DEF Way
<1>4. \A x \in l + 1 .. h : at[x] # at[l]
  BY <1>2 DEF Beside
<1> QED BY <1>3, <1>4 DEF Way

(* What is left on level l, and the pages w displaces.                     *)
Shrinks(P, lo, hi, at, h, w, L, lo2, hi2, D, l, H) ==
  /\ Climb(P, lo, hi, at, h, w, L, lo2, hi2, D, l) /\ D = ToSet(w.freed) \union Way(at, l + 1, h)
  /\ Len(w.ids) = 1 /\ w.keys = <<>> /\ IsInjective(w.freed)
  /\ ToSet(w.freed) \cap Way(at, l + 1, h) = {} /\ Held(w.pages, L) = H
Shrunk(P, lo, hi, at, h, w, l, H) ==
  \E L, lo2, hi2, D : Shrinks(P, lo, hi, at, h, w, L, lo2, hi2, D, l, H)

(* G is F after the pages s, and then x, are displaced.                    *)
Outlaid(F, s, x, G, W, W2, D) ==
  /\ F \in Seq(Nat) /\ IsInjective(F) /\ x \in Nat /\ W2 = W \union {x} /\ x \notin W
  /\ ToSet(F) \cap W2 = {} /\ s \in Seq(Nat) /\ IsInjective(s)
  /\ D = ToSet(F) \union W2 /\ ToSet(s) \cap D = {} /\ G = (F \o s) \o <<x>>

\* Pages displaced one after the other stay different.
LEMMA DisplacedMore ==
  ASSUME NEW F, NEW s, NEW x, NEW G, NEW W, NEW W2, NEW D, Outlaid(F, s, x, G, W, W2, D)
  PROVE  /\ IsInjective(G) /\ ToSet(G) \cap W = {} /\ D \union ToSet(s) = ToSet(G) \union W
         /\ G \in Seq(Nat)
<1> USE DEF Outlaid
<1>1. PICK E : E = F \o s
  OBVIOUS
<1>2. E \in Seq(Nat) /\ IsInjective(E) /\ ToSet(E) = ToSet(F) \union ToSet(s)
  BY <1>1, InjectiveConcat
<1>3. PICK o : o = <<x>>
  OBVIOUS
<1>4. o \in Seq(Nat) /\ IsInjective(o) /\ ToSet(o) = {x}
  BY <1>3 DEF IsInjective, ToSet
<1>5. ToSet(E) \cap ToSet(o) = {}
  BY <1>2, <1>4
<1>6. G \in Seq(Nat) /\ IsInjective(G) /\ ToSet(G) = ToSet(E) \union ToSet(o)
  <2>1. G = E \o o
    BY <1>1, <1>3
  <2>2. E \o o \in Seq(Nat) /\ IsInjective(E \o o) /\ ToSet(E \o o) = ToSet(E) \union ToSet(o)
    BY <1>2, <1>4, <1>5, InjectiveConcat
  <2> QED BY <2>1, <2>2, Zenon
<1> QED BY <1>2, <1>4, <1>6

\* process_parent: what is left one level up.
LEMMA ProcessedShrinks ==
  ASSUME NEW P, NEW L0, NEW lo, NEW hi, NEW top, Forest(P, L0, {top}, lo, hi), L0 \subseteq Nat,
         NEW key, NEW h \in Nat, NEW at, Descent(P, L0, lo, hi, top, key, h, at), Beside(P, L0, at, h),
         NEW w, NEW l \in 1 .. h, NEW H, Shrunk(P, lo, hi, at, h, w, l - 1, H),
         NEW v, v = Processed(w, at[l], ChildIndex(w.pages[at[l]], key))
  PROVE  Shrunk(P, lo, hi, at, h, v, l, H)
<1>1. PICK L, lo2, hi2, D : Shrinks(P, lo, hi, at, h, w, L, lo2, hi2, D, l - 1, H)
  BY DEF Shrunk
<1>2. /\ Climb(P, lo, hi, at, h, w, L, lo2, hi2, D, l - 1) /\ Len(w.ids) = 1 /\ w.keys = <<>>
      /\ Held(w.pages, L) = H
  BY <1>1 DEF Shrinks
<1>3. PICK x, n, i : x = at[l] /\ n = w.pages[x] /\ i = ChildIndex(n, key)
  OBVIOUS
<1>4. n = P[at[l]] /\ Parent(P, lo, hi, at, h, w, lo2, hi2, l, n, i)
  <2>1. Parent(P, lo, hi, at, h, w, lo2, hi2, l, P[at[l]], ChildIndex(P[at[l]], key))
    BY <1>2, ParentIs
  <2>2. n = P[at[l]]
    BY <2>1, <1>3 DEF Parent
  <2> QED BY <2>1, <2>2, <1>3
<1>5. l \in 0 .. h /\ x \in L0 /\ x \in Nat /\ P[x] = n
  <2>1. l \in 0 .. h
    OBVIOUS
  <2>2. at[l] \in L0
    BY <2>1 DEF Beside
  <2> QED BY <2>1, <2>2, <1>3, <1>4
<1>6. n \in Node
  BY <1>5, PageFacts DEF Ready, Shaped
<1>7. PICK node : ChildSet(n, i, w.ids[1], node)
  BY DEF ChildSet
<1>8. PICK A, a, b : A = Above(P, at, l, h) /\ a = lo[at[l]] /\ b = hi[at[l]]
  OBVIOUS
<1>9. Hand(w, L, A, lo2, hi2, D, node, a, b) /\ node.level = l /\ i \in 1 .. Len(node.keys) + 1
  <2>1. Parent(P, lo, hi, at, h, w, lo2, hi2, l, n, i)
    BY <1>4
  <2>2. /\ Hand(w, L, Above(P, at, l, h), lo2, hi2, D, node, lo[at[l]], hi[at[l]])
        /\ node.level = l /\ i \in 1 .. Len(node.keys) + 1
    BY <2>1, <1>2, <1>6, <1>7, ParentHanded
  <2> QED BY <2>2, <1>8
<1>10. PICK r : r = IF Underflows(w.pages[w.ids[1]]) THEN Rebalanced(w, node, i)
                    ELSE [w |-> w, node |-> node]
  OBVIOUS
<1>11. PICK q, m : q = r.w /\ m = r.node
  OBVIOUS
<1>12. Rehanded(w, L, A, lo2, hi2, D, node, a, b, q, m)
  <2>1. CASE r = Rebalanced(w, node, i)
    BY <2>1, <1>9, <1>11, RebalancedDone
  <2>2. CASE r = [w |-> w, node |-> node]
    <3>1. q = w /\ m = node
      BY <2>2, <1>11
    <3> QED BY <3>1, <1>9, LeftAlone
  <2> QED BY <2>1, <2>2, <1>10
<1>13. PICK L2, lo3, hi3, s : Rehand(w, L, A, lo2, hi2, D, node, a, b, q, m, L2, lo3, hi3, s)
  BY <1>12 DEF Rehanded
<1>14. PICK E : E = D \union ToSet(s)
  OBVIOUS
<1>15. /\ Hand(q, L2, A, lo3, hi3, E, m, a, b) /\ m.level = l
       /\ Carried(w.pages, q.pages, lo2, hi2, lo3, hi3, A) /\ Same(w.pages, q.pages, D)
       /\ Held(q.pages, L2) = H
       /\ s \in Seq(Nat) /\ IsInjective(s) /\ ToSet(s) \cap D = {} /\ q.freed = w.freed \o s
  BY <1>2, <1>9, <1>13, <1>14 DEF Rehand
<1>16. PICK o, z : o = <<x>> /\ z = Displace(q, o)
  OBVIOUS
<1>17. PICK R : R = A \union ToSet(m.kids)
  OBVIOUS
<1>18. /\ Ready(q.pages, R, lo3, hi3, m, a, b) /\ Sound(q, L2, R, lo3, hi3, E)
       /\ Occupied(m) <= Capacity /\ A \cap ToSet(m.kids) = {} /\ a \in Nat /\ b \in Nat
  BY <1>15, <1>17, HandReady
<1>19. o \in Seq(Nat)
  BY <1>5, <1>16
<1>20. Sound(z, L2, R, lo3, hi3, E) /\ z.pages = q.pages
  BY <1>16, <1>18, <1>19, DisplacedSound
<1>21. z.freed = (w.freed \o s) \o <<x>>
  <2>1. q \in WorkType
    BY <1>18 DEF Sound
  <2>2. Displace(q, o).freed = q.freed \o o
    BY <2>1, <1>19, DisplaceIs, Zenon
  <2> QED BY <2>2, <1>15, <1>16, Zenon
<1>22. v = PutAll(z, <<m>>)
  <2>1. Processed(w, x, i) = PutAll(Displace(q, o), <<m>>)
    BY <1>3, <1>7, <1>10, <1>11, <1>16, Zenon DEF Processed, ChildSet
  <2> QED BY <2>1, <1>3, <1>16
<1>23. Ready(z.pages, R, lo3, hi3, m, a, b)
  BY <1>18, <1>20
<1>24. PICK lo4, hi4 : /\ Rewritten(z, v, L2, R, lo3, hi3, E, m, a, b, lo4, hi4)
                       /\ Len(v.ids) = 1 /\ v.keys = <<>>
  BY <1>18, <1>20, <1>22, <1>23, OneRewritten
<1>25. PICK L3 : L3 = L2 \union ToSet(v.ids)
  OBVIOUS
<1>26. Sound(v, L3, A \union ToSet(v.ids), lo4, hi4, E)
  <2>1. Sound(v, L3, (R \ ToSet(m.kids)) \union ToSet(v.ids), lo4, hi4, E)
    BY <1>24, <1>25 DEF Rewritten
  <2>2. R \ ToSet(m.kids) = A
    BY <1>17, <1>18
  <2> QED BY <2>1, <2>2
<1>27. Carried(P, v.pages, lo, hi, lo4, hi4, A)
  <2>1. A \subseteq Above(P, at, l - 1, h)
    <3>1. OneUp(P, at, l, h)
      BY AboveSteps
    <3> QED BY <3>1, <1>8 DEF OneUp
  <2>2. A \subseteq L2
    BY <1>17, <1>18 DEF Sound, Forest
  <2>3. Carried(q.pages, v.pages, lo3, hi3, lo4, hi4, L2)
    BY <1>20, <1>24 DEF Rewritten
  <2>4. Carried(P, w.pages, lo, hi, lo2, hi2, Above(P, at, l - 1, h))
    BY <1>2 DEF Climb
  <2> QED BY <2>1, <2>2, <2>3, <2>4, <1>15 DEF Carried
<1>28. PICK W, W2 : W = Way(at, l + 1, h) /\ W2 = Way(at, l, h)
  OBVIOUS
<1>29. W2 = W \union {x} /\ x \notin W
  BY <1>3, <1>5, <1>28, WayFrom
<1>30. /\ D = ToSet(w.freed) \union W2 /\ ToSet(w.freed) \cap W2 = {}
       /\ IsInjective(w.freed) /\ w.freed \in Seq(Nat) /\ Same(P, w.pages, W2) /\ W2 \subseteq D
  <2>1. W2 = Way(at, (l - 1) + 1, h)
    BY <1>28
  <2>2. w \in WorkType
    BY <1>2 DEF Climb, Sound
  <2> QED BY <2>1, <2>2, <1>1, <1>2 DEF Shrinks, Climb, WorkType
<1>31. v.freed = (w.freed \o s) \o <<x>>
  BY <1>21, <1>24 DEF Rewritten
<1>32. /\ IsInjective(v.freed) /\ ToSet(v.freed) \cap W = {} /\ E = ToSet(v.freed) \union W
  <2>1. PICK F, G : F = w.freed /\ G = (F \o s) \o <<x>>
    OBVIOUS
  <2>2. Outlaid(F, s, x, G, W, W2, D)
    BY <2>1, <1>5, <1>15, <1>29, <1>30 DEF Outlaid
  <2>3. /\ IsInjective(G) /\ ToSet(G) \cap W = {} /\ D \union ToSet(s) = ToSet(G) \union W
    BY <2>2, DisplacedMore
  <2> QED BY <2>1, <2>3, <1>14, <1>31
<1>33. Same(P, v.pages, W) /\ W \subseteq E
  <2>1. W \subseteq D /\ D \subseteq E /\ W \subseteq W2
    BY <1>14, <1>29, <1>30
  <2>2. Same(q.pages, v.pages, E)
    BY <1>20, <1>24 DEF Rewritten
  <2> QED BY <2>1, <2>2, <1>15, <1>30 DEF Same
<1>34. /\ Row(v.pages, ToSet(v.ids), lo4, hi4, l + 1, v.keys, v.ids, a, b)
       /\ Len(v.keys) <= 2 /\ Held(v.pages, L3) = H
  <2>1. HeldIn(m) = {}
    BY <1>15 DEF HeldIn, IsLeaf
  <2> QED BY <2>1, <1>15, <1>20, <1>24, <1>25 DEF Rewritten
<1>35. Climb(P, lo, hi, at, h, v, L3, lo4, hi4, E, l)
  BY <1>8, <1>26, <1>27, <1>28, <1>33, <1>34 DEF Climb
<1>36. Shrinks(P, lo, hi, at, h, v, L3, lo4, hi4, E, l, H)
  BY <1>24, <1>28, <1>32, <1>34, <1>35 DEF Shrinks
<1> QED BY <1>36 DEF Shrunk

-----------------------------------------------------------------------------
(* Looking a key up.                                                       *)

\* Finitely many values have a bound.
LEMMA ValuesBound ==
  ASSUME NEW M \in Nat, NEW v, \A p \in 1 .. M : v[p] \in Nat
  PROVE  \E N \in Nat : \A p \in 1 .. M : v[p] <= N
<1> DEFINE Good(m) == \E N \in Nat : \A p \in 1 .. m : v[p] <= N
           Bad == {m \in 0 .. M : ~ Good(m)}
<1>1. Bad = {}
  <2> SUFFICES ASSUME Bad # {} PROVE FALSE
    OBVIOUS
  <2>1. Bad \subseteq Nat
    OBVIOUS
  <2>2. PICK m \in Bad : \A k \in Bad : m <= k
    BY <2>1, LeastNatural
  <2>3. m \in 0 .. M /\ ~ Good(m)
    OBVIOUS
  <2>4. m # 0
    <3>1. ASSUME m = 0 PROVE Good(m)
      <4>1. 1 .. m = {} /\ 0 \in Nat
        BY <3>1
      <4> QED BY <4>1
    <3> QED BY <2>3, <3>1
  <2>5. m - 1 \in 0 .. M /\ ~ (m <= m - 1)
    BY <2>3, <2>4
  <2>6. Good(m - 1)
    <3>1. m - 1 \notin Bad
      <4> HIDE DEF Bad
      <4> QED BY <2>2, <2>5
    <3> QED BY <3>1, <2>5
  <2>7. PICK N \in Nat : \A p \in 1 .. m - 1 : v[p] <= N
    BY <2>6
  <2>8. PICK K \in Nat : K = v[m]
    <3>1. m \in 1 .. M
      BY <2>3, <2>4
    <3> QED BY <3>1
  <2>9. ASSUME NEW p \in 1 .. m PROVE v[p] <= N + K
    <3>1. p \in 1 .. M /\ (p = m \/ p \in 1 .. m - 1)
      BY <2>3
    <3>2. PICK y \in Nat : y = v[p]
      BY <3>1
    <3>3. y <= N \/ y = K
      BY <3>1, <3>2, <2>7, <2>8
    <3> QED BY <3>2, <3>3
  <2>10. Good(m)
    <3>1. N + K \in Nat
      OBVIOUS
    <3> QED BY <3>1, <2>9
  <2> QED BY <2>3, <2>10
<1>2. M \in 0 .. M
  OBVIOUS
<1> QED BY <1>1, <1>2

\* Some level is above every page's.
LEMMA LevelsBound ==
  ASSUME NEW P, NEW L \in SUBSET Nat, P \in Seq(Node), L \subseteq DOMAIN P
  PROVE  \E N \in Nat : \A p \in L : P[p].level <= N
<1>1. PICK M \in Nat : M = Len(P) /\ DOMAIN P = 1 .. M
  OBVIOUS
<1>2. PICK v : v = [p \in 1 .. M |-> P[p].level]
  OBVIOUS
<1>3. \A p \in 1 .. M : v[p] \in Nat /\ v[p] = P[p].level
  <2>1. \A p \in 1 .. M : P[p] \in Node
    BY <1>1
  <2> QED BY <2>1, <1>2 DEF Node
<1>4. PICK N \in Nat : \A p \in 1 .. M : v[p] <= N
  BY <1>3, ValuesBound
<1>5. \A p \in L : p \in 1 .. M
  BY <1>1
<1> QED BY <1>3, <1>4, <1>5

\* No pages with one always a level above another: their levels are bounded.
LEMMA NoneAscends ==
  ASSUME NEW P, NEW L \in SUBSET Nat, P \in Seq(Node), L \subseteq DOMAIN P,
         NEW Off, Off \subseteq L, \A x \in Off : \E y \in Off : P[y].level = P[x].level + 1
  PROVE  Off = {}
<1>1. PICK N \in Nat : \A p \in L : P[p].level <= N
  BY LevelsBound
<1>2. \A x \in L : P[x].level \in Nat
  <2>1. \A x \in L : P[x] \in Node
    OBVIOUS
  <2> QED BY <2>1 DEF Node
<1> SUFFICES ASSUME Off # {} PROVE FALSE
  OBVIOUS
<1> DEFINE S == {N - P[x].level : x \in Off}
<1>3. S \subseteq Nat /\ S # {}
  <2>1. \A x \in Off : P[x].level \in Nat /\ P[x].level <= N
    BY <1>1, <1>2
  <2>2. \A x \in Off : N - P[x].level \in Nat
    BY <2>1, SMTT(60)
  <2> QED BY <2>2
<1>4. PICK m \in S : \A k \in S : m <= k
  BY <1>3, LeastNatural
<1>5. PICK x \in Off : m = N - P[x].level
  OBVIOUS
<1>6. PICK y \in Off : P[y].level = P[x].level + 1
  OBVIOUS
<1>7. P[x].level \in Nat /\ P[y].level \in Nat
  BY <1>2
<1>8. N - P[y].level \in S
  OBVIOUS
<1>9. m <= N - P[y].level
  BY <1>4, <1>8
<1>10. PICK a, b : a = P[x].level /\ b = P[y].level
  OBVIOUS
<1>11. a \in Nat /\ b \in Nat /\ b = a + 1 /\ N - a <= N - b
  BY <1>5, <1>6, <1>7, <1>9, <1>10
<1> QED BY <1>11

(* The parent of a page, and the page's bounds.                            *)
Under(P, lo, hi, p, q) ==
  /\ P[p].level \in Nat /\ P[p].level + 1 = P[q].level /\ P[q].level \in Nat
  /\ Len(P[q].keys) \in Nat
  /\ \E x \in 1 .. Len(P[q].keys) + 1 :
       /\ p = P[q].kids[x]
       /\ lo[p] = Fence(P[q].keys, lo[q], hi[q], x - 1) /\ hi[p] = Fence(P[q].keys, lo[q], hi[q], x)
  /\ \A x \in 0 .. Len(P[q].keys) + 1 : Fence(P[q].keys, lo[q], hi[q], x) \in Nat
  /\ \A x, y \in 0 .. Len(P[q].keys) + 1 :
       x < y => Fence(P[q].keys, lo[q], hi[q], x) < Fence(P[q].keys, lo[q], hi[q], y)

\* Every page but the root is under a parent.
LEMMA UnderParent ==
  ASSUME NEW P, NEW L, NEW lo, NEW hi, NEW top, Forest(P, L, {top}, lo, hi), L \subseteq Nat,
         NEW p \in L, p # top
  PROVE  \E q \in L : Under(P, lo, hi, p, q)
<1>1. PICK q \in L : p \in ToSet(P[q].kids)
  BY DEF Forest
<1>2. PICK R : R = L \ {top}
  OBVIOUS
<1>3. PICK n, a, b : n = P[q] /\ a = lo[q] /\ b = hi[q]
  OBVIOUS
<1>4. /\ Ready(P, R, lo, hi, n, a, b) /\ a \in Nat /\ b \in Nat /\ n.level \in Nat
      /\ n.level # 0 => Row(P, R, lo, hi, n.level, n.keys, n.kids, a, b)
  BY <1>2, <1>3, PageFacts
<1>5. PICK x \in DOMAIN n.kids : p = n.kids[x]
  BY <1>1, <1>3 DEF ToSet
<1>6. n.level # 0 /\ P[p].level \in Nat
  <2>1. Shaped(n)
    BY <1>4 DEF Ready
  <2>2. Len(n.kids) # 0
    BY <2>1, <1>5, NodeFacts
  <2>3. P[p].level \in Nat
    BY PageFacts
  <2> QED BY <2>1, <2>2, <2>3 DEF Shaped, IsLeaf
<1>7. Row(P, R, lo, hi, n.level, n.keys, n.kids, a, b)
  BY <1>4, <1>6
<1>8. x \in 1 .. Len(n.keys) + 1
  BY <1>5, <1>7 DEF Row
<1>9. Fits(P, R, lo, hi, n.level, n.kids[x], Fence(n.keys, a, b, x - 1), Fence(n.keys, a, b, x))
  BY <1>7, <1>8 DEF Row
<1>10. /\ \A y \in 0 .. Len(n.keys) + 1 : Fence(n.keys, a, b, y) \in Nat
       /\ \A y, z \in 0 .. Len(n.keys) + 1 : y < z => Fence(n.keys, a, b, y) < Fence(n.keys, a, b, z)
  BY <1>4, <1>7, FencesRise
<1>11. P[p].level + 1 = n.level /\ lo[p] = Fence(n.keys, a, b, x - 1) /\ hi[p] = Fence(n.keys, a, b, x)
  BY <1>5, <1>9 DEF Fits
<1>12. Len(n.keys) \in Nat
  BY <1>7, KeysAreNat DEF Row
<1>13. Under(P, lo, hi, p, q)
  BY <1>3, <1>4, <1>5, <1>6, <1>8, <1>10, <1>11, <1>12, Zenon DEF Under
<1> QED BY <1>13

\* A page on the way whose child's bounds are around the key: the child is on it, too.
LEMMA NextOnTheWay ==
  ASSUME NEW P, NEW L, NEW lo, NEW hi, NEW top, NEW key \in Nat, NEW h, NEW at,
         Descent(P, L, lo, hi, top, key, h, at),
         NEW p, NEW q, Under(P, lo, hi, p, q), lo[p] <= key, key < hi[p],
         P[q].level \in 0 .. h, q = at[P[q].level]
  PROVE  P[p].level \in 0 .. h /\ p = at[P[p].level]
<1>1. PICK m : m = P[q].level
  OBVIOUS
<1>2. m \in 1 .. h /\ m - 1 = P[p].level /\ h \in Nat /\ q = at[m]
  <2>1. PICK k \in Nat : k = P[p].level /\ k + 1 = m
    BY <1>1 DEF Under
  <2>2. m \in 0 .. h /\ h \in Nat
    BY <1>1 DEF Descent
  <2> QED BY <2>1, <2>2, <1>1
<1>3. PICK n, a, b : n = P[q] /\ a = lo[q] /\ b = hi[q]
  OBVIOUS
<1>4. StepDown(P, lo, hi, key, q, at[m - 1]) /\ OnPath(P, L, lo, hi, key, m - 1, at[m - 1])
  <2>1. m - 1 \in 0 .. h
    BY <1>2
  <2> QED BY <2>1, <1>2 DEF Descent
<1>5. PICK i : /\ i \in 1 .. Len(n.keys) + 1 /\ at[m - 1] = n.kids[i]
               /\ Fence(n.keys, a, b, i - 1) <= key /\ key < Fence(n.keys, a, b, i)
  BY <1>3, <1>4 DEF StepDown, OnPath
<1>6. PICK x : /\ x \in 1 .. Len(n.keys) + 1 /\ p = n.kids[x]
               /\ Fence(n.keys, a, b, x - 1) <= key /\ key < Fence(n.keys, a, b, x)
  BY <1>3 DEF Under
<1>7. PICK f : f = [y \in 0 .. Len(n.keys) + 1 |-> Fence(n.keys, a, b, y)]
  OBVIOUS
<1>8. /\ \A y \in 0 .. Len(n.keys) + 1 : f[y] \in Nat
      /\ \A y, z \in 0 .. Len(n.keys) + 1 : y < z => f[y] < f[z]
  BY <1>3, <1>7 DEF Under
<1>9. PICK M : M = Len(n.keys) + 1
  OBVIOUS
<1>10. M \in Nat
  BY <1>3, <1>9 DEF Under
<1>11. x = i
  <2>1. /\ i \in 1 .. M /\ i - 1 \in 0 .. M /\ i \in 0 .. M /\ x \in 1 .. M /\ x - 1 \in 0 .. M /\ x \in 0 .. M
    BY <1>5, <1>6, <1>9, <1>10
  <2>2. f[i - 1] <= key /\ key < f[i] /\ f[x - 1] <= key /\ key < f[x]
    BY <2>1, <1>5, <1>6, <1>7, <1>9
  <2>3. \A y, z \in 0 .. M : f[y] \in Nat /\ (y < z => f[y] < f[z])
    BY <1>8, <1>9
  <2>4. ~ (i < x)
    <3>1. ASSUME i < x PROVE FALSE
      <4>1. i = x - 1 \/ i < x - 1
        BY <3>1, <2>1
      <4>2. f[i] <= f[x - 1]
        BY <4>1, <2>1, <2>3
      <4> QED BY <4>2, <2>1, <2>2, <2>3
    <3> QED BY <3>1
  <2>5. ~ (x < i)
    <3>1. ASSUME x < i PROVE FALSE
      <4>1. x = i - 1 \/ x < i - 1
        BY <3>1, <2>1
      <4>2. f[x] <= f[i - 1]
        BY <4>1, <2>1, <2>3
      <4> QED BY <4>2, <2>1, <2>2, <2>3
    <3> QED BY <3>1
  <2> QED BY <2>1, <2>4, <2>5
<1> QED BY <1>2, <1>5, <1>6, <1>11

\* A page whose bounds are around the key is on the way to it.
Routed(P, L, lo, hi, top, key, h, at) ==
  /\ Forest(P, L, {top}, lo, hi) /\ L \subseteq Nat /\ P \in Seq(Node) /\ key \in Nat
  /\ Descent(P, L, lo, hi, top, key, h, at) /\ h = P[top].level

\* A page of the tree with the key in its bounds is on the key's way.
LEMMA OnlyOnTheWay ==
  ASSUME NEW P, NEW L, NEW lo, NEW hi, NEW top, NEW key, NEW h, NEW at,
         Routed(P, L, lo, hi, top, key, h, at), NEW p \in L, lo[p] <= key, key < hi[p]
  PROVE  P[p].level \in 0 .. h /\ p = at[P[p].level]
<1> USE DEF Routed
<1> DEFINE On(x) == P[x].level \in 0 .. h /\ x = at[P[x].level]
           Off == {x \in L : lo[x] <= key /\ key < hi[x] /\ ~ On(x)}
<1>3. ASSUME NEW x \in Off PROVE \E y \in Off : P[y].level = P[x].level + 1
  <2>1. x \in L /\ lo[x] <= key /\ key < hi[x] /\ ~ On(x)
    OBVIOUS
  <2>2. x # top
    <3>1. h \in Nat /\ at[h] = top
      BY DEF Descent
    <3> QED BY <3>1, <2>1
  <2>3. PICK y \in L : Under(P, lo, hi, x, y)
    BY <2>1, <2>2, UnderParent
  <2>4. lo[y] <= key /\ key < hi[y]
    <3>1. PICK M \in Nat : M = Len(P[y].keys)
      BY <2>3 DEF Under
    <3>2. PICK f : f = [z \in 0 .. M + 1 |-> Fence(P[y].keys, lo[y], hi[y], z)]
      OBVIOUS
    <3>3. PICK i \in 1 .. M + 1 : lo[x] = f[i - 1] /\ hi[x] = f[i]
      BY <2>3, <3>1, <3>2 DEF Under
    <3>4. \A z, u \in 0 .. M + 1 : f[z] \in Nat /\ (z < u => f[z] < f[u])
      BY <2>3, <3>1, <3>2 DEF Under
    <3>5. f[0] = lo[y] /\ f[M + 1] = hi[y]
      <4>1. 0 \in 0 .. M + 1 /\ M + 1 \in 0 .. M + 1 /\ M + 1 # 0
        OBVIOUS
      <4> QED BY <4>1, <3>1, <3>2 DEF Fence
    <3>6. f[0] <= f[i - 1] /\ f[i] <= f[M + 1]
      <4>0. /\ i - 1 \in 0 .. M + 1 /\ i \in 0 .. M + 1 /\ 0 \in 0 .. M + 1 /\ M + 1 \in 0 .. M + 1
            /\ (i - 1 = 0 \/ 0 < i - 1) /\ (i = M + 1 \/ i < M + 1)
        OBVIOUS
      <4>1. f[0] <= f[i - 1]
        BY <4>0, <3>4
      <4>2. f[i] <= f[M + 1]
        BY <4>0, <3>4
      <4> QED BY <4>1, <4>2
    <3> QED BY <3>3, <3>4, <3>5, <3>6, <2>1, SMTT(60)
  <2>5. ~ On(y)
    BY <2>1, <2>3, NextOnTheWay
  <2>6. P[y].level = P[x].level + 1
    BY <2>3 DEF Under
  <2> QED BY <2>3, <2>4, <2>5, <2>6
<1>4. Off = {}
  <2>1. L \subseteq DOMAIN P /\ L \in SUBSET Nat /\ Off \subseteq L
    BY DEF Forest
  <2> HIDE DEF Off
  <2> QED BY <2>1, <1>3, NoneAscends
<1> QED BY <1>4

\* The leaf on the way to a key, and no other page, can hold it.
LEMMA HeldOnTheWay ==
  ASSUME NEW t, NEW L, NEW lo, NEW hi, TreeOn(t, L, lo, hi), NEW key \in Keys, NEW h, NEW at,
         OnTheWay(t, L, lo, hi, key, h, at)
  PROVE  /\ key \in Held(t.pages, L) <=> key \in ToSet(t.pages[at[0]].keys)
         /\ key \notin Held(t.pages, L \ Way(at, 0, h))
<1>1. PICK P, top : P = t.pages /\ top = t.root
  OBVIOUS
<1>2. /\ h \in Nat /\ h = P[top].level /\ L \subseteq Nat /\ Forest(P, L, {top}, lo, hi)
      /\ Descent(P, L, lo, hi, top, key, h, at)
  BY <1>1 DEF OnTheWay
<1>3. P \in Seq(Node)
  BY <1>1 DEF TreeOn, Sound, WorkType, Work
<1>4. key \in Nat
  BY SizesAssumption
<1>5. ASSUME NEW p \in L, IsLeaf(P[p]), key \in ToSet(P[p].keys) PROVE p = at[0]
  <2>1. Ready(P, L \ {top}, lo, hi, P[p], lo[p], hi[p])
    BY <1>2, PageFacts
  <2>2. PICK i \in DOMAIN P[p].keys : key = P[p].keys[i]
    BY <1>5 DEF ToSet
  <2>3. lo[p] <= key /\ key < hi[p]
    BY <2>1, <2>2 DEF Ready, Spans
  <2>4. p = at[P[p].level]
    <3>1. p \in L
      OBVIOUS
    <3>2. Routed(P, L, lo, hi, top, key, h, at)
      BY <1>2, <1>3, <1>4 DEF Routed
    <3> QED BY <3>1, <3>2, <2>3, OnlyOnTheWay
  <2> QED BY <2>4, <1>5 DEF IsLeaf
<1>6. 0 \in 0 .. h /\ at[0] \in L /\ IsLeaf(P[at[0]]) /\ at[0] \in Way(at, 0, h)
  <2>1. 0 \in 0 .. h
    BY <1>2
  <2> QED BY <2>1, <1>2 DEF Descent, OnPath, IsLeaf, Way
<1>7. key \in Held(P, L) <=> key \in ToSet(P[at[0]].keys)
  BY <1>5, <1>6 DEF Held
<1>8. key \notin Held(P, L \ Way(at, 0, h))
  BY <1>5, <1>6 DEF Held
<1> QED BY <1>1, <1>7, <1>8

(* A leaf with a key less.                                                 *)
LeafWithout(keys, key, u, a, b) ==
  /\ LeafReady(u, a, b) /\ ToSet(u) = ToSet(keys) \ {key}
  /\ Total(LeafSize, u) \in Nat /\ Total(LeafSize, u) <= Total(LeafSize, keys)

\* Without takes the key out of a leaf.
LEMMA WithoutIs ==
  ASSUME NEW a \in Nat, NEW b \in Nat, NEW keys, LeafReady(keys, a, b), NEW key \in ToSet(keys)
  PROVE  LeafWithout(keys, key, Without(keys, key), a, b)
<1>1. keys \in Seq(Keys)
  BY DEF LeafReady
<1>2. PICK N \in Nat : N = Len(keys) /\ DOMAIN keys = 1 .. N
  BY <1>1
<1>3. \A x \in 1 .. N : keys[x] \in Nat /\ a <= keys[x] /\ keys[x] < b
  BY <1>1, <1>2, KeysAreNat DEF LeafReady
<1>4. \A x, y \in 1 .. N : x < y => keys[x] < keys[y]
  BY <1>2 DEF LeafReady, Increasing
<1>5. PICK i : i = CHOOSE x \in DOMAIN keys : keys[x] = key
  OBVIOUS
<1>6. i \in DOMAIN keys /\ keys[i] = key
  <2>1. \E x \in DOMAIN keys : keys[x] = key
    BY DEF ToSet
  <2> QED BY <2>1, <1>5, Zenon
<1>7. i \in 1 .. Len(keys) /\ i \in 1 .. N
  BY <1>2, <1>6
<1>8. PICK u : u = RemoveAt(keys, i)
  OBVIOUS
<1>9. u = Without(keys, key)
  BY <1>5, <1>8, Zenon DEF Without
<1>10. /\ u \in Seq(Keys) /\ Len(u) = N - 1 /\ \A x \in 1 .. i - 1 : u[x] = keys[x]
       /\ \A x \in i .. N - 1 : u[x] = keys[x + 1]
  BY <1>1, <1>2, <1>7, <1>8, RemoveAtIs
<1>11. DOMAIN u = 1 .. N - 1 /\ N - 1 \in Nat
  BY <1>7, <1>10
<1>12. ASSUME NEW x \in 1 .. N - 1
       PROVE  \E y \in 1 .. N : y # i /\ u[x] = keys[y] /\ y = IF x < i THEN x ELSE x + 1
  <2>1. CASE x < i
    <3>1. x \in 1 .. i - 1 /\ x \in 1 .. N
      BY <2>1, <1>7
    <3>2. x # i /\ u[x] = keys[x]
      BY <3>1, <2>1, <1>10
    <3> QED BY <3>1, <3>2, <2>1
  <2>2. CASE ~ (x < i)
    <3>1. x \in i .. N - 1 /\ x + 1 \in 1 .. N /\ x + 1 # i /\ x >= i
      BY <2>2, <1>7
    <3> QED BY <3>1, <2>2, <1>10
  <2> QED BY <2>1, <2>2
<1>13. Increasing(u)
  <2>1. ASSUME NEW x \in 1 .. N - 1, NEW y \in 1 .. N - 1, x < y PROVE u[x] < u[y]
    <3>1. PICK c \in 1 .. N : u[x] = keys[c] /\ c = IF x < i THEN x ELSE x + 1
      BY <1>12
    <3>2. PICK d \in 1 .. N : u[y] = keys[d] /\ d = IF y < i THEN y ELSE y + 1
      BY <1>12
    <3>3. c < d
      BY <3>1, <3>2, <2>1, <1>7
    <3> QED BY <3>1, <3>2, <3>3, <1>4
  <2> QED BY <2>1, <1>11 DEF Increasing
<1>14. \A x \in 1 .. Len(u) : a <= u[x] /\ u[x] < b
  BY <1>3, <1>10, <1>12
<1>15. a < b
  BY DEF LeafReady
<1>16. ToSet(u) = ToSet(keys) \ {key}
  <2>1. ASSUME NEW k \in ToSet(u) PROVE k \in ToSet(keys) \ {key}
    <3>1. PICK x \in 1 .. N - 1 : k = u[x]
      BY <1>11 DEF ToSet
    <3>2. PICK y \in 1 .. N : y # i /\ u[x] = keys[y]
      BY <1>12
    <3>3. keys[y] # keys[i]
      <4>1. y < i \/ i < y
        BY <3>2, <1>7
      <4>2. keys[y] < keys[i] \/ keys[i] < keys[y]
        BY <4>1, <1>4, <1>7
      <4> QED BY <4>2, <1>3, <1>7
    <3> QED BY <3>1, <3>2, <3>3, <1>2, <1>6 DEF ToSet
  <2>2. ASSUME NEW k \in ToSet(keys), k # key PROVE k \in ToSet(u)
    <3>1. PICK y \in 1 .. N : k = keys[y]
      BY <1>2 DEF ToSet
    <3>2. CASE y < i
      <4>1. y \in 1 .. i - 1 /\ y \in 1 .. N - 1
        BY <3>2, <1>7
      <4> QED BY <3>1, <4>1, <1>10, <1>11 DEF ToSet
    <3>3. CASE y > i
      <4>1. y - 1 \in i .. N - 1 /\ y - 1 \in 1 .. N - 1 /\ (y - 1) + 1 = y
        BY <3>3, <1>7
      <4>2. u[y - 1] = keys[y]
        BY <4>1, <1>10
      <4> QED BY <3>1, <4>1, <4>2, <1>11 DEF ToSet
    <3>4. CASE y = i
      BY <3>1, <3>4, <2>2, <1>6
    <3> QED BY <3>2, <3>3, <3>4, <1>7
  <2> QED BY <2>1, <2>2
<1>17. LeafReady(u, a, b)
  BY <1>10, <1>13, <1>14, <1>15 DEF LeafReady
<1>18. Total(LeafSize, u) \in Nat /\ Total(LeafSize, u) <= Total(LeafSize, keys)
  <2>1. LeafSize \in [Keys -> Nat]
    BY SizesAssumption
  <2> QED BY <2>1, <1>1, <1>7, <1>8, RemovedTotal
<1> QED BY <1>9, <1>16, <1>17, <1>18 DEF LeafWithout

-----------------------------------------------------------------------------
(* Delete: the leaf, and the whole way.                                    *)

\* The leaf without the key, on a page of its own.
LEMMA LeafShrunk ==
  ASSUME NEW t, NEW L, NEW lo, NEW hi, TreeOn(t, L, lo, hi), NEW key \in Keys, NEW h, NEW at,
         OnTheWay(t, L, lo, hi, key, h, at), key \in ToSet(t.pages[at[0]].keys),
         NEW w, w = PutAll(Displace(Work(t), <<at[0]>>), <<Leaf(Without(t.pages[at[0]].keys, key))>>)
  PROVE  Shrunk(t.pages, lo, hi, at, h, w, 0, Held(t.pages, L) \ {key})
<1>1. TakenOut(t, L, lo, hi, h, at)
  BY WayTakenOut
<1>2. PICK keys, p : keys = t.pages[at[0]].keys /\ p = at[0]
  OBVIOUS
<1>3. PICK a \in Nat, b \in Nat : a = lo[p] /\ b = hi[p]
  BY <1>1, <1>2 DEF TakenOut
<1>4. LeafReady(keys, a, b) /\ Total(LeafSize, keys) <= Capacity
  BY <1>1, <1>2, <1>3 DEF TakenOut
<1>5. PICK u : u = Without(keys, key)
  OBVIOUS
<1>6. LeafWithout(keys, key, u, a, b)
  <2>1. key \in ToSet(keys)
    BY <1>2
  <2> QED BY <2>1, <1>4, <1>5, WithoutIs
<1>7. PICK n : n = Leaf(u)
  OBVIOUS
<1>8. PICK L0, R, D : L0 = L \ Way(at, 0, h) /\ R = Above(t.pages, at, 0, h) /\ D = Way(at, 0, h)
  OBVIOUS
<1>9. PICK z, o : o = <<p>> /\ z = Displace(Work(t), o)
  OBVIOUS
<1>10. h \in Nat /\ Beside(t.pages, L, at, h) /\ 0 \in 0 .. h /\ p \in Nat
  <2>1. h \in Nat /\ Beside(t.pages, L, at, h) /\ L \subseteq Nat
    BY DEF OnTheWay
  <2>2. 0 \in 0 .. h
    BY <2>1
  <2> QED BY <2>1, <2>2, <1>2 DEF Beside
<1>11. o \in Seq(Nat)
  BY <1>9, <1>10
<1>12. /\ Sound(Work(t), L0, R, lo, hi, D) /\ Work(t).pages = t.pages /\ Work(t).freed = <<>>
  BY <1>1, <1>8 DEF TakenOut, Work
<1>13. Sound(z, L0, R, lo, hi, D) /\ z.pages = t.pages
  BY <1>9, <1>11, <1>12, DisplacedSound
<1>14. z.freed = o
  <2>1. Work(t) \in WorkType
    BY <1>12 DEF Sound
  <2>2. z.freed = <<>> \o o
    <3>1. Displace(Work(t), o).freed = Work(t).freed \o o
      BY <2>1, <1>11, DisplaceIs, Zenon
    <3> QED BY <3>1, <1>9, <1>12, Zenon
  <2> QED BY <2>2, <1>11
<1>15. Ready(z.pages, R, lo, hi, n, a, b)
  <2>1. LeafReady(u, a, b)
    BY <1>6 DEF LeafWithout
  <2> QED BY <2>1, <1>7, ReadyLeaf
<1>16. Occupied(n) <= Capacity
  <2>1. IsLeaf(n) /\ n.keys = u
    BY <1>7, LeafFields
  <2>2. Capacity \in Nat /\ Total(LeafSize, keys) \in Nat
    <3>1. LeafSize \in [Keys -> Nat] /\ keys \in Seq(Keys)
      BY <1>4, SizesAssumption DEF LeafReady
    <3> QED BY <3>1, TotalNat, SizesAssumption
  <2>3. Total(LeafSize, u) \in Nat /\ Total(LeafSize, u) <= Total(LeafSize, keys)
    BY <1>6 DEF LeafWithout
  <2>4. Total(LeafSize, u) <= Capacity
    BY <2>2, <2>3, <1>4
  <2> QED BY <2>1, <2>4 DEF Occupied
<1>17. w = PutAll(z, <<n>>)
  BY <1>2, <1>5, <1>7, <1>9
<1>18. PICK lo2, hi2 : /\ Rewritten(z, w, L0, R, lo, hi, D, n, a, b, lo2, hi2)
                       /\ Len(w.ids) = 1 /\ w.keys = <<>>
  BY <1>13, <1>15, <1>16, <1>17, OneRewritten
<1>19. n.level = 0 /\ ToSet(n.kids) = {} /\ HeldIn(n) = ToSet(keys) \ {key}
  BY <1>6, <1>7, LeafFields DEF LeafWithout
<1>20. PICK L2 : L2 = L0 \union ToSet(w.ids)
  OBVIOUS
<1>21. Sound(w, L2, R \union ToSet(w.ids), lo2, hi2, D)
  <2>1. Sound(w, L2, (R \ ToSet(n.kids)) \union ToSet(w.ids), lo2, hi2, D)
    BY <1>18, <1>20 DEF Rewritten
  <2>2. R \ ToSet(n.kids) = R
    BY <1>19
  <2> QED BY <2>1, <2>2
<1>22. Carried(t.pages, w.pages, lo, hi, lo2, hi2, R)
  <2>1. R \subseteq L0
    BY <1>12 DEF Sound, Forest
  <2> QED BY <2>1, <1>13, <1>18 DEF Rewritten, Carried
<1>23. D = Way(at, 0 + 1, h) \union {p} /\ p \notin Way(at, 0 + 1, h)
  BY <1>2, <1>8, <1>10, WayFrom
<1>24. Way(at, 0 + 1, h) \subseteq D /\ Same(t.pages, w.pages, Way(at, 0 + 1, h))
  BY <1>13, <1>18, <1>23 DEF Rewritten, Same
<1>25. /\ Row(w.pages, ToSet(w.ids), lo2, hi2, 0 + 1, w.keys, w.ids, lo[at[0]], hi[at[0]])
       /\ Len(w.keys) <= 2 /\ w.freed = o
       /\ Held(w.pages, L2) = Held(t.pages, L0) \union (ToSet(keys) \ {key})
  BY <1>2, <1>3, <1>13, <1>14, <1>18, <1>19, <1>20 DEF Rewritten
<1>26. Climb(t.pages, lo, hi, at, h, w, L2, lo2, hi2, D, 0)
  BY <1>8, <1>21, <1>22, <1>24, <1>25 DEF Climb
<1>27. Held(w.pages, L2) = Held(t.pages, L) \ {key}
  <2>1. Held(t.pages, L) = Held(t.pages, L0) \union ToSet(keys)
    BY <1>1, <1>2, <1>8 DEF TakenOut
  <2>2. key \notin Held(t.pages, L0)
    BY <1>8, HeldOnTheWay
  <2> QED BY <2>1, <2>2, <1>25
<1>28. IsInjective(o) /\ ToSet(o) = {p}
  BY <1>9 DEF IsInjective, ToSet
<1>29. /\ D = ToSet(w.freed) \union Way(at, 0 + 1, h) /\ IsInjective(w.freed)
       /\ ToSet(w.freed) \cap Way(at, 0 + 1, h) = {}
  BY <1>23, <1>25, <1>28
<1>30. Shrinks(t.pages, lo, hi, at, h, w, L2, lo2, hi2, D, 0, Held(t.pages, L) \ {key})
  BY <1>18, <1>26, <1>27, <1>29 DEF Shrinks
<1> QED BY <1>30 DEF Shrunk

ShrinkSteps(t, key, h, at, f) ==
  /\ f[0] = PutAll(Displace(Work(t), <<at[0]>>), <<Leaf(Without(t.pages[at[0]].keys, key))>>)
  /\ \A l \in 1 .. h : f[l] = Processed(f[l - 1], at[l], ChildIndex(f[l - 1].pages[at[l]], key))

\* The recursive function in Deleted exists.
LEMMA DeletedSteps ==
  ASSUME NEW t, NEW key, NEW h \in Nat, h = t.pages[t.root].level, NEW at, at = Path(t, t.root, key)
  PROVE  \E f : ShrinkSteps(t, key, h, at, f) /\ Deleted(t, key) = Finished(Collapsed(f[h]))
<1> DEFINE top == t.pages[t.root].level
           way == Path(t, t.root, key)
           First == PutAll(Displace(Work(t), <<way[0]>>), <<Leaf(Without(t.pages[way[0]].keys, key))>>)
           Next1(g, l) == Processed(g, way[l], ChildIndex(g.pages[way[l]], key))
           Rec(g, n) == g = [l \in 0 .. n |-> IF l = 0 THEN First ELSE Next1(g[l - 1], l)]
<1>0. top = h /\ way = at
  OBVIOUS
<1> HIDE DEF Next1, First, way, top
<1>1. \A n \in Nat : \E g : Rec(g, n)
  <2> DEFINE Bad == {n \in Nat : ~ \E g : Rec(g, n)}
  <2> SUFFICES ASSUME Bad # {} PROVE FALSE
    OBVIOUS
  <2>0. Bad \subseteq Nat
    OBVIOUS
  <2>1. PICK m \in Nat : m \in Bad /\ \A n \in Bad : m <= n
    BY <2>0, LeastNatural
  <2>2. m # 0
    <3> DEFINE g == [i \in 0 .. 0 |-> First]
    <3>1. Rec(g, 0)
      OBVIOUS
    <3> QED BY <2>1, <3>1
  <2>3. m - 1 \in Nat /\ m - 1 \notin Bad
    <3> HIDE DEF Bad
    <3> QED BY <2>1, <2>2
  <2>4. PICK g : Rec(g, m - 1)
    BY <2>3
  <2> DEFINE e == [i \in 0 .. m |-> IF i < m THEN g[i] ELSE Next1(g[m - 1], m)]
  <2>5. Rec(e, m)
    <3>1. ASSUME NEW i \in 0 .. m
          PROVE  e[i] = IF i = 0 THEN First ELSE Next1(e[i - 1], i)
      BY <2>3, <2>4
    <3> QED BY <3>1, Zenon
  <2> QED BY <2>5, <2>1
<1> HIDE DEF Rec
<1> DEFINE f == CHOOSE g : Rec(g, top)
<1>2. Rec(f, top)
  BY <1>0, <1>1, Zenon
<1>3. Deleted(t, key) = Finished(Collapsed(f[top]))
  BY Zenon DEF Deleted, Rec, Next1, First, way, top
<1> HIDE DEF f
<1>4. Deleted(t, key) = Finished(Collapsed(f[h]))
  BY <1>0, <1>3, Zenon
<1>5. ShrinkSteps(t, key, h, at, f)
  <2>1. f = [l \in 0 .. h |-> IF l = 0 THEN First ELSE Next1(f[l - 1], l)]
    BY <1>0, <1>2 DEF Rec
  <2>2. f[0] = First /\ \A l \in 1 .. h : f[l] = Next1(f[l - 1], l)
    BY <2>1
  <2>3. f[0] = PutAll(Displace(Work(t), <<at[0]>>), <<Leaf(Without(t.pages[at[0]].keys, key))>>)
    BY <2>2, <1>0 DEF First
  <2>4. ASSUME NEW l \in 1 .. h
        PROVE f[l] = Processed(f[l - 1], at[l], ChildIndex(f[l - 1].pages[at[l]], key))
    BY <2>2, <1>0 DEF Next1
  <2> QED BY <2>3, <2>4 DEF ShrinkSteps
<1> QED BY <1>4, <1>5

\* What is left at the root.
LEMMA ShrunkToRoot ==
  ASSUME NEW t, NEW L, NEW lo, NEW hi, TreeOn(t, L, lo, hi), NEW key \in Keys, NEW h, NEW at,
         OnTheWay(t, L, lo, hi, key, h, at), key \in ToSet(t.pages[at[0]].keys),
         NEW f, ShrinkSteps(t, key, h, at, f)
  PROVE  Shrunk(t.pages, lo, hi, at, h, f[h], h, Held(t.pages, L) \ {key})
<1>0. PICK P, H, r : P = t.pages /\ H = Held(t.pages, L) \ {key} /\ r = t.root
  OBVIOUS
<1> DEFINE Good(l) == Shrunk(P, lo, hi, at, h, f[l], l, H)
           Bad == {l \in 0 .. h : ~ Good(l)}
<1>1. /\ h \in Nat /\ Forest(P, L, {r}, lo, hi) /\ L \subseteq Nat
      /\ Descent(P, L, lo, hi, r, key, h, at) /\ Beside(P, L, at, h)
  BY <1>0 DEF OnTheWay
<1>2. Good(0)
  BY <1>0, LeafShrunk DEF ShrinkSteps
<1>3. ASSUME NEW l \in 1 .. h, Good(l - 1) PROVE Good(l)
  <2>1. PICK w, v : w = f[l - 1] /\ v = f[l]
    OBVIOUS
  <2>2. v = Processed(w, at[l], ChildIndex(w.pages[at[l]], key))
    BY <2>1 DEF ShrinkSteps
  <2>3. Shrunk(P, lo, hi, at, h, w, l - 1, H)
    BY <2>1, <1>3
  <2>4. Shrunk(P, lo, hi, at, h, v, l, H)
    BY <2>2, <2>3, <1>1, ProcessedShrinks
  <2> QED BY <2>1, <2>4
<1> HIDE DEF Good
<1>4. Bad = {}
  <2> SUFFICES ASSUME Bad # {} PROVE FALSE
    OBVIOUS
  <2>0. Bad \subseteq Nat
    OBVIOUS
  <2>1. PICK m \in 0 .. h : m \in Bad /\ \A n \in Bad : m <= n
    BY <2>0, LeastNatural
  <2>2. m # 0
    BY <2>1, <1>2
  <2>3. m - 1 \notin Bad /\ m \in 1 .. h /\ m - 1 \in 0 .. h
    <3>1. ~ (m <= m - 1) /\ m \in 1 .. h /\ m - 1 \in 0 .. h
      BY <2>1, <2>2, <1>1
    <3> HIDE DEF Bad
    <3> QED BY <2>1, <3>1
  <2> QED BY <2>1, <2>3, <1>3
<1>5. Good(h)
  <2>1. h \in 0 .. h
    BY <1>1
  <2> QED BY <2>1, <1>4
<1> QED BY <1>0, <1>5 DEF Good

-----------------------------------------------------------------------------
(* Collapsing the root.                                                    *)

(* The nodes on the way above level k have no pivot.                       *)
Thin(P, at, k, h) == \A l \in k + 1 .. h : P[at[l]].keys = <<>>

(* A node of one child, on the way.                                        *)
OneChild(P, lo, hi, at, l) ==
  /\ ToSet(P[at[l]].kids) = {at[l - 1]}
  /\ lo[at[l - 1]] = lo[at[l]] /\ hi[at[l - 1]] = hi[at[l]] /\ ~ IsLeaf(P[at[l]])

\* A node without pivots has one child, with its bounds.
LEMMA ThinStep ==
  ASSUME NEW P, NEW L, NEW lo, NEW hi, NEW top, NEW R, Forest(P, L, R, lo, hi), L \subseteq Nat,
         NEW key, NEW h, NEW at, Descent(P, L, lo, hi, top, key, h, at), NEW l \in 1 .. h,
         P[at[l]].keys = <<>>
  PROVE  OneChild(P, lo, hi, at, l)
<1>1. h \in Nat /\ l \in 0 .. h /\ l \in Nat /\ l # 0
  BY DEF Descent
<1>2. PICK q, p : q = at[l] /\ p = at[l - 1]
  OBVIOUS
<1>3. q \in L /\ P[q].level = l /\ StepDown(P, lo, hi, key, q, p)
  BY <1>1, <1>2 DEF Descent, OnPath
<1>4. PICK n, a, b : n = P[q] /\ a = lo[q] /\ b = hi[q]
  OBVIOUS
<1>5. Row(P, L \ R, lo, hi, l, n.keys, n.kids, a, b)
  <2>1. P[q].level # 0
    BY <1>1, <1>3
  <2> QED BY <2>1, <1>3, <1>4, PageFacts
<1>6. n.keys = <<>> /\ Len(n.keys) = 0
  BY <1>2, <1>4
<1>7. PICK i : /\ i \in 1 .. Len(n.keys) + 1 /\ p = n.kids[i]
               /\ lo[p] = Fence(n.keys, a, b, i - 1) /\ hi[p] = Fence(n.keys, a, b, i)
  BY <1>3, <1>4 DEF StepDown
<1>8. i = 1
  BY <1>6, <1>7
<1>9. lo[p] = a /\ hi[p] = b /\ p = n.kids[1]
  BY <1>6, <1>7, <1>8 DEF Fence
<1>10. n.kids \in Seq(Nat) /\ Len(n.kids) = 1
  BY <1>5, <1>6 DEF Row
<1>11. ToSet(n.kids) = {p}
  <2>1. DOMAIN n.kids = {1}
    BY <1>10
  <2> QED BY <2>1, <1>9 DEF ToSet
<1>12. ~ IsLeaf(n)
  BY <1>1, <1>3, <1>4 DEF IsLeaf
<1> QED BY <1>2, <1>4, <1>9, <1>11, <1>12 DEF OneChild

(* The tree under page p.                                                  *)
Subtree(P, L, L2, lo, hi, top, p) ==
  /\ Forest(P, L2, {p}, lo, hi) /\ lo[p] = lo[top] /\ hi[p] = hi[top]
  /\ Held(P, L2) = Held(P, L)

\* The subtree below the nodes without pivots.
LEMMA ThinWay ==
  ASSUME NEW P, NEW L, NEW lo, NEW hi, NEW top, Forest(P, L, {top}, lo, hi), L \subseteq Nat,
         NEW key, NEW h, NEW at, Descent(P, L, lo, hi, top, key, h, at), Beside(P, L, at, h),
         NEW k \in 0 .. h, Thin(P, at, k, h)
  PROVE  Subtree(P, L, L \ Way(at, k + 1, h), lo, hi, top, at[k])
<1>1. h \in Nat /\ at[h] = top /\ k \in Nat
  BY DEF Descent
<1>2. \A l \in k + 1 .. h : l \in 1 .. h /\ OneChild(P, lo, hi, at, l)
  <2>1. ASSUME NEW l \in k + 1 .. h PROVE l \in 1 .. h /\ OneChild(P, lo, hi, at, l)
    <3>1. l \in 1 .. h
      BY <1>1
    <3>2. P[at[l]].keys = <<>>
      BY DEF Thin
    <3> QED BY <3>1, <3>2, ThinStep
  <2> QED BY <2>1
<1>3. lo[at[k]] = lo[top] /\ hi[at[k]] = hi[top]
  <2> DEFINE S == {l \in 0 .. h : l < k \/ (lo[at[l]] = lo[top] /\ hi[at[l]] = hi[top])}
  <2>1. h \in S
    BY <1>1
  <2>2. ASSUME NEW l \in 1 .. h, l \in S PROVE l - 1 \in S
    <3>1. CASE l <= k
      <4>1. PICK m \in 0 .. h : m = l - 1 /\ m < k
        BY <3>1, <1>1
      <4>2. m \in S
        BY <4>1
      <4> QED BY <4>1, <4>2
    <3>2. CASE ~ (l <= k)
      <4>1. l \in k + 1 .. h /\ ~ (l < k) /\ l - 1 \in 0 .. h
        BY <3>2, <1>1
      <4>2. lo[at[l - 1]] = lo[at[l]] /\ hi[at[l - 1]] = hi[at[l]]
        BY <4>1, <1>2 DEF OneChild
      <4> QED BY <4>1, <4>2, <2>2
    <3> QED BY <3>1, <3>2
  <2>3. k \in S
    <3> HIDE DEF S
    <3> QED BY <2>1, <2>2, <1>1, DownTo
  <2> QED BY <2>3, <1>1
<1>4. Forest(P, L \ Way(at, k + 1, h), {at[k]}, lo, hi)
  <2>1. CASE k = h
    <3>1. Way(at, k + 1, h) = {}
      BY <2>1, <1>1 DEF Way
    <3> QED BY <3>1, <2>1, <1>1
  <2>2. CASE k # h
    <3>1. k + 1 \in k + 1 .. h /\ k + 1 \in 0 .. h /\ (k + 1) - 1 = k
      BY <2>2, <1>1
    <3>2. ToSet(P[at[k + 1]].kids) = {at[k]}
      BY <3>1, <1>2 DEF OneChild
    <3>3. \A l \in (k + 1) + 1 .. h : Side(P, at, l) = {}
      <4>1. \A l \in (k + 1) + 1 .. h : l \in k + 1 .. h
        BY <1>1
      <4> QED BY <4>1, <1>2 DEF OneChild, Side
    <3>4. Above(P, at, k + 1, h) = {}
      BY <3>3 DEF Above
    <3>5. Forest(P, L \ Way(at, k + 1, h), Above(P, at, k + 1, h) \union ToSet(P[at[k + 1]].kids), lo, hi)
      BY <3>1, <1>1, UprootWay
    <3>6. Above(P, at, k + 1, h) \union ToSet(P[at[k + 1]].kids) = {at[k]}
      BY <3>2, <3>4
    <3> QED BY <3>5, <3>6
  <2> QED BY <2>1, <2>2
<1>5. Held(P, L \ Way(at, k + 1, h)) = Held(P, L)
  <2>1. \A x \in Way(at, k + 1, h) : ~ IsLeaf(P[x])
    BY <1>2 DEF Way, OneChild
  <2> QED BY <2>1 DEF Held
<1> QED BY <1>3, <1>4, <1>5 DEF Subtree

(* The way downwards to level k + 1, as a sequence.                        *)
Downward(s, at, k, h) == s = [j \in 1 .. h - k |-> at[h + 1 - j]]

\* The pages on the way, downwards, are different pages.
LEMMA WayDown ==
  ASSUME NEW P, NEW L, NEW h \in Nat, NEW at, Beside(P, L, at, h), L \subseteq Nat, NEW k \in 0 .. h,
         NEW s, Downward(s, at, k, h)
  PROVE  s \in Seq(Nat) /\ IsInjective(s) /\ ToSet(s) = Way(at, k + 1, h)
<1>1. PICK m \in Nat : m = h - k
  OBVIOUS
<1>2. s = [j \in 1 .. m |-> at[h + 1 - j]]
  BY <1>1 DEF Downward
<1>3. \A j \in 1 .. m : h + 1 - j \in k + 1 .. h /\ h + 1 - j \in 0 .. h
  BY <1>1
<1>4. \A l \in 0 .. h : at[l] \in Nat /\ P[at[l]].level = l
  BY DEF Beside
<1>5. s \in Seq(Nat) /\ DOMAIN s = 1 .. m
  <2>1. \A j \in 1 .. m : s[j] \in Nat
    BY <1>2, <1>3, <1>4
  <2>2. s \in [1 .. m -> Nat]
    BY <2>1, <1>2
  <2> QED BY <2>2
<1>6. IsInjective(s)
  <2>1. ASSUME NEW i \in 1 .. m, NEW j \in 1 .. m, s[i] = s[j] PROVE i = j
    <3>1. at[h + 1 - i] = at[h + 1 - j]
      BY <2>1, <1>2
    <3>2. h + 1 - i = h + 1 - j
      BY <3>1, <1>3, <1>4
    <3> QED BY <3>2
  <2> QED BY <2>1, <1>5, Zenon DEF IsInjective
<1>7. ToSet(s) = Way(at, k + 1, h)
  <2>1. \A j \in 1 .. m : s[j] \in Way(at, k + 1, h)
    BY <1>2, <1>3 DEF Way
  <2>2. ASSUME NEW l \in k + 1 .. h PROVE at[l] \in ToSet(s)
    <3>1. PICK j \in 1 .. m : j = h + 1 - l /\ h + 1 - j = l
      BY <1>1
    <3>2. s[j] = at[l]
      BY <3>1, <1>2
    <3> QED BY <3>1, <3>2, <1>5 DEF ToSet
  <2> QED BY <2>1, <2>2, <1>5 DEF ToSet, Way
<1> QED BY <1>5, <1>6, <1>7

(* The one page of w is the root of its tree, whose keys are from 0 on.    *)
Rooting(w, L, lo, hi, D, root, b, H) ==
  /\ w.ids = <<root>> /\ root \in Nat /\ Sound(w, L, {root}, lo, hi, D)
  /\ lo[root] = 0 /\ hi[root] = b /\ 0 < b /\ b \in Nat
  /\ IsInjective(w.freed) /\ D = ToSet(w.freed) /\ Held(w.pages, L) = H

\* The level of the first node on the way that has pivots, or of the leaf.
LEMMA TopIs ==
  ASSUME NEW P, NEW at, NEW h \in Nat,
         NEW k, k = Min({l \in 0 .. h : \A m \in l + 1 .. h : P[at[m]].keys = <<>>})
  PROVE  k \in 0 .. h /\ Thin(P, at, k, h)
<1> DEFINE S == {l \in 0 .. h : \A m \in l + 1 .. h : P[at[m]].keys = <<>>}
<1>1. S \subseteq Nat
  OBVIOUS
<1>2. h \in S
  OBVIOUS
<1>3. Min(S) \in S
  <2> HIDE DEF S
  <2> QED BY <1>1, <1>2, MinIn
<1>4. k \in S
  BY <1>3
<1> QED BY <1>4 DEF Thin

\* w with one page in place of its pages.
LEMMA IdsAre ==
  ASSUME NEW w \in WorkType, NEW x \in Nat, NEW v, v = [w EXCEPT !.ids = <<x>>]
  PROVE  /\ v \in WorkType /\ v.pages = w.pages /\ v.free = w.free /\ v.ids = <<x>>
         /\ v.freed = w.freed
<1>1. <<x>> \in Seq(Nat)
  OBVIOUS
<1> QED BY <1>1 DEF WorkType

\* collapse_root.
LEMMA CollapsedRoot ==
  ASSUME NEW w, NEW L, NEW lo, NEW hi, NEW D, NEW root, NEW b, NEW H,
         Rooting(w, L, lo, hi, D, root, b, H), NEW v, v = Collapsed(w)
  PROVE  \E L2, D2, root2 : Rooting(v, L2, lo, hi, D2, root2, b, H)
<1>1. PICK P, h, at : P = w.pages /\ h = P[root].level /\ at = Path(w, root, 0)
  OBVIOUS
<1>2. /\ Forest(P, L, {root}, lo, hi) /\ w \in WorkType /\ L \subseteq Nat /\ root \in L
      /\ D \subseteq Nat /\ L \cap D = {}
  <2>1. Sound(w, L, {root}, lo, hi, D)
    BY DEF Rooting
  <2> QED BY <2>1, <1>1, SoundNat DEF Sound
<1>3. 0 \in Nat /\ lo[root] <= 0 /\ 0 < hi[root]
  BY DEF Rooting
<1>4. Descent(P, L, lo, hi, root, 0, h, at)
  BY <1>1, <1>2, <1>3, Descends
<1>5. h \in Nat /\ at[h] = root
  BY <1>4 DEF Descent
<1>6. Beside(P, L, at, h)
  BY <1>2, <1>4, BesideTheWay
<1>7. PICK k : k = Min({l \in 0 .. h : \A m \in l + 1 .. h : P[at[m]].keys = <<>>})
  OBVIOUS
<1>8. k \in 0 .. h /\ Thin(P, at, k, h)
  BY <1>5, <1>7, TopIs
<1>9. PICK p, s, W : p = at[k] /\ s = [j \in 1 .. h - k |-> at[h + 1 - j]] /\ W = Way(at, k + 1, h)
  OBVIOUS
<1>10. Subtree(P, L, L \ W, lo, hi, root, p)
  BY <1>2, <1>4, <1>6, <1>8, <1>9, ThinWay
<1>11. s \in Seq(Nat) /\ IsInjective(s) /\ ToSet(s) = W
  <2>1. Downward(s, at, k, h)
    BY <1>9 DEF Downward
  <2>2. s \in Seq(Nat) /\ IsInjective(s) /\ ToSet(s) = Way(at, k + 1, h)
    <3>1. h \in Nat /\ k \in 0 .. h /\ L \subseteq Nat /\ Beside(P, L, at, h)
      BY <1>2, <1>5, <1>6, <1>8
    <3> QED BY <2>1, <3>1, WayDown
  <2> QED BY <2>2, <1>9
<1>12. PICK z : z = Displace(w, s)
  OBVIOUS
<1>13. v = [z EXCEPT !.ids = <<p>>]
  <2>1. w.ids[1] = root
    BY DEF Rooting
  <2> QED BY <2>1, <1>1, <1>7, <1>9, <1>12, Zenon DEF Collapsed
<1>14. /\ z \in WorkType /\ z.pages = P /\ z.free = w.free /\ z.freed = w.freed \o s
  BY <1>1, <1>2, <1>11, <1>12, DisplaceIs
<1>15. p \in L /\ p \in Nat /\ W \subseteq L
  <2>1. \A l \in k + 1 .. h : l \in 0 .. h
    BY <1>5, <1>8
  <2>2. \A l \in 0 .. h : at[l] \in L
    BY <1>6 DEF Beside
  <2>3. W \subseteq L
    BY <2>1, <2>2, <1>9 DEF Way
  <2> QED BY <2>2, <2>3, <1>2, <1>8, <1>9
<1>16. v \in WorkType /\ v.pages = P /\ v.free = w.free /\ v.ids = <<p>> /\ v.freed = w.freed \o s
  BY <1>13, <1>14, <1>15, IdsAre
<1>17. Accounted(P, w.free, L \ W, D \union W)
  <2>1. Accounted(P, w.free, L, D)
    BY <1>1 DEF Rooting, Sound
  <2> QED BY <2>1, <1>15, MovedOut
<1>18. Sound(v, L \ W, {p}, lo, hi, D \union W)
  BY <1>10, <1>16, <1>17 DEF Sound, Subtree
<1>19. /\ IsInjective(v.freed) /\ D \union W = ToSet(v.freed)
  <2>1. PICK F \in Seq(Nat) : F = w.freed
    BY <1>2 DEF WorkType
  <2>2. IsInjective(F) /\ D = ToSet(F)
    BY <2>1 DEF Rooting
  <2>3. ToSet(F) \cap ToSet(s) = {}
    BY <2>2, <1>2, <1>11, <1>15
  <2>4. IsInjective(F \o s) /\ ToSet(F \o s) = ToSet(F) \union ToSet(s)
    BY <2>2, <2>3, <1>11, InjectiveConcat
  <2> QED BY <2>1, <2>2, <2>4, <1>11, <1>16
<1>20. Held(v.pages, L \ W) = H /\ lo[p] = 0 /\ hi[p] = b
  BY <1>1, <1>10, <1>16 DEF Rooting, Subtree
<1>21. Rooting(v, L \ W, lo, hi, D \union W, p, b, H)
  BY <1>15, <1>16, <1>18, <1>19, <1>20 DEF Rooting
<1> QED BY <1>21

\* What is left at the root is a tree.
LEMMA ShrunkRooting ==
  ASSUME NEW P, NEW lo, NEW hi, NEW at, NEW h \in Nat, NEW w, NEW H, Shrunk(P, lo, hi, at, h, w, h, H),
         lo[at[h]] = 0, NEW b, b = hi[at[h]]
  PROVE  \E L, lo2, hi2, D, root : Rooting(w, L, lo2, hi2, D, root, b, H)
<1>1. PICK L, lo2, hi2, D : Shrinks(P, lo, hi, at, h, w, L, lo2, hi2, D, h, H)
  BY DEF Shrunk
<1>2. Above(P, at, h, h) = {} /\ Way(at, h + 1, h) = {}
  <2>1. h + 1 .. h = {}
    OBVIOUS
  <2> QED BY <2>1, AboveSteps DEF Way
<1>3. /\ Climb(P, lo, hi, at, h, w, L, lo2, hi2, D, h) /\ D = ToSet(w.freed)
      /\ Len(w.ids) = 1 /\ w.keys = <<>> /\ IsInjective(w.freed) /\ Held(w.pages, L) = H
  BY <1>1, <1>2 DEF Shrinks
<1>4. PICK ids : ids = w.ids
  OBVIOUS
<1>5. /\ Sound(w, L, ToSet(ids), lo2, hi2, D)
      /\ Row(w.pages, ToSet(ids), lo2, hi2, h + 1, <<>>, ids, 0, b)
  <2>1. {} \union ToSet(ids) = ToSet(ids)
    OBVIOUS
  <2> QED BY <2>1, <1>2, <1>3, <1>4 DEF Climb
<1>6. PICK root \in Nat : ids = <<root>> /\ root = ids[1] /\ ToSet(ids) = {root}
  <2>1. ids \in Seq(Nat) /\ Len(ids) = 1
    BY <1>3, <1>4, <1>5 DEF Row
  <2>2. PICK x \in Nat : x = ids[1]
    BY <2>1
  <2>3. ids = <<x>>
    BY <2>1, <2>2
  <2>4. ToSet(<<x>>) = {x}
    BY DEF ToSet
  <2> QED BY <2>2, <2>3, <2>4
<1>7. lo2[root] = 0 /\ hi2[root] = b /\ 0 < b
  <2>1. 1 \in 1 .. Len(<<>>) + 1 /\ Len(<<>>) = 0
    OBVIOUS
  <2>2. Fits(w.pages, ToSet(ids), lo2, hi2, h + 1, ids[1], Fence(<<>>, 0, b, 1 - 1), Fence(<<>>, 0, b, 1))
    BY <2>1, <1>5 DEF Row
  <2>3. Fence(<<>>, 0, b, 1 - 1) = 0 /\ Fence(<<>>, 0, b, 1) = b
    BY <2>1 DEF Fence
  <2> QED BY <2>2, <2>3, <1>6 DEF Fits
<1>8. b \in Nat
  BY <1>5, <1>7 DEF Sound, Forest
<1>9. Rooting(w, L, lo2, hi2, D, root, b, H)
  BY <1>3, <1>4, <1>5, <1>6, <1>7, <1>8 DEF Rooting
<1> QED BY <1>9

\* Delete takes its key out, and the tree stays one.
LEMMA DeletedSound ==
  ASSUME NEW t, NEW L, NEW lo, NEW hi, TreeOn(t, L, lo, hi), NEW key \in Keys,
         lo[t.root] = 0, key < hi[t.root],
         key \in ToSet(t.pages[LeafOf(t, t.root, key)].keys)
  PROVE  \E L2, lo2, hi2 :
           Changed(t, Deleted(t, key), lo, hi, L2, lo2, hi2, Held(t.pages, L) \ {key})
<1>1. PICK h, at : h = t.pages[t.root].level /\ at = Path(t, t.root, key)
  OBVIOUS
<1>2. OnTheWay(t, L, lo, hi, key, h, at)
  <2>1. key \in Nat /\ lo[t.root] <= key
    BY SizesAssumption
  <2> QED BY <2>1, <1>1, WayIs
<1>3. h \in Nat /\ at[h] = t.root
  BY <1>2 DEF OnTheWay
<1>4. PICK f : ShrinkSteps(t, key, h, at, f) /\ Deleted(t, key) = Finished(Collapsed(f[h]))
  BY <1>1, <1>3, DeletedSteps
<1>5. key \in ToSet(t.pages[at[0]].keys)
  BY <1>1 DEF LeafOf
<1>6. PICK w, H, b : w = f[h] /\ H = Held(t.pages, L) \ {key} /\ b = hi[t.root]
  OBVIOUS
<1>7. Shrunk(t.pages, lo, hi, at, h, w, h, H)
  BY <1>2, <1>4, <1>5, <1>6, ShrunkToRoot
<1>8. PICK L2, lo2, hi2, D, r : Rooting(w, L2, lo2, hi2, D, r, b, H)
  <2>1. lo[at[h]] = 0 /\ b = hi[at[h]]
    BY <1>3, <1>6
  <2> QED BY <2>1, <1>3, <1>7, ShrunkRooting
<1>9. PICK v : v = Collapsed(w)
  OBVIOUS
<1>10. PICK L3, D3, root : Rooting(v, L3, lo2, hi2, D3, root, b, H)
  BY <1>8, <1>9, CollapsedRoot
<1>11. PICK u : u = Finished(v)
  OBVIOUS
<1>12. Ended(v, u, L3, lo2, hi2) /\ v.ids[1] = root
  <2>1. root \in Nat /\ v.ids[1] = root
    BY <1>10 DEF Rooting
  <2> QED BY <2>1, <1>10, <1>11, FinishedEnds DEF Rooting
<1>13. TreeOn(u, L3, lo2, hi2) /\ u.root = root /\ Held(u.pages, L3) = H
  BY <1>10, <1>12 DEF Ended, Rooting
<1>14. lo2[u.root] = lo[t.root] /\ hi2[u.root] = hi[t.root]
  BY <1>6, <1>10, <1>13 DEF Rooting
<1>15. u = Deleted(t, key)
  BY <1>4, <1>6, <1>9, <1>11
<1> QED BY <1>6, <1>13, <1>14, <1>15 DEF Changed

-----------------------------------------------------------------------------
(* The tree of every state.                                                *)

\* There are finitely many keys: some natural is above them all.
LEMMA KeysBound == \E b \in Nat : 0 < b /\ \A k \in Keys : k < b
<1>1. PICK n \in Nat : ExistsSurjection(1 .. n, Keys)
  BY SizesAssumption, FS_NatSurjection
<1>2. PICK f : f \in Surjection(1 .. n, Keys)
  BY <1>1 DEF ExistsSurjection
<1>3. Keys \subseteq Nat
  BY SizesAssumption
<1>4. /\ \A i \in 1 .. n : f[i] \in Nat
      /\ \A k \in Keys : \E i \in 1 .. n : f[i] = k
  BY <1>2, <1>3 DEF Surjection
<1>5. PICK N \in Nat : \A i \in 1 .. n : f[i] <= N
  BY <1>4, ValuesBound
<1>6. N + 1 \in Nat /\ 0 < N + 1
  OBVIOUS
<1>7. \A k \in Keys : k \in Nat /\ k <= N
  BY <1>3, <1>4, <1>5
<1>8. \A k \in Keys : k < N + 1
  BY <1>7
<1> QED BY <1>6, <1>8

(* t is a tree on the pages of L, its keys those of H, and every key has   *)
(* its place in it.                                                        *)
Rules(t, L, lo, hi, H) ==
  /\ TreeOn(t, L, lo, hi) /\ lo[t.root] = 0 /\ hi[t.root] \in Nat /\ 0 < hi[t.root]
  /\ \A k \in Keys : k < hi[t.root]
  /\ Held(t.pages, L) = H
Tree(t, H) == \E L, lo, hi : Rules(t, L, lo, hi, H)

\* A look-up finds the keys that are there.
LEMMA LookedUp ==
  ASSUME NEW t, NEW H, Tree(t, H), NEW key \in Keys
  PROVE  key \in ToSet(t.pages[LeafOf(t, t.root, key)].keys) <=> key \in H
<1>1. PICK L, lo, hi : Rules(t, L, lo, hi, H)
  BY DEF Tree
<1>2. PICK h, at : h = t.pages[t.root].level /\ at = Path(t, t.root, key)
  OBVIOUS
<1>3. key \in Nat /\ lo[t.root] <= key /\ key < hi[t.root] /\ TreeOn(t, L, lo, hi)
  <2>1. key \in Nat
    BY SizesAssumption
  <2> QED BY <2>1, <1>1 DEF Rules
<1>4. OnTheWay(t, L, lo, hi, key, h, at)
  BY <1>2, <1>3, WayIs
<1>5. key \in Held(t.pages, L) <=> key \in ToSet(t.pages[at[0]].keys)
  BY <1>3, <1>4, HeldOnTheWay
<1>6. LeafOf(t, t.root, key) = at[0]
  BY <1>2 DEF LeafOf
<1>7. Held(t.pages, L) = H
  BY <1>1 DEF Rules
<1> QED BY <1>5, <1>6, <1>7

\* Insert adds its key to the tree.
LEMMA TreeInserted ==
  ASSUME NEW t, NEW H, Tree(t, H), NEW key \in Keys, key \notin H
  PROVE  Tree(Inserted(t, key), H \union {key})
<1>1. PICK L, lo, hi : Rules(t, L, lo, hi, H)
  BY DEF Tree
<1>2. /\ TreeOn(t, L, lo, hi) /\ lo[t.root] = 0 /\ key < hi[t.root] /\ Held(t.pages, L) = H
      /\ lo[t.root] <= key
  <2>1. key \in Nat
    BY SizesAssumption
  <2> QED BY <2>1, <1>1 DEF Rules
<1>3. key \notin ToSet(t.pages[LeafOf(t, t.root, key)].keys)
  BY LookedUp
<1>4. PICK u : u = Inserted(t, key)
  OBVIOUS
<1>5. PICK L2, lo2, hi2 : Changed(t, u, lo, hi, L2, lo2, hi2, H \union {key})
  BY <1>2, <1>3, <1>4, InsertedSound
<1>6. Rules(u, L2, lo2, hi2, H \union {key})
  BY <1>1, <1>5 DEF Rules, Changed
<1> QED BY <1>4, <1>6 DEF Tree

\* Delete takes its key from the tree.
LEMMA TreeDeleted ==
  ASSUME NEW t, NEW H, Tree(t, H), NEW key \in Keys, key \in H
  PROVE  Tree(Deleted(t, key), H \ {key})
<1>1. PICK L, lo, hi : Rules(t, L, lo, hi, H)
  BY DEF Tree
<1>2. TreeOn(t, L, lo, hi) /\ lo[t.root] = 0 /\ key < hi[t.root] /\ Held(t.pages, L) = H
  BY <1>1 DEF Rules
<1>3. key \in ToSet(t.pages[LeafOf(t, t.root, key)].keys)
  BY LookedUp
<1>4. PICK u : u = Deleted(t, key)
  OBVIOUS
<1>5. PICK L2, lo2, hi2 : Changed(t, u, lo, hi, L2, lo2, hi2, H \ {key})
  BY <1>2, <1>3, <1>4, DeletedSound
<1>6. Rules(u, L2, lo2, hi2, H \ {key})
  BY <1>1, <1>5 DEF Rules, Changed
<1> QED BY <1>4, <1>6 DEF Tree

\* BTree::empty is a tree.
LEMMA TreeEmpty == Tree(EmptyTree, {})
<1>1. PICK b \in Nat : 0 < b /\ \A k \in Keys : k < b
  BY KeysBound
<1>2. PICK P, t : P = <<Leaf(<<>>)>> /\ t = [pages |-> P, free |-> <<>>, root |-> 1] /\ t = EmptyTree
  BY DEF EmptyTree
<1>3. PICK lo, hi : lo = [x \in Nat |-> 0] /\ hi = [x \in Nat |-> b]
  OBVIOUS
<1>4. /\ P[1] = Leaf(<<>>) /\ DOMAIN P = {1} /\ P[1].level = 0 /\ P[1].keys = <<>> /\ P[1].kids = <<>>
      /\ IsLeaf(P[1]) /\ P \in Seq(Node)
  <2>1. Leaf(<<>>) \in Node
    BY DEF Leaf, Node
  <2>2. DOMAIN P = 1 .. 1 /\ 1 .. 1 = {1} /\ P[1] = Leaf(<<>>)
    BY <1>2
  <2>3. P \in Seq(Node)
    BY <1>2, <2>1
  <2> QED BY <2>2, <2>3 DEF Leaf, IsLeaf
<1>5. Ready(P, {1} \ {1}, lo, hi, P[1], lo[1], hi[1])
  <2>1. LeafReady(<<>>, 0, b)
    BY <1>1 DEF LeafReady, Increasing
  <2>2. lo[1] = 0 /\ hi[1] = b
    BY <1>3
  <2> QED BY <2>1, <2>2, <1>1, <1>4, ReadyLeaf
<1>6. Occupied(P[1]) <= Capacity
  <2>1. Total(LeafSize, <<>>) = 0
    <3>1. LeafSize \in [Keys -> Nat]
      BY SizesAssumption
    <3> QED BY <3>1, TotalEmpty
  <2> QED BY <2>1, <1>4, SizesAssumption DEF Occupied
<1>7. Forest(P, {1}, {1}, lo, hi)
  <2>1. lo \in [Nat -> Nat] /\ hi \in [Nat -> Nat]
    BY <1>1, <1>3
  <2>2. OneParent(P, {1})
    BY <1>4 DEF OneParent
  <2> QED BY <2>1, <2>2, <1>4, <1>5, <1>6 DEF Forest
<1>8. Accounted(P, <<>>, {1}, {})
  <2>1. IsInjective(<<>>) /\ ToSet(<<>>) = {}
    BY DEF IsInjective, ToSet
  <2> QED BY <2>1, <1>4 DEF Accounted
<1>9. TreeOn(t, {1}, lo, hi)
  <2>1. /\ t.pages = P /\ t.free = <<>> /\ t.root = 1
        /\ t = [pages |-> t.pages, free |-> t.free, root |-> t.root]
    BY <1>2
  <2>2. PICK w : w = Work(t)
    OBVIOUS
  <2>3. w \in WorkType /\ w.pages = P /\ w.free = <<>>
    BY <1>4, <2>1, <2>2 DEF Work, WorkType
  <2>4. Sound(w, {1}, {1}, lo, hi, {})
    BY <2>3, <1>7, <1>8 DEF Sound
  <2> QED BY <2>1, <2>2, <2>4 DEF TreeOn
<1>10. Held(P, {1}) = {}
  BY <1>4 DEF Held, ToSet
<1>11. Rules(t, {1}, lo, hi, {})
  BY <1>1, <1>2, <1>3, <1>9, <1>10 DEF Rules
<1> QED BY <1>2, <1>11 DEF Tree

GrownSteps(load, f) ==
  f[0] = EmptyTree /\ \A l \in 1 .. Len(load) : f[l] = Inserted(f[l - 1], load[l])

\* The recursive function in Loaded exists.
LEMMA LoadedSteps ==
  ASSUME NEW load, Len(load) \in Nat
  PROVE  \E f : GrownSteps(load, f) /\ Loaded(load) = f[Len(load)]
<1> DEFINE Rec(g, n) == g = [l \in 0 .. n |-> IF l = 0 THEN EmptyTree ELSE Inserted(g[l - 1], load[l])]
<1>1. \A n \in Nat : \E g : Rec(g, n)
  <2> DEFINE Bad == {n \in Nat : ~ \E g : Rec(g, n)}
  <2> SUFFICES ASSUME Bad # {} PROVE FALSE
    OBVIOUS
  <2>0. Bad \subseteq Nat
    OBVIOUS
  <2>1. PICK m \in Nat : m \in Bad /\ \A n \in Bad : m <= n
    BY <2>0, LeastNatural
  <2>2. m # 0
    <3> DEFINE g == [i \in 0 .. 0 |-> EmptyTree]
    <3>1. Rec(g, 0)
      OBVIOUS
    <3> QED BY <2>1, <3>1
  <2>3. m - 1 \in Nat /\ m - 1 \notin Bad
    <3> HIDE DEF Bad
    <3> QED BY <2>1, <2>2
  <2>4. PICK g : Rec(g, m - 1)
    BY <2>3
  <2> DEFINE e == [i \in 0 .. m |-> IF i < m THEN g[i] ELSE Inserted(g[m - 1], load[m])]
  <2>5. Rec(e, m)
    <3>1. ASSUME NEW i \in 0 .. m
          PROVE  e[i] = IF i = 0 THEN EmptyTree ELSE Inserted(e[i - 1], load[i])
      BY <2>2, <2>3, <2>4
    <3> QED BY <3>1, Zenon
  <2> QED BY <2>5, <2>1
<1> HIDE DEF Rec
<1> DEFINE f == CHOOSE g : Rec(g, Len(load))
<1>2. Rec(f, Len(load))
  BY <1>1, Zenon
<1>3. Loaded(load) = f[Len(load)]
  BY Zenon DEF Loaded, Rec
<1> HIDE DEF f
<1>4. GrownSteps(load, f)
  <2>1. f = [l \in 0 .. Len(load) |-> IF l = 0 THEN EmptyTree ELSE Inserted(f[l - 1], load[l])]
    BY <1>2 DEF Rec
  <2> QED BY <2>1 DEF GrownSteps
<1> QED BY <1>3, <1>4

\* A tree loaded with different keys holds these.
LEMMA TreeLoaded ==
  ASSUME NEW load \in Seq(Keys), IsInjective(load)
  PROVE  Tree(Loaded(load), ToSet(load))
<1>1. PICK n \in Nat : n = Len(load) /\ DOMAIN load = 1 .. n
  OBVIOUS
<1>2. PICK f : GrownSteps(load, f) /\ Loaded(load) = f[n]
  BY <1>1, LoadedSteps
<1> DEFINE First(m) == {load[i] : i \in 1 .. m}
           Bad == {m \in 0 .. n : ~ Tree(f[m], First(m))}
<1>3. Bad = {}
  <2> SUFFICES ASSUME Bad # {} PROVE FALSE
    OBVIOUS
  <2>1. Bad \subseteq Nat
    OBVIOUS
  <2>2. PICK m \in Bad : \A k \in Bad : m <= k
    BY <2>1, LeastNatural
  <2>3. m \in 0 .. n /\ ~ Tree(f[m], First(m))
    OBVIOUS
  <2>4. m # 0
    <3>1. f[0] = EmptyTree
      BY <1>2 DEF GrownSteps
    <3>2. First(0) = {}
      OBVIOUS
    <3>3. Tree(f[0], First(0))
      <4> HIDE DEF First
      <4> QED BY <3>1, <3>2, TreeEmpty
    <3> QED BY <2>3, <3>3
  <2>5. m - 1 \in 0 .. n /\ ~ (m <= m - 1) /\ m \in 1 .. n
    BY <2>3, <2>4
  <2>6. Tree(f[m - 1], First(m - 1))
    <3>1. m - 1 \notin Bad
      <4> HIDE DEF Bad
      <4> QED BY <2>2, <2>5
    <3> QED BY <3>1, <2>5
  <2>7. PICK key : key = load[m]
    OBVIOUS
  <2>8. key \in Keys /\ f[m] = Inserted(f[m - 1], key)
    BY <2>5, <2>7, <1>1, <1>2 DEF GrownSteps
  <2>9. key \notin First(m - 1)
    <3>1. ASSUME NEW i \in 1 .. m - 1 PROVE load[i] # load[m]
      <4>1. i \in 1 .. n /\ i # m
        BY <2>5
      <4>2. \A x, y \in 1 .. n : load[x] = load[y] => x = y
        BY <1>1 DEF IsInjective
      <4> QED BY <4>1, <4>2, <2>5
    <3> QED BY <3>1, <2>7
  <2>10. First(m) = First(m - 1) \union {key}
    <3>1. 1 .. m = (1 .. m - 1) \union {m}
      BY <2>5
    <3> QED BY <3>1, <2>7
  <2>11. Tree(f[m], First(m))
    <3> HIDE DEF First
    <3> QED BY <2>6, <2>8, <2>9, <2>10, TreeInserted
  <2> QED BY <2>3, <2>11
<1>4. Tree(f[n], First(n))
  <2>1. n \in 0 .. n
    OBVIOUS
  <2> QED BY <2>1, <1>3
<1>5. ToSet(load) = First(n)
  BY <1>1 DEF ToSet
<1> HIDE DEF First
<1> QED BY <1>2, <1>4, <1>5

-----------------------------------------------------------------------------
(* The states.                                                             *)

held == {k \in Keys : Found(k)}

TreeInv == Tree(tree, held) /\ ops \in Nat

\* held is the tree's keys.
LEMMA HeldIs ==
  ASSUME NEW H, H \subseteq Keys, Tree(tree, H)
  PROVE  held = H /\ Tree(tree, held)
<1>1. \A key \in Keys : Found(key) <=> key \in H
  BY LookedUp DEF Found
<1> QED BY <1>1 DEF held

\* held after a step is the keys of the tree after it.
LEMMA HeldPrimed ==
  ASSUME NEW H, H \subseteq Keys, Tree(tree', H)
  PROVE  held' = H /\ Tree(tree, held)'
<1>1. \A key \in Keys : Found(key)' <=> key \in H
  BY LookedUp DEF Found
<1> QED BY <1>1 DEF held

\* The first tree is one, and holds the keys it was loaded with.
LEMMA TreeInit == Init => TreeInv /\ \E load \in Loads : held = ToSet(load)
<1> SUFFICES ASSUME Init PROVE TreeInv /\ \E load \in Loads : held = ToSet(load)
  OBVIOUS
<1>1. PICK load \in Loads : tree = Loaded(load)
  BY DEF Init
<1>2. load \in Seq(Keys) /\ IsInjective(load)
  BY BoundsAssumption
<1>3. ToSet(load) \subseteq Keys
  BY <1>2 DEF ToSet
<1>4. Tree(tree, ToSet(load))
  BY <1>1, <1>2, TreeLoaded
<1> QED BY <1>3, <1>4, HeldIs DEF TreeInv, Init

\* A step inserts a key that was not there, or deletes one that was.
LEMMA TreeNext ==
  TreeInv /\ [Next]_vars =>
    /\ TreeInv'
    /\ \/ held' = held
       \/ \E key \in Keys : (key \notin held /\ held' = held \union {key})
                            \/ (key \in held /\ held' = held \ {key})
<1> SUFFICES ASSUME TreeInv, [Next]_vars
             PROVE  /\ TreeInv'
                    /\ \/ held' = held
                       \/ \E key \in Keys : (key \notin held /\ held' = held \union {key})
                                            \/ (key \in held /\ held' = held \ {key})
  OBVIOUS
<1>0. held \subseteq Keys /\ ops' \in Nat
  <2>1. ops \in Nat
    BY DEF TreeInv
  <2>2. ops' = ops \/ ops' = ops + 1
    BY DEF Next, vars
  <2> QED BY <2>1, <2>2 DEF held
<1>1. CASE UNCHANGED vars
  <2>1. Tree(tree', held)
    BY <1>1 DEF vars, TreeInv
  <2> QED BY <2>1, <1>0, HeldPrimed DEF TreeInv
<1>2. ASSUME NEW key \in Keys, Insert(key)
      PROVE  TreeInv' /\ key \notin held /\ held' = held \union {key}
  <2>1. key \notin held
    BY <1>2 DEF Insert, held
  <2>2. Tree(tree', held \union {key})
    BY <1>2, <2>1, TreeInserted DEF Insert, TreeInv
  <2>3. PICK H : H = held \union {key} /\ H \subseteq Keys
    BY <1>0
  <2> QED BY <2>1, <2>2, <2>3, <1>0, HeldPrimed DEF TreeInv
<1>3. ASSUME NEW key \in Keys, Delete(key)
      PROVE  TreeInv' /\ key \in held /\ held' = held \ {key}
  <2>1. key \in held
    BY <1>3 DEF Delete, held
  <2>2. Tree(tree', held \ {key})
    BY <1>3, <2>1, TreeDeleted DEF Delete, TreeInv
  <2>3. PICK H : H = held \ {key} /\ H \subseteq Keys
    BY <1>0
  <2> QED BY <2>1, <2>2, <2>3, <1>0, HeldPrimed DEF TreeInv
<1> QED BY <1>1, <1>2, <1>3 DEF Next

-----------------------------------------------------------------------------
(* The pages of a tree.                                                    *)

LevelSteps(P, top, h, f) ==
  f[h] = {top} /\ \A l \in 1 .. h : f[l - 1] = UNION {ToSet(P[id].kids) : id \in f[l]}

\* The recursive function in TreePages exists.
LEMMA PagesByLevel ==
  ASSUME NEW h \in Nat, h = tree.pages[tree.root].level
  PROVE  \E f : LevelSteps(tree.pages, tree.root, h, f) /\ TreePages = UNION {f[l] : l \in 0 .. h}
<1> DEFINE Down(S) == UNION {ToSet(tree.pages[id].kids) : id \in S}
           Rec(g, n) == g = [l \in h - n .. h |-> IF l = h THEN {tree.root} ELSE Down(g[l + 1])]
<1> HIDE DEF Down
<1>1. \A n \in 0 .. h : \E g : Rec(g, n)
  <2> DEFINE Bad == {n \in 0 .. h : ~ \E g : Rec(g, n)}
  <2> HIDE DEF Rec
  <2> SUFFICES ASSUME Bad # {} PROVE FALSE
    OBVIOUS
  <2> USE DEF Rec
  <2>0. Bad \subseteq Nat
    OBVIOUS
  <2>1. PICK m \in 0 .. h : m \in Bad /\ \A n \in Bad : m <= n
    BY <2>0, LeastNatural
  <2>2. m # 0
    <3> DEFINE g == [l \in h - 0 .. h |-> {tree.root}]
    <3>1. ASSUME NEW l \in h - 0 .. h PROVE {tree.root} = IF l = h THEN {tree.root} ELSE Down(g[l + 1])
      OBVIOUS
    <3>2. g = [l \in h - 0 .. h |-> IF l = h THEN {tree.root} ELSE Down(g[l + 1])]
      BY <3>1, Zenon
    <3> QED BY <2>1, <3>2
  <2>3. m - 1 \in 0 .. h /\ m - 1 \notin Bad
    <3>1. h \in Nat /\ ~ (m <= m - 1) /\ m - 1 \in 0 .. h
      BY <2>1, <2>2
    <3> HIDE DEF Bad
    <3> QED BY <2>1, <3>1
  <2>a. m \in Nat /\ m <= h /\ m # 0
    BY <2>1, <2>2
  <2>b. ~ \E g : Rec(g, m)
    <3> HIDE DEF Rec
    <3> QED BY <2>1
  <2>4. PICK g : Rec(g, m - 1)
    BY <2>3
  <2> HIDE DEF Bad
  <2> DEFINE f == [l \in h - m .. h |-> IF l > h - m THEN g[l] ELSE Down(g[l + 1])]
  <2>5. Rec(f, m)
    <3>1. ASSUME NEW l \in h - m .. h
          PROVE  f[l] = IF l = h THEN {tree.root} ELSE Down(f[l + 1])
      <4>0. g = [x \in h - (m - 1) .. h |-> IF x = h THEN {tree.root} ELSE Down(g[x + 1])]
        BY <2>4
      <4>1. CASE l > h - m
        <5>1. l \in h - (m - 1) .. h
          BY <4>1, <2>a
        <5>2. g[l] = IF l = h THEN {tree.root} ELSE Down(g[l + 1])
          BY <4>0, <5>1
        <5>3. l # h => f[l + 1] = g[l + 1]
          <6>1. l # h => l + 1 \in h - m .. h /\ l + 1 > h - m
            BY <4>1, <2>a
          <6> QED BY <6>1
        <5>4. f[l] = g[l]
          BY <4>1
        <5> QED BY <5>2, <5>3, <5>4
      <4>2. CASE ~ (l > h - m)
        <5>1. l # h /\ l + 1 \in h - m .. h /\ l + 1 > h - m
          <6>1. h - m \in Nat /\ h - m < h /\ l \in Nat /\ l = h - m
            BY <4>2, <2>a
          <6> QED BY <6>1
        <5>2. f[l] = Down(g[l + 1]) /\ f[l + 1] = g[l + 1]
          BY <4>2, <5>1
        <5> QED BY <5>1, <5>2
      <4> QED BY <4>1, <4>2
    <3> QED BY <3>1, Zenon
  <2> QED BY <2>5, <2>b, Zenon
<1> HIDE DEF Rec
<1> DEFINE f == CHOOSE g : Rec(g, h)
<1>2. h \in 0 .. h
  OBVIOUS
<1>3. Rec(f, h)
  BY <1>1, <1>2, Zenon
<1>a. h - h = 0
  OBVIOUS
<1>b. f = CHOOSE g : g = [l \in 0 .. h |-> IF l = h THEN {tree.root} ELSE Down(g[l + 1])]
  BY <1>a, ZenonT(60) DEF Rec
<1> DEFINE G(H) == CHOOSE g : g = [l \in 0 .. H |-> IF l = H THEN {tree.root} ELSE Down(g[l + 1])]
<1>c. f = G(h)
  BY <1>b, ZenonT(60)
<1>d. LET H == tree.pages[tree.root].level IN TreePages = UNION {G(H)[l] : l \in 0 .. H}
  BY ZenonT(60) DEF TreePages, Down
<1>4. TreePages = UNION {f[l] : l \in 0 .. h}
  <2> HIDE DEF G, f
  <2> QED BY <1>c, <1>d, Zenon
<1> HIDE DEF f
<1>5. f = [l \in 0 .. h |-> IF l = h THEN {tree.root} ELSE Down(f[l + 1])]
  BY <1>3, <1>a DEF Rec
<1>6. f[h] = {tree.root}
  BY <1>5
<1>7. ASSUME NEW l \in 1 .. h PROVE f[l - 1] = Down(f[l])
  <2>1. l - 1 \in 0 .. h /\ l - 1 # h /\ (l - 1) + 1 = l
    OBVIOUS
  <2> QED BY <2>1, <1>5
<1> QED BY <1>4, <1>6, <1>7 DEF LevelSteps, Down

(* Every page but the root is below the root's level.                      *)
Layered(P, L, top, h) ==
  \A p \in L : P[p].level \in Nat /\ P[p].level \in 0 .. h /\ (P[p].level = h => p = top)

\* Of the pages of a tree, the root alone is on the highest level.
LEMMA BelowTheRoot ==
  ASSUME NEW P \in Seq(Node), NEW L, NEW lo, NEW hi, NEW top, Forest(P, L, {top}, lo, hi), L \subseteq Nat,
         NEW h, h = P[top].level
  PROVE  Layered(P, L, top, h)
<1>1. \A p \in L : P[p].level \in Nat
  BY PageFacts
<1>2. top \in L /\ L \subseteq DOMAIN P /\ h \in Nat
  BY <1>1 DEF Forest
<1> DEFINE Off == {p \in L : p # top /\ P[p].level >= h}
<1>3. ASSUME NEW x \in Off PROVE \E y \in Off : P[y].level = P[x].level + 1
  <2>1. x \in L /\ x # top /\ P[x].level >= h
    OBVIOUS
  <2>2. PICK y \in L : Under(P, lo, hi, x, y)
    BY <2>1, UnderParent
  <2>3. P[y].level = P[x].level + 1 /\ P[y].level \in Nat /\ P[x].level \in Nat
    BY <2>2 DEF Under
  <2>4. y # top /\ P[y].level >= h
    BY <2>1, <2>3, <1>2
  <2> QED BY <2>2, <2>3, <2>4
<1>4. Off = {}
  <2>1. L \in SUBSET Nat /\ Off \subseteq L
    OBVIOUS
  <2> HIDE DEF Off
  <2> QED BY <2>1, <1>2, <1>3, NoneAscends
<1>5. ASSUME NEW p \in L
      PROVE  P[p].level \in Nat /\ P[p].level \in 0 .. h /\ (P[p].level = h => p = top)
  BY <1>1, <1>2, <1>4
<1> QED BY <1>5 DEF Layered

\* TreePages are the pages of the tree.
LEMMA PagesOfTree ==
  ASSUME NEW L, NEW lo, NEW hi, TreeOn(tree, L, lo, hi)
  PROVE  TreePages = L
<1>1. PICK P, top : P = tree.pages /\ top = tree.root
  OBVIOUS
<1>2. P \in Seq(Node) /\ Forest(P, L, {top}, lo, hi) /\ L \subseteq Nat
  <2>1. PICK w : w = Work(tree)
    OBVIOUS
  <2>2. w.pages = P /\ Sound(w, L, {top}, lo, hi, {})
    BY <1>1, <2>1 DEF TreeOn, Work
  <2> QED BY <2>2, SoundNat DEF Sound, WorkType
<1>3. PICK h : h = P[top].level
  OBVIOUS
<1>a. Layered(P, L, top, h)
  <2>1. P \in Seq(Node) /\ Forest(P, L, {top}, lo, hi) /\ L \subseteq Nat /\ h = P[top].level
    BY <1>2, <1>3
  <2> QED BY <2>1, BelowTheRoot, Zenon
<1>4. \A p \in L : P[p].level \in Nat /\ P[p].level \in 0 .. h /\ (P[p].level = h => p = top)
  BY <1>a DEF Layered
<1>5. top \in L /\ h \in Nat
  BY <1>2, <1>3, <1>4 DEF Forest
<1>6. PICK f : LevelSteps(P, top, h, f) /\ TreePages = UNION {f[l] : l \in 0 .. h}
  BY <1>1, <1>3, <1>5, PagesByLevel
<1> DEFINE At(l) == {p \in L : P[p].level = l}
           S == {l \in 0 .. h : f[l] = At(l)}
<1>7. h \in S
  <2>1. h \in 0 .. h /\ f[h] = {top}
    BY <1>5, <1>6 DEF LevelSteps
  <2>2. At(h) = {top}
    BY <1>3, <1>4, <1>5
  <2> QED BY <2>1, <2>2
<1>8. ASSUME NEW l \in 1 .. h, l \in S PROVE l - 1 \in S
  <2>1. l - 1 \in 0 .. h /\ f[l - 1] = UNION {ToSet(P[id].kids) : id \in f[l]} /\ f[l] = At(l)
    BY <1>5, <1>6, <1>8 DEF LevelSteps
  <2>2. ASSUME NEW k \in f[l - 1] PROVE k \in At(l - 1)
    <3>1. PICK p \in L : P[p].level = l /\ k \in ToSet(P[p].kids)
      BY <2>1
    <3>2. PICK R : R = L \ {top}
      OBVIOUS
    <3>3. Ready(P, R, lo, hi, P[p], lo[p], hi[p])
      BY <1>2, <3>2, PageFacts
    <3>4. PICK i \in DOMAIN P[p].kids : k = P[p].kids[i]
      BY <3>1 DEF ToSet
    <3>5. k \in R /\ P[k].level + 1 = l
      BY <3>1, <3>3, <3>4 DEF Ready, Bears
    <3>6. k \in L /\ P[k].level \in Nat
      BY <3>2, <3>5, <1>4
    <3>7. PICK m \in Nat : m = P[k].level
      BY <3>6
    <3>8. m = l - 1
      BY <3>5, <3>7
    <3> QED BY <3>6, <3>7, <3>8
  <2>3. ASSUME NEW p \in At(l - 1) PROVE p \in f[l - 1]
    <3>1. p \in L /\ P[p].level = l - 1 /\ p # top
      BY <1>3, <1>5
    <3>2. PICK q \in L : Under(P, lo, hi, p, q)
      BY <1>2, <3>1, UnderParent
    <3>3. P[q].level = l
      <4>1. P[p].level + 1 = P[q].level
        BY <3>2 DEF Under
      <4> QED BY <4>1, <3>1
    <3>4. PICK x \in 1 .. Len(P[q].keys) + 1 : p = P[q].kids[x]
      BY <3>2 DEF Under
    <3>5. x \in DOMAIN P[q].kids
      <4>1. P[q].level # 0
        BY <3>3
      <4>2. Row(P, L \ {top}, lo, hi, P[q].level, P[q].keys, P[q].kids, lo[q], hi[q])
        BY <4>1, <1>2, PageFacts
      <4>3. P[q].kids \in Seq(Nat) /\ Len(P[q].kids) = Len(P[q].keys) + 1
        BY <4>2 DEF Row
      <4> QED BY <4>3
    <3>6. p \in ToSet(P[q].kids) /\ q \in f[l]
      BY <3>3, <3>4, <3>5, <2>1 DEF ToSet
    <3> QED BY <3>6, <2>1
  <2>4. f[l - 1] = At(l - 1)
    <3> HIDE DEF At
    <3> QED BY <2>2, <2>3
  <2> QED BY <2>1, <2>4
<1>9. \A l \in 0 .. h : f[l] = At(l)
  <2>1. ASSUME NEW l \in 0 .. h PROVE l \in S
    <3> HIDE DEF S
    <3> QED BY <1>5, <1>7, <1>8, DownTo
  <2> QED BY <2>1
<1>10. UNION {f[l] : l \in 0 .. h} = L
  <2>1. ASSUME NEW p \in L PROVE \E l \in 0 .. h : p \in f[l]
    BY <1>4, <1>9
  <2>2. \A l \in 0 .. h : f[l] \subseteq L
    BY <1>9
  <2> QED BY <2>1, <2>2
<1> QED BY <1>6, <1>10

\* A sequence without repetitions is as long as it has members.
LEMMA InjectiveLength ==
  ASSUME NEW s \in Seq(Nat), IsInjective(s)
  PROVE  Cardinality(ToSet(s)) = Len(s)
<1>1. PICK n \in Nat : n = Len(s) /\ DOMAIN s = 1 .. n
  OBVIOUS
<1>2. ToSet(s) = {s[i] : i \in 1 .. n} /\ s = [i \in 1 .. n |-> s[i]]
  BY <1>1 DEF ToSet
<1>3. \A i, j \in 1 .. n : s[i] = s[j] => i = j
  BY <1>1 DEF IsInjective
<1>4. s \in Bijection(1 .. n, ToSet(s))
  BY <1>2, <1>3 DEF Bijection, Injection, Surjection
<1>5. ExistsBijection(1 .. n, ToSet(s))
  BY <1>4 DEF ExistsBijection
<1>6. IsFiniteSet(1 .. n) /\ Cardinality(1 .. n) = n
  <2>1. 1 \in Int /\ n \in Int
    OBVIOUS
  <2>2. IsFiniteSet(1 .. n) /\ Cardinality(1 .. n) = IF 1 > n THEN 0 ELSE n - 1 + 1
    BY <2>1, FS_Interval
  <2> QED BY <2>2
<1> QED BY <1>1, <1>5, <1>6, FS_Bijection

\* What the invariant says of the pages.
LEMMA TreeSafe == TreeInv => TypeOK /\ NodesFit /\ PagesAccounted
<1> SUFFICES ASSUME TreeInv PROVE TypeOK /\ NodesFit /\ PagesAccounted
  OBVIOUS
<1>1. PICK L, lo, hi : Rules(tree, L, lo, hi, held)
  BY DEF TreeInv, Tree
<1>2. TreeOn(tree, L, lo, hi)
  BY <1>1 DEF Rules
<1>3. PICK P, free, top : P = tree.pages /\ free = tree.free /\ top = tree.root
  OBVIOUS
<1>4. /\ P \in Seq(Node) /\ free \in Seq(Nat) /\ Forest(P, L, {top}, lo, hi) /\ L \subseteq Nat
      /\ Accounted(P, free, L, {})
  <2>1. PICK w : w = Work(tree)
    OBVIOUS
  <2>2. w.pages = P /\ w.free = free /\ Sound(w, L, {top}, lo, hi, {})
    BY <1>2, <1>3, <2>1 DEF TreeOn, Work
  <2> QED BY <2>2, SoundNat DEF Sound, WorkType
<1>5. TreePages = L
  BY <1>2, PagesOfTree
<1>6. PICK R : R = L \ {top}
  OBVIOUS
<1>7. \A p \in L : Ready(P, R, lo, hi, P[p], lo[p], hi[p]) /\ Occupied(P[p]) <= Capacity
  BY <1>4, <1>6 DEF Forest
<1>8. top \in L /\ L \subseteq DOMAIN P
  BY <1>4 DEF Forest
<1>9. ASSUME NEW p \in L
      PROVE  /\ ToSet(P[p].keys) \subseteq Keys /\ ToSet(P[p].kids) \subseteq R
             /\ Len(P[p].kids) = IF IsLeaf(P[p]) THEN 0 ELSE Len(P[p].keys) + 1
             /\ \A kid \in ToSet(P[p].kids) : P[kid].level + 1 = P[p].level
  <2>1. P[p].keys \in Seq(Keys) /\ Len(P[p].kids) = IF IsLeaf(P[p]) THEN 0 ELSE Len(P[p].keys) + 1
    BY <1>7 DEF Ready, Shaped
  <2>2. \A i \in DOMAIN P[p].kids : P[p].kids[i] \in R /\ P[P[p].kids[i]].level + 1 = P[p].level
    BY <1>7 DEF Ready, Bears
  <2>3. ToSet(P[p].keys) \subseteq Keys
    BY <2>1 DEF ToSet
  <2>4. \A kid \in ToSet(P[p].kids) : kid \in R /\ P[kid].level + 1 = P[p].level
    BY <2>2 DEF ToSet
  <2> QED BY <2>1, <2>3, <2>4
<1>10. TypeOK
  <2>1. ToSet(free) \subseteq DOMAIN P
    BY <1>4 DEF Accounted
  <2>2. ASSUME NEW node \in Nodes
        PROVE  /\ ToSet(node.keys) \subseteq Keys /\ ToSet(node.kids) \subseteq DOMAIN P
               /\ Len(node.kids) = IF IsLeaf(node) THEN 0 ELSE Len(node.keys) + 1
    <3>1. PICK p \in L : node = P[p]
      BY <1>3, <1>5 DEF Nodes
    <3> QED BY <3>1, <1>6, <1>8, <1>9
  <2> QED BY <2>1, <2>2, <1>3, <1>8 DEF TypeOK
<1>11. NodesFit
  BY <1>3, <1>5, <1>7 DEF NodesFit, Nodes
<1>12. PagesAccounted
  <2>1. ToSet(free) = {id \in DOMAIN P : P[id] = Freed}
    <3>1. /\ DOMAIN P = L \union ToSet(free) /\ L \cap ToSet(free) = {}
          /\ \A id \in ToSet(free) : P[id] = Freed
      BY <1>4 DEF Accounted
    <3>2. ASSUME NEW p \in L PROVE P[p] # Freed
      <4>1. 0 \in ToSet(Freed.keys)
        BY DEF Freed, ToSet
      <4>2. 0 \notin Keys
        BY SizesAssumption
      <4> QED BY <4>1, <4>2, <1>9
    <3> QED BY <3>1, <3>2
  <2>2. Cardinality(ToSet(free)) = Len(free)
    BY <1>4, InjectiveLength DEF Accounted
  <2>3. L = DOMAIN P \ ToSet(free)
    BY <1>4 DEF Accounted
  <2>4. \A id \in L : \A kid \in ToSet(P[id].kids) : P[kid].level + 1 = P[id].level
    BY <1>9
  <2>5. \A a, b \in L : \A i \in DOMAIN P[a].kids, j \in DOMAIN P[b].kids :
          P[a].kids[i] = P[b].kids[j] => a = b /\ i = j
    BY <1>4 DEF Forest, OneParent
  <2>6. ToSet(tree.free) = {id \in DOMAIN tree.pages : tree.pages[id] = Freed}
    BY <2>1, <1>3
  <2>7. Cardinality(ToSet(tree.free)) = Len(tree.free) /\ TreePages = DOMAIN tree.pages \ ToSet(tree.free)
    BY <2>2, <2>3, <1>3, <1>5
  <2>8. \A id \in TreePages : \A kid \in ToSet(tree.pages[id].kids) :
          tree.pages[kid].level + 1 = tree.pages[id].level
    BY <2>4, <1>3, <1>5
  <2>9. \A a, b \in TreePages :
          \A i \in DOMAIN tree.pages[a].kids, j \in DOMAIN tree.pages[b].kids :
            tree.pages[a].kids[i] = tree.pages[b].kids[j] => a = b /\ i = j
    BY <2>5, <1>3, <1>5
  <2> QED BY <2>6, <2>7, <2>8, <2>9, Zenon DEF PagesAccounted
<1> QED BY <1>10, <1>11, <1>12

-----------------------------------------------------------------------------
(* Range scans: from a leaf to the next.                                   *)

(* What TreeInv says of the tree, for the bounds of its pages.             *)
Standing(P, L, lo, hi, top) ==
  /\ P = tree.pages /\ top = tree.root /\ P \in Seq(Node) /\ L \subseteq Nat
  /\ Forest(P, L, {top}, lo, hi) /\ lo[top] = 0 /\ hi[top] \in Nat /\ 0 < hi[top]
  /\ \A k \in Keys : k < hi[top]

LeafAt(P, L, lo, hi, key, p) ==
  p \in L /\ P[p].level = 0 /\ lo[p] <= key /\ key < hi[p]

\* Path is the way to any key there is a place for.
LEMMA ScanWay ==
  ASSUME NEW P, NEW L, NEW lo, NEW hi, NEW top, Standing(P, L, lo, hi, top),
         NEW key \in Nat, key < hi[top], NEW at, at = Path(tree, top, key), NEW h, h = P[top].level
  PROVE  Descent(P, L, lo, hi, top, key, h, at) /\ Routed(P, L, lo, hi, top, key, h, at) /\ h \in Nat
<1>1. /\ P = tree.pages /\ P \in Seq(Node) /\ L \subseteq Nat
      /\ Forest(P, L, {top}, lo, hi) /\ lo[top] = 0
  BY DEF Standing
<1>2. top \in L
  BY <1>1 DEF Forest
<1>3. lo[top] <= key
  BY <1>1
<1>4. Forest(tree.pages, L, {top}, lo, hi) /\ h = tree.pages[top].level
  BY <1>1
<1>5. Descent(P, L, lo, hi, top, key, h, at)
  BY <1>1, <1>2, <1>3, <1>4, Descends
<1>6. h \in Nat
  BY <1>5 DEF Descent
<1> QED BY <1>1, <1>5, <1>6 DEF Routed

\* Each key's place is in one leaf: the one LeafOf finds.
LEMMA LeafOfIs ==
  ASSUME NEW P, NEW L, NEW lo, NEW hi, NEW top, Standing(P, L, lo, hi, top),
         NEW key \in Nat, key < hi[top]
  PROVE  /\ LeafAt(P, L, lo, hi, key, LeafOf(tree, top, key))
         /\ \A q : LeafAt(P, L, lo, hi, key, q) => q = LeafOf(tree, top, key)
<1>1. PICK at, h : at = Path(tree, top, key) /\ h = P[top].level
  OBVIOUS
<1>2. Descent(P, L, lo, hi, top, key, h, at) /\ Routed(P, L, lo, hi, top, key, h, at) /\ h \in Nat
  BY <1>1, ScanWay
<1>3. LeafOf(tree, top, key) = at[0]
  BY <1>1 DEF LeafOf
<1>4. 0 \in 0 .. h
  BY <1>2
<1>5. LeafAt(P, L, lo, hi, key, at[0])
  BY <1>2, <1>4 DEF Descent, OnPath, LeafAt
<1>6. ASSUME NEW q, LeafAt(P, L, lo, hi, key, q) PROVE q = at[0]
  <2>1. q \in L /\ lo[q] <= key /\ key < hi[q] /\ P[q].level = 0
    BY <1>6 DEF LeafAt
  <2>2. q = at[P[q].level]
    BY <2>1, <1>2, OnlyOnTheWay
  <2> QED BY <2>1, <2>2
<1> QED BY <1>3, <1>5, <1>6

\* A key below all pivots is the first child's.
LEMMA FirstChild ==
  ASSUME NEW n, NEW key \in Nat, n.keys \in Seq(Keys), Len(n.kids) = Len(n.keys) + 1,
         \A j \in 1 .. Len(n.keys) : n.keys[j] > key
  PROVE  ChildIndex(n, key) = 1
<1>1. PICK N \in Nat : N = Len(n.keys) /\ Len(n.kids) = N + 1
  OBVIOUS
<1>2. \A j \in 1 .. N : n.keys[j] \in Nat /\ n.keys[j] > key
  BY <1>1, KeysAreNat
<1> DEFINE Good(i) == /\ i = N + 1 \/ n.keys[i] > key
                      /\ \A j \in 1 .. i - 1 : n.keys[j] <= key
<1>3. 1 \in 1 .. N + 1 /\ Good(1)
  <2>1. 1 = N + 1 \/ 1 \in 1 .. N
    BY <1>1
  <2> QED BY <2>1, <1>1, <1>2
<1>4. ASSUME NEW i \in 1 .. N + 1, Good(i) PROVE i = 1
  <2>1. SUFFICES ASSUME i # 1 PROVE FALSE
    OBVIOUS
  <2>2. 1 \in 1 .. i - 1 /\ 1 \in 1 .. N
    BY <2>1, <1>1
  <2>3. n.keys[1] <= key
    BY <2>2, <1>4
  <2> QED BY <2>2, <2>3, <1>2
<1>5. ChildIndex(n, key) = CHOOSE i \in 1 .. N + 1 : Good(i)
  BY <1>1 DEF ChildIndex
<1> HIDE DEF Good
<1> QED BY <1>3, <1>4, <1>5

\* The descent for 0 comes to the first leaf below a page.
LEMMA FirstLeaf ==
  ASSUME NEW P, NEW L, NEW lo, NEW hi, NEW top, Standing(P, L, lo, hi, top), NEW q \in L
  PROVE  LET r == LeafOf(tree, q, 0) IN r \in L /\ P[r].level = 0 /\ lo[r] = lo[q]
<1>1. /\ P = tree.pages /\ P \in Seq(Node) /\ L \subseteq Nat
      /\ Forest(P, L, {top}, lo, hi) /\ lo[top] = 0
  BY DEF Standing
<1>2. PICK m, at, at0 : m = P[q].level /\ at = Path(tree, q, lo[q]) /\ at0 = Path(tree, q, 0)
  OBVIOUS
<1>3. Ready(P, L \ {top}, lo, hi, P[q], lo[q], hi[q]) /\ lo[q] \in Nat /\ hi[q] \in Nat /\ m \in Nat
  BY <1>1, <1>2, PageFacts
<1>4. lo[q] <= lo[q] /\ lo[q] < hi[q]
  BY <1>3 DEF Ready, Spans
<1>5. Forest(tree.pages, L, {top}, lo, hi) /\ m = tree.pages[q].level
  BY <1>1, <1>2
<1>6. Descent(P, L, lo, hi, q, lo[q], m, at)
  BY <1>1, <1>2, <1>3, <1>4, <1>5, Descends
<1>7. PathSteps(tree, q, 0, m, at0)
  BY <1>2, <1>3, <1>5, PathIs
<1> DEFINE S == {l \in 0 .. m : at0[l] = at[l] /\ lo[at[l]] = lo[q]}
<1>8. m \in S
  <2>1. m \in 0 .. m /\ at0[m] = q /\ at[m] = q
    BY <1>3, <1>6, <1>7 DEF PathSteps, Descent
  <2> QED BY <2>1
<1>9. ASSUME NEW l \in 1 .. m, l \in S PROVE l - 1 \in S
  <2>1. l - 1 \in 0 .. m /\ l \in 0 .. m /\ at0[l] = at[l] /\ lo[at[l]] = lo[q]
    BY <1>3, <1>9
  <2>2. PICK p \in L : p = at[l] /\ P[p].level = l /\ P[p].level # 0
    BY <2>1, <1>6 DEF Descent, OnPath
  <2>3. PICK n, a, b : n = P[p] /\ a = lo[p] /\ b = hi[p] /\ a = lo[q]
    BY <2>1, <2>2
  <2>4. Row(P, L \ {top}, lo, hi, n.level, n.keys, n.kids, a, b) /\ a \in Nat /\ b \in Nat
    <3>1. /\ Row(P, L \ {top}, lo, hi, P[p].level, P[p].keys, P[p].kids, lo[p], hi[p])
          /\ lo[p] \in Nat /\ hi[p] \in Nat
      BY <2>2, <1>1, PageFacts
    <3> QED BY <3>1, <2>3
  <2>5. n.keys \in Seq(Keys) /\ Len(n.kids) = Len(n.keys) + 1
    BY <2>4 DEF Row
  <2>6. \A j \in 1 .. Len(n.keys) : n.keys[j] > a /\ n.keys[j] \in Nat
    <3>1. PICK N \in Nat : N = Len(n.keys)
      BY <2>5
    <3>2. ASSUME NEW j \in 1 .. N PROVE n.keys[j] > a /\ n.keys[j] \in Nat
      <4>1. 0 \in 0 .. N + 1 /\ j \in 0 .. N + 1 /\ 0 < j /\ j # 0 /\ j # N + 1
        OBVIOUS
      <4>2. Fence(n.keys, a, b, 0) < Fence(n.keys, a, b, j)
        BY <4>1, <3>1, <2>4, FencesRise
      <4>3. Fence(n.keys, a, b, 0) = a /\ Fence(n.keys, a, b, j) = n.keys[j]
        BY <4>1, <3>1 DEF Fence
      <4>4. n.keys[j] \in Nat
        BY <3>1, <2>5, KeysAreNat
      <4> QED BY <4>2, <4>3, <4>4, <2>4
    <3> QED BY <3>1, <3>2
  <2>7. ChildIndex(n, a) = 1
    BY <2>4, <2>5, <2>6, FirstChild
  <2>8. \A j \in 1 .. Len(n.keys) : n.keys[j] > 0
    BY <2>4, <2>6
  <2>9. ChildIndex(n, 0) = 1
    BY <2>5, <2>8, FirstChild
  <2>10. at0[l - 1] = n.kids[1]
    BY <2>1, <2>2, <2>3, <2>9, <1>1, <1>7 DEF PathSteps
  <2>11. StepDown(P, lo, hi, a, p, at[l - 1])
    BY <2>2, <2>3, <1>6 DEF Descent
  <2>12. at[l - 1] = n.kids[1] /\ lo[at[l - 1]] = Fence(n.keys, a, b, 0)
    <3>1. 1 - 1 = 0
      OBVIOUS
    <3> QED BY <3>1, <2>3, <2>7, <2>11 DEF StepDown
  <2> QED BY <2>1, <2>3, <2>10, <2>12 DEF Fence
<1>10. 0 \in S
  <2>1. 0 \in 0 .. m
    BY <1>3
  <2> HIDE DEF S
  <2> QED BY <2>1, <1>3, <1>8, <1>9, DownTo
<1>11. at[0] \in L /\ P[at[0]].level = 0
  BY <1>10, <1>6 DEF Descent, OnPath
<1> QED BY <1>2, <1>10, <1>11 DEF LeafOf

(* The levels of the way at to key whose page has a next child.            *)
Turns(P, at, h, key) ==
  {l \in 1 .. h : ChildIndex(P[at[l]], key) < Len(P[at[l]].kids)}

\* The last child's bound is its parent's; another's is where the next one starts.
LEMMA NextChild ==
  ASSUME NEW P, NEW L, NEW lo, NEW hi, NEW top, Standing(P, L, lo, hi, top),
         NEW key, NEW h, NEW at, Descent(P, L, lo, hi, top, key, h, at), NEW l \in 1 .. h
  PROVE  /\ l \notin Turns(P, at, h, key) => hi[at[l - 1]] = hi[at[l]]
         /\ l \in Turns(P, at, h, key) =>
              LET q == P[at[l]].kids[ChildIndex(P[at[l]], key) + 1]
              IN q \in L /\ lo[q] = hi[at[l - 1]]
<1>1. L \subseteq Nat /\ Forest(P, L, {top}, lo, hi)
  BY DEF Standing
<1>2. PICK p, c : p = at[l] /\ c = at[l - 1]
  OBVIOUS
<1>3. OnPath(P, L, lo, hi, key, l, p) /\ StepDown(P, lo, hi, key, p, c)
  <2>1. h \in Nat /\ l \in 0 .. h
    BY DEF Descent
  <2> QED BY <2>1, <1>2 DEF Descent
<1>4. p \in L /\ P[p].level # 0
  BY <1>3 DEF OnPath
<1>5. PICK n, a, b : n = P[p] /\ a = lo[p] /\ b = hi[p]
  OBVIOUS
<1>6. Row(P, L \ {top}, lo, hi, n.level, n.keys, n.kids, a, b)
  <2>1. Row(P, L \ {top}, lo, hi, P[p].level, P[p].keys, P[p].kids, lo[p], hi[p])
    BY <1>1, <1>4, PageFacts
  <2> QED BY <2>1, <1>5
<1>7. PICK i : i = ChildIndex(n, key)
  OBVIOUS
<1>8. i \in 1 .. Len(n.keys) + 1 /\ hi[c] = Fence(n.keys, a, b, i)
  BY <1>3, <1>5, <1>7 DEF StepDown
<1>9. PICK N \in Nat : N = Len(n.keys) /\ Len(n.kids) = N + 1
  BY <1>6, KeysAreNat DEF Row
<1>10. l \in Turns(P, at, h, key) <=> i < N + 1
  BY <1>2, <1>5, <1>7, <1>9 DEF Turns
<1>11. ASSUME ~ (i < N + 1) PROVE hi[c] = b
  <2>1. i = N + 1 /\ i # 0
    BY <1>8, <1>9, <1>11
  <2> QED BY <2>1, <1>8, <1>9 DEF Fence
<1>12. ASSUME i < N + 1 PROVE n.kids[i + 1] \in L /\ lo[n.kids[i + 1]] = hi[c]
  <2>1. PICK x \in 1 .. N + 1 : x = i + 1 /\ x - 1 = i
    BY <1>8, <1>9, <1>12
  <2>2. Fits(P, L \ {top}, lo, hi, n.level, n.kids[x], Fence(n.keys, a, b, x - 1), Fence(n.keys, a, b, x))
    BY <2>1, <1>6, <1>9 DEF Row
  <2> QED BY <2>1, <2>2, <1>8 DEF Fits
<1> QED BY <1>2, <1>5, <1>7, <1>10, <1>11, <1>12

\* Down from m, no page has a next child: the bound is the leaf's.
LEMMA BoundKept ==
  ASSUME NEW P, NEW L, NEW lo, NEW hi, NEW top, Standing(P, L, lo, hi, top),
         NEW key, NEW h, NEW at, Descent(P, L, lo, hi, top, key, h, at), NEW m \in 0 .. h,
         \A l \in 1 .. m : l \notin Turns(P, at, h, key)
  PROVE  hi[at[0]] = hi[at[m]]
<1> DEFINE S == {l \in 0 .. m : hi[at[l]] = hi[at[m]]}
<1>1. h \in Nat /\ m \in Nat /\ m <= h
  BY DEF Descent
<1>2. m \in S
  BY <1>1
<1>3. ASSUME NEW l \in 1 .. m, l \in S PROVE l - 1 \in S
  <2>1. l \in 1 .. h /\ l - 1 \in 0 .. m
    BY <1>1
  <2>2. hi[at[l - 1]] = hi[at[l]]
    BY <2>1, NextChild
  <2> QED BY <2>1, <2>2, <1>3
<1>4. 0 \in S
  <2>1. 0 \in 0 .. m
    BY <1>1
  <2> HIDE DEF S
  <2> QED BY <2>1, <1>1, <1>2, <1>3, DownTo
<1> QED BY <1>4

\* The keys of a leaf are in its bounds, and the last is the largest.
LEMMA LastKey ==
  ASSUME NEW P, NEW L, NEW lo, NEW hi, NEW top, Standing(P, L, lo, hi, top),
         NEW p \in L, P[p].keys # <<>>
  PROVE  LET key == Last(P[p].keys) IN
         /\ key \in Keys /\ lo[p] <= key /\ key < hi[p] /\ ~ \E k \in ToSet(P[p].keys) : k > key
<1>1. L \subseteq Nat /\ Forest(P, L, {top}, lo, hi)
  BY DEF Standing
<1>2. PICK n, a, b : n = P[p] /\ a = lo[p] /\ b = hi[p]
  OBVIOUS
<1>3. Ready(P, L \ {top}, lo, hi, n, a, b) /\ n.keys \in Seq(Keys)
  BY <1>1, <1>2, PageFacts
<1>a. PICK s \in Seq(Keys) : s = n.keys /\ s # <<>>
  BY <1>2, <1>3
<1>4. PICK N \in Nat : N = Len(s) /\ N >= 1
  BY <1>a
<1>5. \A x \in 1 .. N : a <= s[x] /\ s[x] < b /\ s[x] \in Nat /\ s[x] \in Keys
  BY <1>3, <1>a, <1>4, KeysAreNat DEF Ready, Spans
<1>6. \A x \in 1 .. N : s[x] <= s[N]
  <2>1. \A x \in 1 .. N : x < N => s[x] < s[N]
    BY <1>3, <1>a, <1>4 DEF Ready, Shaped, Increasing
  <2>2. ASSUME NEW x \in 1 .. N PROVE s[x] <= s[N]
    <3>1. x = N \/ x < N
      BY <1>a, <1>4
    <3> QED BY <3>1, <2>1, <1>a, <1>4, <1>5
  <2> QED BY <2>2
<1>7. Last(s) = s[N]
  BY <1>a, <1>4 DEF Last
<1>8. \A k \in ToSet(s) : ~ (k > s[N])
  <2>1. ASSUME NEW k \in ToSet(s) PROVE ~ (k > s[N])
    <3>1. PICK x \in 1 .. N : k = s[x]
      BY <1>a, <1>4 DEF ToSet
    <3>2. N \in 1 .. N
      BY <1>a, <1>4
    <3> QED BY <3>1, <3>2, <1>5, <1>6
  <2> QED BY <2>1
<1>9. N \in 1 .. N
  BY <1>a, <1>4
<1> QED BY <1>2, <1>a, <1>4, <1>5, <1>7, <1>8, <1>9

(* The leaf after a leaf starts where that one ends.                       *)
NextLeaf(P, L, lo, hi, top, p, r) ==
  \/ hi[p] = hi[top] /\ r = 0
  \/ r \in L /\ P[r].level = 0 /\ lo[r] = hi[p] /\ r # 0

\* A scan that leaves a leaf comes to the next one, or there is none.
LEMMA LeafAfterIs ==
  ASSUME NEW P, NEW L, NEW lo, NEW hi, NEW top, Standing(P, L, lo, hi, top),
         NEW p \in L, P[p].level = 0, P[p].keys # <<>>
  PROVE  NextLeaf(P, L, lo, hi, top, p, LeafAfter(Last(P[p].keys)))
<1>1. /\ P = tree.pages /\ top = tree.root /\ P \in Seq(Node) /\ L \subseteq Nat
      /\ Forest(P, L, {top}, lo, hi) /\ \A k \in Keys : k < hi[top]
  BY DEF Standing
<1>2. PICK key : key = Last(P[p].keys)
  OBVIOUS
<1>3. key \in Keys /\ lo[p] <= key /\ key < hi[p] /\ ~ \E k \in ToSet(P[p].keys) : k > key
  BY <1>2, LastKey
<1>4. key \in Nat /\ key < hi[top]
  BY <1>1, <1>3, SizesAssumption
<1>5. PICK at, h : at = Path(tree, top, key) /\ h = P[top].level
  OBVIOUS
<1>6. Descent(P, L, lo, hi, top, key, h, at) /\ Routed(P, L, lo, hi, top, key, h, at) /\ h \in Nat
  BY <1>4, <1>5, ScanWay
<1>7. at[0] = p
  BY <1>3, <1>6, OnlyOnTheWay
<1>8. PICK T : T = Turns(P, at, h, key)
  OBVIOUS
<1>9. LeafAfter(key) = IF T = {} THEN 0
                       ELSE LeafOf(tree, P[at[Min(T)]].kids[ChildIndex(P[at[Min(T)]], key) + 1], 0)
  <2>1. T = {l \in 1 .. h : ChildIndex(tree.pages[at[l]], key) < Len(tree.pages[at[l]].kids)}
    BY <1>1, <1>8 DEF Turns
  <2>2. ~ \E k \in ToSet(tree.pages[at[0]].keys) : k > key
    BY <1>1, <1>3, <1>7
  <2> QED BY <2>1, <2>2, <1>1, <1>5 DEF LeafAfter
<1>10. CASE T = {}
  <2>1. h \in 0 .. h /\ \A l \in 1 .. h : l \notin Turns(P, at, h, key)
    BY <1>6, <1>8, <1>10
  <2>2. hi[at[0]] = hi[at[h]]
    BY <2>1, <1>6, BoundKept
  <2>3. at[h] = top
    BY <1>6 DEF Descent
  <2> QED BY <2>2, <2>3, <1>2, <1>7, <1>9, <1>10 DEF NextLeaf
<1>11. CASE T # {}
  <2>1. T \subseteq 1 .. h /\ T \subseteq Nat
    BY <1>8 DEF Turns
  <2>2. PICK m : m = Min(T) /\ m \in T /\ \A l \in T : m <= l
    BY <2>1, <1>11, MinIn
  <2>3. m \in 1 .. h /\ m \in Turns(P, at, h, key) /\ m \in Nat /\ m - 1 \in 0 .. h
    BY <2>1, <2>2, <1>6, <1>8
  <2>4. PICK q : q = P[at[m]].kids[ChildIndex(P[at[m]], key) + 1]
    OBVIOUS
  <2>5. q \in L /\ lo[q] = hi[at[m - 1]]
    BY <2>3, <2>4, <1>6, NextChild
  <2>6. \A l \in 1 .. m - 1 : l \notin Turns(P, at, h, key)
    BY <2>1, <2>2, <2>3, <1>8
  <2>7. hi[at[0]] = hi[at[m - 1]]
    BY <2>3, <2>6, <1>6, BoundKept
  <2>8. PICK r : r = LeafOf(tree, q, 0)
    OBVIOUS
  <2>9. r \in L /\ P[r].level = 0 /\ lo[r] = lo[q]
    BY <2>5, <2>8, FirstLeaf
  <2>10. r # 0
    <3>1. L \subseteq DOMAIN P
      BY <1>1 DEF Forest
    <3>2. DOMAIN P = 1 .. Len(P) /\ Len(P) \in Nat
      BY <1>1
    <3> QED BY <3>1, <3>2, <2>9
  <2>11. LeafAfter(key) = r
    BY <2>2, <2>4, <2>8, <1>9, <1>11
  <2> QED BY <2>5, <2>7, <2>9, <2>10, <2>11, <1>2, <1>7 DEF NextLeaf
<1> QED BY <1>10, <1>11

-----------------------------------------------------------------------------
(* Range scans: the leaves visited.                                        *)

Seen(start, f) ==
  /\ f[0] = <<LeafOf(tree, tree.root, start)>>
  /\ \A n \in 1 .. Len(tree.pages) : f[n] = f[n - 1] \o Advanced(Last(f[n - 1]))

\* The recursive function in Visited exists.
LEMMA VisitedSteps ==
  ASSUME NEW start, Len(tree.pages) \in Nat
  PROVE  \E f : Seen(start, f) /\ Visited(start) = f[Len(tree.pages)]
<1> DEFINE First == <<LeafOf(tree, tree.root, start)>>
           More(s) == s \o Advanced(Last(s))
           Rec(g, n) == g = [l \in 0 .. n |-> IF l = 0 THEN First ELSE More(g[l - 1])]
<1> HIDE DEF First, More
<1>1. \A n \in Nat : \E g : Rec(g, n)
  <2> DEFINE Bad == {n \in Nat : ~ \E g : Rec(g, n)}
  <2> SUFFICES ASSUME Bad # {} PROVE FALSE
    OBVIOUS
  <2>0. Bad \subseteq Nat
    OBVIOUS
  <2>1. PICK m \in Nat : m \in Bad /\ \A n \in Bad : m <= n
    BY <2>0, LeastNatural
  <2>2. m # 0
    <3> DEFINE g == [i \in 0 .. 0 |-> First]
    <3>1. Rec(g, 0)
      OBVIOUS
    <3> QED BY <2>1, <3>1
  <2>3. m - 1 \in Nat /\ m - 1 \notin Bad
    <3> HIDE DEF Bad
    <3> QED BY <2>1, <2>2
  <2>4. PICK g : Rec(g, m - 1)
    BY <2>3
  <2> DEFINE e == [i \in 0 .. m |-> IF i < m THEN g[i] ELSE More(g[m - 1])]
  <2>5. Rec(e, m)
    <3>1. ASSUME NEW i \in 0 .. m
          PROVE  e[i] = IF i = 0 THEN First ELSE More(e[i - 1])
      BY <2>2, <2>3, <2>4
    <3> QED BY <3>1, Zenon
  <2> QED BY <2>5, <2>1
<1> HIDE DEF Rec
<1> DEFINE f == CHOOSE g : Rec(g, Len(tree.pages))
<1>2. Rec(f, Len(tree.pages))
  BY <1>1, Zenon
<1>3. Visited(start) = f[Len(tree.pages)]
  BY Zenon DEF Visited, Rec, First, More
<1> HIDE DEF f
<1>4. Seen(start, f)
  <2>1. f = [l \in 0 .. Len(tree.pages) |-> IF l = 0 THEN First ELSE More(f[l - 1])]
    BY <1>2 DEF Rec
  <2> QED BY <2>1 DEF Seen, First, More
<1> QED BY <1>3, <1>4

Full(P, L, top) == \A p \in L : P[p].level = 0 /\ p # top => P[p].keys # <<>>

\* From a leaf a scan goes on to the next, or has come to the last.
LEMMA AdvancedIs ==
  ASSUME NEW P, NEW L, NEW lo, NEW hi, NEW top, Standing(P, L, lo, hi, top), Full(P, L, top),
         NEW p \in L, P[p].level = 0
  PROVE  \/ Advanced(p) = <<>> /\ hi[p] = hi[top]
         \/ \E r \in L : Advanced(p) = <<r>> /\ P[r].level = 0 /\ lo[r] = hi[p]
<1>1. P = tree.pages
  BY DEF Standing
<1>2. CASE P[p].keys = <<>>
  <2>1. p = top
    BY <1>2 DEF Full
  <2>2. Advanced(p) = <<>>
    BY <1>1, <1>2 DEF Advanced
  <2> QED BY <2>1, <2>2
<1>3. CASE P[p].keys # <<>>
  <2>1. PICK r : r = LeafAfter(Last(P[p].keys))
    OBVIOUS
  <2>2. NextLeaf(P, L, lo, hi, top, p, r)
    BY <2>1, <1>3, LeafAfterIs
  <2>3. Advanced(p) = IF r = 0 THEN <<>> ELSE <<r>>
    BY <2>1, <1>1, <1>3 DEF Advanced
  <2> QED BY <2>2, <2>3 DEF NextLeaf
<1> QED BY <1>2, <1>3

(* Leaves each of which starts where the one before ends.                  *)
Chain(P, L, lo, hi, start, s) ==
  /\ s \in Seq(L) /\ s # <<>> /\ lo[s[1]] <= start
  /\ \A i \in 1 .. Len(s) : P[s[i]].level = 0
  /\ \A i \in 2 .. Len(s) : lo[s[i]] = hi[s[i - 1]]

Onward(s, u) == u = s \o Advanced(Last(s))
GoneOn(P, L, lo, hi, top, start, s, u) ==
  /\ Chain(P, L, lo, hi, start, u)
  /\ \/ u = s /\ Advanced(Last(s)) = <<>> /\ hi[Last(s)] = hi[top]
     \/ Len(u) = Len(s) + 1

\* A chain stays one.
LEMMA ChainGoesOn ==
  ASSUME NEW P, NEW L, NEW lo, NEW hi, NEW top, Standing(P, L, lo, hi, top), Full(P, L, top),
         NEW start, NEW s, Chain(P, L, lo, hi, start, s), NEW u, Onward(s, u)
  PROVE  GoneOn(P, L, lo, hi, top, start, s, u)
<1> USE DEF Onward, GoneOn
<1>1. PICK N \in Nat : N = Len(s) /\ N >= 1 /\ s \in Seq(L) /\ DOMAIN s = 1 .. N
  <2>1. s \in Seq(L) /\ s # <<>>
    BY DEF Chain
  <2>2. Len(s) \in Nat /\ Len(s) >= 1 /\ DOMAIN s = 1 .. Len(s)
    BY <2>1
  <2> QED BY <2>1, <2>2
<1>2. N \in 1 .. N /\ 1 \in 1 .. N
  BY <1>1
<1>3. PICK p \in L : p = Last(s) /\ p = s[N] /\ P[p].level = 0
  BY <1>1, <1>2 DEF Chain, Last
<1>4. CASE Advanced(p) = <<>> /\ hi[p] = hi[top]
  <2>1. u = s
    BY <1>1, <1>3, <1>4
  <2> QED BY <2>1, <1>3, <1>4
<1>5. ASSUME NEW r \in L, Advanced(p) = <<r>>, P[r].level = 0, lo[r] = hi[p]
      PROVE  Chain(P, L, lo, hi, start, u) /\ Len(u) = N + 1
  <2>1. PICK o : o = <<r>>
    OBVIOUS
  <2>2. o \in Seq(L) /\ Len(o) = 1 /\ o[1] = r /\ u = s \o o
    BY <2>1, <1>3, <1>5
  <2>3. u \in Seq(L) /\ Len(u) = N + 1 /\ u[N + 1] = r /\ \A i \in 1 .. N : u[i] = s[i]
    <3>1. 1 \in 1 .. 1
      OBVIOUS
    <3>2. s \o o \in Seq(L) /\ Joined(s \o o, s, o)
      BY <2>2, <1>1, ConcatIs
    <3> QED BY <3>1, <3>2, <2>2, <1>1 DEF Joined
  <2>4. u # <<>> /\ lo[u[1]] <= start
    BY <2>3, <1>1, <1>2 DEF Chain
  <2>5. ASSUME NEW i \in 1 .. N + 1 PROVE P[u[i]].level = 0
    <3>1. CASE i = N + 1
      BY <3>1, <2>3, <1>5
    <3>2. CASE i # N + 1
      <4>1. i \in 1 .. N
        BY <3>2, <1>1
      <4> QED BY <4>1, <2>3, <1>1 DEF Chain
    <3> QED BY <3>1, <3>2
  <2>6. ASSUME NEW i \in 2 .. N + 1 PROVE lo[u[i]] = hi[u[i - 1]]
    <3>1. CASE i = N + 1
      <4>1. i - 1 = N
        BY <3>1, <1>1
      <4> QED BY <3>1, <4>1, <2>3, <1>2, <1>3, <1>5
    <3>2. CASE i # N + 1
      <4>1. i \in 2 .. N /\ i \in 1 .. N /\ i - 1 \in 1 .. N
        BY <3>2, <1>1
      <4> QED BY <4>1, <2>3, <1>1 DEF Chain
    <3> QED BY <3>1, <3>2
  <2> QED BY <2>3, <2>4, <2>5, <2>6 DEF Chain
<1>6. \/ Advanced(p) = <<>> /\ hi[p] = hi[top]
      \/ \E r \in L : Advanced(p) = <<r>> /\ P[r].level = 0 /\ lo[r] = hi[p]
  BY <1>3, AdvancedIs
<1> QED BY <1>1, <1>3, <1>4, <1>5, <1>6

\* The leaves of a chain are different: it is not longer than the file.
LEMMA ChainShort ==
  ASSUME NEW P, NEW L, NEW lo, NEW hi, NEW top, Standing(P, L, lo, hi, top),
         NEW start, NEW s, Chain(P, L, lo, hi, start, s)
  PROVE  Len(s) <= Len(P)
<1>1. /\ P \in Seq(Node) /\ L \subseteq Nat /\ Forest(P, L, {top}, lo, hi)
  BY DEF Standing
<1>2. PICK N \in Nat : N = Len(s) /\ N >= 1 /\ s \in Seq(L) /\ DOMAIN s = 1 .. N
  <2>1. s \in Seq(L) /\ s # <<>>
    BY DEF Chain
  <2>2. Len(s) \in Nat /\ Len(s) >= 1 /\ DOMAIN s = 1 .. Len(s)
    BY <2>1
  <2> QED BY <2>1, <2>2
<1>3. PICK M \in Nat : M = Len(P) /\ DOMAIN P = 1 .. M /\ L \subseteq 1 .. M
  <2>1. L \subseteq DOMAIN P
    BY <1>1 DEF Forest
  <2> QED BY <2>1, <1>1
<1>4. ASSUME NEW p \in L PROVE lo[p] \in Nat /\ hi[p] \in Nat /\ lo[p] < hi[p]
  <2>1. Ready(P, L \ {top}, lo, hi, P[p], lo[p], hi[p]) /\ lo[p] \in Nat /\ hi[p] \in Nat
    BY <1>1, PageFacts
  <2> QED BY <2>1 DEF Ready, Spans
<1>5. PICK n \in Nat : n + 1 = N
  <2>1. N - 1 \in Nat /\ (N - 1) + 1 = N
    BY <1>2
  <2> QED BY <2>1
<1>6. PICK f : f = [x \in 0 .. n |-> lo[s[x + 1]]]
  OBVIOUS
<1>7. \A x \in 0 .. n : x + 1 \in 1 .. N /\ s[x + 1] \in L /\ f[x] = lo[s[x + 1]]
  BY <1>2, <1>5, <1>6
<1>8. \A x \in 0 .. n : f[x] \in Nat
  BY <1>4, <1>7
<1>9. ASSUME NEW x \in 1 .. n PROVE f[x - 1] < f[x]
  <2>1. x - 1 \in 0 .. n /\ x \in 0 .. n /\ (x - 1) + 1 = x /\ x + 1 \in 2 .. N /\ (x + 1) - 1 = x
    BY <1>5
  <2>2. f[x] = lo[s[x + 1]] /\ f[x - 1] = lo[s[x]] /\ s[x] \in L
    BY <2>1, <1>7
  <2>3. lo[s[x + 1]] = hi[s[x]]
    BY <2>1, <1>2 DEF Chain
  <2>4. lo[s[x]] < hi[s[x]]
    BY <2>2, <1>4
  <2> QED BY <2>2, <2>3, <2>4
<1>10. \A x, y \in 0 .. n : x < y => f[x] < f[y]
  <2>1. ASSUME NEW x \in 0 .. n, NEW y \in 0 .. n, x < y PROVE f[x] < f[y]
    BY <2>1, <1>8, <1>9, Rising
  <2> QED BY <2>1
<1>11. ASSUME NEW i \in 1 .. N, NEW j \in 1 .. N, s[i] = s[j] PROVE i = j
  <2>1. PICK x \in 0 .. n, y \in 0 .. n : x + 1 = i /\ y + 1 = j
    <3>1. i - 1 \in 0 .. n /\ j - 1 \in 0 .. n /\ (i - 1) + 1 = i /\ (j - 1) + 1 = j
      BY <1>5
    <3> QED BY <3>1
  <2>2. f[x] = f[y]
    BY <2>1, <1>7, <1>11
  <2>3. ~ (x < y) /\ ~ (y < x)
    BY <2>2, <1>8, <1>10
  <2> QED BY <2>1, <2>3
<1>12. s \in Seq(Nat) /\ IsInjective(s)
  <2>1. s \in Seq(Nat)
    BY <1>1, <1>2, SeqMonotonic, Zenon
  <2>2. IsInjective(s)
    BY <1>2, <1>11, Zenon DEF IsInjective
  <2> QED BY <2>1, <2>2
<1>13. Cardinality(ToSet(s)) = N
  BY <1>2, <1>12, InjectiveLength
<1>14. ToSet(s) \subseteq 1 .. M
  <2>1. \A i \in 1 .. N : s[i] \in 1 .. M
    <3>1. \A i \in 1 .. N : s[i] \in L
      BY <1>2
    <3> QED BY <3>1, <1>3
  <2>2. ToSet(s) = {s[i] : i \in 1 .. N}
    BY <1>2 DEF ToSet
  <2> QED BY <2>1, <2>2
<1>15. IsFiniteSet(1 .. M) /\ Cardinality(1 .. M) = M
  <2>1. 1 \in Int /\ M \in Int
    OBVIOUS
  <2>2. IsFiniteSet(1 .. M) /\ Cardinality(1 .. M) = IF 1 > M THEN 0 ELSE M - 1 + 1
    BY <2>1, FS_Interval
  <2> QED BY <2>2
<1>16. Cardinality(ToSet(s)) <= Cardinality(1 .. M)
  BY <1>14, <1>15, FS_Subset
<1> QED BY <1>2, <1>3, <1>13, <1>15, <1>16

\* A scan visits a chain of leaves up to the last leaf of the tree.
LEMMA VisitedChain ==
  ASSUME NEW P, NEW L, NEW lo, NEW hi, NEW top, Standing(P, L, lo, hi, top), Full(P, L, top),
         NEW start \in Nat, start < hi[top]
  PROVE  /\ Chain(P, L, lo, hi, start, Visited(start))
         /\ hi[Last(Visited(start))] = hi[top]
<1>1. P = tree.pages /\ top = tree.root /\ P \in Seq(Node)
  BY DEF Standing
<1>2. PICK M \in Nat : M = Len(P)
  BY <1>1
<1>3. PICK f : Seen(start, f) /\ Visited(start) = f[M]
  BY <1>1, <1>2, VisitedSteps
<1>4. /\ f[0] = <<LeafOf(tree, top, start)>>
      /\ \A n \in 1 .. M : f[n] = f[n - 1] \o Advanced(Last(f[n - 1]))
  BY <1>1, <1>2, <1>3 DEF Seen
<1> DEFINE Done(s) == Advanced(Last(s)) = <<>> /\ hi[Last(s)] = hi[top]
           Good(n) == Chain(P, L, lo, hi, start, f[n]) /\ (Len(f[n]) = n + 1 \/ Done(f[n]))
<1>5. Good(0)
  <2>1. PICK p : p = LeafOf(tree, top, start)
    OBVIOUS
  <2>2. LeafAt(P, L, lo, hi, start, p)
    BY <2>1, LeafOfIs
  <2>3. p \in L /\ P[p].level = 0 /\ lo[p] <= start
    BY <2>2 DEF LeafAt
  <2>4. PICK s : s = <<p>>
    OBVIOUS
  <2>5. s \in Seq(L) /\ s # <<>> /\ Len(s) = 1 /\ s[1] = p
    BY <2>3, <2>4
  <2>6. /\ \A i \in 1 .. Len(s) : P[s[i]].level = 0
        /\ \A i \in 2 .. Len(s) : lo[s[i]] = hi[s[i - 1]]
    <3>1. \A i \in 1 .. Len(s) : i = 1
      BY <2>5
    <3>2. 2 .. Len(s) = {}
      BY <2>5
    <3> QED BY <3>1, <3>2, <2>3, <2>5
  <2>7. Chain(P, L, lo, hi, start, s)
    BY <2>3, <2>5, <2>6 DEF Chain
  <2>8. Len(s) = 0 + 1
    BY <2>5
  <2> QED BY <2>1, <2>4, <2>7, <2>8, <1>4
<1>6. ASSUME NEW n \in 1 .. M, Good(n - 1) PROVE Good(n)
  <2>1. PICK s, u : s = f[n - 1] /\ u = f[n]
    OBVIOUS
  <2>2. Onward(s, u) /\ Chain(P, L, lo, hi, start, s)
    BY <2>1, <1>4, <1>6 DEF Onward
  <2>3. /\ Chain(P, L, lo, hi, start, u)
        /\ \/ u = s /\ Advanced(Last(s)) = <<>> /\ hi[Last(s)] = hi[top]
           \/ Len(u) = Len(s) + 1
    <3>1. GoneOn(P, L, lo, hi, top, start, s, u)
      BY <2>2, ChainGoesOn
    <3> QED BY <3>1 DEF GoneOn
  <2>4. CASE Done(s)
    <3>1. u = s
      <4>1. s \in Seq(L)
        BY <2>2 DEF Chain
      <4> QED BY <4>1, <2>2, <2>4 DEF Onward
    <3> QED BY <3>1, <2>1, <2>3, <2>4
  <2>5. CASE ~ Done(s)
    <3>1. Len(s) = (n - 1) + 1
      BY <2>1, <2>5, <1>6
    <3>2. Len(u) = Len(s) + 1
      BY <2>3, <2>5
    <3>3. Len(u) = n + 1
      BY <3>1, <3>2
    <3> QED BY <3>3, <2>1, <2>3
  <2> QED BY <2>4, <2>5
<1> HIDE DEF Good
<1>7. Good(M)
  <2> DEFINE Bad == {n \in 0 .. M : ~ Good(n)}
  <2>1. Bad = {}
    <3> SUFFICES ASSUME Bad # {} PROVE FALSE
      OBVIOUS
    <3>0. Bad \subseteq Nat
      OBVIOUS
    <3>1. PICK m \in 0 .. M : m \in Bad /\ \A n \in Bad : m <= n
      BY <3>0, LeastNatural
    <3>2. m # 0
      BY <3>1, <1>5
    <3>3. m - 1 \in 0 .. M /\ m - 1 \notin Bad /\ m \in 1 .. M
      <4>1. ~ (m <= m - 1) /\ m - 1 \in 0 .. M /\ m \in 1 .. M
        BY <3>1, <3>2
      <4> HIDE DEF Bad
      <4> QED BY <3>1, <4>1
    <3>4. Good(m - 1)
      BY <3>3
    <3>5. Good(m)
      BY <3>3, <3>4, <1>6
    <3> QED BY <3>1, <3>5
  <2>2. M \in 0 .. M
    OBVIOUS
  <2> QED BY <2>1, <2>2
<1>8. PICK s : s = f[M]
  OBVIOUS
<1>9. Chain(P, L, lo, hi, start, s) /\ (Len(s) = M + 1 \/ hi[Last(s)] = hi[top])
  BY <1>7, <1>8 DEF Good
<1>10. Len(s) # M + 1
  <2>1. Len(s) <= M
    BY <1>2, <1>9, ChainShort
  <2> QED BY <2>1
<1> QED BY <1>3, <1>8, <1>9, <1>10

\* A chain up to the last leaf has the leaf of each key from its start.
LEMMA ChainCovers ==
  ASSUME NEW P, NEW L, NEW lo, NEW hi, NEW top, Standing(P, L, lo, hi, top),
         NEW start \in Nat, NEW s, Chain(P, L, lo, hi, start, s), hi[Last(s)] = hi[top],
         NEW key \in Nat, start <= key, key < hi[top]
  PROVE  \E p \in ToSet(s) : LeafAt(P, L, lo, hi, key, p)
<1>1. L \subseteq Nat /\ Forest(P, L, {top}, lo, hi)
  BY DEF Standing
<1>2. PICK N \in Nat : N = Len(s) /\ N >= 1 /\ s \in Seq(L) /\ DOMAIN s = 1 .. N
  <2>1. s \in Seq(L) /\ s # <<>>
    BY DEF Chain
  <2>2. Len(s) \in Nat /\ Len(s) >= 1 /\ DOMAIN s = 1 .. Len(s)
    BY <2>1
  <2> QED BY <2>1, <2>2
<1> DEFINE B == {i \in 1 .. N : key < hi[s[i]]}
<1>3. N \in B
  BY <1>2 DEF Last
<1>4. PICK i \in B : \A j \in B : i <= j
  <2>1. B \subseteq Nat /\ B # {}
    BY <1>3
  <2> HIDE DEF B
  <2> QED BY <2>1, LeastNatural
<1>5. i \in 1 .. N /\ key < hi[s[i]] /\ s[i] \in L /\ lo[s[1]] <= start /\ 1 \in 1 .. N /\ s[1] \in L
  BY <1>2 DEF Chain
<1>6. lo[s[i]] \in Nat /\ lo[s[1]] \in Nat
  BY <1>1, <1>5, PageFacts
<1>7. lo[s[i]] <= key
  <2>1. CASE i = 1
    BY <2>1, <1>5, <1>6
  <2>2. CASE i # 1
    <3>1. i - 1 \in 1 .. N /\ ~ (i <= i - 1) /\ i \in 2 .. N
      BY <2>2, <1>5
    <3>2. i - 1 \notin B
      <4> HIDE DEF B
      <4> QED BY <3>1, <1>4
    <3>3. ~ (key < hi[s[i - 1]])
      BY <3>1, <3>2
    <3>4. lo[s[i]] = hi[s[i - 1]]
      BY <3>1, <1>2 DEF Chain
    <3> QED BY <3>3, <3>4, <1>6
  <2> QED BY <2>1, <2>2
<1>8. s[i] \in ToSet(s) /\ P[s[i]].level = 0
  BY <1>2, <1>5 DEF ToSet, Chain
<1>9. LeafAt(P, L, lo, hi, key, s[i])
  BY <1>5, <1>7, <1>8 DEF LeafAt
<1> QED BY <1>8, <1>9

\* With no empty leaf, a scan emits what look-ups find, from its start on.
LEMMA ScanFinds ==
  ASSUME NEW P, NEW L, NEW lo, NEW hi, NEW top, Standing(P, L, lo, hi, top), Full(P, L, top),
         NEW start \in Nat, start < hi[top]
  PROVE  Scanned(start) = {k \in Held(P, L) : k >= start}
<1>1. P = tree.pages /\ L \subseteq Nat /\ Forest(P, L, {top}, lo, hi) /\ \A k \in Keys : k < hi[top]
  BY DEF Standing
<1>2. PICK s : s = Visited(start)
  OBVIOUS
<1>3. Chain(P, L, lo, hi, start, s) /\ hi[Last(s)] = hi[top]
  BY <1>2, VisitedChain
<1>4. Scanned(start) = {k \in UNION {ToSet(P[id].keys) : id \in ToSet(s)} : k >= start}
  BY <1>1, <1>2 DEF Scanned
<1>5. \A id \in ToSet(s) : id \in L /\ P[id].level = 0
  BY <1>3 DEF Chain, ToSet
<1>6. ASSUME NEW p \in L, NEW k \in ToSet(P[p].keys), P[p].level = 0
      PROVE  k \in Keys /\ k \in Nat /\ k < hi[top] /\ LeafAt(P, L, lo, hi, k, p)
  <2>1. Ready(P, L \ {top}, lo, hi, P[p], lo[p], hi[p]) /\ P[p].keys \in Seq(Keys)
    BY <1>1, PageFacts
  <2>2. PICK i \in DOMAIN P[p].keys : k = P[p].keys[i]
    BY DEF ToSet
  <2>3. lo[p] <= k /\ k < hi[p]
    BY <2>1, <2>2 DEF Ready, Spans
  <2>4. k \in Keys
    BY <2>1, <2>2
  <2>5. k \in Nat /\ k < hi[top]
    BY <2>4, <1>1, SizesAssumption
  <2> QED BY <2>3, <2>4, <2>5, <1>6 DEF LeafAt
<1>7. ASSUME NEW k \in Held(P, L), k >= start
      PROVE  \E id \in ToSet(s) : k \in ToSet(P[id].keys)
  <2>1. PICK p \in L : P[p].level = 0 /\ k \in ToSet(P[p].keys)
    BY <1>7 DEF Held, IsLeaf
  <2>2. k \in Nat /\ k < hi[top] /\ LeafAt(P, L, lo, hi, k, p)
    BY <2>1, <1>6
  <2>3. start <= k
    BY <2>2, <1>7
  <2>4. PICK id \in ToSet(s) : LeafAt(P, L, lo, hi, k, id)
    BY <2>2, <2>3, <1>3, ChainCovers
  <2>5. id = p
    <3>1. PICK q : q = LeafOf(tree, top, k)
      OBVIOUS
    <3>2. \A x : LeafAt(P, L, lo, hi, k, x) => x = q
      BY <3>1, <2>2, LeafOfIs
    <3> QED BY <3>2, <2>2, <2>4
  <2> QED BY <2>1, <2>4, <2>5
<1>8. ASSUME NEW id \in ToSet(s), NEW k \in ToSet(P[id].keys) PROVE k \in Held(P, L)
  BY <1>5, <1>6 DEF Held, IsLeaf
<1> QED BY <1>4, <1>7, <1>8

\* The invariant, and no leaf but the root empty: scans miss nothing.
LEMMA ScansSafe == TreeInv => ScansFindAllInFullLeaves
<1> SUFFICES ASSUME TreeInv, \A id \in Leaves \ {tree.root} : tree.pages[id].keys # <<>>
             PROVE  ScansFindAll
  BY DEF ScansFindAllInFullLeaves
<1>1. PICK L, lo, hi : Rules(tree, L, lo, hi, held)
  BY DEF TreeInv, Tree
<1>2. PICK P, top : P = tree.pages /\ top = tree.root
  OBVIOUS
<1>3. TreeOn(tree, L, lo, hi) /\ Held(P, L) = held
  BY <1>1, <1>2 DEF Rules
<1>4. P \in Seq(Node) /\ Forest(P, L, {top}, lo, hi) /\ L \subseteq Nat
  <2>1. PICK w : w = Work(tree)
    OBVIOUS
  <2>2. w.pages = P /\ Sound(w, L, {top}, lo, hi, {})
    BY <1>2, <1>3, <2>1 DEF TreeOn, Work
  <2> QED BY <2>2, SoundNat DEF Sound, WorkType
<1>5. Standing(P, L, lo, hi, top)
  BY <1>1, <1>2, <1>4 DEF Rules, Standing
<1>6. TreePages = L
  BY <1>3, PagesOfTree
<1>7. Full(P, L, top)
  BY <1>2, <1>6 DEF Full, Leaves, IsLeaf
<1>8. ASSUME NEW start \in Keys \union {0}
      PROVE  Scanned(start) = {k \in held : k >= start}
  <2>1. start \in Nat /\ start < hi[top]
    BY <1>5, SizesAssumption DEF Standing
  <2> QED BY <2>1, <1>3, <1>5, <1>7, ScanFinds
<1> QED BY <1>8 DEF ScansFindAll, held

\* TreeInv holds in every state: the pages in use are a tree ordered by its
\* pivots whose nodes fit, the freelist is the others without repetition,
\* and the leaf a look-up comes to is the only one that can hold its key.
THEOREM BTreeInvariant == Spec => []TreeInv
<1>1. Init => TreeInv
  BY TreeInit
<1>2. TreeInv /\ [Next]_vars => TreeInv'
  BY TreeNext
<1> QED BY <1>1, <1>2, PTL DEF Spec

\* The records of pages are well formed (BTree's types) for every set of
\* keys, sizes and capacity.
THEOREM BTreeTypeCorrect == Spec => []TypeOK
<1>1. TreeInv => TypeOK
  BY TreeSafe
<1> QED BY <1>1, BTreeInvariant, PTL

\* Every node that insert, split, merge and borrow write fits its page.
THEOREM BTreeNodesFit == Spec => []NodesFit
<1>1. TreeInv => NodesFit
  BY TreeSafe
<1> QED BY <1>1, BTreeInvariant, PTL

\* No operation loses a page or frees one twice, and no page has two parents.
THEOREM BTreePagesAccounted == Spec => []PagesAccounted
<1>1. TreeInv => PagesAccounted
  BY TreeSafe
<1> QED BY <1>1, BTreeInvariant, PTL

\* A range scan from any bound emits the keys that look-ups find from there
\* on, in every state in which no leaf but the root is empty.
THEOREM BTreeScans == Spec => []ScansFindAllInFullLeaves
<1>1. TreeInv => ScansFindAllInFullLeaves
  BY ScansSafe
<1> QED BY <1>1, BTreeInvariant, PTL

\* The tree implements the map: insert and delete change what look-ups find
\* by their key and nothing else.
THEOREM BTreeImplementsMap == Spec => ImplementsMap
<1>1. Init => Map!Init
  <2> SUFFICES ASSUME Init PROVE Map!Init
    OBVIOUS
  <2>1. PICK load \in Loads : held = ToSet(load)
    BY TreeInit
  <2> QED BY <2>1 DEF Map!Init, held
<1>2. TreeInv /\ [Next]_vars => [Map!Next]_held
  <2> SUFFICES ASSUME TreeInv, [Next]_vars PROVE [Map!Next]_held
    OBVIOUS
  <2>1. CASE held' = held
    BY <2>1
  <2>2. ASSUME NEW key \in Keys, (key \notin held /\ held' = held \union {key})
                                 \/ (key \in held /\ held' = held \ {key})
        PROVE  Map!Next
    BY <2>2, Zenon DEF Map!Next, Map!Insert, Map!Delete, held
  <2> QED BY <2>1, <2>2, TreeNext
<1>3. Spec => []TreeInv
  BY BTreeInvariant
<1>4. [Map!Next]_held <=> [Map!Next]_{k \in Keys : Found(k)}
  BY DEF held
<1> QED BY <1>1, <1>2, <1>3, <1>4, PTL DEF Spec, ImplementsMap, Map!Spec
=============================================================================
