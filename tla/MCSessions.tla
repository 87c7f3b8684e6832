----------------------------- MODULE MCSessions -----------------------------
EXTENDS Sessions, TLC
CONSTANTS e1, e2, t1, t2, t3, k1, k2
\* Two threads of one handle and one of another: the least that can meet.
Three == t1 :> e1 @@ t2 :> e1 @@ t3 :> e2
\* One writer.
One == t1 :> e1
\* Each handle opens without a key or with one of its own.
OwnKeys == e1 :> {NoKey, k1} @@ e2 :> {NoKey, k2}
PlainOnly == e1 :> {NoKey} @@ e2 :> {NoKey}
=============================================================================
