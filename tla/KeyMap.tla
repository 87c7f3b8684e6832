------------------------------- MODULE KeyMap -------------------------------
(***************************************************************************)
(* What BTree promises its callers: an ordered map, of which only the keys *)
(* matter here.  insert refuses a key that is there, delete says whether   *)
(* the key was.                                                            *)
(***************************************************************************)
CONSTANTS
  Keys,
  Initially  \* the sets of keys it may hold at first
VARIABLE held

Init == held \in Initially
Insert(key) == key \notin held /\ held' = held \union {key}
Delete(key) == key \in held /\ held' = held \ {key}
Next == \E key \in Keys : Insert(key) \/ Delete(key)
Spec == Init /\ [][Next]_held
=============================================================================
