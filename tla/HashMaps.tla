------------------------------ MODULE HashMaps ------------------------------
(***************************************************************************)
(* The two hash maps of include/containers/ut_hashmap.h under any sequence *)
(* of Insert, Remove and Reset.  A behaviour is about one map, of the kind *)
(* its first state chooses.                                                *)
(***************************************************************************)
EXTENDS Integers, Sequences, FiniteSets

CONSTANTS Keys,  \* positive integers
          Hash   \* HashFunction: a number for each key

ASSUME HashMapsAssumption == /\ Keys \subseteq Nat \ {0}
                             /\ Hash \in [Keys -> Nat]

Dense == INSTANCE DenseHashMap
Sparse == INSTANCE SparseHashMap

VARIABLES kind,     \* which of the two maps
          map,      \* its state
          content   \* history: the keys inserted and not reported as removed

vars == <<kind, map, content>>

Init ==
    /\ kind \in {"dense", "sparse"}
    /\ map = IF kind = "dense" THEN Dense!Cleared(0) ELSE Sparse!Cleared(0)
    /\ content = {}

Insert(k) ==
    /\ map' = IF kind = "dense" THEN Dense!Insert(map, k) ELSE Sparse!Insert(map, k)
    /\ content' = content \cup {k}
    /\ UNCHANGED kind

\* What Remove(key) does to the map and what it returns.
RemoveResult(k) ==
    IF kind = "dense" THEN [map |-> Dense!Remove(map, k), found |-> Dense!Find(map, k)]
                      ELSE Sparse!Remove(map, k)

Remove(k) ==
    /\ map' = RemoveResult(k).map
    /\ content' = IF RemoveResult(k).found THEN content \ {k} ELSE content
    /\ UNCHANGED kind

Reset ==
    /\ map' = IF kind = "dense" THEN Dense!Reset(map) ELSE Sparse!Reset(map)
    /\ content' = {}
    /\ UNCHANGED kind

Next == Reset \/ \E k \in Keys : Insert(k) \/ Remove(k)

Spec == Init /\ [][Next]_vars

-----------------------------------------------------------------------------
(* Properties. *)

Find(k) == IF kind = "dense" THEN Dense!Find(map, k) ELSE Sparse!Find(map, k)

\* The places an iterator visits, and the key it finds at each of them.
Visited == IF kind = "dense" THEN DOMAIN map.nodes ELSE Sparse!Visited(map)
KeyAt(p) == IF kind = "dense" THEN map.nodes[p] ELSE map.nodes[p].key

\* The lookup table of the dense map and the links of the sparse one agree with the nodes after
\* every insertion, removal and rehash: no bucket reaches into another, no node is cut off, and
\* no chain has a cycle.
Consistent == IF kind = "dense" THEN Dense!Consistent(map) ELSE Sparse!Consistent(map)

\* A map has the keys that were inserted and not reported as removed: Find finds exactly these,
\* and an iterator visits each of them once.  So an insertion or a removal never loses or
\* doubles another key, a rehash loses none, and a Remove that returns false (which the comment
\* at ut_hashmap.h:741-742 reserves for a key that is not there) has changed nothing.
Contents ==
    /\ \A k \in Keys : Find(k) <=> k \in content
    /\ {KeyAt(p) : p \in Visited} = content
    /\ \A p, q \in Visited : KeyAt(p) = KeyAt(q) => p = q

\* Remove removes a key that is in the map, and says so: "'true' if the element was found and
\* deleted or 'false' if there is no such element in the map" (ut_hashmap.h:741-742).
PresentIsRemoved == \A k \in content : RemoveResult(k).found
=============================================================================
