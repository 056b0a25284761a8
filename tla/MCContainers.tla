---------------------------- MODULE MCContainers ----------------------------
(***************************************************************************)
(* The containers with links of their own, each by itself: a hash map of   *)
(* either kind (MCHashMaps), or AVL trees that share the memory.           *)
(***************************************************************************)
EXTENDS MCHashMaps

CONSTANTS Trees, TreeKeys, Capacity, MoveClearsKey   \* see AVLTree

ASSUME TreeAssumption == /\ TreeKeys \subseteq Nat \ {0}
                         /\ Capacity \in Nat \ {0}
                         /\ MoveClearsKey \in BOOLEAN

VARIABLES container,         \* which container is used, "map" or "tree"
          root, heap, keys   \* the trees: see AVLTree

Tree == INSTANCE AVLTree WITH Keys <- TreeKeys, content <- keys

ContainersInit ==
    /\ Init /\ Tree!Init
    /\ \/ container = "map"
       \/ container = "tree" /\ kind = "dense"

ContainersNext ==
    \/ container = "map" /\ Next /\ UNCHANGED <<container, root, heap, keys>>
    \/ container = "tree" /\ Tree!Next /\ UNCHANGED <<container, vars>>

ContainersSpec == ContainersInit /\ [][ContainersNext]_<<container, vars, root, heap, keys>>

\* After every operation of ut::AVLTree the nodes in memory are those of the trees, with links
\* and balances that are right: AVLTree!WellFormed.
TreeWellFormed == Tree!WellFormed

\* Find and the iterators of ut::AVLTree give the keys that were inserted and not removed, in
\* order: AVLTree!Contents.
TreeContents == Tree!Contents
=============================================================================
