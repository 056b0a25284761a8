------------------------------ MODULE AVLTree ------------------------------
(***************************************************************************)
(* ut::AVLTree (include/containers/ut_avltree.h): trees of nodes linked by *)
(* raw pointers (left, right, parent), rebalanced after each insertion and *)
(* removal.  Memory is a heap of nodes that all trees allocate from.  A    *)
(* rotation and its mirror image are one definition, with the side as a    *)
(* parameter.  Values are left out: a value is moved together with its key.*)
(*                                                                         *)
(* Removing a node that has two children moves the pair of the successor   *)
(* into it.  ut::Pair<const Key, Value> stores its key without the const   *)
(* (templates/ut_pair.h:28-41), so the key is moved as well: a key of a    *)
(* scalar type is left as it was, a ut::String is left empty.              *)
(* MoveClearsKey says which of the two Key is.                             *)
(***************************************************************************)
EXTENDS Integers, Sequences, FiniteSets, FiniteSetsExt

SeqExt == INSTANCE SequencesExt

CONSTANTS Trees,         \* the trees
          Keys,          \* the keys, positive integers
          Capacity,      \* bound: number of nodes in memory
          MoveClearsKey  \* TRUE: a key that was moved from is empty

VARIABLES root,     \* AVLTree::root of each tree
          heap,     \* the nodes
          content   \* history: the keys each tree should have

vars == <<root, heap, content>>

Null == 0
Nodes == 1 .. Capacity
EmptyKey == 0   \* less than every key, as the empty string is
Sides == {"left", "right"}
Other(side) == IF side = "left" THEN "right" ELSE "left"

\* Memory that belongs to no node.
Blank == [live |-> FALSE, key |-> EmptyKey, balance |-> 0,
          parent |-> Null, left |-> Null, right |-> Null]

TypeOK ==
    /\ root \in [Trees -> Nodes \cup {Null}]
    /\ heap \in [Nodes -> [live : BOOLEAN, key : Keys \cup {EmptyKey}, balance : -1 .. 1,
                           parent : Nodes \cup {Null}, left : Nodes \cup {Null},
                           right : Nodes \cup {Null}]]
    /\ content \in [Trees -> SUBSET Keys]

Init ==
    /\ root = [t \in Trees |-> Null]
    /\ heap = [n \in Nodes |-> Blank]
    /\ content = [t \in Trees |-> {}]

-----------------------------------------------------------------------------
(* Searching.  h is a heap. *)

\* The next node on the way from n to key k.
Towards(h, n, k) == IF h[n].key > k THEN h[n].left ELSE h[n].right

\* Where the way from n to key k ends: at the node of k, or at its parent to be.
RECURSIVE Descend(_, _, _)
Descend(h, n, k) ==
    IF h[n].key = k \/ Towards(h, n, k) = Null THEN n ELSE Descend(h, Towards(h, n, k), k)

FindValue(h, r, k) == r # Null /\ h[Descend(h, r, k)].key = k

\* GetDeepestLeftChild, GetDeepestRightChild, GetMinValueNode.
RECURSIVE GetDeepestChild(_, _, _)
GetDeepestChild(h, n, side) ==
    IF h[n][side] = Null THEN n ELSE GetDeepestChild(h, h[n][side], side)

\* The nodes that DestroyLeaves reaches from n, and n.
RECURSIVE Subtree(_, _)
Subtree(h, n) ==
    IF n = Null THEN {} ELSE {n} \cup Subtree(h, h[n].left) \cup Subtree(h, h[n].right)

-----------------------------------------------------------------------------
(* Iterators: GetNextSibling is side "right", GetPreviousSibling "left". *)

\* The first ancestor of n that has n below it on the given side.
RECURSIVE GetFirstParent(_, _, _)
GetFirstParent(h, n, side) ==
    LET p == h[n].parent
    IN  IF p = Null \/ h[p][side] = n THEN p ELSE GetFirstParent(h, p, side)

\* Faulty form: the search for an ancestor begins one node too high.
GetSibling_SkipsParent(h, n, side) ==
    LET p == h[n].parent
    IN  CASE h[n][side] # Null -> GetDeepestChild(h, h[n][side], Other(side))
          [] h[n][side] = Null /\ p = Null -> Null
          [] OTHER -> GetFirstParent(h, p, Other(side))

GetSibling(h, n, side) ==
    LET p == h[n].parent
    IN  CASE h[n][side] # Null -> GetDeepestChild(h, h[n][side], Other(side))
          [] h[n][side] = Null /\ p = Null -> Null
          [] h[n][side] = Null /\ p # Null /\ h[p][Other(side)] = n -> p
          [] OTHER -> GetFirstParent(h, p, Other(side))

\* The keys an iterator visits from n on (at most Capacity of them).
RECURSIVE Walk(_, _, _, _)
Walk(h, n, side, count) ==
    IF n = Null \/ count = 0 THEN <<>>
    ELSE <<h[n].key>> \o Walk(h, GetSibling(h, n, side), side, count - 1)

Iterate(h, r, side) ==
    IF r = Null THEN <<>> ELSE Walk(h, GetDeepestChild(h, r, Other(side)), side, Capacity + 1)

-----------------------------------------------------------------------------
(* Rebalancing.  These give [heap, node]: the memory after the call and the*)
(* pointer it returns.                                                      *)

RECURSIVE GetHeight(_, _)
GetHeight(h, n) ==
    IF n = Null THEN -1
    ELSE 1 + Max({GetHeight(h, h[n].left), GetHeight(h, h[n].right)})

UpdateBalance(h, n) ==
    [h EXCEPT ![n].balance = GetHeight(h, h[n].right) - GetHeight(h, h[n].left)]

\* Node b takes the place of a below p.
ReplaceChild(h, p, a, b) ==
    IF p = Null THEN h ELSE [h EXCEPT ![p][IF h[p].right = a THEN "right" ELSE "left"] = b]

\* Faulty form: the child that changes sides keeps its old parent.
Rotate_KeepsParent(h, a, side) ==
    LET b == h[a][Other(side)]
        turned == [h EXCEPT ![b].parent = h[a].parent, ![b][side] = a,
                            ![a].parent = b, ![a][Other(side)] = h[b][side]]
        linked == ReplaceChild(turned, h[a].parent, a, b)
    IN  [heap |-> UpdateBalance(UpdateBalance(linked, a), b), node |-> b]

\* RotateLeft, RotateRight: the child b of a on the other side comes up, and b's child
\* on this side changes over to a.
Rotate(h, a, side) ==
    LET b == h[a][Other(side)]
        c == h[b][side]
        turned == [h EXCEPT ![b].parent = h[a].parent, ![b][side] = a,
                            ![a].parent = b, ![a][Other(side)] = c]
        adopted == IF c = Null THEN turned ELSE [turned EXCEPT ![c].parent = a]
        linked == ReplaceChild(adopted, h[a].parent, a, b)
    IN  [heap |-> UpdateBalance(UpdateBalance(linked, a), b), node |-> b]

\* RotateLeftThenRight is side "left", RotateRightThenLeft "right".
RotateTwice(h, n, side) ==
    LET low == Rotate(h, h[n][side], side)
    IN  Rotate([low.heap EXCEPT ![n][side] = low.node], n, Other(side))

\* The rotation that lightens the given side of n.
Lighten(h, n, side) ==
    LET c == h[n][side]
    IN  IF GetHeight(h, h[c][side]) >= GetHeight(h, h[c][Other(side)])
        THEN Rotate(h, n, Other(side))
        ELSE RotateTwice(h, n, side)

RebalanceNode(h, n) ==
    LET u == UpdateBalance(h, n)
    IN  CASE u[n].balance < -1 -> Lighten(u, n, "left")
          [] u[n].balance > 1 -> Lighten(u, n, "right")
          [] OTHER -> [heap |-> u, node |-> n]

\* From n up to the root; gives the new root.
RECURSIVE RebalanceTree(_, _)
RebalanceTree(h, n) ==
    LET r == RebalanceNode(h, n)
        p == r.heap[r.node].parent
    IN  IF p = Null THEN r ELSE RebalanceTree(r.heap, p)

-----------------------------------------------------------------------------
(* Insertion. *)

Free(h) == {n \in Nodes : ~h[n].live}

\* The allocator gives a node of free memory; which one makes no difference.
Allocate(h) == Min(Free(h))

NewNode(k, p) == [Blank EXCEPT !.live = TRUE, !.key = k, !.parent = p]

\* EmplacePair into a tree that has nodes and does not have the key.
AddLeaf(h, r, k) ==
    LET p == Descend(h, r, k)
        n == Allocate(h)
        side == IF h[p].key > k THEN "left" ELSE "right"
    IN  RebalanceTree([h EXCEPT ![n] = NewNode(k, p), ![p][side] = n], p)

EmplacePair(h, r, k) ==
    CASE r = Null -> [heap |-> [h EXCEPT ![Allocate(h)] = NewNode(k, Null)],
                      node |-> Allocate(h)]
      [] r # Null /\ FindValue(h, r, k) -> [heap |-> h, node |-> r]
      [] OTHER -> AddLeaf(h, r, k)

Insert(t, k) ==
    /\ Free(heap) # {}   \* bound
    /\ LET r == EmplacePair(heap, root[t], k)
       IN  heap' = r.heap /\ root' = [root EXCEPT ![t] = r.node]
    /\ content' = [content EXCEPT ![t] = @ \cup {k}]

-----------------------------------------------------------------------------
(* Removal. *)

\* DeleteNode(node): the node and everything below it is destroyed and deallocated.
Destroy(h, n) == [m \in Nodes |-> IF m \in Subtree(h, n) THEN Blank ELSE h[m]]

\* Pair::operator=(Pair&&): the pair of m is moved into n.
MovePair(h, n, m) ==
    [h EXCEPT ![n].key = h[m].key, ![m].key = IF MoveClearsKey THEN EmptyKey ELSE @]

\* n has at most one child: n goes, or takes over its child and the child goes.
Unlink(h, n) ==
    LET temp == IF h[n].left # Null THEN h[n].left ELSE h[n].right
        merged == [MovePair(h, n, temp) EXCEPT ![n].balance = h[temp].balance,
                       ![n].left = h[temp].left, ![n].right = h[temp].right]
    IN  IF temp = Null THEN [heap |-> Destroy(h, n), node |-> Null]
                       ELSE RebalanceNode(Destroy(merged, temp), n)

\* DeleteNode(parent, key): n is the parent of the code.
RECURSIVE DeleteNode(_, _, _)
DeleteNode(h, n, k) ==
    LET In(g, side, key) ==   \* delete key in that subtree of n, then rebalance n
            LET sub == DeleteNode(g, g[n][side], key)
            IN  RebalanceNode([sub.heap EXCEPT ![n][side] = sub.node], n)
    IN  CASE n = Null -> [heap |-> h, node |-> Null]
          [] n # Null /\ k < h[n].key -> In(h, "left", k)
          [] n # Null /\ k > h[n].key -> In(h, "right", k)
          [] n # Null /\ k = h[n].key /\ Null \in {h[n].left, h[n].right} -> Unlink(h, n)
          [] OTHER ->
                 LET moved == MovePair(h, n, GetDeepestChild(h, h[n].right, "left"))
                 IN  In(moved, "right", moved[n].key)

Remove(t, k) ==
    /\ LET r == DeleteNode(heap, root[t], k)
       IN  heap' = r.heap /\ root' = [root EXCEPT ![t] = r.node]
    /\ content' = [content EXCEPT ![t] = @ \ {k}]

\* Also the destructor.
Reset(t) ==
    /\ heap' = Destroy(heap, root[t])
    /\ root' = [root EXCEPT ![t] = Null]
    /\ content' = [content EXCEPT ![t] = {}]

-----------------------------------------------------------------------------
(* Copy and move. *)

RECURSIVE CopyNode(_, _, _)
CopyNode(h, copy, parent) ==
    IF copy = Null THEN [heap |-> h, node |-> Null]
    ELSE LET n == Allocate(h)
             made == [h EXCEPT ![n] = [NewNode(h[copy].key, parent)
                                           EXCEPT !.balance = h[copy].balance]]
             l == CopyNode(made, h[copy].left, n)
             r == CopyNode(l.heap, h[copy].right, n)
         IN  [heap |-> [r.heap EXCEPT ![n].left = l.node, ![n].right = r.node], node |-> n]

\* Assignment, and copy construction when t is empty.  Assigning a tree to itself reads the
\* nodes it has just destroyed, so the model leaves it out.
Assign(t, u) ==
    /\ t # u
    /\ Cardinality(Subtree(heap, root[u])) <= Cardinality(Free(Destroy(heap, root[t])))  \* bound
    /\ LET r == CopyNode(Destroy(heap, root[t]), root[u], Null)
       IN  heap' = r.heap /\ root' = [root EXCEPT ![t] = r.node]
    /\ content' = [content EXCEPT ![t] = content[u]]

\* Move assignment, and move construction when t is empty.
MoveAssign(t, u) ==
    /\ t # u
    /\ heap' = Destroy(heap, root[t])
    /\ root' = [root EXCEPT ![t] = root[u], ![u] = Null]
    /\ content' = [content EXCEPT ![t] = content[u], ![u] = {}]

Next ==
    \/ \E t \in Trees, k \in Keys : Insert(t, k) \/ Remove(t, k)
    \/ \E t \in Trees : Reset(t)
    \/ \E t, u \in Trees : Assign(t, u) \/ MoveAssign(t, u)

Spec == Init /\ [][Next]_vars

-----------------------------------------------------------------------------
(* Properties. *)

\* After every operation: the nodes in memory are exactly those reachable from the roots, each
\* from one tree only, and nothing has written to freed memory; a node is the parent of its
\* children; the stored balance is the difference of the heights and is at most one.  Removing
\* a node with one child depends on the last point: DeleteNode(temp) destroys everything below
\* temp, so temp must be a leaf (ut_avltree.h:781-799).
WellFormed ==
    /\ \A n \in Nodes : IF n \in UNION {Subtree(heap, root[t]) : t \in Trees}
                        THEN heap[n].live ELSE heap[n] = Blank
    /\ \A t, u \in Trees :
           t # u => Subtree(heap, root[t]) \cap Subtree(heap, root[u]) = {}
    /\ \A t \in Trees : root[t] # Null => heap[root[t]].parent = Null
    /\ \A n \in Nodes, side \in Sides :
           heap[n][side] # Null => heap[heap[n][side]].parent = n
    /\ \A n \in Nodes : /\ heap[n].balance \in -1 .. 1
                        /\ heap[n].live => heap[n].balance =
                               GetHeight(heap, heap[n].right) - GetHeight(heap, heap[n].left)

\* A tree has the keys that were inserted and not removed, each once: iterating forward visits
\* them in ascending order, iterating backward in descending order, and Find finds exactly
\* them (ut_avltree.h:18-21 and 522-527).
Contents ==
    \A t \in Trees :
        LET sorted == SeqExt!SetToSortSeq(content[t], <)
        IN  /\ Iterate(heap, root[t], "right") = sorted
            /\ Iterate(heap, root[t], "left") = SeqExt!Reverse(sorted)
            /\ \A k \in Keys : FindValue(heap, root[t], k) <=> k \in content[t]
=============================================================================
