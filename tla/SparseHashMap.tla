--------------------------- MODULE SparseHashMap ---------------------------
(***************************************************************************)
(* ut::SparseHashMap (include/containers/ut_hashmap.h): a table with one   *)
(* node per bucket, and an array of collision nodes in which the other     *)
(* nodes of the buckets are chained by next_id.  Removing a collision node *)
(* moves the later ones down, so all links must follow.  Operators on a    *)
(* value [capacity, nodes, num].  Nodes are numbered the way the iterators *)
(* number them, the table first and then the collision nodes, but from 1:  *)
(* bucket b begins at place b + 1, collision node i is at place            *)
(* capacity + i + 1, and a link is a place, or End.                        *)
(***************************************************************************)
EXTENDS Integers, Sequences, FiniteSets

SeqExt == INSTANCE SequencesExt

CONSTANT Hash   \* HashFunction: a number for each key, the keys being positive

max_density_level == 2
capacity_multiplier == 4

End == 0
Node(k) == [key |-> k, next |-> End]
NoNode == Node(0)   \* the empty Optional

Cleared(n) == [capacity |-> n, nodes |-> [p \in 1 .. n |-> NoNode], num |-> 0]

CalculateLookupId(m, k) == Hash[k] % m.capacity

\* m with these nodes, num of them.
WithNodes(m, nodes, num) == [capacity |-> m.capacity, nodes |-> nodes, num |-> num]

\* The place in the table for k.
First(m, k) == CalculateLookupId(m, k) + 1

FindCollisionNode(m, p, k) ==
    LET found[q \in DOMAIN m.nodes] ==
            \/ m.nodes[q].key = k
            \/ m.nodes[q].next # End /\ found[m.nodes[q].next]
    IN  found[p]

Find(m, k) ==
    /\ m.num # 0
    /\ m.nodes[First(m, k)] # NoNode
    /\ FindCollisionNode(m, First(m, k), k)

\* The last node of the chain that goes on from place p.
Last(m, p) ==
    LET last[q \in DOMAIN m.nodes] ==
            IF m.nodes[q].next = End THEN q ELSE last[m.nodes[q].next]
    IN  last[p]

AddCollisionNode(m, p, k) ==
    IF FindCollisionNode(m, p, k) THEN m
    ELSE LET new == Len(m.nodes) + 1
             linked == [m.nodes EXCEPT ![Last(m, p)].next = new]
         IN  WithNodes(m, [q \in 1 .. new |-> IF q = new THEN Node(k) ELSE linked[q]], m.num + 1)

EmplacePair(m, k) ==
    LET p == First(m, k)
    IN  IF m.nodes[p] = NoNode
        THEN WithNodes(m, [m.nodes EXCEPT ![p] = Node(k)], m.num + 1)
        ELSE AddCollisionNode(m, p, k)

\* The places an iterator visits.
Visited(m) == {p \in DOMAIN m.nodes : m.nodes[p] # NoNode}

ReallocAndRehash(m, size) ==
    IF size * max_density_level <= m.capacity THEN m
    ELSE LET emplaced[p \in 0 .. Len(m.nodes)] ==   \* the new map after the old nodes up to p
                 IF p = 0 THEN Cleared(size * capacity_multiplier)
                 ELSE IF p \in Visited(m) THEN EmplacePair(emplaced[p - 1], m.nodes[p].key)
                 ELSE emplaced[p - 1]
         IN  emplaced[Len(m.nodes)]

Insert(m, k) == EmplacePair(ReallocAndRehash(m, m.num + 1), k)

\* Faulty form: the links between collision nodes are left as they are.
ShiftCollisionNodeLinks_TableOnly(m, nodes, id) ==
    [p \in DOMAIN nodes |->
        [nodes[p] EXCEPT !.next = IF @ > id /\ p <= m.capacity THEN @ - 1 ELSE @]]

\* On the nodes of m after a change.
ShiftCollisionNodeLinks(m, nodes, id) ==
    [p \in DOMAIN nodes |-> [nodes[p] EXCEPT !.next = IF @ > id THEN @ - 1 ELSE @]]

\* collision_nodes.Remove(id), and the links follow.
Drop(m, nodes, id) ==
    WithNodes(m, ShiftCollisionNodeLinks(m, SeqExt!RemoveAt(nodes, id), id), m.num - 1)

\* The node at p goes: its child moves into its place.
MoveChild(m, p) ==
    LET child == m.nodes[p].next IN Drop(m, [m.nodes EXCEPT ![p] = m.nodes[child]], child)

\* The node after p, the last of the chain, goes.
CutTail(m, p) == Drop(m, [m.nodes EXCEPT ![p].next = End], m.nodes[p].next)

\* A removal gives [map, found].
NotFound(m) == [map |-> m, found |-> FALSE]
Found(m) == [map |-> m, found |-> TRUE]

\* The child of the node after the one at p.
Child(m, p) == m.nodes[m.nodes[p].next].next

\* The key is looked for in the node after the one at p.  If it is not there, the search goes
\* on behind the child of that node, which is not looked at (ut_hashmap.h:953).
RemoveCollisionNode(m, p, k) ==
    LET removed[q \in DOMAIN m.nodes] ==
            IF m.nodes[q].next = End THEN NotFound(m)
            ELSE IF m.nodes[m.nodes[q].next].key # k
            THEN IF Child(m, q) = End THEN NotFound(m) ELSE removed[Child(m, q)]
            ELSE Found(IF Child(m, q) = End THEN CutTail(m, q) ELSE MoveChild(m, m.nodes[q].next))
    IN  removed[p]

Remove(m, k) ==
    LET p == First(m, k)
    IN  CASE m.num = 0 -> NotFound(m)
          [] m.num # 0 /\ m.nodes[p] = NoNode -> NotFound(m)
          [] m.num # 0 /\ m.nodes[p].key = k /\ m.nodes[p].next = End ->
                 Found(WithNodes(m, [m.nodes EXCEPT ![p] = NoNode], m.num - 1))
          [] m.num # 0 /\ m.nodes[p].key = k /\ m.nodes[p].next # End -> Found(MoveChild(m, p))
          [] OTHER -> RemoveCollisionNode(m, p, k)

\* Reset keeps the size of the table.
Reset(m) == Cleared(m.capacity)

\* A link goes from a node to a later collision node of the same bucket, so each chain ends;
\* every collision node is the next one of exactly one node, the nodes of the table are in
\* their buckets, and num counts the nodes.  EmplacePair's assertion holds after every insertion.
Consistent(m) ==
    /\ \A p \in DOMAIN m.nodes : m.nodes[p].next # End =>
           /\ m.nodes[p].next \in Visited(m)
           /\ m.nodes[p].next > m.capacity /\ m.nodes[p].next > p
           /\ p \in Visited(m) /\ First(m, m.nodes[m.nodes[p].next].key) = First(m, m.nodes[p].key)
    /\ \A i \in m.capacity + 1 .. Len(m.nodes) :
           \E p \in DOMAIN m.nodes : \A q \in DOMAIN m.nodes : m.nodes[q].next = i <=> q = p
    /\ \A p \in 1 .. m.capacity : p \in Visited(m) => First(m, m.nodes[p].key) = p
    /\ m.num = Cardinality(Visited(m))
    /\ m.num <= m.capacity
=============================================================================
