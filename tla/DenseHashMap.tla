---------------------------- MODULE DenseHashMap ----------------------------
(***************************************************************************)
(* ut::DenseHashMap (include/containers/ut_hashmap.h), the default HashMap:*)
(* one array of nodes in which the nodes of a bucket are neighbours, and a *)
(* lookup table that says where each bucket begins and how many nodes it   *)
(* has.  Operators on a value [nodes, lookup]; lookup is a function on     *)
(* 0 .. n - 1, an index counts from 0 as in the code, and a node is its    *)
(* key.                                                                    *)
(***************************************************************************)
EXTENDS Integers, Sequences, FiniteSets

SeqExt == INSTANCE SequencesExt

CONSTANT Hash   \* HashFunction: a number for each key

max_density_level == 1
capacity_multiplier == 6

Size(m) == Cardinality(DOMAIN m.lookup)

\* A map with n empty buckets; memory::Set clears the whole table.
Cleared(n) == [nodes |-> <<>>, lookup |-> [b \in 0 .. n - 1 |-> [index |-> 0, num |-> 0]]]

CalculateLookupId(m, k) == Hash[k] % Size(m)

\* The positions of a bucket in the array, from 1.
Positions(m, b) == m.lookup[b].index + 1 .. m.lookup[b].index + m.lookup[b].num

\* The positions in the bucket of k at which k is.
Hits(m, k) == {i \in Positions(m, CalculateLookupId(m, k)) : m.nodes[i] = k}

Find(m, k) == m.nodes # <<>> /\ Hits(m, k) # {}

\* Faulty form: the bucket that begins where the node is inserted keeps its index.
EmplacePair_KeepsIndex(m, k) ==
    LET b == CalculateLookupId(m, k)
        end == m.lookup[b].index + m.lookup[b].num
    IN  CASE m.lookup[b].num = 0 ->
                 [nodes |-> Append(m.nodes, k),
                  lookup |-> [m.lookup EXCEPT ![b] = [index |-> Len(m.nodes), num |-> 1]]]
          [] m.lookup[b].num # 0 /\ Hits(m, k) # {} -> m
          [] OTHER ->
                 [nodes |-> SeqExt!InsertAt(m.nodes, end + 1, k),
                  lookup |-> [c \in DOMAIN m.lookup |->
                      [index |-> m.lookup[c].index + IF m.lookup[c].index > end THEN 1 ELSE 0,
                       num |-> m.lookup[c].num + IF c = b THEN 1 ELSE 0]]]

\* A node of an empty bucket goes to the end of the array, one of another bucket to the end
\* of its bucket; then every bucket that begins there or later has moved by one.
EmplacePair(m, k) ==
    LET b == CalculateLookupId(m, k)
        end == m.lookup[b].index + m.lookup[b].num
    IN  CASE m.lookup[b].num = 0 ->
                 [nodes |-> Append(m.nodes, k),
                  lookup |-> [m.lookup EXCEPT ![b] = [index |-> Len(m.nodes), num |-> 1]]]
          [] m.lookup[b].num # 0 /\ Hits(m, k) # {} -> m
          [] OTHER ->
                 [nodes |-> SeqExt!InsertAt(m.nodes, end + 1, k),
                  lookup |-> [c \in DOMAIN m.lookup |->
                      [index |-> m.lookup[c].index + IF m.lookup[c].index >= end THEN 1 ELSE 0,
                       num |-> m.lookup[c].num + IF c = b THEN 1 ELSE 0]]]

ReallocAndRehash(m, size) ==
    IF size * max_density_level <= Size(m) THEN m
    ELSE LET emplaced[i \in 0 .. Len(m.nodes)] ==   \* the new map after i of the old nodes
                 IF i = 0 THEN Cleared(size * capacity_multiplier)
                          ELSE EmplacePair(emplaced[i - 1], m.nodes[i])
         IN  emplaced[Len(m.nodes)]

Insert(m, k) == EmplacePair(ReallocAndRehash(m, Len(m.nodes) + 1), k)

Remove(m, k) ==
    IF ~Find(m, k) THEN m
    ELSE LET b == CalculateLookupId(m, k)
             p == CHOOSE i \in Hits(m, k) : \A j \in Hits(m, k) : i <= j
         IN  [nodes |-> SeqExt!RemoveAt(m.nodes, p),
              lookup |-> [c \in DOMAIN m.lookup |->
                  [index |-> m.lookup[c].index - IF m.lookup[c].index > p - 1 THEN 1 ELSE 0,
                   num |-> m.lookup[c].num - IF c = b THEN 1 ELSE 0]]]

\* Reset keeps the size of the table.
Reset(m) == Cleared(Size(m))

\* The buckets divide the array among them and hold the keys that hash to them; so no bucket
\* reads a neighbour's nodes.  EmplacePair's assertion holds after every insertion.
Consistent(m) ==
    /\ \A b \in DOMAIN m.lookup : \A i \in Positions(m, b) :
           i \in DOMAIN m.nodes /\ CalculateLookupId(m, m.nodes[i]) = b
    /\ \A i \in DOMAIN m.nodes : i \in Positions(m, CalculateLookupId(m, m.nodes[i]))
    /\ Len(m.nodes) <= Size(m)
=============================================================================
